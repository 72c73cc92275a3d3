\* A report the database refuses, beside a message without any report.
CONSTANTS
  b1 = b1
  b2 = b2
  m1 = m1
  m2 = m2
  m3 = m3
  m4 = m4
  s1 = s1
  s2 = s2
  t1 = t1
  None = None
  Mailboxes = {b1}
  Messages = {m1, m2}
  Sources = {s1, s2, t1}
  Senders = {s1, s2}
  Key <- Spelling
  WithAttachments = {m1, m2}
  Inbox <- OneInbox
  Content <- ReportAndPlain
  Records <- OneRecord
  Rejected <- RejectedReport
  MaxListed = 1
  MaxFaults = 0
  MaxFeed = 2
  MaxReports = 4
SPECIFICATION FairSpec
PROPERTIES EveryMessageSettled
