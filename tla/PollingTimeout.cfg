\* One report, one fault.
CONSTANTS
  b1 = b1
  b2 = b2
  m1 = m1
  m2 = m2
  m3 = m3
  m4 = m4
  s1 = s1
  s2 = s2
  t1 = t1
  None = None
  Mailboxes = {b1}
  Messages = {m1}
  Sources = {s1, s2, t1}
  Senders = {s1, s2}
  Key <- Spelling
  WithAttachments = {m1}
  Inbox <- OneInbox
  Content <- TwoReports
  Records <- OneRecord
  Rejected <- NothingRejected
  MaxListed = 1
  MaxFaults = 1
  MaxFeed = 1
  MaxReports = 3
SPECIFICATION Spec
INVARIANTS ServiceSurvives
