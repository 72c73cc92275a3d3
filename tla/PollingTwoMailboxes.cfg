\* Two mailboxes whose reports share a sender, in two spellings in one of
\* them, a listing that may repeat a message, and a message whose verdict the
\* database refuses.  The poller stops at MaxReports: without that bound it
\* would retry the reports beside it for ever.
CONSTANTS
  b1 = b1
  b2 = b2
  m1 = m1
  m2 = m2
  m3 = m3
  m4 = m4
  s1 = s1
  s2 = s2
  t1 = t1
  None = None
  Mailboxes = {b1, b2}
  Messages = {m1, m2, m3, m4}
  Sources = {s1, s2, t1}
  Senders = {s1, s2}
  Key <- Spelling
  WithAttachments = {m1, m2, m3}
  Inbox <- TwoInboxes
  Content <- MixedContent
  Records <- SharedSender
  Rejected <- RejectedVerdict
  MaxListed = 2
  MaxFaults = 1
  MaxFeed = 2
  MaxReports = 2
SPECIFICATION Spec
INVARIANTS CountsBacked ClashNeedsTwoSpellings
CHECK_DEADLOCK FALSE
