-------------------------- MODULE MCMailboxPolling --------------------------
(***************************************************************************)
(* Instances of MailboxPolling for TLC.                                    *)
(***************************************************************************)
EXTENDS MailboxPolling, TLC

CONSTANTS b1, b2, m1, m2, m3, m4, s1, s2, t1

\* s1 and t1 are two spellings of one address.
Spelling == s1 :> s1 @@ t1 :> s1 @@ s2 :> s2

\* Two mailboxes, m1 and m2 in the first, m3 and m4 in the second.  The report
\* of m1 has two records of one sender, that of m3 has the same sender in two
\* spellings; m2 does not parse and m4 is a mail without attachments.
TwoInboxes == m1 :> b1 @@ m2 :> b1 @@ m3 :> b2 @@ m4 :> b2
MixedContent == m1 :> "report" @@ m2 :> "bad" @@ m3 :> "report" @@ m4 :> "none"
SharedSender == m1 :> <<s1, s1>> @@ m2 :> <<>> @@ m3 :> <<s1, t1>> @@ m4 :> <<>>

\* One mailbox, two reports, each of which spells its senders in one way.
OneInbox == [m \in Messages |-> b1]
TwoReports == [m \in Messages |-> "report"]
SharedSenders == m1 :> <<s1, s2, s1>> @@ m2 :> <<t1>>
ReportAndPlain == [m \in Messages |-> IF m = m1 THEN "report" ELSE "none"]

OneRecord == [m \in Messages |-> IF m = m1 THEN <<s1>> ELSE <<>>]

\* m1 holds a value longer than its column.
RejectedReport == {<<"report", m1>>}

\* The error of parsing m2 quotes a count (DmarcXmlParser.cs:93) and is longer than
\* its column.
RejectedVerdict == {<<"ledger", m2>>}
NothingRejected == {}
=============================================================================
