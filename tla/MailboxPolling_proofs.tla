------------------------ MODULE MailboxPolling_proofs ------------------------
(***************************************************************************)
(* Proofs about MailboxPolling, for any mailboxes, messages and bounds.    *)
(***************************************************************************)
EXTENDS MailboxPolling, FiniteSetTheorems, TLAPS

Polling == pc \in {"loop", "finish", "fetch", "save1", "score", "save2"}
OnMessage == pc \in {"fetch", "save1", "score", "save2"}

\* Which locals are alive at which program counter.
LocalsOK ==
  /\ pc = "list" \/ Polling => box \in Mailboxes
  /\ OnMessage => cur \in Messages
  /\ ~OnMessage => cur = None
  /\ pc = "finish" => batch = NoCount

-----------------------------------------------------------------------------
(***************************************************************************)
(* Type correctness                                                        *)
(***************************************************************************)
Typed == TypeOK /\ LocalsOK

LEMMA RecordsLength ==
  \A m \in Messages : Records[m] \in Seq(Sources) /\ Len(Records[m]) \in Nat
  BY ConstantsAssumption

LEMMA InitTyped == Init => Typed
  <1> SUFFICES ASSUME Init PROVE Typed
    OBVIOUS
  <1> USE DEF Init, NoCount, NoStatus
  <1>1. TypeOK
    <2>1. feed \in [Mailboxes -> Seq(Messages)]
      OBVIOUS
    <2>2. deltaLink \in [Mailboxes -> Nat] /\ pollStatus \in [Mailboxes -> PollStatuses]
      BY DEF PollStatuses
    <2>3. /\ reports \in [Messages -> Nat] /\ rolled \in [Messages -> Nat]
          /\ newReports \in [Messages -> Nat] /\ newRolled \in [Messages -> Nat]
          /\ batch \in [Messages -> Nat]
          /\ ledger \in [Messages -> Statuses \cup {None}]
          /\ newLedger \in [Messages -> Statuses \cup {None}]
      OBVIOUS
    <2>4. newStatus \in PollStatuses /\ rec \in Nat \ {0}
      BY DEF PollStatuses
    <2> QED
      BY <2>1, <2>2, <2>3, <2>4 DEF TypeOK
  <1>2. LocalsOK
    BY DEF LocalsOK, Polling, OnMessage
  <1> QED
    BY <1>1, <1>2 DEF Typed

\* The shared parts of the actions keep the types of what they assign.
LEMMA CommitRowsTyped ==
  ASSUME Typed, CommitRows
  PROVE  /\ reports' \in [Messages -> Nat]
         /\ rolled' \in [Messages -> Nat]
         /\ senderRows' \in SUBSET Senders
         /\ ledger' \in [Messages -> Statuses \cup {None}]
  BY SMTT(30) DEF Typed, TypeOK, CommitRows

LEMMA NothingPendingTyped ==
  ASSUME NothingPending
  PROVE  /\ newReports' \in [Messages -> Nat]
         /\ newRolled' \in [Messages -> Nat]
         /\ newSenders' \in SUBSET Senders
         /\ newLedger' \in [Messages -> Statuses \cup {None}]
         /\ poisoned' \in BOOLEAN
  BY DEF NothingPending, NoCount, NoStatus

LEMMA ForgetPollTyped ==
  ASSUME ForgetPoll
  PROVE  /\ box' \in Mailboxes \cup {None}
         /\ batch' \in [Messages -> Nat]
         /\ newDelta' \in Nat
         /\ newStatus' \in PollStatuses
  BY DEF ForgetPoll, NoCount, PollStatuses

LEMMA ConcludeTyped ==
  ASSUME Typed, OnMessage, NEW status \in Statuses, Conclude(status), faults' \in Nat,
         UNCHANGED <<feed, db, newReports, newRolled, newSenders, poll>>
  PROVE  Typed'
  <1> USE DEF Typed
  <1>1. newLedger' \in [Messages -> Statuses \cup {None}]
    BY DEF TypeOK, LocalsOK, Conclude, AddLedgerRow
  <1>2. poisoned' \in BOOLEAN
    BY DEF TypeOK, Conclude, LedgerRowRefused
  <1>3. pc' = "loop" /\ cur' = None /\ rec' = 1 /\ cached' = {}
    BY DEF Conclude, ForgetMessage
  <1>4. LocalsOK'
    BY <1>3 DEF LocalsOK, Polling, OnMessage, poll
  <1> QED
    BY <1>1, <1>2, <1>3, <1>4 DEF TypeOK, db, poll

LEMMA FaultTyped ==
  ASSUME Typed, Fault \/ SaveThrows \/ UNCHANGED faults
  PROVE  faults' \in Nat
  BY DEF Typed, TypeOK, Fault, SaveThrows

LEMMA StepTyped == Typed /\ [Next]_vars => Typed'
  <1> SUFFICES ASSUME Typed, [Next]_vars
               PROVE  Typed'
    OBVIOUS
  <1> USE DEF Typed
  <1>1. CASE StartCycle
    BY <1>1, NothingPendingTyped
    DEF StartCycle, TypeOK, LocalsOK, Polling, OnMessage, db, message
  <1>2. ASSUME NEW b \in Mailboxes, NextMailbox(b)
        PROVE  Typed'
    BY <1>2 DEF NextMailbox, TypeOK, LocalsOK, Polling, OnMessage, db, unit, message
  <1>3. CASE EndCycle
    BY <1>3 DEF EndCycle, TypeOK, LocalsOK, Polling, OnMessage, db, unit, poll, message
  <1>4. CASE ListNewMessages
    <2>1. batch' \in [Messages -> Nat]
      BY <1>4, ConstantsAssumption DEF ListNewMessages
    <2>2. box \in Mailboxes
      BY <1>4 DEF ListNewMessages, LocalsOK
    <2>3. Len(feed[box]) \in Nat /\ deltaLink[box] \in Nat
      BY <2>2 DEF TypeOK
    <2>4. newDelta' \in Nat
      BY <1>4, <2>3 DEF ListNewMessages
    <2>5. LocalsOK'
      BY <1>4, <2>2 DEF ListNewMessages, LocalsOK, Polling, OnMessage, message
    <2> QED
      BY <1>4, <2>1, <2>4, <2>5 DEF ListNewMessages, TypeOK, PollStatuses, db, unit, message
  <1>5. ASSUME PollFails, box \in Mailboxes
        PROVE  /\ batch' \in [Messages -> Nat]
               /\ newDelta' \in Nat
               /\ newStatus' \in PollStatuses
               /\ faults' \in Nat
    BY <1>5, FaultTyped DEF PollFails, LinkAfterError, TypeOK, NoCount, PollStatuses
  <1>6. CASE ListFails
    BY <1>5, <1>6
    DEF ListFails, PollFails, TypeOK, LocalsOK, Polling, OnMessage, db, unit, message
  <1>7. ASSUME NEW m \in Messages, Skip(m) \/ AlreadyProcessed(m)
        PROVE  Typed'
    <2>1. /\ pc = "loop"
          /\ batch[m] > 0
          /\ batch' = [batch EXCEPT ![m] = @ - 1]
          /\ UNCHANGED <<feed, db, unit, pc, todo, box, newDelta, newStatus, message, faults>>
      BY <1>7 DEF Skip, AlreadyProcessed
    <2> QED
      BY SMTT(30), <2>1 DEF TypeOK, LocalsOK, Polling, OnMessage, db, unit, message
  <1>8. ASSUME NEW m \in Messages, NotProcessed(m)
        PROVE  Typed'
    BY SMTT(30), <1>8 DEF NotProcessed, TypeOK, LocalsOK, Polling, OnMessage, db, unit
  <1>9. CASE CheckFails
    BY <1>5, <1>9
    DEF CheckFails, PollFails, TypeOK, LocalsOK, Polling, OnMessage, db, unit, message
  <1>10. CASE EndBatch
    BY <1>10 DEF EndBatch, TypeOK, LocalsOK, Polling, OnMessage, db, unit, poll, message
  <1>11. ASSUME CommitMailbox, box \in Mailboxes
         PROVE  /\ deltaLink' \in [Mailboxes -> Nat]
                /\ pollStatus' \in [Mailboxes -> PollStatuses]
    BY <1>11 DEF CommitMailbox, TypeOK
  <1>12. CASE Finish
    BY <1>11, <1>12, CommitRowsTyped, NothingPendingTyped, ForgetPollTyped
    DEF Finish, TypeOK, LocalsOK, Polling, OnMessage, message
  <1>13. CASE FinishFails
    BY <1>13, NothingPendingTyped, ForgetPollTyped, FaultTyped
    DEF FinishFails, AbandonCycle, TypeOK, LocalsOK, Polling, OnMessage, db, message
  <1>14. CASE FinishUnacknowledged
    BY <1>11, <1>14, CommitRowsTyped, NothingPendingTyped, ForgetPollTyped, FaultTyped
    DEF FinishUnacknowledged, AbandonCycle, TypeOK, LocalsOK, Polling, OnMessage, message
  <1>15. CASE NothingToIngest
    <2>1. OnMessage /\ (IF Content[cur] = "bad" THEN "Failed" ELSE "Skipped") \in Statuses
      BY <1>15 DEF NothingToIngest, OnMessage, Statuses
    <2> QED
      BY <1>15, <2>1, ConcludeTyped, FaultTyped DEF NothingToIngest
  <1>16. CASE FetchFails
    <2>1. OnMessage /\ "Failed" \in Statuses /\ faults' \in Nat
      BY <1>16, FaultTyped DEF FetchFails, Scoring, OnMessage, Statuses
    <2> QED
      BY <1>16, <2>1, ConcludeTyped DEF FetchFails
  <1>17. CASE AddReport
    BY <1>17 DEF AddReport, TypeOK, LocalsOK, Polling, OnMessage, db, poll, message
  <1>18. CASE SaveReport
    BY <1>18, CommitRowsTyped, NothingPendingTyped
    DEF SaveReport, TypeOK, LocalsOK, Polling, OnMessage, poll, message
  <1>19. CASE SaveFails
    <2>1. OnMessage /\ "Failed" \in Statuses /\ faults' \in Nat
      BY <1>19, FaultTyped DEF SaveFails, Scoring, OnMessage, Statuses
    <2> QED
      BY <1>19, <2>1, ConcludeTyped DEF SaveFails
  <1>20. CASE SaveUnacknowledged
    <2>1. newLedger' \in [Messages -> Statuses \cup {None}]
      BY <1>20 DEF SaveUnacknowledged, AddLedgerRow, TypeOK, Statuses
    <2>2. LocalsOK'
      BY <1>20 DEF SaveUnacknowledged, ForgetMessage, LocalsOK, Polling, OnMessage, poll
    <2>3. faults' \in Nat
      BY <1>20, FaultTyped DEF SaveUnacknowledged
    <2> QED
      BY SMTT(30), <1>20, <2>1, <2>2, <2>3, CommitRowsTyped
      DEF SaveUnacknowledged, ForgetMessage, TypeOK, poll
  <1>21. CASE ScoreRecord
    <2>1. Records[cur][rec] \in Sources /\ Key[Records[cur][rec]] \in Senders
      BY <1>21, RecordsLength, ConstantsAssumption DEF ScoreRecord, Scoring, TypeOK, LocalsOK, OnMessage
    <2>2. cur \in Messages /\ rec + 1 \in Nat \ {0}
      BY <1>21 DEF ScoreRecord, Scoring, TypeOK, LocalsOK, OnMessage
    <2>3. newRolled' \in [Messages -> Nat]
      BY <1>21, <2>2 DEF ScoreRecord, TypeOK
    <2>4. cached' \in SUBSET Sources /\ newSenders' \in SUBSET Senders
      BY <1>21, <2>1 DEF ScoreRecord, Remember, TypeOK
    <2>5. poisoned' \in BOOLEAN
      BY <1>21 DEF ScoreRecord, TypeOK
    <2>6. LocalsOK'
      BY <1>21, <2>2 DEF ScoreRecord, Scoring, LocalsOK, Polling, OnMessage, poll
    <2> QED
      BY <1>21, <2>2, <2>3, <2>4, <2>5, <2>6 DEF ScoreRecord, TypeOK, db, poll
  <1>22. CASE ScoreFails
    <2>1. OnMessage /\ "Failed" \in Statuses /\ faults' \in Nat
      BY <1>22, FaultTyped DEF ScoreFails, Scoring, OnMessage, Statuses
    <2> QED
      BY <1>22, <2>1, ConcludeTyped DEF ScoreFails
  <1>23. CASE EndScoring
    BY <1>23 DEF EndScoring, TypeOK, LocalsOK, Polling, OnMessage, db, unit, poll, message
  <1>24. CASE SaveScores
    <2>1. newLedger' \in [Messages -> Statuses \cup {None}]
      BY <1>24 DEF SaveScores, AddLedgerRow, NoStatus, TypeOK, Statuses
    <2>2. newReports' \in [Messages -> Nat] /\ newRolled' \in [Messages -> Nat]
      BY <1>24 DEF SaveScores, NoCount
    <2>3. poisoned' \in BOOLEAN
      BY <1>24 DEF SaveScores
    <2>4. LocalsOK'
      BY <1>24 DEF SaveScores, ForgetMessage, LocalsOK, Polling, OnMessage, poll
    <2>5. /\ reports' \in [Messages -> Nat]
          /\ rolled' \in [Messages -> Nat]
          /\ senderRows' \in SUBSET Senders
          /\ ledger' \in [Messages -> Statuses \cup {None}]
      BY <1>24, CommitRowsTyped DEF SaveScores
    <2> QED
      BY SMTT(30), <1>24, <2>1, <2>2, <2>3, <2>4, <2>5 DEF SaveScores, ForgetMessage, TypeOK, poll
  <1>25. ASSUME NEW where \in {"down", "faulted"}, Leave(where), Fault, UNCHANGED <<feed, db>>
         PROVE  Typed'
    BY <1>25, NothingPendingTyped, ForgetPollTyped, FaultTyped
    DEF Leave, ForgetMessage, TypeOK, LocalsOK, Polling, OnMessage, db
  <1>26. CASE Stop \/ GraphTimeout
    BY <1>25, <1>26 DEF Stop, GraphTimeout
  <1>27. CASE Restart
    BY <1>27
    DEF Restart, Running, TypeOK, LocalsOK, Polling, OnMessage, db, unit, poll, message
  <1>28. ASSUME NEW m \in Messages, Change(m)
         PROVE  Typed'
    <2>1. Inbox[m] \in Mailboxes
      BY <1>28, ConstantsAssumption
    <2>2. Append(feed[Inbox[m]], m) \in Seq(Messages)
      BY <1>28, <2>1 DEF TypeOK
    <2>3. feed' \in [Mailboxes -> Seq(Messages)]
      BY <1>28, <2>1, <2>2 DEF Change, TypeOK
    <2> QED
      BY <1>28, <2>3
      DEF Change, TypeOK, LocalsOK, Polling, OnMessage, db, unit, poll, message
  <1>29. CASE UNCHANGED vars
    BY <1>29 DEF vars, TypeOK, LocalsOK, Polling, OnMessage, db, unit, poll, message
  <1> QED
    BY <1>1, <1>2, <1>3, <1>4, <1>6, <1>7, <1>8, <1>9, <1>10, <1>12, <1>13, <1>14,
       <1>15, <1>16, <1>17, <1>18, <1>19, <1>20, <1>21, <1>22, <1>23, <1>24, <1>26,
       <1>27, <1>28, <1>29
    DEF Next, Work

\* Every variable of the poll cycle keeps its type, whatever fails and whenever
\* the process ends.
THEOREM TypeCorrect == Spec => []TypeOK
  <1>1. Spec => []Typed
    BY InitTyped, StepTyped, PTL DEF Spec
  <1>2. Typed => TypeOK
    BY DEF Typed
  <1> QED
    BY <1>1, <1>2, PTL

-----------------------------------------------------------------------------
(***************************************************************************)
(* No message is lost                                                      *)
(*                                                                         *)
(* NoMessageLost speaks of the saved delta link only.  It is inductive     *)
(* together with BatchOK, which says where every message the next link     *)
(* covers has got to: it has a saved or a pending ledger row, or it is     *)
(* still to come in the batch, or it is the one being processed.           *)
(***************************************************************************)
FeedOK == \A b \in Mailboxes : \A i \in 1 .. Len(feed[b]) : Inbox[feed[b][i]] = b

LinksOK ==
  /\ \A b \in Mailboxes : deltaLink[b] <= Len(feed[b])
  /\ Polling => newDelta <= Len(feed[box])

Carried(m) == ledger[m] # None \/ newLedger[m] # None \/ batch[m] > 0 \/ cur = m

BatchOK ==
  Polling => \A i \in 1 .. newDelta :
    feed[box][i] \in WithAttachments => Carried(feed[box][i])

LinkInv == Typed /\ FeedOK /\ LinksOK /\ BatchOK /\ NoMessageLost

LEMMA FeedTyped ==
  ASSUME Typed, NEW b \in Mailboxes, NEW i \in 1 .. Len(feed[b])
  PROVE  feed[b][i] \in Messages
  BY DEF Typed, TypeOK

LEMMA InitLinkInv == Init => LinkInv
  <1> SUFFICES ASSUME Init PROVE LinkInv
    OBVIOUS
  <1>1. \A b \in Mailboxes : feed[b] = <<>> /\ deltaLink[b] = 0
    BY DEF Init
  <1>2. FeedOK /\ LinksOK /\ BatchOK
    BY <1>1 DEF Init, FeedOK, LinksOK, BatchOK, Polling
  <1>3. NoMessageLost
    BY <1>1, ConstantsAssumption DEF NoMessageLost, Passed
  <1> QED
    BY <1>2, <1>3, InitTyped DEF LinkInv

\* A committed transaction keeps every verdict and adds the pending ones.
LEMMA CommitKeepsVerdicts ==
  ASSUME Typed, CommitRows, NEW m \in Messages, ledger[m] # None \/ newLedger[m] # None
  PROVE  ledger'[m] # None
  BY DEF Typed, TypeOK, CommitRows

\* What the saved state contributes to the invariant survives every step that
\* moves no link, shortens no feed and keeps the verdicts.
LEMMA SavedKept ==
  ASSUME LinkInv, Typed', UNCHANGED deltaLink,
         \A b \in Mailboxes : /\ Len(feed'[b]) >= Len(feed[b])
                              /\ \A i \in 1 .. Len(feed[b]) : feed'[b][i] = feed[b][i],
         \A m \in Messages : ledger[m] # None => ledger'[m] # None
  PROVE  /\ \A b \in Mailboxes : deltaLink'[b] <= Len(feed'[b])
         /\ NoMessageLost'
  <1>1. \A b \in Mailboxes : /\ deltaLink[b] \in Nat
                             /\ Len(feed[b]) \in Nat /\ Len(feed'[b]) \in Nat
                             /\ deltaLink[b] <= Len(feed[b])
    <2>1. feed \in [Mailboxes -> Seq(Messages)] /\ feed' \in [Mailboxes -> Seq(Messages)]
      BY DEF LinkInv, Typed, TypeOK
    <2>2. \A b \in Mailboxes : deltaLink[b] \in Nat /\ deltaLink[b] <= Len(feed[b])
      BY DEF LinkInv, LinksOK, Typed, TypeOK
    <2> QED
      BY <2>1, <2>2
  <1>2. \A b \in Mailboxes : deltaLink'[b] <= Len(feed'[b])
    BY <1>1
  <1>3. ASSUME NEW m \in Messages, NEW i \in 1 .. deltaLink'[Inbox[m]],
               feed'[Inbox[m]][i] = m, m \in WithAttachments
        PROVE  ledger'[m] # None
    <2>1. Inbox[m] \in Mailboxes
      BY ConstantsAssumption
    <2>2. i \in 1 .. Len(feed[Inbox[m]]) /\ i \in 1 .. deltaLink[Inbox[m]]
      BY <1>1, <1>3, <2>1
    <2>3. m \in Passed
      BY <1>3, <2>1, <2>2 DEF Passed
    <2> QED
      BY <1>3, <2>3 DEF LinkInv, NoMessageLost
  <1>4. NoMessageLost'
    BY <1>3 DEF NoMessageLost, Passed
  <1> QED
    BY <1>2, <1>4

\* The same with the feed as it was.
LEMMA SavedUnchanged ==
  ASSUME LinkInv, Typed', UNCHANGED <<feed, deltaLink>>,
         \A m \in Messages : ledger[m] # None => ledger'[m] # None
  PROVE  /\ FeedOK'
         /\ \A b \in Mailboxes : deltaLink'[b] <= Len(feed'[b])
         /\ NoMessageLost'
  <1>1. FeedOK'
    BY DEF LinkInv, FeedOK
  <1>2. \A b \in Mailboxes : Len(feed[b]) \in Nat
    BY DEF LinkInv, Typed, TypeOK
  <1> QED
    BY <1>1, <1>2, SavedKept

\* A step within a poll that drops no message keeps the whole invariant.
LEMMA BatchKept ==
  ASSUME LinkInv, Typed', Polling, UNCHANGED <<feed, deltaLink, box, newDelta>>,
         \A m \in Messages : ledger[m] # None => ledger'[m] # None,
         \A m \in Messages : Carried(m) => Carried(m)'
  PROVE  LinkInv'
  <1>1. box \in Mailboxes
    BY DEF LinkInv, Typed, LocalsOK
  <1>2. newDelta \in Nat /\ Len(feed[box]) \in Nat /\ newDelta <= Len(feed[box])
    BY <1>1 DEF LinkInv, LinksOK, Typed, TypeOK
  <1>3. \A i \in 1 .. newDelta : feed[box][i] \in Messages
    BY <1>1, <1>2, FeedTyped DEF LinkInv
  <1>4. BatchOK'
    BY <1>3 DEF LinkInv, BatchOK
  <1>5. LinksOK'
    BY <1>2, SavedUnchanged DEF LinksOK
  <1> QED
    BY <1>4, <1>5, SavedUnchanged DEF LinkInv

\* A step that ends outside of a poll forgets the batch without harm.
LEMMA BatchForgotten ==
  ASSUME LinkInv, Typed', ~Polling', UNCHANGED <<feed, deltaLink>>,
         \A m \in Messages : ledger[m] # None => ledger'[m] # None
  PROVE  LinkInv'
  BY SavedUnchanged DEF LinkInv, LinksOK, BatchOK

\* What the saved link covers is settled, hence a poll that keeps it is safe.
LEMMA LinkSettled ==
  ASSUME LinkInv, NEW b \in Mailboxes, NEW i \in 1 .. deltaLink[b],
         feed[b][i] \in WithAttachments
  PROVE  ledger[feed[b][i]] # None
  <1>1. i \in 1 .. Len(feed[b])
    BY DEF LinkInv, LinksOK, Typed, TypeOK
  <1>2. feed[b][i] \in Messages /\ Inbox[feed[b][i]] = b
    BY <1>1, FeedTyped DEF LinkInv, FeedOK
  <1> QED
    BY <1>2 DEF LinkInv, NoMessageLost, Passed

LEMMA PollFailsKeepsLinkInv ==
  ASSUME LinkInv, Typed', PollFails, box \in Mailboxes,
         UNCHANGED <<feed, db, unit, box, cur>>
  PROVE  LinkInv'
  <1>1. newDelta' = deltaLink[box] /\ pc' = "finish"
    BY DEF PollFails, LinkAfterError
  <1>2. BatchOK'
    BY <1>1, LinkSettled DEF BatchOK, Carried, db
  <1>3. LinksOK'
    BY <1>1, SavedUnchanged DEF LinkInv, LinksOK, db
  <1> QED
    BY <1>2, <1>3, SavedUnchanged DEF LinkInv, db

LEMMA ListKeepsLinkInv ==
  ASSUME LinkInv, Typed', ListNewMessages
  PROVE  LinkInv'
  <1>1. box \in Mailboxes
    BY DEF LinkInv, Typed, LocalsOK, ListNewMessages
  <1>2. Len(feed[box]) \in Nat /\ deltaLink[box] \in Nat /\ deltaLink[box] <= Len(feed[box])
    BY <1>1 DEF LinkInv, LinksOK, Typed, TypeOK
  <1>3. newDelta' \in Nat /\ newDelta' <= Len(feed[box])
    BY <1>2 DEF ListNewMessages
  <1>4. ASSUME NEW i \in 1 .. newDelta', feed[box][i] \in WithAttachments
        PROVE  Carried(feed[box][i])'
    <2>1. CASE i <= deltaLink[box]
      <3>1. i \in 1 .. deltaLink[box]
        BY <1>2, <1>3, <2>1
      <3> QED
        BY <1>1, <1>4, <3>1, LinkSettled DEF ListNewMessages, Carried, db
    <2>2. CASE ~(i <= deltaLink[box])
      <3>1. i \in deltaLink[box] + 1 .. Len(feed[box]) /\ i \in 1 .. Len(feed[box])
        BY <1>2, <1>3, <2>2
      <3>2. feed[box][i] \in Unseen(box) /\ feed[box][i] \in Messages
        BY <1>1, <3>1, FeedTyped DEF LinkInv, Unseen
      <3> QED
        BY <3>2 DEF ListNewMessages, Carried
    <2> QED
      BY <2>1, <2>2
  <1>5. BatchOK'
    BY <1>4 DEF ListNewMessages, BatchOK
  <1>6. LinksOK'
    BY <1>3, SavedUnchanged DEF ListNewMessages, LinksOK, db
  <1> QED
    BY <1>5, <1>6, SavedUnchanged DEF LinkInv, ListNewMessages, db

\* The save that moves the link: all it covers is saved with it.
LEMMA CommitMailboxKeepsLinkInv ==
  ASSUME LinkInv, Typed', pc = "finish", CommitRows, CommitMailbox, ~Polling',
         UNCHANGED feed
  PROVE  LinkInv'
  <1>1. box \in Mailboxes /\ batch = NoCount /\ cur = None /\ Polling
    BY DEF LinkInv, Typed, LocalsOK, Polling, OnMessage
  <1>2. newDelta \in Nat /\ newDelta <= Len(feed[box])
    BY <1>1 DEF LinkInv, LinksOK, Typed, TypeOK
  <1>3. \A b \in Mailboxes : deltaLink'[b] = IF b = box THEN newDelta ELSE deltaLink[b]
    BY <1>1 DEF CommitMailbox, LinkInv, Typed, TypeOK
  <1>4. FeedOK' /\ LinksOK' /\ BatchOK'
    BY <1>2, <1>3 DEF LinkInv, FeedOK, LinksOK, BatchOK
  <1>5. ASSUME NEW m \in Messages, NEW i \in 1 .. deltaLink'[Inbox[m]],
               feed[Inbox[m]][i] = m, m \in WithAttachments
        PROVE  ledger'[m] # None
    <2>1. Inbox[m] \in Mailboxes
      BY ConstantsAssumption
    <2>2. CASE Inbox[m] = box
      <3>1. Carried(m)
        BY <1>1, <1>3, <1>5, <2>2 DEF LinkInv, BatchOK
      <3>2. batch[m] = 0 /\ m # None
        BY <1>1, ConstantsAssumption DEF NoCount
      <3> QED
        BY <1>1, <3>1, <3>2, CommitKeepsVerdicts DEF Carried, LinkInv
    <2>3. CASE Inbox[m] # box
      <3>1. i \in 1 .. deltaLink[Inbox[m]]
        BY <1>3, <1>5, <2>1, <2>3
      <3>2. ledger[m] # None
        BY <1>5, <2>1, <3>1, LinkSettled
      <3> QED
        BY <3>2, CommitKeepsVerdicts DEF LinkInv
    <2> QED
      BY <2>2, <2>3
  <1>6. NoMessageLost'
    BY <1>5 DEF NoMessageLost, Passed
  <1> QED
    BY <1>4, <1>6 DEF LinkInv

LEMMA ConcludeKeepsLinkInv ==
  ASSUME LinkInv, Typed', OnMessage, NEW status \in Statuses, Conclude(status),
         UNCHANGED <<feed, db, poll>>
  PROVE  LinkInv'
  <1>1. cur \in Messages /\ Polling
    BY DEF LinkInv, Typed, LocalsOK, OnMessage, Polling
  <1>2. newLedger' = [newLedger EXCEPT ![cur] = status] /\ status # None
    BY ConstantsAssumption DEF Conclude, AddLedgerRow
  <1>3. \A m \in Messages : Carried(m) => Carried(m)'
    BY <1>1, <1>2 DEF Carried, LinkInv, Typed, TypeOK, db, poll
  <1> QED
    BY <1>1, <1>3, BatchKept DEF db, poll

LEMMA StepLinkInv == LinkInv /\ [Next]_vars => LinkInv'
  <1> SUFFICES ASSUME LinkInv, [Next]_vars
               PROVE  LinkInv'
    OBVIOUS
  <1>0. Typed /\ Typed'
    BY StepTyped DEF LinkInv
  <1>1. CASE StartCycle
    BY <1>0, <1>1, BatchForgotten DEF StartCycle, Polling, db
  <1>2. ASSUME NEW b \in Mailboxes, NextMailbox(b)
        PROVE  LinkInv'
    BY <1>0, <1>2, BatchForgotten DEF NextMailbox, Polling, db
  <1>3. CASE EndCycle
    BY <1>0, <1>3, BatchForgotten DEF EndCycle, Polling, db
  <1>4. CASE ListNewMessages
    BY <1>0, <1>4, ListKeepsLinkInv
  <1>5. CASE ListFails \/ CheckFails
    <2>1. box \in Mailboxes
      BY <1>0, <1>5 DEF ListFails, CheckFails, Typed, LocalsOK, Polling
    <2> QED
      BY <1>0, <1>5, <2>1, PollFailsKeepsLinkInv DEF ListFails, CheckFails, message
  <1>6. ASSUME NEW m \in Messages, Skip(m)
        PROVE  LinkInv'
    <2>1. \A n \in Messages \ {m} : Carried(n) => Carried(n)'
      BY <1>0, <1>6 DEF Skip, Carried, Typed, TypeOK, db, unit, message
    <2>2. BatchOK'
      <3> SUFFICES ASSUME NEW i \in 1 .. newDelta, feed[box][i] \in WithAttachments
                   PROVE  Carried(feed[box][i])'
        BY <1>6 DEF BatchOK, Skip
      <3>1. feed[box][i] \in Messages \ {m} /\ Carried(feed[box][i])
        BY <1>6, ConstantsAssumption DEF Skip, LinkInv, BatchOK, Polling
      <3> QED
        BY <1>6, <2>1, <3>1 DEF Skip
    <2>3. LinksOK'
      BY <1>6 DEF Skip, LinkInv, LinksOK, Polling, db
    <2> QED
      BY <1>0, <1>6, <2>2, <2>3, SavedUnchanged DEF Skip, LinkInv, db
  <1>7. ASSUME NEW m \in Messages, AlreadyProcessed(m)
        PROVE  LinkInv'
    <2>1. \A n \in Messages : Carried(n) => Carried(n)'
      BY <1>0, <1>7 DEF AlreadyProcessed, Carried, Typed, TypeOK, db, unit, message
    <2> QED
      BY <1>0, <1>7, <2>1, BatchKept DEF AlreadyProcessed, Polling, db
  <1>8. ASSUME NEW m \in Messages, NotProcessed(m)
        PROVE  LinkInv'
    <2>1. cur = None
      BY <1>0, <1>8 DEF NotProcessed, Typed, LocalsOK, OnMessage
    <2>2. \A n \in Messages : Carried(n) => Carried(n)'
      BY <1>0, <1>8, <2>1, ConstantsAssumption
      DEF NotProcessed, Carried, Typed, TypeOK, db, unit
    <2> QED
      BY <1>0, <1>8, <2>2, BatchKept DEF NotProcessed, Polling, db
  <1>9. CASE EndBatch
    BY <1>0, <1>9, BatchKept DEF EndBatch, Polling, Carried, db, unit, poll, message
  <1>10. CASE Finish
    BY <1>0, <1>10, CommitMailboxKeepsLinkInv DEF Finish, Polling
  <1>11. CASE FinishFails
    BY <1>0, <1>11, BatchForgotten DEF FinishFails, AbandonCycle, Polling, db
  <1>12. CASE FinishUnacknowledged
    BY <1>0, <1>12, CommitMailboxKeepsLinkInv DEF FinishUnacknowledged, AbandonCycle, Polling
  <1>13. CASE NothingToIngest
    BY <1>0, <1>13, ConcludeKeepsLinkInv DEF NothingToIngest, OnMessage, Statuses
  <1>14. CASE FetchFails \/ SaveFails \/ ScoreFails
    BY <1>0, <1>14, ConcludeKeepsLinkInv
    DEF FetchFails, SaveFails, ScoreFails, Scoring, OnMessage, Statuses
  <1>15. CASE AddReport
    BY <1>0, <1>15, BatchKept DEF AddReport, Polling, Carried, db, poll, message
  <1>16. CASE SaveReport
    <2>1. \A m \in Messages : Carried(m) => Carried(m)'
      BY <1>0, <1>16, CommitKeepsVerdicts DEF SaveReport, Carried, poll, message
    <2> QED
      BY <1>0, <1>16, <2>1, CommitKeepsVerdicts, BatchKept DEF SaveReport, Polling, poll
  <1>17. CASE SaveUnacknowledged \/ SaveScores
    <2>1. cur \in Messages /\ Polling
      BY <1>0, <1>17
      DEF SaveUnacknowledged, SaveScores, Typed, LocalsOK, OnMessage, Polling
    <2>2. newLedger'[cur] # None /\ CommitRows
      BY <1>0, <1>17, <2>1, ConstantsAssumption
      DEF SaveUnacknowledged, SaveScores, AddLedgerRow, NoStatus, Statuses, Typed, TypeOK
    <2>3. \A m \in Messages : Carried(m) => Carried(m)'
      BY <1>0, <1>17, <2>2, CommitKeepsVerdicts DEF SaveUnacknowledged, SaveScores, Carried, poll
    <2> QED
      BY <1>0, <1>17, <2>1, <2>2, <2>3, CommitKeepsVerdicts, BatchKept
      DEF SaveUnacknowledged, SaveScores, poll
  <1>18. CASE ScoreRecord
    BY <1>0, <1>18, BatchKept DEF ScoreRecord, Scoring, Polling, Carried, db, poll
  <1>19. CASE EndScoring
    BY <1>0, <1>19, BatchKept DEF EndScoring, Polling, Carried, db, unit, poll, message
  <1>20. CASE Stop \/ GraphTimeout
    BY <1>0, <1>20, BatchForgotten DEF Stop, GraphTimeout, Leave, Polling, db
  <1>21. CASE Restart
    BY <1>0, <1>21, BatchForgotten DEF Restart, Polling, db
  <1>22. ASSUME NEW m \in Messages, Change(m)
         PROVE  LinkInv'
    <2>1. Inbox[m] \in Mailboxes
      BY ConstantsAssumption
    <2>2. \A b \in Mailboxes : Len(feed[b]) \in Nat /\ Len(feed'[b]) \in Nat
      <3>1. feed \in [Mailboxes -> Seq(Messages)] /\ feed' \in [Mailboxes -> Seq(Messages)]
        BY <1>0 DEF Typed, TypeOK
      <3> QED
        BY <3>1
    <2>3. \A b \in Mailboxes :
            /\ Len(feed'[b]) >= Len(feed[b])
            /\ \A i \in 1 .. Len(feed[b]) : feed'[b][i] = feed[b][i]
            /\ \A i \in 1 .. Len(feed'[b]) :
                 i \in 1 .. Len(feed[b]) \/ (b = Inbox[m] /\ feed'[b][i] = m)
      <3> TAKE b \in Mailboxes
      <3>1. feed[b] \in Seq(Messages)
        BY <1>0 DEF Typed, TypeOK
      <3>2. feed'[b] = IF b = Inbox[m] THEN Append(feed[b], m) ELSE feed[b]
        BY <1>0, <1>22, <2>1 DEF Change, Typed, TypeOK
      <3>3. CASE b = Inbox[m]
        BY <3>1, <3>2, <3>3
      <3>4. CASE b # Inbox[m]
        BY <3>1, <3>2, <3>4
      <3> QED
        BY <3>3, <3>4
    <2>4. FeedOK'
      BY <2>3 DEF LinkInv, FeedOK
    <2>5. LinksOK' /\ NoMessageLost'
      <3>1. Polling => box \in Mailboxes
        BY <1>0 DEF Typed, LocalsOK
      <3>2. /\ \A b \in Mailboxes : deltaLink'[b] <= Len(feed'[b])
            /\ NoMessageLost'
        BY <1>0, <1>22, <2>3, SavedKept DEF Change, db
      <3>3. Polling => newDelta <= Len(feed'[box])
        BY <1>0, <2>2, <2>3, <3>1 DEF LinkInv, LinksOK, Typed, TypeOK
      <3> QED
        BY <1>22, <3>2, <3>3 DEF Change, LinksOK, Polling, poll
    <2>6. BatchOK'
      <3>1. UNCHANGED <<pc, box, batch, newDelta, cur, ledger, newLedger>>
        BY <1>22 DEF Change, db, unit, poll, message
      <3>2. ASSUME Polling, NEW i \in 1 .. newDelta, feed'[box][i] \in WithAttachments
            PROVE  Carried(feed[box][i])'
        <4>1. box \in Mailboxes /\ i \in 1 .. Len(feed[box])
          BY <1>0, <2>2, <3>2 DEF Typed, TypeOK, LocalsOK, LinkInv, LinksOK
        <4>2. feed'[box][i] = feed[box][i]
          BY <2>3, <4>1
        <4>3. Carried(feed[box][i])
          BY <3>2, <4>2 DEF LinkInv, BatchOK
        <4> QED
          BY <3>1, <4>2, <4>3 DEF Carried
      <3> QED
        BY <3>1, <3>2 DEF BatchOK, Polling
    <2> QED
      BY <1>0, <2>4, <2>5, <2>6 DEF LinkInv
  <1>23. CASE UNCHANGED vars
    <2>1. FeedOK' /\ LinksOK' /\ BatchOK' /\ NoMessageLost'
      BY <1>23
      DEF vars, db, unit, poll, message, LinkInv, FeedOK, LinksOK, BatchOK, Carried,
          NoMessageLost, Passed, Polling
    <2> QED
      BY <1>0, <2>1 DEF LinkInv
  <1> QED
    BY <1>1, <1>2, <1>3, <1>4, <1>5, <1>6, <1>7, <1>8, <1>9, <1>10, <1>11, <1>12, <1>13,
       <1>14, <1>15, <1>16, <1>17, <1>18, <1>19, <1>20, <1>21, <1>22, <1>23
    DEF Next, Work

\* Whatever crashes, times out, fails or is repeated, for any mailboxes and any
\* contents: the saved delta link never passes an unsettled message.
THEOREM MessagesNeverLost == Spec => []NoMessageLost
  <1>1. Spec => []LinkInv
    BY InitLinkInv, StepLinkInv, PTL DEF Spec
  <1>2. LinkInv => NoMessageLost
    BY DEF LinkInv
  <1> QED
    BY <1>1, <1>2, PTL

-----------------------------------------------------------------------------
(***************************************************************************)
(* Success means counted, and rows clash for two spellings only            *)
(***************************************************************************)
\* The spellings of the records scored so far are in the cache, and the sender
\* rows to insert are of theirs.
Looked ==
  /\ \A i \in 1 .. rec - 1 : Records[cur][i] \in cached
  /\ \A k \in newSenders : \E i \in 1 .. rec - 1 : Key[Records[cur][i]] = k

CountInv ==
  /\ Typed
  /\ \A m \in Messages : ledger[m] = "Success" \/ newLedger[m] = "Success" =>
       reports[m] > 0 /\ rolled[m] >= Len(Records[m])
  /\ pc = "save1" => newReports[cur] > 0
  /\ pc \in {"score", "save2"} => reports[cur] > 0
  /\ pc = "score" => rolled[cur] + newRolled[cur] >= rec - 1
  /\ pc = "save2" => rolled[cur] + newRolled[cur] >= Len(Records[cur])
  /\ pc \notin {"score", "save2"} => rec = 1
  /\ pc = "score" => Looked

LEMMA CommitRowsGrows ==
  ASSUME Typed, CommitRows, NEW m \in Messages
  PROVE  /\ reports'[m] = reports[m] + newReports[m] /\ reports'[m] >= reports[m]
         /\ rolled'[m] = rolled[m] + newRolled[m] /\ rolled'[m] >= rolled[m]
         /\ ledger'[m] = "Success" => ledger[m] = "Success" \/ newLedger[m] = "Success"
         /\ {reports[m], newReports[m], rolled[m], newRolled[m], Len(Records[m])} \subseteq Nat
  BY SMTT(30), RecordsLength DEF CommitRows, Typed, TypeOK

\* A step that ends outside of a message keeps the invariant when it commits at
\* most the pending rows and adds no Success row.
LEMMA OffMessageKeepsCountInv ==
  ASSUME CountInv, Typed', CommitRows \/ UNCHANGED <<reports, rolled, ledger>>,
         pc' \notin {"save1", "score", "save2"}, rec' = 1,
         \A m \in Messages : newLedger'[m] = "Success" => newLedger[m] = "Success"
  PROVE  CountInv'
  <1>1. ASSUME NEW m \in Messages, ledger'[m] = "Success" \/ newLedger'[m] = "Success"
        PROVE  reports'[m] > 0 /\ rolled'[m] >= Len(Records[m])
    <2>1. ledger[m] = "Success" \/ newLedger[m] = "Success"
      BY <1>1, CommitRowsGrows DEF CountInv
    <2>2. reports[m] > 0 /\ rolled[m] >= Len(Records[m])
      BY <2>1 DEF CountInv
    <2>3. CASE UNCHANGED <<reports, rolled, ledger>>
      BY <2>2, <2>3
    <2>4. CASE CommitRows
      BY <2>2, <2>4, CommitRowsGrows DEF CountInv
    <2> QED
      BY <2>3, <2>4
  <1> QED
    BY <1>1 DEF CountInv

LEMMA ConcludeAddsNoSuccess ==
  ASSUME Typed, OnMessage, NEW status \in Statuses \ {"Success"}, Conclude(status),
         NEW m \in Messages, newLedger'[m] = "Success"
  PROVE  newLedger[m] = "Success"
  BY DEF Conclude, AddLedgerRow, Typed, TypeOK, LocalsOK

LEMMA NothingPendingAddsNoSuccess ==
  ASSUME NothingPending, NEW m \in Messages
  PROVE  newLedger'[m] # "Success"
  BY ConstantsAssumption DEF NothingPending, NoStatus, Statuses

LEMMA InitCountInv == Init => CountInv
  <1> SUFFICES ASSUME Init PROVE CountInv
    OBVIOUS
  <1>1. \A m \in Messages : ledger[m] # "Success" /\ newLedger[m] # "Success"
    BY ConstantsAssumption DEF Init, NoStatus, Statuses
  <1> QED
    BY <1>1, InitTyped DEF Init, CountInv

LEMMA StepCountInv == CountInv /\ [Next]_vars => CountInv'
  <1> SUFFICES ASSUME CountInv, [Next]_vars
               PROVE  CountInv'
    OBVIOUS
  <1>0. Typed /\ Typed'
    BY StepTyped DEF CountInv
  <1>1. CASE StartCycle
    BY <1>0, <1>1, OffMessageKeepsCountInv, NothingPendingAddsNoSuccess
    DEF StartCycle, CountInv, db, message
  <1>2. ASSUME NEW b \in Mailboxes, NextMailbox(b)
        PROVE  CountInv'
    BY <1>0, <1>2, OffMessageKeepsCountInv DEF NextMailbox, CountInv, db, unit, message
  <1>3. CASE EndCycle \/ ListNewMessages \/ ListFails \/ CheckFails \/ EndBatch
    <2>1. /\ pc \notin {"score", "save2"} /\ pc' \notin {"save1", "score", "save2"}
          /\ UNCHANGED <<reports, rolled, ledger, newLedger, rec>>
      BY <1>3
      DEF EndCycle, ListNewMessages, ListFails, CheckFails, PollFails, EndBatch,
          db, unit, message
    <2> QED
      BY <1>0, <2>1, OffMessageKeepsCountInv DEF CountInv
  <1>4. ASSUME NEW m \in Messages, Skip(m) \/ AlreadyProcessed(m) \/ NotProcessed(m)
        PROVE  CountInv'
    <2>1. /\ pc = "loop" /\ pc' \in {"loop", "fetch"}
          /\ UNCHANGED <<reports, rolled, ledger, newLedger, rec>>
      BY <1>4 DEF Skip, AlreadyProcessed, NotProcessed, db, unit, message
    <2> QED
      BY <1>0, <2>1, OffMessageKeepsCountInv DEF CountInv
  <1>5. CASE Finish \/ FinishFails \/ FinishUnacknowledged
    <2>1. /\ pc = "finish" /\ pc' \in {"next", "idle"} /\ NothingPending /\ UNCHANGED rec
          /\ CommitRows \/ UNCHANGED <<reports, rolled, ledger>>
      BY <1>5 DEF Finish, FinishFails, FinishUnacknowledged, AbandonCycle, db, message
    <2> QED
      BY <1>0, <2>1, OffMessageKeepsCountInv, NothingPendingAddsNoSuccess DEF CountInv
  <1>6. ASSUME NEW status \in Statuses \ {"Success"}, OnMessage, Conclude(status), UNCHANGED db
        PROVE  CountInv'
    BY <1>0, <1>6, OffMessageKeepsCountInv, ConcludeAddsNoSuccess
    DEF Conclude, ForgetMessage, db
  <1>7. CASE NothingToIngest
    BY <1>6, <1>7 DEF NothingToIngest, OnMessage, Statuses
  <1>8. CASE FetchFails \/ SaveFails \/ ScoreFails
    BY <1>6, <1>8 DEF FetchFails, SaveFails, ScoreFails, Scoring, OnMessage, Statuses
  <1>9. CASE AddReport
    <2>1. cur \in Messages /\ newReports'[cur] = newReports[cur] + 1 /\ newReports[cur] \in Nat
      BY <1>0, <1>9 DEF AddReport, Typed, TypeOK, LocalsOK, OnMessage
    <2> QED
      BY <1>0, <1>9, <2>1 DEF AddReport, CountInv, db, message
  <1>10. CASE SaveReport
    <2>1. cur \in Messages
      BY <1>0, <1>10 DEF SaveReport, Typed, LocalsOK, OnMessage
    <2>2. \A m \in Messages : newLedger'[m] # "Success"
      BY <1>10, NothingPendingAddsNoSuccess DEF SaveReport
    <2>3. reports'[cur] > 0 /\ rolled'[cur] >= 0 /\ newRolled'[cur] = 0
      BY <1>0, <1>10, <2>1, CommitRowsGrows DEF SaveReport, NothingPending, NoCount, CountInv
    <2>4. \A m \in Messages : ledger'[m] = "Success" =>
            reports'[m] > 0 /\ rolled'[m] >= Len(Records[m])
      BY <1>0, <1>10, CommitRowsGrows DEF SaveReport, CountInv
    <2>5. rec = 1 /\ UNCHANGED <<cur, rec>> /\ pc' = "score" /\ newSenders' = {}
      BY <1>10 DEF SaveReport, NothingPending, CountInv, message
    <2>6. rolled'[cur] \in Nat
      BY <1>0, <2>1 DEF Typed, TypeOK
    <2>7. Looked'
      BY <1>0, <2>5 DEF Looked
    <2> QED
      BY <1>0, <2>2, <2>3, <2>4, <2>5, <2>6, <2>7 DEF CountInv
  <1>11. CASE SaveUnacknowledged
    <2>1. \A m \in Messages : newLedger'[m] = "Success" => newLedger[m] = "Success"
      BY <1>0, <1>11 DEF SaveUnacknowledged, AddLedgerRow, Typed, TypeOK
    <2> QED
      BY <1>0, <1>11, <2>1, OffMessageKeepsCountInv DEF SaveUnacknowledged, ForgetMessage
  <1>12. CASE ScoreRecord
    <2>1. cur \in Messages /\ rec \in Nat /\ rolled[cur] \in Nat /\ newRolled[cur] \in Nat
      BY <1>0, <1>12 DEF ScoreRecord, Scoring, Typed, TypeOK, LocalsOK, OnMessage
    <2>2. newRolled'[cur] = newRolled[cur] + 1
      BY <1>0, <1>12, <2>1 DEF ScoreRecord, Typed, TypeOK
    <2>3. Looked'
      <3> DEFINE s == Records[cur][rec]
      <3>1. Looked /\ UNCHANGED cur /\ rec' = rec + 1
        BY <1>12 DEF ScoreRecord, Scoring, CountInv
      <3>2. cached' = cached \cup {s} /\ newSenders' \subseteq newSenders \cup {Key[s]}
        BY <1>12 DEF ScoreRecord, Remember
      <3>3. ASSUME NEW i \in 1 .. rec' - 1
            PROVE  Records[cur][i] \in cached'
        <4>1. i = rec \/ i \in 1 .. rec - 1
          BY <2>1, <3>1
        <4> QED
          BY <3>1, <3>2, <4>1 DEF Looked
      <3>4. ASSUME NEW k \in newSenders'
            PROVE  \E i \in 1 .. rec' - 1 : Key[Records[cur][i]] = k
        <4>1. rec \in 1 .. rec' - 1 /\ 1 .. rec - 1 \subseteq 1 .. rec' - 1
          BY <1>0, <2>1, <3>1 DEF Typed, TypeOK
        <4>2. CASE k = Key[s]
          BY <4>1, <4>2
        <4>3. CASE k \in newSenders
          BY <3>1, <4>1, <4>3 DEF Looked
        <4> QED
          BY <3>2, <4>2, <4>3
      <3> QED
        BY <3>1, <3>3, <3>4 DEF Looked
    <2>4. pc = "score" /\ rec' = rec + 1 /\ UNCHANGED <<pc, cur, db, newReports, newLedger>>
      BY <1>12 DEF ScoreRecord, Scoring
    <2>5. rolled[cur] + newRolled[cur] >= rec - 1
      BY <2>4 DEF CountInv
    <2>6. rolled'[cur'] + newRolled'[cur'] >= rec' - 1
      BY <2>1, <2>2, <2>4, <2>5 DEF db
    <2> QED
      BY <1>0, <2>3, <2>4, <2>6 DEF CountInv, db
  <1>13. CASE EndScoring
    <2>1. cur \in Messages /\ rec \in Nat /\ Len(Records[cur]) \in Nat
          /\ rolled[cur] \in Nat /\ newRolled[cur] \in Nat
      BY <1>0, <1>13, RecordsLength DEF EndScoring, Typed, TypeOK, LocalsOK, OnMessage
    <2>2. rolled[cur] + newRolled[cur] >= Len(Records[cur])
      BY <1>13, <2>1 DEF EndScoring, CountInv
    <2> QED
      BY <1>0, <1>13, <2>2 DEF EndScoring, CountInv, db, unit, message
  <1>14. CASE SaveScores
    <2>1. cur \in Messages
      BY <1>0, <1>14 DEF SaveScores, Typed, LocalsOK, OnMessage
    <2>2. reports'[cur] > 0 /\ rolled'[cur] >= Len(Records[cur])
      BY <1>0, <1>14, <2>1, CommitRowsGrows DEF SaveScores, CountInv
    <2>3. \A m \in Messages : ledger'[m] = "Success" =>
            reports'[m] > 0 /\ rolled'[m] >= Len(Records[m])
      BY <1>0, <1>14, CommitRowsGrows DEF SaveScores, CountInv
    <2>4. \A m \in Messages : newLedger'[m] = "Success" => m = cur
      BY <1>14, <2>1, ConstantsAssumption DEF SaveScores, AddLedgerRow, NoStatus, Statuses
    <2> QED
      BY <1>0, <1>14, <2>2, <2>3, <2>4 DEF SaveScores, ForgetMessage, CountInv
  <1>15. CASE Stop \/ GraphTimeout
    <2>1. /\ pc' \in {"down", "faulted"} /\ NothingPending /\ rec' = 1
          /\ UNCHANGED <<reports, rolled, ledger>>
      BY <1>15 DEF Stop, GraphTimeout, Leave, ForgetMessage, db
    <2> QED
      BY <1>0, <2>1, OffMessageKeepsCountInv, NothingPendingAddsNoSuccess
  <1>16. CASE Restart
    BY <1>0, <1>16, OffMessageKeepsCountInv
    DEF Restart, Running, CountInv, db, unit, message
  <1>17. CASE UNCHANGED vars \/ \E m \in Messages : Change(m)
    <2>1. UNCHANGED <<db, unit, pc, message>>
      BY <1>17 DEF Change, vars
    <2> QED
      BY <1>0, <2>1 DEF CountInv, Looked, db, unit, message
  <1> QED
    BY <1>1, <1>2, <1>3, <1>4, <1>5, <1>7, <1>8, <1>9, <1>10, <1>11, <1>12, <1>13,
       <1>14, <1>15, <1>16, <1>17
    DEF Next, Work

LEMMA CountInvHolds == Spec => []CountInv
  BY InitCountInv, StepCountInv, PTL DEF Spec

\* A Success verdict never reaches the database ahead of the report row and of
\* the volume it stands for.
THEOREM SuccessIsCounted == Spec => []SuccessMeansCounted
  <1>1. CountInv => SuccessMeansCounted
    BY DEF CountInv, SuccessMeansCounted
  <1> QED
    BY <1>1, CountInvHolds, PTL

\* A second new row for a key whose first is pending takes two spellings of that
\* key in one report, whatever earlier saves left pending, also when the database
\* refuses rows or a listing repeats a message.
THEOREM SpellingsClash == Spec => []ClashNeedsTwoSpellings
  <1>1. CountInv => ClashNeedsTwoSpellings
    <2> SUFFICES ASSUME CountInv, Scoring, Records[cur][rec] \notin cached,
                        Key[Records[cur][rec]] \in newSenders
                 PROVE  \E i \in 1 .. rec - 1 :
                          /\ Key[Records[cur][i]] = Key[Records[cur][rec]]
                          /\ Records[cur][i] # Records[cur][rec]
      BY DEF ClashNeedsTwoSpellings
    <2>1. Looked
      BY DEF CountInv, Scoring
    <2> QED
      BY <2>1 DEF Looked
  <1> QED
    BY <1>1, CountInvHolds, PTL

-----------------------------------------------------------------------------
(***************************************************************************)
(* Ingestion implements the ledger                                         *)
(*                                                                         *)
(* A unit of work that can still be committed holds report and ledger rows *)
(* of undecided messages only, and the next link lies ahead of the saved.  *)
(***************************************************************************)
VerdictInv ==
  /\ LinkInv
  /\ CountInv
  /\ ~poisoned => \A m \in Messages :
                   newReports[m] > 0 \/ newLedger[m] # None => ledger[m] = None
  /\ pc = "fetch" => ledger[cur] = None
  /\ Polling => newDelta >= deltaLink[box]

LEMMA InitVerdictInv == Init => VerdictInv
  BY InitLinkInv, InitCountInv DEF Init, VerdictInv, NoCount, NoStatus, Polling

LEMMA NothingPendingUndecided ==
  ASSUME NothingPending, NEW m \in Messages
  PROVE  ~(newReports'[m] > 0 \/ newLedger'[m] # None)
  BY DEF NothingPending, NoCount, NoStatus

\* A step that leaves the ledger and adds nothing to the unit of work.
LEMMA QuietKeepsVerdictInv ==
  ASSUME VerdictInv, LinkInv', CountInv', UNCHANGED <<ledger, newReports, newLedger>>,
         poisoned => poisoned',
         pc' = "fetch" => ledger[cur'] = None,
         Polling' => newDelta' >= deltaLink'[box']
  PROVE  VerdictInv'
  BY DEF VerdictInv

\* A step that empties the unit of work.
LEMMA FlushKeepsVerdictInv ==
  ASSUME LinkInv', CountInv', NothingPending, pc' # "fetch",
         Polling' => newDelta' >= deltaLink'[box']
  PROVE  VerdictInv'
  BY NothingPendingUndecided DEF VerdictInv

LEMMA ConcludeKeepsVerdictInv ==
  ASSUME VerdictInv, LinkInv', CountInv', OnMessage, NEW status \in Statuses,
         Conclude(status), UNCHANGED <<db, newReports, poll>>
  PROVE  VerdictInv'
  <1>1. cur \in Messages /\ Polling
    BY DEF VerdictInv, CountInv, Typed, LocalsOK, OnMessage, Polling
  <1>2. ASSUME ~poisoned', NEW m \in Messages, newReports'[m] > 0 \/ newLedger'[m] # None
        PROVE  ledger'[m] = None
    <2>1. ~poisoned /\ ledger[cur] = None
      BY <1>2, <1>1 DEF Conclude, LedgerRowRefused, VerdictInv, CountInv, Typed, TypeOK
    <2>2. CASE m = cur
      BY <2>1, <2>2 DEF db
    <2>3. CASE m # cur
      <3>1. newLedger'[m] = newLedger[m]
        BY <2>3, <1>1 DEF Conclude, AddLedgerRow, VerdictInv, CountInv, Typed, TypeOK
      <3> QED
        BY <1>2, <2>1, <3>1 DEF VerdictInv, db
    <2> QED
      BY <2>2, <2>3
  <1> QED
    BY <1>1, <1>2 DEF Conclude, VerdictInv, Polling, db, poll

LEMMA StepVerdictInv == VerdictInv /\ [Next]_vars => VerdictInv'
  <1> SUFFICES ASSUME VerdictInv, [Next]_vars
               PROVE  VerdictInv'
    OBVIOUS
  <1>0. LinkInv' /\ CountInv'
    BY StepLinkInv, StepCountInv DEF VerdictInv
  <1>1. CASE StartCycle
    BY <1>0, <1>1, FlushKeepsVerdictInv DEF StartCycle, Polling
  <1>2. ASSUME NEW b \in Mailboxes, NextMailbox(b)
        PROVE  VerdictInv'
    BY <1>0, <1>2, QuietKeepsVerdictInv DEF NextMailbox, Polling, db, unit
  <1>3. CASE EndCycle
    BY <1>0, <1>3, QuietKeepsVerdictInv DEF EndCycle, Polling, db, unit
  <1>4. CASE ListNewMessages
    <2>1. newDelta' >= deltaLink[box]
      <3>1. box \in Mailboxes
        BY <1>4 DEF ListNewMessages, VerdictInv, LinkInv, Typed, LocalsOK
      <3>2. deltaLink[box] \in Nat /\ deltaLink[box] <= Len(feed[box])
        BY <3>1 DEF VerdictInv, LinkInv, LinksOK, Typed, TypeOK
      <3> QED
        BY <1>4, <3>2 DEF ListNewMessages
    <2> QED
      BY <1>0, <1>4, <2>1, QuietKeepsVerdictInv DEF ListNewMessages, Polling, db, unit
  <1>5. CASE ListFails \/ CheckFails
    <2>1. box \in Mailboxes
      BY <1>5 DEF ListFails, CheckFails, VerdictInv, LinkInv, Typed, LocalsOK, Polling
    <2>2. deltaLink[box] \in Nat
      BY <2>1 DEF VerdictInv, LinkInv, Typed, TypeOK
    <2> QED
      BY <1>0, <1>5, <2>2, QuietKeepsVerdictInv
      DEF ListFails, CheckFails, PollFails, LinkAfterError, Polling, db, unit
  <1>6. ASSUME NEW m \in Messages, Skip(m) \/ AlreadyProcessed(m) \/ NotProcessed(m)
        PROVE  VerdictInv'
    <2>1. /\ pc = "loop" /\ UNCHANGED <<ledger, deltaLink, newReports, newLedger,
                                        poisoned, box, newDelta>>
          /\ pc' = "fetch" => ledger[cur'] = None
      BY <1>6 DEF Skip, AlreadyProcessed, NotProcessed, db, unit
    <2> QED
      BY <1>0, <2>1, QuietKeepsVerdictInv DEF VerdictInv, Polling
  <1>7. CASE EndBatch \/ EndScoring
    <2>1. /\ Polling /\ pc' # "fetch"
          /\ UNCHANGED <<ledger, deltaLink, newReports, newLedger, poisoned, box, newDelta>>
      BY <1>7 DEF EndBatch, EndScoring, Polling, db, unit, poll
    <2> QED
      BY <1>0, <2>1, QuietKeepsVerdictInv DEF VerdictInv
  <1>8. CASE Finish \/ FinishFails \/ FinishUnacknowledged
    BY <1>0, <1>8, FlushKeepsVerdictInv
    DEF Finish, FinishFails, FinishUnacknowledged, AbandonCycle, Polling
  <1>9. CASE NothingToIngest
    BY <1>0, <1>9, ConcludeKeepsVerdictInv DEF NothingToIngest, OnMessage, Statuses
  <1>10. CASE FetchFails \/ SaveFails \/ ScoreFails
    BY <1>0, <1>10, ConcludeKeepsVerdictInv
    DEF FetchFails, SaveFails, ScoreFails, Scoring, OnMessage, Statuses
  <1>11. CASE AddReport
    <2>1. \A m \in Messages : m # cur => newReports'[m] = newReports[m]
      BY <1>11 DEF AddReport, VerdictInv, LinkInv, Typed, TypeOK
    <2> QED
      BY <1>0, <1>11, <2>1 DEF AddReport, VerdictInv, Polling, db, poll
  <1>12. CASE SaveReport
    BY <1>0, <1>12, FlushKeepsVerdictInv DEF SaveReport, VerdictInv, Polling, poll
  <1>13. CASE SaveUnacknowledged
    BY <1>0, <1>13 DEF SaveUnacknowledged, VerdictInv, Polling, poll
  <1>14. CASE ScoreRecord
    <2>1. Polling /\ pc' = "score" /\ (poisoned => poisoned')
          /\ UNCHANGED <<ledger, deltaLink, newReports, newLedger, box, newDelta>>
      BY <1>14 DEF ScoreRecord, Scoring, Polling, db, poll
    <2> QED
      BY <1>0, <2>1 DEF VerdictInv
  <1>15. CASE SaveScores
    <2>1. \A m \in Messages : newReports'[m] = 0 /\ (newLedger'[m] # None => m = cur)
      BY <1>15 DEF SaveScores, AddLedgerRow, NoCount, NoStatus
    <2>2. ~poisoned' => ledger'[cur] = None
      BY <1>15 DEF SaveScores
    <2>3. \A m \in Messages :
            newReports'[m] > 0 \/ newLedger'[m] # None => (~poisoned' => ledger'[m] = None)
      BY <2>1, <2>2
    <2>4. pc' = "loop" /\ Polling /\ UNCHANGED <<deltaLink, box, newDelta>>
      BY <1>15 DEF SaveScores, Polling, poll
    <2> QED
      BY <1>0, <2>3, <2>4 DEF VerdictInv
  <1>16. CASE Stop \/ GraphTimeout
    BY <1>0, <1>16, FlushKeepsVerdictInv DEF Stop, GraphTimeout, Leave, Polling
  <1>17. CASE Restart
    BY <1>0, <1>17, QuietKeepsVerdictInv DEF Restart, Polling, db, unit
  <1>18. CASE UNCHANGED vars \/ \E m \in Messages : Change(m)
    <2>1. UNCHANGED <<db, unit, pc, poll, message>>
      BY <1>18 DEF Change, vars
    <2> QED
      BY <1>0, <2>1 DEF VerdictInv, Polling, db, unit, poll, message
  <1> QED
    BY <1>1, <1>2, <1>3, <1>4, <1>5, <1>6, <1>7, <1>8, <1>9, <1>10, <1>11, <1>12, <1>13,
       <1>14, <1>15, <1>16, <1>17, <1>18
    DEF Next, Work

\* Every step either commits the pending rows or leaves the saved ones alone.
LEMMA EveryStepCommits ==
  ASSUME [Next]_vars
  PROVE  CommitRows \/ UNCHANGED <<reports, rolled, ledger>>
  BY DEF Next, Work, vars, db, StartCycle, NextMailbox, EndCycle, ListNewMessages, Skip,
         AlreadyProcessed, NotProcessed, EndBatch, Finish, NothingToIngest, AddReport,
         SaveReport, ScoreRecord, EndScoring, SaveScores, SaveFails, FinishFails,
         ListFails, CheckFails, FinishUnacknowledged, FetchFails, SaveUnacknowledged,
         ScoreFails, Stop, GraphTimeout, Restart, Change

\* The saved links move with the status of a poll only, and feeds only grow.
LEMMA EveryStepMovesOn ==
  ASSUME [Next]_vars
  PROVE  /\ (pc = "finish" /\ CommitMailbox) \/ UNCHANGED deltaLink
         /\ UNCHANGED feed \/ \E m \in Messages : Change(m)
  BY DEF Next, Work, vars, db, StartCycle, NextMailbox, EndCycle, ListNewMessages, Skip,
         AlreadyProcessed, NotProcessed, EndBatch, Finish, NothingToIngest, AddReport,
         SaveReport, ScoreRecord, EndScoring, SaveScores, SaveFails, FinishFails,
         ListFails, CheckFails, FinishUnacknowledged, FetchFails, SaveUnacknowledged,
         ScoreFails, Stop, GraphTimeout, Restart, Change

LEMMA PassedGrows ==
  ASSUME VerdictInv, [Next]_vars
  PROVE  Passed \subseteq Passed'
  <1> SUFFICES ASSUME NEW m \in Messages, NEW i \in 1 .. deltaLink[Inbox[m]],
                      feed[Inbox[m]][i] = m
               PROVE  /\ i \in 1 .. deltaLink'[Inbox[m]]
                      /\ feed'[Inbox[m]][i] = m
    BY DEF Passed
  <1>1. Typed /\ Typed'
    BY StepTyped DEF VerdictInv, LinkInv
  <1>2. Inbox[m] \in Mailboxes
    BY ConstantsAssumption
  <1>3. /\ deltaLink[Inbox[m]] \in Nat /\ deltaLink'[Inbox[m]] \in Nat
        /\ deltaLink[Inbox[m]] <= Len(feed[Inbox[m]]) /\ feed[Inbox[m]] \in Seq(Messages)
    BY <1>1, <1>2 DEF Typed, TypeOK, VerdictInv, LinkInv, LinksOK
  <1>4. deltaLink'[Inbox[m]] >= deltaLink[Inbox[m]]
    <2>1. CASE pc = "finish" /\ CommitMailbox
      <3>1. deltaLink'[Inbox[m]] = IF Inbox[m] = box THEN newDelta ELSE deltaLink[Inbox[m]]
        BY <1>1, <1>2, <2>1 DEF CommitMailbox, Typed, TypeOK
      <3>2. newDelta >= deltaLink[box]
        BY <2>1 DEF VerdictInv, Polling
      <3> QED
        BY <1>3, <3>1, <3>2
    <2>2. CASE UNCHANGED deltaLink
      BY <1>3, <2>2
    <2> QED
      BY <2>1, <2>2, EveryStepMovesOn
  <1>5. feed'[Inbox[m]][i] = feed[Inbox[m]][i]
    <2>1. ASSUME NEW n \in Messages, Change(n)
          PROVE  feed'[Inbox[m]][i] = feed[Inbox[m]][i]
      <3>1. feed'[Inbox[m]] = IF Inbox[m] = Inbox[n] THEN Append(feed[Inbox[m]], n)
                                                    ELSE feed[Inbox[m]]
        BY <1>1, <1>2, <2>1 DEF Change, Typed, TypeOK
      <3> QED
        BY <1>3, <3>1
    <2> QED
      BY <2>1, EveryStepMovesOn
  <1> QED
    BY <1>3, <1>4, <1>5

LEMMA StepCommitsLedger ==
  ASSUME VerdictInv, VerdictInv', [Next]_vars
  PROVE  Ledger!Commit
  <1>1. /\ ledger' \in [Messages -> Statuses \cup {None}]
        /\ reports' \in [Messages -> Nat]
        /\ Passed' \in SUBSET Messages
    BY DEF VerdictInv, LinkInv, Typed, TypeOK, Passed
  <1>2. ASSUME NEW m \in Messages
        PROVE  /\ reports'[m] >= reports[m]
               /\ ledger[m] # None => ledger'[m] = ledger[m] /\ reports'[m] = reports[m]
    <2>1. CASE CommitRows
      <3>1. /\ reports'[m] = reports[m] + newReports[m] /\ reports[m] \in Nat
            /\ newReports[m] \in Nat
            /\ ledger'[m] = IF newLedger[m] = None THEN ledger[m] ELSE newLedger[m]
        BY <2>1 DEF CommitRows, VerdictInv, LinkInv, Typed, TypeOK
      <3>2. newReports[m] > 0 \/ newLedger[m] # None => ledger[m] = None
        BY <2>1 DEF CommitRows, VerdictInv
      <3> QED
        BY <3>1, <3>2
    <2>2. CASE UNCHANGED <<reports, rolled, ledger>>
      BY <2>2 DEF VerdictInv, LinkInv, Typed, TypeOK
    <2> QED
      BY <2>1, <2>2, EveryStepCommits
  <1>3. Ledger!VerdictsAreFinal
    BY <1>2 DEF Ledger!VerdictsAreFinal
  <1>4. Ledger!SuccessIsBacked
    BY DEF Ledger!SuccessIsBacked, VerdictInv, CountInv
  <1>5. Ledger!PassedAreSettled
    BY DEF Ledger!PassedAreSettled, VerdictInv, LinkInv, NoMessageLost
  <1> QED
    BY <1>1, <1>2, <1>3, <1>4, <1>5, PassedGrows DEF Ledger!Commit

\* Polling, with its unit of work shared between messages, its crashes and its
\* failed saves, implements the ledger MessageLedger promises.
THEOREM LedgerImplemented == Spec => ImplementsLedger
  <1>1. Init => Ledger!Init
    <2>1. Init => Passed = {}
      BY ConstantsAssumption DEF Init, Passed
    <2> QED
      BY <2>1 DEF Init, Ledger!Init, NoCount, NoStatus
  <1>2. VerdictInv /\ VerdictInv' /\ [Next]_vars => [Ledger!Next]_(Ledger!vars)
    BY StepCommitsLedger DEF Ledger!Next
  <1> QED
    BY <1>1, <1>2, InitVerdictInv, StepVerdictInv, PTL DEF Spec, ImplementsLedger, Ledger!Spec
-----------------------------------------------------------------------------
(***************************************************************************)
(* Counts are backed                                                       *)
(*                                                                         *)
(* CountsBacked speaks of saved rows only.  What a later save adds to them *)
(* is accounted for in advance: a unit of work that can still be committed *)
(* keeps the bound, and while a report is scored the bound leaves room for *)
(* each of its records not counted yet.  A unit of work that can not be    *)
(* committed may hold anything: after a save that was not acknowledged it  *)
(* does hold volumes that are saved already.                               *)
(***************************************************************************)
Backing(m) == reports[m] * Len(Records[m])

BackedInv ==
  /\ CountInv
  /\ CountsBacked
  /\ ~poisoned => \A m \in Messages : rolled[m] + newRolled[m] <= Backing(m)
  /\ ~poisoned /\ pc = "score" =>
       rolled[cur] + newRolled[cur] + Len(Records[cur]) <= Backing(cur) + (rec - 1)

LEMMA ProductGrows ==
  ASSUME NEW a \in Nat, NEW b \in Nat, NEW n \in Nat, a <= b
  PROVE  a * n <= b * n
  OBVIOUS

LEMMA ProductOfNext ==
  ASSUME NEW a \in Nat, NEW n \in Nat
  PROVE  (a + 1) * n = a * n + n /\ a * n \in Nat
  OBVIOUS

LEMMA BackingTyped ==
  ASSUME Typed, NEW m \in Messages
  PROVE  /\ {rolled[m], newRolled[m], reports[m], newReports[m]} \subseteq Nat
         /\ Len(Records[m]) \in Nat
         /\ Backing(m) \in Nat
  <1>1. {rolled[m], newRolled[m], reports[m], newReports[m]} \subseteq Nat
    BY DEF Typed, TypeOK
  <1>2. Len(Records[m]) \in Nat
    BY RecordsLength
  <1> QED
    BY <1>1, <1>2, ProductOfNext DEF Backing

\* A commit keeps the bound for every message, and a report row committed with
\* it adds room for its records.
LEMMA CommitKeepsBacking ==
  ASSUME BackedInv, CommitRows, NEW m \in Messages
  PROVE  /\ rolled'[m] <= Backing(m)'
         /\ newReports[m] > 0 => rolled'[m] + Len(Records[m]) <= Backing(m)'
  <1>1. Typed /\ rolled[m] + newRolled[m] <= Backing(m)
    BY DEF BackedInv, CountInv, CommitRows
  <1>2. /\ rolled'[m] = rolled[m] + newRolled[m]
        /\ reports'[m] = reports[m] + newReports[m]
    BY <1>1, CommitRowsGrows
  <1>3. /\ reports[m] \in Nat /\ reports'[m] \in Nat /\ newReports[m] \in Nat
        /\ Len(Records[m]) \in Nat /\ rolled'[m] \in Nat /\ Backing(m) \in Nat
    BY <1>1, <1>2, BackingTyped
  <1>4. Backing(m)' = reports'[m] * Len(Records[m])
    BY DEF Backing
  <1>5. Backing(m) <= Backing(m)'
    BY <1>2, <1>3, <1>4, ProductGrows DEF Backing
  <1>6. ASSUME newReports[m] > 0
        PROVE  Backing(m) + Len(Records[m]) <= Backing(m)'
    <2>1. reports[m] + 1 \in Nat /\ reports[m] + 1 <= reports'[m]
      BY <1>2, <1>3, <1>6
    <2>2. (reports[m] + 1) * Len(Records[m]) <= Backing(m)'
      BY <1>3, <1>4, <2>1, ProductGrows
    <2> QED
      BY <1>3, <2>2, ProductOfNext DEF Backing
  <1>7. Backing(m)' \in Nat
    BY <1>3, <1>4, ProductOfNext
  <1> QED
    BY <1>1, <1>2, <1>3, <1>5, <1>6, <1>7

\* A step that saves nothing, adds nothing to count and ends outside of the
\* scoring, whether it gives the unit of work up or keeps it.
LEMMA QuietKeepsBackedInv ==
  ASSUME BackedInv, CountInv', UNCHANGED <<reports, rolled>>, pc' # "score",
         (UNCHANGED newRolled /\ (poisoned => poisoned')) \/ NothingPending
  PROVE  BackedInv'
  <1>1. CountsBacked'
    BY DEF BackedInv, CountsBacked
  <1>2. ASSUME ~poisoned', NEW m \in Messages
        PROVE  rolled'[m] + newRolled'[m] <= Backing(m)'
    <2>1. CASE UNCHANGED newRolled /\ (poisoned => poisoned')
      BY <1>2, <2>1 DEF BackedInv, Backing
    <2>2. CASE NothingPending
      <3>1. newRolled'[m] = 0
        BY <2>2 DEF NothingPending, NoCount
      <3>2. rolled[m] <= Backing(m) /\ rolled[m] \in Nat
        BY BackingTyped DEF BackedInv, CountsBacked, CountInv, Backing
      <3> QED
        BY <3>1, <3>2 DEF Backing
    <2> QED
      BY <2>1, <2>2
  <1> QED
    BY <1>1, <1>2 DEF BackedInv

\* A save after which nothing is left to count, or nothing can be committed.
LEMMA CommitKeepsBackedInv ==
  ASSUME BackedInv, CountInv', CommitRows, pc' # "score", newRolled' = NoCount \/ poisoned'
  PROVE  BackedInv'
  <1>1. CountsBacked'
    BY CommitKeepsBacking DEF CountsBacked, Backing
  <1>2. ASSUME ~poisoned', NEW m \in Messages
        PROVE  rolled'[m] + newRolled'[m] <= Backing(m)'
    <2>1. newRolled'[m] = 0 /\ rolled'[m] \in Nat
      BY <1>2 DEF NoCount, CountInv, Typed, TypeOK
    <2> QED
      BY <2>1, CommitKeepsBacking
  <1> QED
    BY <1>1, <1>2 DEF BackedInv

LEMMA InitBackedInv == Init => BackedInv
  <1> SUFFICES ASSUME Init PROVE BackedInv
    OBVIOUS
  <1>1. CountInv
    BY InitCountInv
  <1>2. \A m \in Messages : rolled[m] = 0 /\ newRolled[m] = 0 /\ Backing(m) \in Nat
    BY <1>1, BackingTyped DEF Init, NoCount, CountInv
  <1> QED
    BY <1>1, <1>2 DEF BackedInv, CountsBacked, Backing, Init

LEMMA StepBackedInv == BackedInv /\ [Next]_vars => BackedInv'
  <1> SUFFICES ASSUME BackedInv, [Next]_vars
               PROVE  BackedInv'
    OBVIOUS
  <1>0. CountInv' /\ Typed /\ Typed'
    BY StepCountInv DEF BackedInv, CountInv
  <1>1. CASE StartCycle
    BY <1>0, <1>1, QuietKeepsBackedInv DEF StartCycle, db
  <1>2. ASSUME NEW b \in Mailboxes, NextMailbox(b)
        PROVE  BackedInv'
    BY <1>0, <1>2, QuietKeepsBackedInv DEF NextMailbox, db, unit
  <1>3. CASE EndCycle \/ ListNewMessages \/ ListFails \/ CheckFails \/ EndBatch \/ EndScoring
    <2>1. pc' # "score" /\ UNCHANGED <<reports, rolled, newRolled, poisoned>>
      BY <1>3
      DEF EndCycle, ListNewMessages, ListFails, CheckFails, PollFails, EndBatch, EndScoring,
          db, unit
    <2> QED
      BY <1>0, <2>1, QuietKeepsBackedInv
  <1>4. ASSUME NEW m \in Messages, Skip(m) \/ AlreadyProcessed(m) \/ NotProcessed(m)
        PROVE  BackedInv'
    <2>1. pc' # "score" /\ UNCHANGED <<reports, rolled, newRolled, poisoned>>
      BY <1>4 DEF Skip, AlreadyProcessed, NotProcessed, db, unit
    <2> QED
      BY <1>0, <2>1, QuietKeepsBackedInv
  <1>5. CASE Finish \/ FinishUnacknowledged
    BY <1>0, <1>5, CommitKeepsBackedInv
    DEF Finish, FinishUnacknowledged, AbandonCycle, NothingPending
  <1>6. CASE FinishFails
    BY <1>0, <1>6, QuietKeepsBackedInv DEF FinishFails, AbandonCycle, db
  <1>7. CASE NothingToIngest \/ FetchFails \/ SaveFails \/ ScoreFails
    <2>1. /\ pc' = "loop" /\ (poisoned => poisoned')
          /\ UNCHANGED <<reports, rolled, newRolled>>
      BY <1>7 DEF NothingToIngest, FetchFails, SaveFails, ScoreFails, Conclude, db
    <2> QED
      BY <1>0, <2>1, QuietKeepsBackedInv
  <1>8. CASE AddReport
    BY <1>0, <1>8, QuietKeepsBackedInv DEF AddReport, db
  <1>9. CASE SaveReport
    <2>1. cur \in Messages /\ newReports[cur] > 0 /\ rec = 1 /\ UNCHANGED <<cur, rec>>
      BY <1>0, <1>9 DEF SaveReport, BackedInv, CountInv, Typed, LocalsOK, OnMessage, message
    <2>2. \A m \in Messages : newRolled'[m] = 0 /\ rolled'[m] \in Nat
      BY <1>0, <1>9 DEF SaveReport, NothingPending, NoCount, Typed, TypeOK
    <2>3. CountsBacked'
      BY <1>9, CommitKeepsBacking DEF SaveReport, CountsBacked, Backing
    <2>4. \A m \in Messages : rolled'[m] + newRolled'[m] <= Backing(m)'
      BY <1>9, <2>2, CommitKeepsBacking DEF SaveReport
    <2>5. rolled'[cur] + newRolled'[cur] + Len(Records[cur]) <= Backing(cur)' + (rec - 1)
      <3>1. rolled'[cur] + Len(Records[cur]) <= Backing(cur)'
        BY <1>9, <2>1, CommitKeepsBacking DEF SaveReport
      <3>2. Backing(cur)' \in Nat /\ Len(Records[cur]) \in Nat
        <4>1. reports'[cur] \in Nat /\ Len(Records[cur]) \in Nat
          BY <1>0, <2>1, RecordsLength DEF Typed, TypeOK
        <4>2. Backing(cur)' = reports'[cur] * Len(Records[cur])
          BY <2>1 DEF Backing
        <4> QED
          BY <4>1, <4>2, ProductOfNext
      <3> QED
        BY <2>1, <2>2, <3>1, <3>2
    <2> QED
      BY <1>0, <2>1, <2>3, <2>4, <2>5 DEF BackedInv, Backing
  <1>10. CASE SaveUnacknowledged
    BY <1>0, <1>10, CommitKeepsBackedInv DEF SaveUnacknowledged
  <1>11. CASE SaveScores
    BY <1>0, <1>11, CommitKeepsBackedInv DEF SaveScores
  <1>12. CASE ScoreRecord
    <2>1. /\ cur \in Messages /\ pc = "score" /\ rec \in Nat /\ rec <= Len(Records[cur])
          /\ UNCHANGED <<reports, rolled, pc, cur>> /\ rec' = rec + 1
          /\ poisoned => poisoned'
      BY <1>0, <1>12
      DEF ScoreRecord, Scoring, Typed, TypeOK, LocalsOK, OnMessage, db
    <2>2. \A m \in Messages : newRolled'[m] = IF m = cur THEN newRolled[m] + 1 ELSE newRolled[m]
      BY <1>0, <1>12, <2>1 DEF ScoreRecord, Typed, TypeOK
    <2>3. \A m \in Messages : Backing(m)' = Backing(m)
      BY <2>1 DEF Backing
    <2>4. CountsBacked'
      BY <2>1 DEF BackedInv, CountsBacked
    <2>5. ASSUME ~poisoned'
          PROVE  rolled[cur] + newRolled[cur] + Len(Records[cur]) <= Backing(cur) + (rec - 1)
      BY <2>1, <2>5 DEF BackedInv
    <2>6. /\ rolled[cur] \in Nat /\ newRolled[cur] \in Nat /\ Backing(cur) \in Nat
          /\ Len(Records[cur]) \in Nat
      BY <1>0, <2>1, BackingTyped
    <2>7. ASSUME ~poisoned', NEW m \in Messages
          PROVE  rolled'[m] + newRolled'[m] <= Backing(m)'
      <3>1. CASE m = cur
        BY SMTT(30), <2>1, <2>2, <2>3, <2>5, <2>6, <2>7, <3>1
      <3>2. CASE m # cur
        BY <2>1, <2>2, <2>3, <2>7, <3>2 DEF BackedInv
      <3> QED
        BY <3>1, <3>2
    <2>8. Backing(cur)' = Backing(cur)
      BY <2>1 DEF Backing
    <2>9. ASSUME ~poisoned'
          PROVE  rolled'[cur'] + newRolled'[cur'] + Len(Records[cur']) <= Backing(cur)' + (rec' - 1)
      <3>1. cur' = cur /\ rolled' = rolled /\ newRolled'[cur] = newRolled[cur] + 1
        BY <2>1, <2>2
      <3> QED
        BY SMTT(30), <2>1, <2>5, <2>6, <2>8, <2>9, <3>1
    <2> QED
      BY <1>0, <2>1, <2>4, <2>7, <2>9 DEF BackedInv
  <1>13. CASE Stop \/ GraphTimeout
    BY <1>0, <1>13, QuietKeepsBackedInv DEF Stop, GraphTimeout, Leave, db
  <1>14. CASE Restart
    BY <1>0, <1>14, QuietKeepsBackedInv DEF Restart, db, unit
  <1>15. CASE UNCHANGED vars \/ \E m \in Messages : Change(m)
    <2>1. UNCHANGED <<db, unit, pc, message>>
      BY <1>15 DEF Change, vars
    <2> QED
      BY <1>0, <2>1 DEF BackedInv, CountsBacked, Backing, db, unit, message
  <1> QED
    BY <1>1, <1>2, <1>3, <1>4, <1>5, <1>6, <1>7, <1>8, <1>9, <1>10, <1>11, <1>12, <1>13,
       <1>14, <1>15
    DEF Next, Work

\* Whatever is retried, repeated, left pending or committed unnoticed, for any
\* records and any rows the database refuses: no saved volume is without a saved
\* report row that holds it.
THEOREM CountsAreBacked == Spec => []CountsBacked
  <1>1. Spec => []BackedInv
    BY InitBackedInv, StepBackedInv, PTL DEF Spec
  <1>2. BackedInv => CountsBacked
    BY DEF BackedInv
  <1> QED
    BY <1>1, <1>2, PTL
-----------------------------------------------------------------------------
(***************************************************************************)
(* Listings without repeats, rows without refusals                         *)
(*                                                                         *)
(* What DuplicatesNeedFaults and ExactWithoutFaults say of the poll cycle  *)
(* they say of a listing that names each message once, of rows the         *)
(* database takes and of reports that spell each sender in one way:        *)
(* repeats and refusals are other ways to a duplicate, as runs of their    *)
(* own show, and the second of two new rows of one sender is refused as    *)
(* well. Then a message is worked on at most once between two commits: one *)
(* whose verdict is pending is neither still to come nor being processed,  *)
(* and a pending report row has such a verdict or is about to be saved.    *)
(***************************************************************************)
PlainMail ==
  /\ MaxListed = 1
  /\ Rejected = {}
  /\ \A m \in Messages : SpelledOnce(m)

Once ==
  /\ ~Polling => newLedger = NoStatus
  /\ OnMessage => batch[cur] = 0 /\ ledger[cur] = None
  /\ \A m \in Messages :
       /\ batch[m] <= 1
       /\ newLedger[m] # None => batch[m] = 0 /\ cur # m
       /\ newReports[m] <= 1
       /\ newReports[m] > 0 => newLedger[m] # None \/ (cur = m /\ pc = "save1")

OnceInv == VerdictInv /\ Once

LEMMA OnceTyped == OnceInv => Typed /\ CountInv /\ LocalsOK /\ TypeOK
  BY DEF OnceInv, VerdictInv, CountInv, Typed

\* The message being processed has neither a saved nor a pending verdict.
LEMMA CurrentIsUndecided ==
  ASSUME OnceInv, OnMessage
  PROVE  /\ cur \in Messages /\ cur # None
         /\ ledger[cur] = None /\ newLedger[cur] = None /\ batch[cur] = 0
         /\ pc # "save1" => newReports[cur] = 0
  <1>1. cur \in Messages /\ cur # None
    BY OnceTyped, ConstantsAssumption DEF LocalsOK
  <1>2. ledger[cur] = None /\ newLedger[cur] = None /\ batch[cur] = 0
    BY <1>1 DEF OnceInv, Once
  <1>3. newReports[cur] \in Nat
    BY <1>1, OnceTyped DEF TypeOK
  <1> QED
    BY <1>1, <1>2, <1>3 DEF OnceInv, Once

\* The steps that empty the unit of work outside of a message.
LEMMA FlushKeepsOnce ==
  ASSUME OnceInv, NothingPending, ~OnMessage', batch' = batch \/ batch' = NoCount
  PROVE  Once'
  <1>1. newLedger' = NoStatus /\ \A m \in Messages : newLedger'[m] = None /\ newReports'[m] = 0
    BY DEF NothingPending, NoStatus, NoCount
  <1>2. \A m \in Messages : batch'[m] <= 1
    BY DEF NoCount, OnceInv, Once
  <1> QED
    BY <1>1, <1>2 DEF Once

\* The message being processed gets a pending verdict; nothing else changes in
\* the unit of work.
LEMMA VerdictKeepsOnce ==
  ASSUME OnceInv, OnMessage, NEW status \in Statuses, AddLedgerRow(cur, status, newLedger),
         pc' = "loop", cur' = None, UNCHANGED <<newReports, batch>>
  PROVE  Once'
  <1>1. cur \in Messages /\ batch[cur] = 0 /\ status # None /\ None \notin Messages
    BY CurrentIsUndecided, ConstantsAssumption
  <1>2. \A m \in Messages : newLedger'[m] = IF m = cur THEN status ELSE newLedger[m]
    BY <1>1, OnceTyped DEF AddLedgerRow, TypeOK
  <1> QED
    BY <1>1, <1>2 DEF Once, OnceInv, Polling, OnMessage

LEMMA ConcludeKeepsOnce ==
  ASSUME OnceInv, OnMessage, NEW status \in Statuses, Conclude(status),
         UNCHANGED <<newReports, poll>>
  PROVE  Once'
  BY VerdictKeepsOnce DEF Conclude, ForgetMessage, poll

LEMMA InitOnceInv == Init => OnceInv
  <1> SUFFICES ASSUME Init PROVE OnceInv
    OBVIOUS
  <1>1. \A m \in Messages : newLedger[m] = None /\ newReports[m] = 0 /\ batch[m] = 0
    BY DEF Init, NoStatus, NoCount
  <1>2. ~OnMessage /\ newLedger = NoStatus
    BY DEF Init, OnMessage
  <1> QED
    BY <1>1, <1>2, InitVerdictInv DEF OnceInv, Once

LEMMA StepOnceInv == PlainMail /\ OnceInv /\ [Next]_vars => OnceInv'
  <1> SUFFICES ASSUME PlainMail, OnceInv, [Next]_vars
               PROVE  Once'
    BY StepVerdictInv DEF OnceInv
  <1>0. Typed' /\ TypeOK
    BY StepTyped, OnceTyped
  <1>1. CASE StartCycle
    BY <1>1, FlushKeepsOnce DEF StartCycle, OnMessage
  <1>2. ASSUME NEW b \in Mailboxes, NextMailbox(b)
        PROVE  Once'
    BY <1>2 DEF NextMailbox, OnceInv, Once, Polling, OnMessage, unit, message
  <1>3. CASE EndCycle \/ Restart
    BY <1>3 DEF EndCycle, Restart, Running, OnceInv, Once, Polling, OnMessage, unit, poll, message
  <1>4. CASE ListNewMessages
    <2>1. \A m \in Messages : batch'[m] <= 1
      <3>1. batch' \in [Messages -> 0 .. 1]
        BY <1>4 DEF ListNewMessages, PlainMail
      <3> QED
        BY <3>1
    <2>2. newLedger = NoStatus /\ UNCHANGED <<newLedger, newReports, cur>>
      BY <1>4 DEF ListNewMessages, OnceInv, Once, Polling, unit, message
    <2>3. \A m \in Messages : newLedger'[m] = None
      BY <2>2 DEF NoStatus
    <2>4. pc = "list" /\ pc' = "loop"
      BY <1>4 DEF ListNewMessages
    <2> QED
      BY <2>1, <2>2, <2>3, <2>4 DEF OnceInv, Once, Polling, OnMessage
  <1>5. CASE ListFails \/ CheckFails
    <2>1. /\ pc \in {"list", "loop"} /\ pc' = "finish" /\ batch' = NoCount
          /\ UNCHANGED <<newLedger, newReports, cur>>
      BY <1>5 DEF ListFails, CheckFails, PollFails, unit, message
    <2>2. \A m \in Messages : batch'[m] = 0
      BY <2>1 DEF NoCount
    <2> QED
      BY <2>1, <2>2 DEF OnceInv, Once, Polling, OnMessage
  <1>6. ASSUME NEW m \in Messages, Skip(m) \/ AlreadyProcessed(m) \/ NotProcessed(m)
        PROVE  Once'
    <2>1. /\ pc = "loop" /\ batch[m] > 0 /\ batch' = [batch EXCEPT ![m] = @ - 1]
          /\ UNCHANGED <<newLedger, newReports, ledger>>
          /\ \/ pc' = "loop" /\ cur' = cur
             \/ pc' = "fetch" /\ cur' = m /\ ledger[m] = None
      BY <1>6 DEF Skip, AlreadyProcessed, NotProcessed, db, unit, message
    <2>2. batch[m] \in Nat /\ batch[m] <= 1 /\ newLedger[m] = None
      BY <1>0, <2>1 DEF TypeOK, OnceInv, Once
    <2>3. batch'[m] = 0 /\ \A n \in Messages : n # m => batch'[n] = batch[n]
      BY <1>0, <2>1, <2>2 DEF TypeOK
    <2> QED
      BY <2>1, <2>2, <2>3 DEF OnceInv, Once, Polling, OnMessage
  <1>7. CASE EndBatch
    BY <1>7 DEF EndBatch, OnceInv, Once, Polling, OnMessage, unit, poll, message
  <1>8. CASE Finish \/ FinishFails \/ FinishUnacknowledged
    BY <1>8, FlushKeepsOnce
    DEF Finish, FinishFails, FinishUnacknowledged, AbandonCycle, ForgetPoll, OnMessage
  <1>9. CASE NothingToIngest
    BY <1>9, ConcludeKeepsOnce DEF NothingToIngest, OnMessage, Statuses
  <1>10. CASE FetchFails \/ SaveFails \/ ScoreFails
    BY <1>10, ConcludeKeepsOnce
    DEF FetchFails, SaveFails, ScoreFails, Scoring, OnMessage, Statuses
  <1>11. CASE AddReport
    <2>1. OnMessage
      BY <1>11 DEF AddReport, OnMessage
    <2>2. \A m \in Messages : newReports'[m] = IF m = cur THEN 1 ELSE newReports[m]
      BY <1>0, <1>11, <2>1, CurrentIsUndecided DEF AddReport, TypeOK
    <2>3. pc = "fetch" /\ pc' = "save1" /\ UNCHANGED <<newLedger, ledger, batch, cur>>
      BY <1>11 DEF AddReport, db, poll, message
    <2> QED
      BY <2>2, <2>3 DEF OnceInv, Once, Polling, OnMessage
  <1>12. CASE SaveReport
    <2>1. OnMessage
      BY <1>12 DEF SaveReport, OnMessage
    <2>2. ledger'[cur] = None
      BY <1>12, <2>1, CurrentIsUndecided DEF SaveReport, CommitRows
    <2>3. \A m \in Messages : newLedger'[m] = None /\ newReports'[m] = 0
      BY <1>12 DEF SaveReport, NothingPending, NoStatus, NoCount
    <2>4. pc' = "score" /\ UNCHANGED <<batch, cur>>
      BY <1>12 DEF SaveReport, poll, message
    <2> QED
      BY <2>1, <2>2, <2>3, <2>4 DEF OnceInv, Once, Polling, OnMessage
  <1>13. CASE SaveUnacknowledged
    BY <1>13, VerdictKeepsOnce
    DEF SaveUnacknowledged, ForgetMessage, OnMessage, Statuses, poll
  <1>14. CASE ScoreRecord
    BY <1>14 DEF ScoreRecord, Scoring, OnceInv, Once, Polling, OnMessage, db, poll
  <1>15. CASE EndScoring
    BY <1>15 DEF EndScoring, OnceInv, Once, Polling, OnMessage, db, unit, poll, message
  <1>16. CASE SaveScores
    <2>1. OnMessage /\ pc' = "loop" /\ cur' = None /\ UNCHANGED batch
      BY <1>16 DEF SaveScores, OnMessage, ForgetMessage, poll
    <2>2. \A m \in Messages : newReports'[m] = 0 /\ (newLedger'[m] # None => m = cur)
      BY <1>16 DEF SaveScores, AddLedgerRow, NoStatus, NoCount
    <2> QED
      BY <2>1, <2>2, CurrentIsUndecided DEF OnceInv, Once, Polling, OnMessage
  <1>17. CASE Stop \/ GraphTimeout
    BY <1>17, FlushKeepsOnce DEF Stop, GraphTimeout, Leave, ForgetPoll, OnMessage
  <1>18. CASE UNCHANGED vars \/ \E m \in Messages : Change(m)
    <2>1. UNCHANGED <<db, unit, pc, poll, message>>
      BY <1>18 DEF Change, vars
    <2> QED
      BY <2>1 DEF OnceInv, Once, Polling, OnMessage, db, unit, poll, message
  <1> QED
    BY <1>1, <1>2, <1>3, <1>4, <1>5, <1>6, <1>7, <1>8, <1>9, <1>10, <1>11, <1>12, <1>13,
       <1>14, <1>15, <1>16, <1>17, <1>18
    DEF Next, Work
-----------------------------------------------------------------------------
(***************************************************************************)
(* Duplicates need faults                                                  *)
(*                                                                         *)
(* Every report row of an undecided message is billed to a fault, and of a *)
(* decided one every row but the first.  One undecided message may have a  *)
(* row free of charge: the one whose report was saved last, as long as its *)
(* verdict goes with the next commit.  A fault takes that privilege away,  *)
(* which bills one row more, and a commit passes it on to the next message *)
(* after deciding the one that had it.                                     *)
(***************************************************************************)
Billed(fresh) ==
  [m \in Messages |-> IF ledger[m] # None \/ m = fresh THEN reports[m] - 1 ELSE reports[m]]

Fresh(m) ==
  /\ m \in Messages
  /\ ~poisoned
  /\ newReports[m] = 0
  /\ newLedger[m] # None \/ (cur = m /\ pc \in {"score", "save2"})

AtMost(count, bound) ==
  /\ IsFiniteSet(Numbered(count))
  /\ Cardinality(Numbered(count)) <= bound

Accounted(fresh) ==
  /\ fresh # None => Fresh(fresh)
  /\ AtMost(Billed(fresh), faults)

RepeatsInv == OnceInv /\ \E fresh \in Messages \cup {None} : Accounted(fresh)

LEMMA NumberedShrinks ==
  ASSUME NEW f, NEW g, NEW bound \in Nat, AtMost(f, bound),
         \A m \in Messages : f[m] \in Int /\ g[m] \in Int /\ g[m] <= f[m]
  PROVE  AtMost(g, bound)
  <1>1. Numbered(g) \in SUBSET Numbered(f)
    BY DEF Numbered
  <1>2. /\ IsFiniteSet(Numbered(g))
        /\ Cardinality(Numbered(g)) <= Cardinality(Numbered(f))
    BY <1>1, FS_Subset DEF AtMost
  <1>3. Cardinality(Numbered(g)) \in Nat /\ Cardinality(Numbered(f)) \in Nat
    BY <1>2, FS_CardinalityType DEF AtMost
  <1> QED
    BY <1>2, <1>3 DEF AtMost

LEMMA NumberedGrowsByOne ==
  ASSUME NEW f, NEW g, NEW bound \in Nat, AtMost(f, bound), NEW n \in Messages,
         \A m \in Messages : f[m] \in Int /\ g[m] \in Int,
         \A m \in Messages : m # n => g[m] <= f[m],
         g[n] <= f[n] + 1
  PROVE  AtMost(g, bound + 1)
  <1> DEFINE more == Numbered(f) \cup {<<n, f[n] + 1>>}
  <1>1. Numbered(g) \in SUBSET more
    <2> SUFFICES ASSUME NEW m \in Messages, NEW i \in 1 .. g[m]
                 PROVE  <<m, i>> \in more
      BY DEF Numbered
    <2>1. CASE i \in 1 .. f[m]
      BY <2>1 DEF Numbered
    <2>2. CASE i \notin 1 .. f[m]
      BY <2>2
    <2> QED
      BY <2>1, <2>2
  <1>2. /\ IsFiniteSet(more)
        /\ Cardinality(more) = IF <<n, f[n] + 1>> \in Numbered(f)
                                 THEN Cardinality(Numbered(f))
                                 ELSE Cardinality(Numbered(f)) + 1
    BY FS_AddElement DEF AtMost
  <1>3. IsFiniteSet(Numbered(g)) /\ Cardinality(Numbered(g)) <= Cardinality(more)
    BY <1>1, <1>2, FS_Subset
  <1>4. /\ Cardinality(Numbered(g)) \in Nat /\ Cardinality(Numbered(f)) \in Nat
        /\ Cardinality(more) \in Nat
    BY <1>2, <1>3, FS_CardinalityType DEF AtMost
  <1> QED
    BY <1>2, <1>3, <1>4 DEF AtMost

LEMMA BoundGrows ==
  ASSUME NEW f, NEW bound \in Nat, NEW more \in Nat, AtMost(f, bound), bound <= more
  PROVE  AtMost(f, more)
  <1>1. Cardinality(Numbered(f)) \in Nat
    BY FS_CardinalityType DEF AtMost
  <1> QED
    BY <1>1 DEF AtMost

LEMMA BilledTyped ==
  ASSUME TypeOK, NEW fresh, NEW m \in Messages
  PROVE  Billed(fresh)[m] \in Int
  BY DEF TypeOK, Billed

\* Only a save that committed unnoticed poisons the unit of work.
LEMMA PoisonNeedsFault ==
  ASSUME PlainMail, OnceInv, [Next]_vars, poisoned'
  PROVE  poisoned \/ SaveUnacknowledged
  <1>1. ASSUME OnMessage, NEW status \in Statuses, Conclude(status)
        PROVE  poisoned
    BY <1>1, CurrentIsUndecided DEF Conclude, LedgerRowRefused, PlainMail
  <1>2. CASE NothingToIngest
    BY <1>1, <1>2 DEF NothingToIngest, OnMessage, Statuses
  <1>3. CASE FetchFails \/ SaveFails \/ ScoreFails
    BY <1>1, <1>3 DEF FetchFails, SaveFails, ScoreFails, Scoring, OnMessage, Statuses
  <1>4. CASE AddReport
    BY <1>4 DEF AddReport, PlainMail
  <1>5. CASE ScoreRecord
    <2>1. CountInv /\ Scoring /\ cur \in Messages
      BY <1>5, OnceTyped DEF CountInv, Typed, LocalsOK, ScoreRecord, Scoring, OnMessage
    <2>2. Records[cur][rec] \in cached \/ Key[Records[cur][rec]] \notin newSenders
      <3> SUFFICES ASSUME Key[Records[cur][rec]] \in newSenders
                   PROVE  Records[cur][rec] \in cached
        OBVIOUS
      <3>1. PICK i \in 1 .. rec - 1 : Key[Records[cur][i]] = Key[Records[cur][rec]]
        BY <2>1 DEF CountInv, Scoring, Looked
      <3>2. rec \in Nat \ {0} /\ Len(Records[cur]) \in Nat /\ rec <= Len(Records[cur])
        BY <2>1, RecordsLength DEF CountInv, Typed, TypeOK, Scoring
      <3>3. i \in 1 .. Len(Records[cur]) /\ rec \in 1 .. Len(Records[cur])
        BY <3>1, <3>2
      <3>4. Records[cur][i] = Records[cur][rec]
        BY <2>1, <3>1, <3>3 DEF PlainMail, SpelledOnce
      <3> QED
        BY <2>1, <3>1, <3>4 DEF CountInv, Scoring, Looked
    <2> QED
      BY <1>5, <2>2 DEF ScoreRecord, PlainMail
  <1>6. CASE SaveScores
    <2>1. ledger'[cur] = None
      BY <1>6, CurrentIsUndecided DEF SaveScores, CommitRows, OnMessage
    <2> QED
      BY <1>6, <2>1 DEF SaveScores, PlainMail
  <1> QED
    BY <1>2, <1>3, <1>4, <1>5, <1>6
    DEF Next, Work, vars, unit, StartCycle, NextMailbox, EndCycle, ListNewMessages, Skip,
        AlreadyProcessed, NotProcessed, EndBatch, Finish, SaveReport, EndScoring, FinishFails,
        ListFails, CheckFails, FinishUnacknowledged, AbandonCycle, NothingPending, Stop,
        GraphTimeout, Leave, Restart, Change

\* A step that commits nothing and leaves the privilege where it is.
LEMMA KeepAccounts ==
  ASSUME OnceInv, TypeOK', NEW fresh \in Messages \cup {None}, Accounted(fresh),
         UNCHANGED <<reports, ledger>>, faults' >= faults,
         fresh # None => Fresh(fresh)'
  PROVE  \E f \in Messages \cup {None} : Accounted(f)'
  <1>1. Billed(fresh)' = Billed(fresh)
    BY DEF Billed
  <1>2. faults \in Nat /\ faults' \in Nat
    BY OnceTyped DEF TypeOK
  <1>3. AtMost(Billed(fresh), faults')
    BY <1>2, BoundGrows DEF Accounted
  <1>4. AtMost(Billed(fresh), faults)'
    BY <1>3 DEF AtMost, Numbered, Billed
  <1> QED
    BY <1>4 DEF Accounted

\* A fault that commits nothing takes the privilege away.
LEMMA FaultTakesPrivilege ==
  ASSUME OnceInv, NEW fresh \in Messages \cup {None}, Accounted(fresh),
         UNCHANGED <<reports, ledger>>, faults' = faults + 1
  PROVE  Accounted(None)'
  <1>0. TypeOK
    BY OnceTyped
  <1>1. faults \in Nat /\ \A m \in Messages : reports[m] \in Nat
    BY <1>0 DEF TypeOK
  <1>2. \A m \in Messages : Billed(fresh)[m] \in Int /\ Billed(None)[m] \in Int
    BY <1>0, BilledTyped
  <1>3. \A m \in Messages : Billed(None)[m] = IF m = fresh /\ ledger[m] = None
                                              THEN Billed(fresh)[m] + 1 ELSE Billed(fresh)[m]
    <2>1. \A m \in Messages : m # None
      BY ConstantsAssumption
    <2> QED
      BY <1>1, <2>1 DEF Billed
  <1>4. AtMost(Billed(None), faults + 1)
    <2>1. CASE fresh = None
      BY <1>1, <2>1, BoundGrows DEF Accounted
    <2>2. CASE fresh # None
      <3>1. fresh \in Messages
        BY <2>2
      <3> QED
        BY <1>1, <1>2, <1>3, <3>1, NumberedGrowsByOne DEF Accounted
    <2> QED
      BY <2>1, <2>2
  <1> QED
    BY <1>4 DEF Accounted, AtMost, Numbered, Billed
\* A commit decides every message whose verdict was pending.  It bills no row
\* more when the message being processed, if any, gets the privilege, and one
\* row more when nobody gets it.
LEMMA CommitBills ==
  ASSUME OnceInv, TypeOK', CommitRows, NEW fresh \in Messages \cup {None},
         fresh # None => Fresh(fresh),
         NEW next \in Messages \cup {None}, NEW m \in Messages
  PROVE  /\ m # cur \/ next = cur => Billed(next)'[m] <= Billed(fresh)[m]
         /\ m = cur => Billed(next)'[m] <= Billed(fresh)[m] + 1
  <1>0. TypeOK /\ LocalsOK /\ cur \in Messages \cup {None}
    BY OnceTyped DEF TypeOK
  <1>1. /\ reports[m] \in Nat /\ newReports[m] \in {0, 1}
        /\ reports'[m] = reports[m] + newReports[m]
        /\ ledger'[m] = IF newLedger[m] = None THEN ledger[m] ELSE newLedger[m]
    <2>1. reports[m] \in Nat /\ newReports[m] \in Nat
      BY <1>0 DEF TypeOK
    <2>2. newReports[m] <= 1
      BY DEF OnceInv, Once
    <2>3. newReports[m] \in {0, 1}
      BY <2>1, <2>2
    <2> QED
      BY <2>1, <2>3 DEF CommitRows
  <1>2. /\ Billed(fresh)[m] = IF ledger[m] # None \/ m = fresh THEN reports[m] - 1 ELSE reports[m]
        /\ Billed(next)'[m] = IF ledger'[m] # None \/ m = next THEN reports'[m] - 1 ELSE reports'[m]
    BY DEF Billed
  <1>3. m # None
    BY ConstantsAssumption
  <1>4. CASE newLedger[m] # None
    <2>1. m # cur /\ ledger'[m] # None /\ ledger[m] = None
      BY <1>1, <1>4 DEF OnceInv, Once, VerdictInv, CommitRows
    <2>2. m = fresh => newReports[m] = 0
      BY <1>3 DEF Fresh
    <2> QED
      BY <1>1, <1>2, <2>1, <2>2
  <1>5. CASE newLedger[m] = None /\ m # cur
    <2>1. newReports[m] = 0
      BY <1>1, <1>5 DEF OnceInv, Once
    <2>2. m # fresh
      BY <1>3, <1>5 DEF Fresh
    <2> QED
      BY <1>1, <1>2, <1>5, <2>1, <2>2
  <1>6. CASE newLedger[m] = None /\ m = cur
    <2>1. OnMessage
      BY <1>0, <1>3, <1>6 DEF LocalsOK
    <2>2. ledger[m] = None /\ ledger'[m] = None
      BY <1>1, <1>6, <2>1, CurrentIsUndecided
    <2>3. m = fresh => newReports[m] = 0
      BY <1>3 DEF Fresh
    <2> QED
      BY <1>1, <1>2, <1>6, <2>2, <2>3
  <1> QED
    BY <1>4, <1>5, <1>6

LEMMA CommitKeepsAccounts ==
  ASSUME OnceInv, TypeOK', CommitRows, NEW fresh \in Messages \cup {None}, Accounted(fresh),
         faults' >= faults, NEW next \in Messages \cup {None}, next # None => Fresh(next)',
         next = cur \/ faults' = faults + 1
  PROVE  Accounted(next)'
  <1>0. TypeOK
    BY OnceTyped
  <1>1. faults \in Nat /\ faults' \in Nat
    BY <1>0 DEF TypeOK
  <1>2. \A m \in Messages : Billed(fresh)[m] \in Int /\ Billed(next)'[m] \in Int
    <2>1. \A m \in Messages : reports[m] \in Nat /\ reports'[m] \in Nat
      BY <1>0 DEF TypeOK
    <2> QED
      BY <2>1 DEF Billed
  <1>3. \A m \in Messages :
          /\ m # cur \/ next = cur => Billed(next)'[m] <= Billed(fresh)[m]
          /\ m = cur => Billed(next)'[m] <= Billed(fresh)[m] + 1
    BY CommitBills DEF Accounted
  <1>4. AtMost(Billed(fresh), faults)
    BY DEF Accounted
  <1> DEFINE g == [m \in Messages |-> Billed(next)'[m]]
  <1>5. AtMost(g, faults')
    <2>1. CASE next = cur \/ cur \notin Messages
      <3>1. AtMost(g, faults)
        BY <1>1, <1>2, <1>3, <1>4, <2>1, NumberedShrinks
      <3> QED
        BY <1>1, <3>1, BoundGrows
    <2>2. CASE next # cur /\ cur \in Messages
      BY <1>1, <1>2, <1>3, <1>4, <2>2, NumberedGrowsByOne
    <2> QED
      BY <2>1, <2>2
  <1>6. g = [m \in Messages |-> IF ledger'[m] # None \/ m = next THEN reports'[m] - 1 ELSE reports'[m]]
    BY DEF Billed
  <1>7. AtMost(Billed(next), faults)'
    BY ZenonT(30), <1>5, <1>6 DEF AtMost, Numbered, Billed
  <1> QED
    BY <1>7 DEF Accounted

LEMMA InitRepeatsInv == Init => RepeatsInv
  <1> SUFFICES ASSUME Init PROVE RepeatsInv
    OBVIOUS
  <1>1. \A m \in Messages : Billed(None)[m] = 0
    BY ConstantsAssumption DEF Init, NoCount, NoStatus, Billed
  <1>2. Numbered(Billed(None)) = {}
    BY <1>1 DEF Numbered
  <1>3. Accounted(None)
    BY <1>2, FS_EmptySet DEF Accounted, AtMost, Init
  <1> QED
    BY <1>3, InitOnceInv DEF RepeatsInv

LEMMA StepRepeatsInv == PlainMail /\ RepeatsInv /\ [Next]_vars => RepeatsInv'
  <1> SUFFICES ASSUME PlainMail, OnceInv, [Next]_vars,
                      NEW fresh \in Messages \cup {None}, Accounted(fresh)
               PROVE  \E f \in Messages \cup {None} : Accounted(f)'
    BY StepOnceInv DEF RepeatsInv
  <1>0. TypeOK /\ TypeOK' /\ LocalsOK /\ OnceInv' /\ faults \in Nat
    BY OnceTyped, StepOnceInv, StepTyped DEF Typed, TypeOK
  <1>1. fresh # None => Fresh(fresh)
    BY DEF Accounted
  <1>2. fresh # None => fresh \in Messages /\ newReports[fresh] = 0 /\ ~poisoned
    BY <1>1 DEF Fresh
  <1>3. ~Polling => fresh = None
    BY <1>1 DEF OnceInv, Once, Fresh, NoStatus, Polling
  <1>4. CASE StartCycle \/ Restart
    <2>1. fresh = None /\ UNCHANGED <<reports, ledger, faults>>
      BY <1>3, <1>4 DEF StartCycle, Restart, Running, Polling, db
    <2> QED
      BY <1>0, <2>1, KeepAccounts
  <1>5. ASSUME UNCHANGED <<reports, ledger, newReports, newLedger>>, faults' >= faults,
               poisoned' => poisoned,
               (UNCHANGED cur /\ pc' \in {"score", "save2"}) \/ ~OnMessage \/ pc \in {"fetch", "save1"}
        PROVE  \E f \in Messages \cup {None} : Accounted(f)'
    <2>1. fresh # None => Fresh(fresh)'
      <3> SUFFICES ASSUME fresh # None
                   PROVE  Fresh(fresh)'
        OBVIOUS
      <3>1. cur = fresh /\ pc \in {"score", "save2"} => OnMessage /\ pc \notin {"fetch", "save1"}
        BY DEF OnMessage
      <3> QED
        BY <1>1, <1>5, <3>1 DEF Fresh
    <2> QED
      BY <1>0, <1>5, <2>1, KeepAccounts
  <1>6. CASE \/ \E b \in Mailboxes : NextMailbox(b)
             \/ EndCycle \/ ListNewMessages \/ EndBatch
             \/ \E m \in Messages : Skip(m) \/ AlreadyProcessed(m) \/ NotProcessed(m)
    <2>1. /\ UNCHANGED <<reports, ledger, newReports, newLedger, poisoned, faults>>
          /\ pc \in {"next", "list", "loop"}
      BY <1>6
      DEF NextMailbox, EndCycle, ListNewMessages, EndBatch, Skip, AlreadyProcessed,
          NotProcessed, db, unit
    <2> QED
      BY <1>0, <1>5, <2>1 DEF OnMessage
  <1>7. CASE ListFails \/ CheckFails
    <2>1. /\ UNCHANGED <<reports, ledger, newReports, newLedger, poisoned>>
          /\ pc \in {"list", "loop"} /\ faults' = faults + 1
      BY <1>7 DEF ListFails, CheckFails, PollFails, Fault, db, unit
    <2> QED
      BY <1>0, <1>5, <2>1 DEF OnMessage
  <1>8. CASE EndScoring \/ ScoreRecord
    <2>1. /\ UNCHANGED <<reports, ledger, newReports, newLedger, cur, faults>>
          /\ pc' \in {"score", "save2"}
      BY <1>8 DEF EndScoring, ScoreRecord, Scoring, db, unit, message
    <2>2. poisoned' => poisoned
      <3>1. ~SaveUnacknowledged
        BY <1>8 DEF EndScoring, ScoreRecord, Scoring, SaveUnacknowledged
      <3> QED
        BY <3>1, PoisonNeedsFault
    <2> QED
      BY <1>0, <1>5, <2>1, <2>2
  <1>9. ASSUME OnMessage, NEW status \in Statuses, Conclude(status), faults' >= faults,
               UNCHANGED <<reports, ledger, newReports>>
        PROVE  \E f \in Messages \cup {None} : Accounted(f)'
    <2>1. cur \in Messages /\ status # None
      BY <1>9, CurrentIsUndecided, ConstantsAssumption
    <2>2. \A m \in Messages : newLedger'[m] = IF m = cur THEN status ELSE newLedger[m]
      BY <1>0, <1>9, <2>1 DEF Conclude, AddLedgerRow, TypeOK
    <2>3. poisoned' => poisoned
      BY <1>9, CurrentIsUndecided DEF Conclude, LedgerRowRefused, PlainMail
    <2>4. fresh # None => Fresh(fresh)'
      BY <1>1, <1>9, <2>1, <2>2, <2>3 DEF Fresh
    <2> QED
      BY <1>0, <1>9, <2>4, KeepAccounts
  <1>10. ASSUME SaveThrows \/ Fault \/ UNCHANGED faults
         PROVE  faults' >= faults
    BY <1>0, <1>10 DEF SaveThrows, Fault
  <1>11. CASE NothingToIngest
    <2>1. (IF Content[cur] = "bad" THEN "Failed" ELSE "Skipped") \in Statuses /\ OnMessage
      BY <1>11 DEF NothingToIngest, Statuses, OnMessage
    <2> QED
      BY <1>9, <1>10, <1>11, <2>1 DEF NothingToIngest, db
  <1>12. CASE FetchFails \/ SaveFails \/ ScoreFails
    BY <1>9, <1>10, <1>12
    DEF FetchFails, SaveFails, ScoreFails, Scoring, OnMessage, Statuses, db
  <1>13. CASE AddReport
    <2>1. cur \in Messages /\ newLedger[cur] = None /\ pc = "fetch"
      BY <1>13, CurrentIsUndecided DEF AddReport, OnMessage
    <2>2. fresh # cur
      BY <1>1, <2>1, ConstantsAssumption DEF Fresh
    <2>3. (poisoned' => poisoned) /\ UNCHANGED <<reports, ledger, newLedger, cur, faults>>
      BY <1>13 DEF AddReport, PlainMail, db, message
    <2>4. fresh # None => newReports'[fresh] = newReports[fresh]
      BY <1>0, <1>2, <1>13, <2>2 DEF AddReport, TypeOK
    <2>5. fresh # None => Fresh(fresh)'
      BY <1>1, <2>1, <2>3, <2>4 DEF Fresh
    <2> QED
      BY <1>0, <2>3, <2>5, KeepAccounts
  <1>14. CASE SaveReport
    <2>1. cur \in Messages /\ CommitRows /\ UNCHANGED <<cur, faults>> /\ pc' = "score"
      BY <1>14, CurrentIsUndecided DEF SaveReport, OnMessage, message
    <2>2. ~poisoned' /\ newReports'[cur] = 0
      BY <1>14, <2>1 DEF SaveReport, NothingPending, NoCount
    <2>3. PICK next \in Messages : next = cur
      BY <2>1
    <2>4. Fresh(next)'
      BY <2>1, <2>2, <2>3 DEF Fresh
    <2>5. Accounted(next)'
      BY <1>0, <2>1, <2>3, <2>4, CommitKeepsAccounts
    <2> QED
      BY <2>5
  <1>15. CASE SaveScores
    <2>1. cur \in Messages /\ CommitRows /\ UNCHANGED faults
      BY <1>15, CurrentIsUndecided DEF SaveScores, OnMessage
    <2>2. PICK next \in Messages : next = cur
      BY <2>1
    <2>3. newReports'[next] = 0 /\ newLedger'[next] = "Success" /\ "Success" # None
      BY <1>15, <2>2, ConstantsAssumption DEF SaveScores, AddLedgerRow, NoCount, NoStatus, Statuses
    <2>4. ~poisoned'
      <3>1. ~poisoned /\ ~SaveUnacknowledged
        BY <1>0, <1>15 DEF SaveScores, SaveUnacknowledged, CommitRows, Fault
      <3> QED
        BY <3>1, PoisonNeedsFault
    <2>5. Fresh(next)'
      BY <2>3, <2>4 DEF Fresh
    <2>6. Accounted(next)'
      BY <1>0, <2>1, <2>2, <2>5, CommitKeepsAccounts
    <2> QED
      BY <2>6
  <1>16. CASE SaveUnacknowledged
    <2>1. CommitRows /\ faults' = faults + 1
      BY <1>16 DEF SaveUnacknowledged, Fault
    <2>2. Accounted(None)'
      BY <1>0, <2>1, CommitKeepsAccounts
    <2> QED
      BY <2>2
  <1>17. CASE Finish \/ FinishUnacknowledged
    <2>1. CommitRows /\ cur = None /\ faults' >= faults
      BY <1>0, <1>10, <1>17 DEF Finish, FinishUnacknowledged, LocalsOK, OnMessage
    <2>2. Accounted(None)'
      BY <1>0, <2>1, CommitKeepsAccounts
    <2> QED
      BY <2>2
  <1>18. CASE FinishFails \/ Stop \/ GraphTimeout
    <2>1. UNCHANGED <<reports, ledger>> /\ ((poisoned /\ UNCHANGED faults) \/ faults' = faults + 1)
      BY <1>18 DEF FinishFails, Stop, GraphTimeout, SaveThrows, Fault, db
    <2>2. CASE poisoned /\ UNCHANGED faults
      BY <1>0, <1>2, <2>1, <2>2, KeepAccounts
    <2>3. CASE faults' = faults + 1
      BY <2>1, <2>3, FaultTakesPrivilege
    <2> QED
      BY <2>1, <2>2, <2>3
  <1>19. CASE UNCHANGED vars \/ \E m \in Messages : Change(m)
    <2>1. UNCHANGED <<db, unit, pc, message, faults>>
      BY <1>19 DEF Change, vars
    <2>2. fresh # None => Fresh(fresh)'
      BY <1>1, <2>1 DEF Fresh, unit, message
    <2> QED
      BY <1>0, <2>1, <2>2, KeepAccounts DEF db
  <1> QED
    BY <1>4, <1>6, <1>7, <1>8, <1>11, <1>12, <1>13, <1>14, <1>15, <1>16, <1>17, <1>18, <1>19
    DEF Next, Work

\* For any mailboxes, messages and bounds, as long as a listing repeats nothing,
\* the database refuses no row for good and no report spells a sender in two
\* ways: the report rows beyond the first of their message are never more than
\* the faults.
THEOREM DuplicatesAreFaults ==
  ASSUME PlainMail
  PROVE  Spec => []DuplicatesNeedFaults
  <1>1. RepeatsInv => DuplicatesNeedFaults
    <2> SUFFICES ASSUME OnceInv, NEW fresh \in Messages \cup {None}, Accounted(fresh)
                 PROVE  DuplicatesNeedFaults
      BY DEF RepeatsInv
    <2>1. TypeOK
      BY OnceTyped
    <2>2. faults \in Nat /\ \A m \in Messages : reports[m] \in Nat
      BY <2>1 DEF TypeOK
    <2>3. \A m \in Messages : /\ Billed(fresh)[m] \in Int
                              /\ reports[m] - 1 <= Billed(fresh)[m]
      BY <2>2 DEF Billed
    <2>4. AtMost([m \in Messages |-> reports[m] - 1], faults)
      BY <2>2, <2>3, NumberedShrinks DEF Accounted
    <2> QED
      BY <2>4 DEF AtMost, DuplicatesNeedFaults
  <1>2. RepeatsInv /\ [Next]_vars => RepeatsInv'
    BY StepRepeatsInv
  <1>3. Spec => []RepeatsInv
    BY <1>2, InitRepeatsInv, PTL DEF Spec
  <1> QED
    BY <1>1, <1>3, PTL
-----------------------------------------------------------------------------
(***************************************************************************)
(* Exactly once without faults                                             *)
(*                                                                         *)
(* Until the first fault nothing poisons the unit of work, and every count *)
(* follows from how far its message has got, saved or pending.             *)
(***************************************************************************)
Stored(m) ==
  \/ "Success" \in {ledger[m], newLedger[m]}
  \/ cur = m /\ pc \in {"score", "save2"}

Exact(m) ==
  /\ reports[m] = IF Stored(m) THEN 1 ELSE 0
  /\ newReports[m] = IF cur = m /\ pc = "save1" THEN 1 ELSE 0
  /\ rolled[m] + newRolled[m] = IF cur = m /\ pc = "score" THEN rec - 1
                                ELSE IF Stored(m) THEN Len(Records[m]) ELSE 0

ExactState ==
  /\ ~poisoned
  /\ ~Polling => newRolled = NoCount
  /\ pc = "score" => rec <= Len(Records[cur]) + 1
  /\ \A m \in Messages : Exact(m)

ExactInv == OnceInv /\ (faults = 0 => ExactState)

LEMMA FaultsOnlyGrow ==
  ASSUME TypeOK, [Next]_vars, faults' = 0
  PROVE  faults = 0
  <1>1. Fault \/ UNCHANGED faults
    BY DEF Next, Work, vars, StartCycle, NextMailbox, EndCycle, ListNewMessages, Skip,
           AlreadyProcessed, NotProcessed, EndBatch, Finish, NothingToIngest, AddReport,
           SaveReport, ScoreRecord, EndScoring, SaveScores, SaveFails, FinishFails, SaveThrows,
           ListFails, CheckFails, PollFails, FinishUnacknowledged, FetchFails,
           SaveUnacknowledged, ScoreFails, Stop, GraphTimeout, Restart, Change
  <1> QED
    BY <1>1 DEF Fault, TypeOK

\* A step of a service without faults is one of the normal ones.
LEMMA FaultFreeStep ==
  ASSUME TypeOK, [Next]_vars, faults' = 0, ~poisoned
  PROVE  \/ StartCycle \/ EndCycle \/ ListNewMessages \/ EndBatch \/ Finish \/ Restart
         \/ \E b \in Mailboxes : NextMailbox(b)
         \/ \E m \in Messages : Skip(m) \/ AlreadyProcessed(m) \/ NotProcessed(m)
         \/ NothingToIngest \/ AddReport \/ SaveReport \/ ScoreRecord \/ EndScoring
         \/ SaveScores
         \/ UNCHANGED vars \/ \E m \in Messages : Change(m)
  <1>1. ~Fault /\ ~SaveThrows
    BY DEF Fault, SaveThrows, TypeOK
  <1>2. ~(SaveFails \/ FinishFails \/ ListFails \/ CheckFails \/ FinishUnacknowledged \/ FetchFails
          \/ SaveUnacknowledged \/ ScoreFails \/ Stop \/ GraphTimeout)
    BY <1>1
    DEF SaveFails, FinishFails, ListFails, CheckFails, PollFails, FinishUnacknowledged, FetchFails,
        SaveUnacknowledged, ScoreFails, Stop, GraphTimeout
  <1> QED
    BY <1>2 DEF Next, Work

\* A commit between two messages, or of a message that leaves it at that.
LEMMA CommitIsExact ==
  ASSUME OnceInv, TypeOK', ExactState, CommitRows, NEW m \in Messages, m # cur
  PROVE  /\ reports'[m] = reports[m] /\ newReports[m] = 0
         /\ rolled'[m] = rolled[m] + newRolled[m]
         /\ "Success" \in {ledger[m], newLedger[m]} <=> ledger'[m] = "Success"
  <1>1. TypeOK
    BY OnceTyped
  <1>2. /\ reports[m] \in Nat /\ newReports[m] = 0
        /\ newLedger[m] # None => ledger[m] = None
    <2>1. reports[m] \in Nat
      BY <1>1 DEF TypeOK
    <2>2. newReports[m] = 0
      BY DEF ExactState, Exact
    <2>3. newLedger[m] # None => ledger[m] = None
      BY DEF CommitRows, OnceInv, VerdictInv
    <2> QED
      BY <2>1, <2>2, <2>3
  <1>3. None # "Success"
    BY ConstantsAssumption DEF Statuses
  <1> QED
    BY <1>2, <1>3 DEF CommitRows

LEMMA StepExactInv == PlainMail /\ ExactInv /\ [Next]_vars => ExactInv'
  <1> SUFFICES ASSUME PlainMail, ExactInv, [Next]_vars, faults' = 0
               PROVE  ExactState'
    BY StepOnceInv DEF ExactInv
  <1>0. TypeOK /\ TypeOK' /\ LocalsOK /\ OnceInv /\ OnceInv'
    <2>1. OnceInv /\ OnceInv'
      BY StepOnceInv DEF ExactInv
    <2> QED
      BY <2>1, OnceTyped, StepTyped DEF Typed
  <1> DEFINE Flow == \/ StartCycle \/ EndCycle \/ ListNewMessages \/ EndBatch \/ Finish \/ Restart
                     \/ \E b \in Mailboxes : NextMailbox(b)
                     \/ \E m \in Messages : Skip(m) \/ AlreadyProcessed(m) \/ NotProcessed(m)
                     \/ NothingToIngest \/ AddReport \/ SaveReport \/ ScoreRecord \/ EndScoring
                     \/ SaveScores
                     \/ UNCHANGED vars \/ \E m \in Messages : Change(m)
  <1>1. faults = 0 /\ ExactState /\ ~poisoned /\ Flow
    <2>1. faults = 0
      BY <1>0, FaultsOnlyGrow
    <2> QED
      BY <1>0, <2>1, FaultFreeStep DEF ExactInv, ExactState
  <1>2. ~poisoned'
    <2>1. ~SaveUnacknowledged
      BY <1>0 DEF SaveUnacknowledged, Fault, TypeOK
    <2> QED
      BY <1>0, <1>1, <2>1, PoisonNeedsFault
  <1>3. \A m \in Messages : Exact(m)
    BY <1>1 DEF ExactState
  <1>4. "Success" # None /\ \A m \in Messages : m # None
    BY ConstantsAssumption DEF Statuses
  <1>5. ASSUME UNCHANGED <<reports, rolled, ledger, newReports, newRolled, newLedger>>,
               ~OnMessage, ~OnMessage' \/ pc' = "fetch", ~Polling' => ~Polling
        PROVE  ExactState'
    <2>1. cur = None /\ pc \notin {"save1", "score", "save2"}
      BY <1>0, <1>5 DEF LocalsOK, OnMessage
    <2>2. pc' \notin {"save1", "score", "save2"}
      BY <1>5 DEF OnMessage
    <2>3. \A m \in Messages : Exact(m)'
      BY <1>3, <1>5, <2>1, <2>2 DEF Exact, Stored
    <2> QED
      BY <1>1, <1>2, <1>5, <2>2, <2>3 DEF ExactState
  <1>6. ASSUME NothingPending, CommitRows \/ UNCHANGED <<reports, rolled, ledger>>,
               ~OnMessage, ~OnMessage', ~Polling \/ CommitRows
        PROVE  ExactState'
    <2>1. cur = None /\ pc \notin {"save1", "score", "save2"} /\ pc' \notin {"save1", "score", "save2"}
      BY <1>0, <1>6 DEF LocalsOK, OnMessage
    <2>2. newRolled' = NoCount /\ \A m \in Messages :
            newReports'[m] = 0 /\ newRolled'[m] = 0 /\ newLedger'[m] = None
      BY <1>6 DEF NothingPending, NoCount, NoStatus
    <2>3. ASSUME NEW m \in Messages
          PROVE  Exact(m)'
      <3>1. Exact(m) /\ m # cur
        BY <1>3, <1>4, <2>1
      <3>2. rolled'[m] \in Nat /\ rolled[m] \in Nat
        BY <1>0 DEF TypeOK
      <3>3. CASE CommitRows
        <4>1. /\ reports'[m] = reports[m] /\ rolled'[m] = rolled[m] + newRolled[m]
              /\ "Success" \in {ledger[m], newLedger[m]} <=> ledger'[m] = "Success"
          BY <1>0, <1>1, <3>1, <3>3, CommitIsExact
        <4> QED
          BY <1>4, <2>1, <2>2, <3>1, <3>2, <4>1 DEF Exact, Stored
      <3>4. CASE ~Polling /\ UNCHANGED <<reports, rolled, ledger>>
        <4>1. newRolled[m] = 0 /\ newLedger[m] = None
          BY <1>0, <1>1, <3>4 DEF ExactState, NoCount, NoStatus, OnceInv, Once
        <4> QED
          BY <1>4, <2>1, <2>2, <3>1, <3>4, <4>1 DEF Exact, Stored
      <3> QED
        BY <1>6, <3>3, <3>4
    <2> QED
      BY <1>2, <2>1, <2>2, <2>3 DEF ExactState
  <1>7. CASE StartCycle
    BY <1>6, <1>7 DEF StartCycle, OnMessage, Polling, db
  <1>8. CASE Finish
    BY <1>6, <1>8 DEF Finish, OnMessage
  <1>9. CASE \/ EndCycle \/ ListNewMessages \/ EndBatch \/ Restart
             \/ \E b \in Mailboxes : NextMailbox(b)
             \/ \E m \in Messages : Skip(m) \/ AlreadyProcessed(m) \/ NotProcessed(m)
    <2>1. /\ UNCHANGED <<reports, rolled, ledger, newReports, newRolled, newLedger>>
          /\ pc \in {"next", "list", "loop", "down", "faulted"}
          /\ pc' \in {"idle", "list", "loop", "finish", "fetch"}
          /\ pc = "loop" => pc' \in {"loop", "finish", "fetch"}
      BY <1>0, <1>9
      DEF EndCycle, ListNewMessages, EndBatch, Restart, Running, NextMailbox, Skip,
          AlreadyProcessed, NotProcessed, db, unit, TypeOK
    <2> QED
      BY <1>5, <2>1 DEF OnMessage, Polling
  <1>10. CASE NothingToIngest
    <2>1. OnMessage /\ pc = "fetch" /\ pc' = "loop"
      BY <1>10 DEF NothingToIngest, OnMessage, Conclude
    <2>2. PICK status \in {"Failed", "Skipped"} : Conclude(status)
      BY <1>10 DEF NothingToIngest
    <2>3. \A m \in Messages : newLedger'[m] = IF m = cur THEN status ELSE newLedger[m]
      BY <1>0, <2>1, <2>2, CurrentIsUndecided DEF Conclude, AddLedgerRow, TypeOK
    <2>4. cur' = None /\ UNCHANGED <<reports, rolled, ledger, newReports, newRolled>>
      BY <1>10, <2>2 DEF NothingToIngest, Conclude, ForgetMessage, db
    <2>5. ledger[cur] = None /\ newLedger[cur] = None
      BY <1>0, <2>1, CurrentIsUndecided
    <2>6. \A m \in Messages : Stored(m)' <=> Stored(m)
      BY <1>4, <2>1, <2>2, <2>3, <2>4, <2>5 DEF Stored
    <2>7. \A m \in Messages : Exact(m)'
      BY <1>3, <1>4, <2>1, <2>4, <2>6 DEF Exact
    <2> QED
      BY <1>2, <2>1, <2>7 DEF ExactState, Polling
  <1>11. CASE AddReport
    <2>1. /\ pc = "fetch" /\ pc' = "save1" /\ cur \in Messages
          /\ UNCHANGED <<reports, rolled, ledger, newRolled, newLedger, cur>>
      BY <1>0, <1>11 DEF AddReport, LocalsOK, OnMessage, db, message
    <2>2. \A m \in Messages : newReports'[m] = IF m = cur THEN newReports[m] + 1 ELSE newReports[m]
      BY <1>0, <1>11, <2>1 DEF AddReport, TypeOK
    <2>3. \A m \in Messages : Exact(m)'
      BY <1>3, <2>1, <2>2 DEF Exact, Stored
    <2> QED
      BY <1>2, <2>1, <2>3 DEF ExactState, Polling
  <1>12. CASE SaveReport
    <2>1. /\ OnMessage /\ pc = "save1" /\ pc' = "score" /\ CommitRows /\ NothingPending
          /\ UNCHANGED <<cur, rec>>
      BY <1>12 DEF SaveReport, OnMessage, message
    <2>2. rec = 1 /\ cur \in Messages /\ Len(Records[cur]) \in Nat
      BY <1>0, <2>1, OnceTyped, CurrentIsUndecided, RecordsLength DEF CountInv
    <2>3. \A m \in Messages : newReports'[m] = 0 /\ newRolled'[m] = 0 /\ newLedger'[m] = None
      BY <2>1 DEF NothingPending, NoCount, NoStatus
    <2>4. ASSUME NEW m \in Messages
          PROVE  Exact(m)'
      <3>1. Exact(m) /\ rolled'[m] \in Nat
        BY <1>0, <1>3 DEF TypeOK
      <3>2. CASE m = cur
        <4>1. /\ reports'[m] = reports[m] + newReports[m]
              /\ rolled'[m] = rolled[m] + newRolled[m]
          BY <2>1 DEF CommitRows
        <4>2. ~Stored(m)
          BY <1>0, <1>4, <2>1, <3>2, CurrentIsUndecided DEF Stored
        <4> QED
          BY <2>1, <2>2, <2>3, <3>1, <3>2, <4>1, <4>2 DEF Exact, Stored
      <3>3. CASE m # cur
        BY <1>0, <1>1, <1>4, <2>1, <2>3, <3>1, <3>3, CommitIsExact DEF Exact, Stored
      <3> QED
        BY <3>2, <3>3
    <2> QED
      BY <1>2, <2>1, <2>2, <2>4 DEF ExactState, Polling
  <1>13. CASE ScoreRecord
    <2>1. /\ pc = "score" /\ cur \in Messages /\ rec \in Nat /\ rec <= Len(Records[cur])
          /\ rec' = rec + 1
          /\ UNCHANGED <<reports, rolled, ledger, newReports, newLedger, cur, pc>>
      BY <1>0, <1>13 DEF ScoreRecord, Scoring, LocalsOK, OnMessage, TypeOK, db
    <2>2. \A m \in Messages : /\ newRolled'[m] = IF m = cur THEN newRolled[m] + 1 ELSE newRolled[m]
                              /\ newRolled[m] \in Nat /\ rolled[m] \in Nat
                              /\ Len(Records[m]) \in Nat
      BY <1>0, <1>13, <2>1, RecordsLength DEF ScoreRecord, TypeOK
    <2>3. \A m \in Messages : Stored(m)' <=> Stored(m)
      BY <2>1 DEF Stored
    <2>4. ASSUME NEW m \in Messages
          PROVE  Exact(m)'
      <3>1. Exact(m) /\ (Stored(m)' <=> Stored(m)) /\ (m = cur => Stored(m))
        BY <1>3, <2>1, <2>3 DEF Stored
      <3>2. /\ reports'[m] = reports[m] /\ rolled'[m] = rolled[m] /\ newReports'[m] = newReports[m]
            /\ newRolled'[m] = IF m = cur THEN newRolled[m] + 1 ELSE newRolled[m]
            /\ newRolled[m] \in Nat /\ rolled[m] \in Nat
        BY <2>1, <2>2
      <3>3. CASE m = cur
        BY <2>1, <3>1, <3>2, <3>3 DEF Exact
      <3>4. CASE m # cur
        BY <2>1, <3>1, <3>2, <3>4 DEF Exact
      <3> QED
        BY <3>3, <3>4
    <2> QED
      BY <1>2, <2>1, <2>2, <2>4 DEF ExactState, Polling
  <1>14. CASE EndScoring
    <2>1. /\ pc = "score" /\ pc' = "save2" /\ cur \in Messages /\ rec \in Nat
          /\ rec > Len(Records[cur])
          /\ UNCHANGED <<reports, rolled, ledger, newReports, newRolled, newLedger, cur>>
      BY <1>0, <1>14 DEF EndScoring, LocalsOK, OnMessage, TypeOK, db, unit, message
    <2>2. rec - 1 = Len(Records[cur])
      BY <1>1, <2>1, RecordsLength DEF ExactState
    <2>3. \A m \in Messages : Exact(m)'
      BY <1>3, <2>1, <2>2 DEF Exact, Stored
    <2> QED
      BY <1>2, <2>1, <2>3 DEF ExactState, Polling
  <1>15. CASE SaveScores
    <2>1. OnMessage /\ pc = "save2" /\ pc' = "loop" /\ CommitRows /\ cur' = None
      BY <1>15 DEF SaveScores, OnMessage, ForgetMessage
    <2>2. \A m \in Messages : /\ newReports'[m] = 0 /\ newRolled'[m] = 0
                              /\ newLedger'[m] = IF m = cur THEN "Success" ELSE None
      BY <1>15 DEF SaveScores, AddLedgerRow, NoCount, NoStatus
    <2>3. ASSUME NEW m \in Messages
          PROVE  Exact(m)'
      <3>1. Exact(m) /\ rolled'[m] \in Nat
        BY <1>0, <1>3 DEF TypeOK
      <3>2. CASE m = cur
        <4>1. /\ reports'[m] = reports[m] + newReports[m]
              /\ rolled'[m] = rolled[m] + newRolled[m]
          BY <2>1 DEF CommitRows
        <4> QED
          BY <1>4, <2>1, <2>2, <3>1, <3>2, <4>1 DEF Exact, Stored
      <3>3. CASE m # cur
        BY <1>0, <1>1, <1>4, <2>1, <2>2, <3>1, <3>3, CommitIsExact DEF Exact, Stored
      <3> QED
        BY <3>2, <3>3
    <2> QED
      BY <1>2, <2>1, <2>3 DEF ExactState, Polling
  <1>16. CASE UNCHANGED vars \/ \E m \in Messages : Change(m)
    <2>1. UNCHANGED <<db, unit, pc, message>>
      BY <1>16 DEF Change, vars
    <2>2. \A m \in Messages : Exact(m)'
      BY <1>3, <2>1 DEF Exact, Stored, db, unit, message
    <2> QED
      BY <1>1, <2>1, <2>2 DEF ExactState, Polling, unit, message
  <1> QED
    BY <1>1, <1>7, <1>8, <1>9, <1>10, <1>11, <1>12, <1>13, <1>14, <1>15, <1>16

\* Under the same assumptions, until a first fault, whatever the mailboxes hold
\* and however long the service runs: between two cycles every report of a
\* Success verdict is stored once and counted in full, and no other report is
\* stored or counted at all.
THEOREM FaultFreeIsExact ==
  ASSUME PlainMail
  PROVE  Spec => []ExactWithoutFaults
  <1>1. Init => ExactInv
    <2> SUFFICES ASSUME Init PROVE ExactInv
      OBVIOUS
    <2>1. \A m \in Messages : Exact(m)
      BY ConstantsAssumption DEF Init, Exact, Stored, NoCount, NoStatus, Statuses
    <2> QED
      BY <2>1, InitOnceInv DEF Init, ExactInv, ExactState
  <1>2. ExactInv /\ [Next]_vars => ExactInv'
    BY StepExactInv
  <1>3. ExactInv => ExactWithoutFaults
    <2> SUFFICES ASSUME ExactInv, pc = "idle", faults = 0, NEW m \in Messages
                 PROVE  /\ rolled[m] = reports[m] * Len(Records[m])
                        /\ reports[m] = IF ledger[m] = "Success" THEN 1 ELSE 0
      BY DEF ExactWithoutFaults
    <2>1. Exact(m) /\ newRolled[m] = 0 /\ newLedger[m] = None
      BY DEF ExactInv, ExactState, OnceInv, Once, Polling, NoCount, NoStatus
    <2>2. rolled[m] \in Nat
      BY OnceTyped DEF ExactInv, TypeOK
    <2>3. Len(Records[m]) \in Nat /\ None # "Success"
      BY RecordsLength, ConstantsAssumption DEF Statuses
    <2>4. Stored(m) <=> ledger[m] = "Success"
      BY <2>1, <2>3 DEF Stored
    <2>5. /\ reports[m] = IF ledger[m] = "Success" THEN 1 ELSE 0
          /\ rolled[m] = IF ledger[m] = "Success" THEN Len(Records[m]) ELSE 0
      BY <2>1, <2>2, <2>4 DEF Exact
    <2>6. CASE ledger[m] = "Success"
      <3>1. reports[m] = 1 /\ rolled[m] = Len(Records[m])
        BY <2>5, <2>6
      <3> QED
        BY <2>3, <2>6, <3>1
    <2>7. CASE ledger[m] # "Success"
      <3>1. reports[m] = 0 /\ rolled[m] = 0
        BY <2>5, <2>7
      <3> QED
        BY <2>3, <2>7, <3>1
    <2> QED
      BY <2>6, <2>7
  <1>4. Spec => []ExactInv
    BY <1>1, <1>2, PTL DEF Spec
  <1> QED
    BY <1>3, <1>4, PTL
-----------------------------------------------------------------------------
(***************************************************************************)
(* A cycle ends                                                            *)
(*                                                                         *)
(* The mailboxes that are left; where the poll of one stands; how much of  *)
(* its listing is to come; where the message stands; and the records left. *)
(***************************************************************************)
InCycle == pc \notin {"idle", "down", "faulted"}

Stage ==
  IF pc = "list" THEN 3 ELSE IF Polling THEN 2 ELSE IF pc = "next" THEN 1 ELSE 0

Place ==
  IF pc = "fetch" THEN 5 ELSE IF pc = "save1" THEN 4 ELSE IF pc = "score" THEN 3
  ELSE IF pc = "save2" THEN 2 ELSE IF pc = "loop" THEN 1 ELSE 0

RecordsLeft == IF Scoring THEN Len(Records[cur]) + 1 - rec ELSE 0

Standing == <<Cardinality(todo), Stage, Cardinality(Numbered(batch)), Place, RecordsLeft>>

\* x comes before y in the lexicographic order.
Below(x, y) == \E i \in 1 .. 5 : x[i] < y[i] /\ \A k \in 1 .. i - 1 : x[k] = y[k]

LEMMA BelowAt ==
  ASSUME NEW x, NEW y
  PROVE  /\ x[1] < y[1] => Below(x, y)
         /\ x[1] = y[1] /\ x[2] < y[2] => Below(x, y)
         /\ x[1] = y[1] /\ x[2] = y[2] /\ x[3] < y[3] => Below(x, y)
         /\ x[1] = y[1] /\ x[2] = y[2] /\ x[3] = y[3] /\ x[4] < y[4] => Below(x, y)
         /\ x[1] = y[1] /\ x[2] = y[2] /\ x[3] = y[3] /\ x[4] = y[4] /\ x[5] < y[5] => Below(x, y)
  <1>1. ASSUME NEW i \in 1 .. 5, x[i] < y[i], \A k \in 1 .. i - 1 : x[k] = y[k]
        PROVE  Below(x, y)
    BY <1>1 DEF Below
  <1>2. x[1] < y[1] => Below(x, y)
    BY <1>1
  <1>3. x[1] = y[1] /\ x[2] < y[2] => Below(x, y)
    <2>1. 1 .. 2 - 1 = {1}
      OBVIOUS
    <2> QED
      BY <1>1, <2>1
  <1>4. x[1] = y[1] /\ x[2] = y[2] /\ x[3] < y[3] => Below(x, y)
    <2>1. 1 .. 3 - 1 = {1, 2}
      OBVIOUS
    <2> QED
      BY <1>1, <2>1
  <1>5. x[1] = y[1] /\ x[2] = y[2] /\ x[3] = y[3] /\ x[4] < y[4] => Below(x, y)
    <2>1. 1 .. 4 - 1 = {1, 2, 3}
      OBVIOUS
    <2> QED
      BY <1>1, <2>1
  <1>6. x[1] = y[1] /\ x[2] = y[2] /\ x[3] = y[3] /\ x[4] = y[4] /\ x[5] < y[5] => Below(x, y)
    <2>1. 1 .. 5 - 1 = {1, 2, 3, 4}
      OBVIOUS
    <2> QED
      BY <1>1, <2>1
  <1> QED
    BY <1>2, <1>3, <1>4, <1>5, <1>6

\* What a step has to lower, when it leaves what comes before alone.
LEMMA Descent ==
  /\ Cardinality(todo') < Cardinality(todo) => Below(Standing', Standing)
  /\ todo' = todo /\ Stage' < Stage => Below(Standing', Standing)
  /\ /\ todo' = todo /\ Stage' = Stage
     /\ Cardinality(Numbered(batch')) < Cardinality(Numbered(batch))
     => Below(Standing', Standing)
  /\ todo' = todo /\ Stage' = Stage /\ batch' = batch /\ Place' < Place
     => Below(Standing', Standing)
  /\ /\ todo' = todo /\ Stage' = Stage /\ batch' = batch /\ Place' = Place
     /\ RecordsLeft' < RecordsLeft
     => Below(Standing', Standing)
  <1>1. /\ Standing[1] = Cardinality(todo) /\ Standing[2] = Stage
        /\ Standing[3] = Cardinality(Numbered(batch)) /\ Standing[4] = Place
        /\ Standing[5] = RecordsLeft
    BY DEF Standing
  <1>2. /\ Standing'[1] = Cardinality(todo') /\ Standing'[2] = Stage'
        /\ Standing'[3] = Cardinality(Numbered(batch')) /\ Standing'[4] = Place'
        /\ Standing'[5] = RecordsLeft'
    BY DEF Standing, Numbered
  <1> HIDE DEF Standing, Stage, Place, RecordsLeft
  <1> QED
    BY <1>1, <1>2, BelowAt

\* The listing repeats a message a bounded number of times.
ListingInv == Typed /\ batch \in [Messages -> 0 .. MaxListed]

LEMMA StepListingInv == ListingInv /\ [Next]_vars => ListingInv'
  <1> SUFFICES ASSUME ListingInv, [Next]_vars PROVE ListingInv'
    OBVIOUS
  <1>1. Typed'
    BY StepTyped DEF ListingInv
  <1>2. MaxListed \in Nat
    BY ConstantsAssumption
  <1>3. NoCount \in [Messages -> 0 .. MaxListed]
    BY <1>2 DEF NoCount
  <1>4. ASSUME NEW m \in Messages, batch[m] > 0, batch' = [batch EXCEPT ![m] = @ - 1]
        PROVE  batch' \in [Messages -> 0 .. MaxListed]
    BY <1>2, <1>4 DEF ListingInv
  <1>5. ListNewMessages => batch' \in [Messages -> 0 .. MaxListed]
    BY DEF ListNewMessages
  <1>6. ASSUME NEW m \in Messages, Skip(m) \/ AlreadyProcessed(m) \/ NotProcessed(m)
        PROVE  batch' \in [Messages -> 0 .. MaxListed]
    BY <1>4, <1>6 DEF Skip, AlreadyProcessed, NotProcessed
  <1>7. \/ ListNewMessages
        \/ \E m \in Messages : Skip(m) \/ AlreadyProcessed(m) \/ NotProcessed(m)
        \/ batch' = NoCount \/ batch' = batch
    <2>1. ListFails \/ CheckFails \/ Finish \/ FinishFails \/ FinishUnacknowledged \/ Stop \/ GraphTimeout
          => batch' = NoCount
      BY DEF ListFails, CheckFails, PollFails, Finish, FinishFails, FinishUnacknowledged,
             AbandonCycle, ForgetPoll, Stop, GraphTimeout, Leave
    <2>2. \/ StartCycle \/ (\E b \in Mailboxes : NextMailbox(b)) \/ EndCycle \/ EndBatch
          \/ NothingToIngest \/ AddReport \/ SaveReport \/ ScoreRecord \/ EndScoring
          \/ SaveScores \/ SaveFails \/ FetchFails \/ SaveUnacknowledged \/ ScoreFails
          \/ Restart \/ (\E m \in Messages : Change(m)) \/ UNCHANGED vars
          => batch' = batch
      BY DEF StartCycle, NextMailbox, EndCycle, EndBatch, NothingToIngest, AddReport,
             SaveReport, ScoreRecord, EndScoring, SaveScores, SaveFails, FetchFails,
             SaveUnacknowledged, ScoreFails, Restart, Change, vars, poll
    <2> QED
      BY <2>1, <2>2 DEF Next, Work
  <1> QED
    BY <1>1, <1>3, <1>5, <1>6, <1>7 DEF ListingInv

LEMMA ListingIsFinite ==
  ASSUME IsFiniteSet(Messages), ListingInv
  PROVE  IsFiniteSet(Numbered(batch)) /\ Cardinality(Numbered(batch)) \in Nat
  <1>1. MaxListed \in Nat
    BY ConstantsAssumption
  <1>2. IsFiniteSet(Messages \X (1 .. MaxListed))
    <2>1. IsFiniteSet(1 .. MaxListed)
      BY <1>1, FS_Interval, 1 \in Int, MaxListed \in Int
    <2> QED
      BY <2>1, FS_Product
  <1>3. Numbered(batch) \in SUBSET (Messages \X (1 .. MaxListed))
    BY <1>1 DEF ListingInv, Numbered
  <1> QED
    BY <1>2, <1>3, FS_Subset, FS_CardinalityType

\* Taking a message off the listing leaves less of it.
LEMMA ListingShrinks ==
  ASSUME IsFiniteSet(Messages), ListingInv, NEW m \in Messages, batch[m] > 0,
         NEW rest \in [Messages -> Nat], rest[m] < batch[m],
         \A n \in Messages : rest[n] <= batch[n]
  PROVE  Cardinality(Numbered(rest)) < Cardinality(Numbered(batch))
  <1>1. batch \in [Messages -> Nat]
    BY DEF ListingInv, Typed, TypeOK
  <1>2. Numbered(rest) \in SUBSET Numbered(batch)
    BY <1>1 DEF Numbered
  <1>3. <<m, batch[m]>> \in Numbered(batch) /\ <<m, batch[m]>> \notin Numbered(rest)
    BY <1>1 DEF Numbered
  <1>4. IsFiniteSet(Numbered(batch)) /\ Cardinality(Numbered(batch)) \in Nat
    BY ListingIsFinite
  <1>5. /\ IsFiniteSet(Numbered(rest))
        /\ Cardinality(Numbered(rest)) <= Cardinality(Numbered(batch))
        /\ Cardinality(Numbered(batch)) # Cardinality(Numbered(rest))
    BY <1>2, <1>3, <1>4, FS_Subset
  <1>6. Cardinality(Numbered(rest)) \in Nat
    BY <1>5, FS_CardinalityType
  <1> QED
    BY <1>4, <1>5, <1>6

\* The step that ends or breaks off the cycle.
LEMMA CycleLeft ==
  ASSUME IsFiniteSet(Mailboxes), ListingInv, todo' = {}, Stage' < Stage
  PROVE  Below(Standing', Standing)
  <1>1. IsFiniteSet(todo) /\ Cardinality(todo) \in Nat
    BY FS_Subset, FS_CardinalityType DEF ListingInv, Typed, TypeOK
  <1>2. Cardinality(todo') = 0
    BY FS_EmptySet
  <1>3. CASE todo = {}
    BY <1>3, Descent
  <1>4. CASE todo # {}
    <2>1. Cardinality(todo) # 0
      BY <1>1, <1>4, FS_EmptySet
    <2> QED
      BY <1>1, <1>2, <2>1, Descent
  <1> QED
    BY <1>3, <1>4

\* The next record is closer to the end of the list than this one.
LEMMA NextIsCloser ==
  ASSUME NEW length \in Nat, NEW n \in Nat, n <= length
  PROVE  length + 1 - (n + 1) < length + 1 - n /\ 0 < length + 1 - n
  OBVIOUS

LEMMA CycleStep ==
  ASSUME IsFiniteSet(Mailboxes), IsFiniteSet(Messages), ListingInv, [Next]_vars, InCycle
  PROVE  \/ Below(Standing', Standing)
         \/ \E m \in Messages : Change(m)
         \/ UNCHANGED vars
  <1>0. Typed /\ batch \in [Messages -> Nat]
    BY DEF ListingInv, Typed, TypeOK
  <1>1. ASSUME NEW b \in Mailboxes, NextMailbox(b)
        PROVE  Below(Standing', Standing)
    <2>1. b \in todo /\ todo' = todo \ {b}
      BY <1>1 DEF NextMailbox
    <2>2. IsFiniteSet(todo)
      BY <1>0, FS_Subset DEF Typed, TypeOK
    <2>3. Cardinality(todo') = Cardinality(todo) - 1 /\ Cardinality(todo) \in Nat
      BY <2>1, <2>2, FS_RemoveElement, FS_CardinalityType
    <2> QED
      BY <2>3, Descent
  <1>2. CASE EndCycle \/ ListNewMessages \/ ListFails \/ Finish
    <2>1. todo' = todo
      BY <1>2 DEF EndCycle, ListNewMessages, ListFails, Finish, poll
    <2>2. Stage' < Stage
      BY <1>2 DEF EndCycle, ListNewMessages, ListFails, PollFails, Finish, Stage, Polling
    <2> QED
      BY <2>1, <2>2, Descent
  <1>3. ASSUME NEW m \in Messages, Skip(m) \/ AlreadyProcessed(m) \/ NotProcessed(m)
        PROVE  Below(Standing', Standing)
    <2>1. /\ batch[m] > 0 /\ batch' = [batch EXCEPT ![m] = @ - 1] /\ todo' = todo
          /\ pc = "loop" /\ pc' \in {"loop", "fetch"}
      BY <1>3 DEF Skip, AlreadyProcessed, NotProcessed
    <2>2. Stage' = Stage
      BY <2>1 DEF Stage, Polling
    <2>3. batch' \in [Messages -> Nat] /\ batch'[m] < batch[m]
      BY <1>0, <2>1
    <2>4. \A n \in Messages : batch'[n] <= batch[n]
      BY <1>0, <2>1
    <2>5. Cardinality(Numbered(batch')) < Cardinality(Numbered(batch))
      BY <2>1, <2>3, <2>4, ListingShrinks
    <2> QED
      BY <2>1, <2>2, <2>5, Descent
  <1>4. CASE CheckFails
    <2>1. PICK m \in Messages : batch[m] > 0
      BY <1>4, ConstantsAssumption DEF CheckFails
    <2>2. batch' = NoCount /\ todo' = todo /\ pc = "loop" /\ pc' = "finish"
      BY <1>4 DEF CheckFails, PollFails
    <2>3. Stage' = Stage
      BY <2>2 DEF Stage, Polling
    <2>4. NoCount \in [Messages -> Nat] /\ NoCount[m] < batch[m]
      BY <1>0, <2>1 DEF NoCount
    <2>5. \A n \in Messages : NoCount[n] <= batch[n]
      BY <1>0 DEF NoCount
    <2>6. Cardinality(Numbered(NoCount)) < Cardinality(Numbered(batch))
      BY <2>1, <2>4, <2>5, ListingShrinks
    <2> QED
      BY <2>2, <2>3, <2>6, Descent
  <1>5. ASSUME \/ EndBatch \/ NothingToIngest \/ FetchFails \/ AddReport \/ SaveReport
               \/ SaveFails \/ SaveUnacknowledged \/ ScoreFails \/ EndScoring \/ SaveScores
        PROVE  Below(Standing', Standing)
    <2>1. todo' = todo /\ batch' = batch
      BY <1>5 DEF EndBatch, NothingToIngest, FetchFails, AddReport, SaveReport, SaveFails,
                  SaveUnacknowledged, ScoreFails, EndScoring, SaveScores, poll
    <2>2. \/ pc = "loop" /\ pc' = "finish"
          \/ pc \in {"fetch", "save1", "score", "save2"} /\ pc' = "loop"
          \/ pc = "fetch" /\ pc' = "save1"
          \/ pc = "save1" /\ pc' = "score"
          \/ pc = "score" /\ pc' = "save2"
      BY <1>5 DEF EndBatch, NothingToIngest, FetchFails, AddReport, SaveReport, SaveFails,
                  SaveUnacknowledged, ScoreFails, EndScoring, SaveScores, Conclude
    <2>3. Stage' = Stage /\ Place' < Place
      BY <2>2 DEF Stage, Polling, Place
    <2> QED
      BY <2>1, <2>3, Descent
  <1>6. CASE ScoreRecord
    <2>1. /\ todo' = todo /\ batch' = batch /\ pc' = pc /\ cur' = cur
          /\ rec' = rec + 1 /\ Scoring
      BY <1>6 DEF ScoreRecord, poll
    <2>2. Stage' = Stage /\ Place' = Place
      BY <2>1 DEF Stage, Polling, Place
    <2>3. cur \in Messages /\ rec \in Nat \ {0}
      BY <1>0, <2>1 DEF Typed, LocalsOK, OnMessage, Scoring, TypeOK
    <2>4. Len(Records[cur]) \in Nat
      BY <2>3, RecordsLength
    <2>5. RecordsLeft = Len(Records[cur]) + 1 - rec /\ rec <= Len(Records[cur])
      BY <2>1 DEF RecordsLeft, Scoring
    <2>6. RecordsLeft' \in {Len(Records[cur]) + 1 - (rec + 1), 0}
      BY <2>1 DEF RecordsLeft
    <2>7. RecordsLeft' < RecordsLeft
      BY <2>3, <2>4, <2>5, <2>6, NextIsCloser
    <2> QED
      BY <2>1, <2>2, <2>7, Descent
  <1>7. CASE FinishFails \/ FinishUnacknowledged \/ Stop \/ GraphTimeout
    <2>1. todo' = {} /\ pc' \in {"idle", "down", "faulted"}
      BY <1>7 DEF FinishFails, FinishUnacknowledged, AbandonCycle, Stop, GraphTimeout, Leave
    <2>2. Stage' = 0
      BY <2>1 DEF Stage, Polling
    <2>3. Stage \in {1, 2, 3}
      BY <1>0 DEF InCycle, Typed, TypeOK, Stage, Polling
    <2> QED
      BY <2>1, <2>2, <2>3, CycleLeft
  <1>8. ~StartCycle /\ ~Restart
    BY DEF InCycle, StartCycle, Restart, Running
  <1> QED
    BY <1>1, <1>2, <1>3, <1>4, <1>5, <1>6, <1>7, <1>8 DEF Next, Work

\* What a cycle has left is five numbers ...
LeftIsCounted == \A i \in 1 .. 5 : Standing[i] \in Nat

\* ... and every step of the service, also one that fails, lowers them.
CycleDescends ==
  [][InCycle => Below(Standing', Standing) \/ \E m \in Messages : Change(m)]_vars

\* However many mailboxes, messages and records there are, whatever fails, and however
\* much mail arrives meanwhile: each step a poll cycle takes leaves less of it, in a
\* lexicographic order of natural numbers, which has no endless descent.  A cycle can
\* neither run for ever nor go in circles.
THEOREM CyclesEnd ==
  ASSUME IsFiniteSet(Mailboxes), IsFiniteSet(Messages)
  PROVE  Spec => []LeftIsCounted /\ CycleDescends
  <1>1. Init => ListingInv
    <2>1. Init => batch \in [Messages -> 0 .. MaxListed]
      BY ConstantsAssumption DEF Init, NoCount
    <2> QED
      BY <2>1, InitTyped DEF ListingInv
  <1>2. ListingInv => LeftIsCounted
    <2> SUFFICES ASSUME ListingInv PROVE LeftIsCounted
      OBVIOUS
    <2>1. Cardinality(todo) \in Nat
      BY FS_Subset, FS_CardinalityType DEF ListingInv, Typed, TypeOK
    <2>2. Cardinality(Numbered(batch)) \in Nat
      BY ListingIsFinite
    <2>3. Stage \in Nat /\ Place \in Nat
      BY DEF Stage, Place
    <2>4. RecordsLeft \in Nat
      <3>1. CASE Scoring
        <4>1. cur \in Messages /\ rec \in Nat \ {0} /\ rec <= Len(Records[cur])
          BY <3>1 DEF ListingInv, Typed, LocalsOK, OnMessage, Scoring, TypeOK
        <4>2. Len(Records[cur]) \in Nat
          BY <4>1, RecordsLength
        <4> QED
          BY <3>1, <4>1, <4>2 DEF RecordsLeft
      <3>2. CASE ~Scoring
        BY <3>2 DEF RecordsLeft
      <3> QED
        BY <3>1, <3>2
    <2>5. 1 .. 5 = {1, 2, 3, 4, 5}
      OBVIOUS
    <2> HIDE DEF Stage, Place, RecordsLeft
    <2> QED
      BY <2>1, <2>2, <2>3, <2>4, <2>5 DEF LeftIsCounted, Standing
  <1>3. ListingInv /\ [Next]_vars
        => [InCycle => Below(Standing', Standing) \/ \E m \in Messages : Change(m)]_vars
    BY CycleStep
  <1> QED
    BY <1>1, <1>2, <1>3, StepListingInv, PTL DEF Spec, CycleDescends
=============================================================================
