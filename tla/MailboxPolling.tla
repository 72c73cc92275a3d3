--------------------------- MODULE MailboxPolling ---------------------------
(***************************************************************************)
(* The poll cycle of MailboxPollingService together with the part of       *)
(* DmarcReportIngestionPipeline that touches the database.                 *)
(*                                                                         *)
(* The service is one process.  It keeps ONE Entity Framework context per  *)
(* cycle: rows that were added or modified stay in that unit of work until *)
(* some later SaveChanges commits all of them in one transaction, whichever *)
(* message they belong to.  The variables new* are that unit of work.  An  *)
(* action is the code between two awaits that can fail or be cut short.    *)
(***************************************************************************)
EXTENDS Integers, Sequences, FiniteSets

CONSTANTS
  Mailboxes,        \* the active mailboxes
  Messages,         \* Graph messages; an id is unique within its mailbox
  Sources,          \* source IPs of records as a report spells them, with its domain
  Senders,          \* (domain, source IP) pairs, the key of SenderReputations
  Key,              \* the sender that a spelling names: the index ignores the case
                    \* of the digits of an IPv6 address, reputationCache does not
  Inbox,            \* the mailbox of a message
  WithAttachments,  \* the messages whose HasAttachments is true
  Content,          \* what the attachments of a message hold
  Records,          \* the source IPs of the records of a report, in order (a record
                    \* whose source IP does not parse is stored and never scored)
  Rejected,         \* <<"report" | "scores" | "ledger", m>>: rows of m the
                    \* database refuses for good (a value longer than its column)
  MaxListed,        \* bound: how often one delta listing may repeat a message
  MaxFaults,        \* bound: crashes, timeouts, failed queries and failed saves
  MaxFeed,          \* bound: changes in one mailbox
  MaxReports,       \* bound: report rows of one message; stops a retry that never ends
  None

Statuses == {"Success", "Skipped", "Failed"}       \* MessageProcessingStatus
PollStatuses == {"NeverPolled", "Ok", "Error"}     \* MailboxPollStatus
Contents == {"none",     \* no attachment AttachmentExtractor recognises
             "bad",      \* attachments that never load or XML that never parses
             "foreign",  \* a report of a domain that is not monitored
             "report"}   \* a report of a monitored domain

ASSUME ConstantsAssumption ==
  /\ Inbox \in [Messages -> Mailboxes]
  /\ WithAttachments \subseteq Messages
  /\ Content \in [Messages -> Contents]
  /\ Key \in [Sources -> Senders]
  /\ Records \in [Messages -> Seq(Sources)]
  /\ MaxListed \in Nat \ {0}
  /\ {MaxFaults, MaxFeed, MaxReports} \subseteq Nat
  /\ None \notin Mailboxes \cup Messages \cup Statuses

VARIABLES
  feed,        \* per mailbox, the message changes Graph's delta query knows of
  reports,     \* DmarcAggregateReport rows per message
  rolled,      \* records of a message counted in some SenderReputation.TotalVolume
  senderRows,  \* the senders that have a SenderReputation row
  ledger,      \* the status of the ProcessedMessage row per message, or None
  deltaLink,   \* Mailbox.DeltaLink: how much of feed it has consumed, 0 for null
  pollStatus,  \* Mailbox.LastPollStatus
  newReports,  \* unit of work: report rows to insert
  newRolled,   \* unit of work: records to count
  newSenders,  \* unit of work: SenderReputation rows to insert
  newLedger,   \* unit of work: ProcessedMessage rows to insert
  poisoned,    \* unit of work: it holds a row that no SaveChanges can commit
  pc,          \* where the service stands
  todo,        \* mailboxes this cycle has not polled
  box,         \* the mailbox being polled
  batch,       \* how often each message is still to come in the listing
  newDelta,    \* MailboxPollResult.NewDeltaLink, or the old link if that was null
  newStatus,   \* the LastPollStatus the cycle is about to save
  cur,         \* the message being processed
  rec,         \* the record being scored
  cached,      \* the keys of reputationCache, which are spellings
  faults       \* how much of MaxFaults is spent

db == <<reports, rolled, senderRows, ledger, deltaLink, pollStatus>>
unit == <<newReports, newRolled, newSenders, newLedger, poisoned>>
poll == <<todo, box, batch, newDelta, newStatus>>
message == <<cur, rec, cached>>
vars == <<feed, db, unit, pc, poll, message, faults>>

NoCount == [m \in Messages |-> 0]
NoStatus == [m \in Messages |-> None]

Init ==
  /\ feed = [b \in Mailboxes |-> <<>>]
  /\ reports = NoCount
  /\ rolled = NoCount
  /\ senderRows = {}
  /\ ledger = NoStatus
  /\ deltaLink = [b \in Mailboxes |-> 0]
  /\ pollStatus = [b \in Mailboxes |-> "NeverPolled"]
  /\ newReports = NoCount
  /\ newRolled = NoCount
  /\ newSenders = {}
  /\ newLedger = NoStatus
  /\ poisoned = FALSE
  /\ pc = "idle"
  /\ todo = {}
  /\ box = None
  /\ batch = NoCount
  /\ newDelta = 0
  /\ newStatus = "NeverPolled"
  /\ cur = None
  /\ rec = 1
  /\ cached = {}
  /\ faults = 0

-----------------------------------------------------------------------------
(***************************************************************************)
(* SaveChanges and the unit of work                                        *)
(***************************************************************************)
Fault ==
  /\ faults < MaxFaults
  /\ faults' = faults + 1

\* The transaction of one SaveChanges, on everything but the Mailbox rows.
CommitRows ==
  /\ ~poisoned
  /\ reports' = [m \in Messages |-> reports[m] + newReports[m]]
  /\ rolled' = [m \in Messages |-> rolled[m] + newRolled[m]]
  /\ senderRows' = senderRows \cup newSenders
  /\ ledger' = [m \in Messages |->
                  IF newLedger[m] = None THEN ledger[m] ELSE newLedger[m]]

\* What a successful SaveChanges, or a new scope, leaves pending.
NothingPending ==
  /\ newReports' = NoCount
  /\ newRolled' = NoCount
  /\ newSenders' = {}
  /\ newLedger' = NoStatus
  /\ poisoned' = FALSE

\* SaveChanges throws and commits nothing; every row stays pending.
SaveThrows ==
  IF poisoned THEN UNCHANGED faults ELSE Fault

\* The locals of a poll and of a message are dead outside of them.
ForgetPoll ==
  /\ box' = None
  /\ batch' = NoCount
  /\ newDelta' = 0
  /\ newStatus' = "NeverPolled"

ForgetMessage ==
  /\ cur' = None
  /\ rec' = 1
  /\ cached' = {}

\* Variant with a mistake: no row for the message.
AddLedgerRow_Forgotten(m, status, pending) ==
  newLedger' = pending

\* db.ProcessedMessages.Add at the end of ProcessSingleMessageAsync, on top of
\* the pending ProcessedMessage rows in pending; (MailboxId, GraphMessageId) is
\* a unique index, so a second row for m can never be saved.
AddLedgerRow(m, status, pending) ==
  newLedger' = [pending EXCEPT ![m] = status]

LedgerRowRefused(m) ==
  \/ ledger[m] # None
  \/ newLedger[m] # None
  \/ <<"ledger", m>> \in Rejected

\* The message is over: its outcome becomes a pending ledger row.
Conclude(status) ==
  /\ AddLedgerRow(cur, status, newLedger)
  /\ poisoned' = (poisoned \/ LedgerRowRefused(cur))
  /\ pc' = "loop"
  /\ ForgetMessage

-----------------------------------------------------------------------------
(***************************************************************************)
(* PollOnceAsync and PollMailboxAsync                                      *)
(***************************************************************************)
StartCycle ==
  /\ pc = "idle"
  /\ \A m \in Messages : reports[m] < MaxReports
  /\ NothingPending
  /\ todo' = Mailboxes
  /\ pc' = "next"
  /\ UNCHANGED <<feed, db, box, batch, newDelta, newStatus, message, faults>>

NextMailbox(b) ==
  /\ pc = "next"
  /\ b \in todo
  /\ todo' = todo \ {b}
  /\ box' = b
  /\ pc' = "list"
  /\ UNCHANGED <<feed, db, unit, batch, newDelta, newStatus, message, faults>>

EndCycle ==
  /\ pc = "next"
  /\ todo = {}
  /\ pc' = "idle"
  /\ UNCHANGED <<feed, db, unit, poll, message, faults>>

\* The messages with a change that the delta link has not consumed.
Unseen(b) ==
  {feed[b][i] : i \in deltaLink[b] + 1 .. Len(feed[b])}

\* DrainDeltaPagesAsync keeps every item of every page, repeats included, and
\* the delta link of the last page, which may be absent.
ListNewMessages ==
  /\ pc = "list"
  /\ batch' \in [Messages -> 0 .. MaxListed]
  /\ \A m \in Messages : batch'[m] > 0 <=> m \in Unseen(box)
  /\ newDelta' \in {Len(feed[box]), deltaLink[box]}
  /\ newStatus' = "Ok"
  /\ pc' = "loop"
  /\ UNCHANGED <<feed, db, unit, todo, box, message, faults>>

\* Variants with a mistake: the failed listing counts as consumed, or a change
\* already consumed as unseen.
LinkAfterError_Consumed == Len(feed[box])
LinkAfterError_Rewound == deltaLink[box] - 1

LinkAfterError == deltaLink[box]

\* Caught in PollMailboxAsync: the mailbox is saved with status Error and its
\* old delta link.
PollFails ==
  /\ batch' = NoCount
  /\ newDelta' = LinkAfterError
  /\ newStatus' = "Error"
  /\ pc' = "finish"
  /\ Fault

ListFails ==
  /\ pc = "list"
  /\ PollFails
  /\ UNCHANGED <<feed, db, unit, todo, box, message>>

Skip(m) ==
  /\ pc = "loop"
  /\ batch[m] > 0
  /\ m \notin WithAttachments
  /\ batch' = [batch EXCEPT ![m] = @ - 1]
  /\ UNCHANGED <<feed, db, unit, pc, todo, box, newDelta, newStatus, message, faults>>

\* The AnyAsync query sees saved ledger rows only, not the pending ones.
AlreadyProcessed(m) ==
  /\ pc = "loop"
  /\ batch[m] > 0
  /\ m \in WithAttachments
  /\ ledger[m] # None
  /\ batch' = [batch EXCEPT ![m] = @ - 1]
  /\ UNCHANGED <<feed, db, unit, pc, todo, box, newDelta, newStatus, message, faults>>

\* Variant with a mistake: no look at the ledger.
NotProcessed_Unchecked(m) ==
  /\ pc = "loop"
  /\ batch[m] > 0
  /\ m \in WithAttachments
  /\ batch' = [batch EXCEPT ![m] = @ - 1]
  /\ cur' = m
  /\ pc' = "fetch"
  /\ UNCHANGED <<feed, db, unit, todo, box, newDelta, newStatus, rec, cached, faults>>

NotProcessed(m) ==
  /\ pc = "loop"
  /\ batch[m] > 0
  /\ m \in WithAttachments
  /\ ledger[m] = None
  /\ batch' = [batch EXCEPT ![m] = @ - 1]
  /\ cur' = m
  /\ pc' = "fetch"
  /\ UNCHANGED <<feed, db, unit, todo, box, newDelta, newStatus, rec, cached, faults>>

CheckFails ==
  /\ pc = "loop"
  /\ \E m \in WithAttachments : batch[m] > 0
  /\ PollFails
  /\ UNCHANGED <<feed, db, unit, todo, box, message>>

EndBatch ==
  /\ pc = "loop"
  /\ batch = NoCount
  /\ pc' = "finish"
  /\ UNCHANGED <<feed, db, unit, poll, message, faults>>

\* The mailbox row as the final SaveChanges of PollMailboxAsync writes it.
CommitMailbox ==
  /\ deltaLink' = [deltaLink EXCEPT ![box] = newDelta]
  /\ pollStatus' = [pollStatus EXCEPT ![box] = newStatus]

Finish ==
  /\ pc = "finish"
  /\ CommitRows
  /\ CommitMailbox
  /\ NothingPending
  /\ ForgetPoll
  /\ pc' = "next"
  /\ UNCHANGED <<feed, todo, message, faults>>

\* That SaveChanges is outside the try block: the exception ends the cycle, the
\* scope is disposed of, and the mailboxes still to do wait for the next tick.
AbandonCycle ==
  /\ NothingPending
  /\ ForgetPoll
  /\ todo' = {}
  /\ pc' = "idle"

FinishFails ==
  /\ pc = "finish"
  /\ SaveThrows
  /\ AbandonCycle
  /\ UNCHANGED <<feed, db, message>>

\* The transaction commits but the service only sees a broken connection.
FinishUnacknowledged ==
  /\ pc = "finish"
  /\ Fault
  /\ CommitRows
  /\ CommitMailbox
  /\ AbandonCycle
  /\ UNCHANGED <<feed, message>>

-----------------------------------------------------------------------------
(***************************************************************************)
(* ProcessSingleMessageAsync and ProcessMessageAsync                       *)
(***************************************************************************)

\* Attachments fetched, extracted and parsed, and nothing to ingest in them.
NothingToIngest ==
  /\ pc = "fetch"
  /\ Content[cur] # "report"
  /\ Conclude(IF Content[cur] = "bad" THEN "Failed" ELSE "Skipped")
  /\ UNCHANGED <<feed, db, newReports, newRolled, newSenders, poll, faults>>

\* Fetching the attachments or looking up the domain fails.
FetchFails ==
  /\ pc = "fetch"
  /\ Fault
  /\ Conclude("Failed")
  /\ UNCHANGED <<feed, db, newReports, newRolled, newSenders, poll>>

AddReport ==
  /\ pc = "fetch"
  /\ Content[cur] = "report"
  /\ newReports' = [newReports EXCEPT ![cur] = @ + 1]
  /\ poisoned' = (poisoned \/ <<"report", cur>> \in Rejected)
  /\ pc' = "save1"
  /\ UNCHANGED <<feed, db, newRolled, newSenders, newLedger, poll, message, faults>>

\* Variant with a mistake: the delta link is set before the loop over the batch,
\* so that the first save of the pipeline commits it with the report.
SaveReport_LinkFirst ==
  /\ pc = "save1"
  /\ CommitRows
  /\ CommitMailbox
  /\ NothingPending
  /\ pc' = "score"
  /\ UNCHANGED <<feed, poll, message, faults>>

SaveReport ==
  /\ pc = "save1"
  /\ CommitRows
  /\ NothingPending
  /\ pc' = "score"
  /\ UNCHANGED <<feed, deltaLink, pollStatus, poll, message, faults>>

\* Variant with a mistake: a failed save of the scores starts the scoring over,
\* with the first volumes still pending.
SaveFails_ScoresAgain ==
  /\ SaveThrows
  /\ \/ /\ pc = "save1"
        /\ Conclude("Failed")
        /\ UNCHANGED newReports
     \/ /\ pc = "save2" /\ Records[cur] # <<>>
        /\ pc' = "score"
        /\ rec' = 1
        /\ UNCHANGED <<newReports, newLedger, poisoned, cur, cached>>
  /\ UNCHANGED <<feed, db, newRolled, newSenders, poll>>

\* Variant with a mistake: only the failed save of the scores ends a message.
SaveFails_GoesOn ==
  /\ SaveThrows
  /\ \/ /\ pc = "save1"
        /\ pc' = "score"
        /\ UNCHANGED <<newLedger, poisoned, message>>
     \/ /\ pc = "save2" /\ Records[cur] # <<>>
        /\ Conclude("Failed")
  /\ UNCHANGED <<feed, db, newReports, newRolled, newSenders, poll>>

\* A SaveChanges inside the pipeline throws: caught in ProcessSingleMessageAsync.
SaveFails ==
  /\ \/ pc = "save1"
     \/ pc = "save2" /\ Records[cur] # <<>>
  /\ SaveThrows
  /\ Conclude("Failed")
  /\ UNCHANGED <<feed, db, newReports, newRolled, newSenders, poll>>

\* It committed nevertheless.  The context does not know: it will insert the
\* same keys again, which the database refuses.  (Rows that are updates only,
\* which a second save repeats without harm, end as after SaveFails.)
SaveUnacknowledged ==
  /\ \/ pc = "save1"
     \/ pc = "save2" /\ Records[cur] # <<>>
  /\ Fault
  /\ CommitRows
  /\ poisoned' = TRUE
  /\ AddLedgerRow(cur, "Failed", newLedger)
  /\ pc' = "loop"
  /\ ForgetMessage
  /\ UNCHANGED <<feed, deltaLink, pollStatus, newReports, newRolled, newSenders, poll>>

Scoring ==
  /\ pc = "score"
  /\ rec <= Len(Records[cur])

\* Variant with a mistake: no reputationCache.
Remember_Nothing(s) == UNCHANGED cached

Remember(s) == cached' = cached \cup {s}

\* UpsertSenderReputationAsync on the next record.  DNS failures are caught
\* inside; the row it looks up is a saved one of that key, or one the cache
\* remembers for that spelling.  A second new row of a key can never be saved.
ScoreRecord ==
  /\ Scoring
  /\ LET s == Records[cur][rec]
         isNew == s \notin cached /\ Key[s] \notin senderRows
     IN /\ Remember(s)
        /\ newSenders' = IF isNew THEN newSenders \cup {Key[s]} ELSE newSenders
        /\ poisoned' = (poisoned \/ (isNew /\ Key[s] \in newSenders)
                                 \/ <<"scores", cur>> \in Rejected)
  /\ newRolled' = [newRolled EXCEPT ![cur] = @ + 1]
  /\ rec' = rec + 1
  /\ UNCHANGED <<feed, db, newReports, newLedger, pc, poll, cur, faults>>

\* The query for the overrides, before the first record, or for a sender row.
ScoreFails ==
  /\ pc = "score"
  /\ \/ rec = 1
     \/ Scoring /\ Records[cur][rec] \notin cached
  /\ Fault
  /\ Conclude("Failed")
  /\ UNCHANGED <<feed, db, newReports, newRolled, newSenders, poll>>

\* Variant with a mistake: the last record is left out.
EndScoring_Early ==
  /\ pc = "score"
  /\ rec >= Len(Records[cur])
  /\ pc' = "save2"
  /\ UNCHANGED <<feed, db, unit, poll, message, faults>>

EndScoring ==
  /\ pc = "score"
  /\ rec > Len(Records[cur])
  /\ pc' = "save2"
  /\ UNCHANGED <<feed, db, unit, poll, message, faults>>

SaveScores ==
  /\ pc = "save2"
  /\ CommitRows
  /\ newReports' = NoCount
  /\ newRolled' = NoCount
  /\ newSenders' = {}
  /\ AddLedgerRow(cur, "Success", NoStatus)
  /\ poisoned' = (ledger'[cur] # None \/ <<"ledger", cur>> \in Rejected)
  /\ pc' = "loop"
  /\ ForgetMessage
  /\ UNCHANGED <<feed, deltaLink, pollStatus, poll, faults>>

-----------------------------------------------------------------------------
(***************************************************************************)
(* The process, and its environment                                        *)
(***************************************************************************)
Running == pc \notin {"down", "faulted"}

Leave(where) ==
  /\ pc' = where
  /\ NothingPending
  /\ ForgetPoll
  /\ ForgetMessage
  /\ todo' = {}

\* Shutdown, a deployment or a crash, between two awaits.  On a cancelled token
\* the next database or Graph call throws OperationCanceledException, which no
\* handler on the way out takes.
Stop ==
  /\ Running
  /\ Fault
  /\ Leave("down")
  /\ UNCHANGED <<feed, db>>

\* An HTTP timeout surfaces as a TaskCanceledException.  The filters take it
\* for a shutdown, ExecuteAsync ends with it, and the host stops.
GraphTimeout ==
  /\ pc \in {"list", "fetch"}
  /\ Fault
  /\ Leave("faulted")
  /\ UNCHANGED <<feed, db>>

Restart ==
  /\ ~Running
  /\ pc' = "idle"
  /\ UNCHANGED <<feed, db, unit, poll, message, faults>>

\* A message arrives, or changes again (it is read, moved, flagged).
Change(m) ==
  /\ Len(feed[Inbox[m]]) < MaxFeed
  /\ feed' = [feed EXCEPT ![Inbox[m]] = Append(@, m)]
  /\ UNCHANGED <<db, unit, pc, poll, message, faults>>

\* What the service does on its own; a save that fails ends a step as well.
Work ==
  \/ StartCycle
  \/ \E b \in Mailboxes : NextMailbox(b)
  \/ EndCycle
  \/ ListNewMessages
  \/ \E m \in Messages : Skip(m)
  \/ \E m \in Messages : AlreadyProcessed(m)
  \/ \E m \in Messages : NotProcessed(m)
  \/ EndBatch
  \/ Finish
  \/ NothingToIngest
  \/ AddReport
  \/ SaveReport
  \/ ScoreRecord
  \/ EndScoring
  \/ SaveScores
  \/ SaveFails
  \/ FinishFails

Next ==
  \/ Work
  \/ ListFails
  \/ CheckFails
  \/ FinishUnacknowledged
  \/ FetchFails
  \/ SaveUnacknowledged
  \/ ScoreFails
  \/ Stop
  \/ GraphTimeout
  \/ Restart
  \/ \E m \in Messages : Change(m)

Spec == Init /\ [][Next]_vars

\* The timer, the thread pool and the host restart policy keep the service
\* going; nothing obliges Graph or the database to fail, or mail to arrive.
FairSpec == Spec /\ WF_vars(Work) /\ WF_vars(Restart)

-----------------------------------------------------------------------------
TypeOK ==
  /\ feed \in [Mailboxes -> Seq(Messages)]
  /\ reports \in [Messages -> Nat]
  /\ rolled \in [Messages -> Nat]
  /\ senderRows \in SUBSET Senders
  /\ ledger \in [Messages -> Statuses \cup {None}]
  /\ deltaLink \in [Mailboxes -> Nat]
  /\ pollStatus \in [Mailboxes -> PollStatuses]
  /\ newReports \in [Messages -> Nat]
  /\ newRolled \in [Messages -> Nat]
  /\ newSenders \in SUBSET Senders
  /\ newLedger \in [Messages -> Statuses \cup {None}]
  /\ poisoned \in BOOLEAN
  /\ pc \in {"idle", "next", "list", "loop", "finish",
             "fetch", "save1", "score", "save2", "down", "faulted"}
  /\ todo \in SUBSET Mailboxes
  /\ box \in Mailboxes \cup {None}
  /\ batch \in [Messages -> Nat]
  /\ newDelta \in Nat
  /\ newStatus \in PollStatuses
  /\ cur \in Messages \cup {None}
  /\ rec \in Nat \ {0}
  /\ cached \in SUBSET Sources
  /\ faults \in Nat

-----------------------------------------------------------------------------
(***************************************************************************)
(* Properties                                                              *)
(***************************************************************************)
Passed == {m \in Messages :
             \E i \in 1 .. deltaLink[Inbox[m]] : feed[Inbox[m]][i] = m}

\* The delta link and the ledger are saved apart from the reports, and the
\* ledger rows only with some later SaveChanges; still the saved link never
\* moves past a message with attachments that has no saved verdict, so that
\* no crash or failure loses a report.
NoMessageLost ==
  \A m \in Passed \cap WithAttachments : ledger[m] # None

\* A Success row is never saved ahead of what it claims: the report row and
\* one counted record per record of the report are in the database with it.
SuccessMeansCounted ==
  \A m \in Messages : ledger[m] = "Success" =>
    /\ reports[m] > 0
    /\ rolled[m] >= Len(Records[m])

\* Whatever was retried, repeated or left pending, the volume counted for a
\* message never exceeds what its saved report rows contain.
CountsBacked ==
  \A m \in Messages : rolled[m] <= reports[m] * Len(Records[m])

\* The row of a sender is looked up in the database and in a cache that starts
\* empty with each message, and neither sees what is pending of an earlier one.
\* Still a second new row for the key of a pending one, which no save can commit,
\* is added in one case only: an earlier record of the same report spells that
\* key in another way.  Rows a failed save left pending never meet a new one,
\* since the first save of the next message flushes them or ends it.
ClashNeedsTwoSpellings ==
  Scoring /\ Records[cur][rec] \notin cached /\ Key[Records[cur][rec]] \in newSenders =>
    \E i \in 1 .. rec - 1 :
      /\ Key[Records[cur][i]] = Key[Records[cur][rec]]
      /\ Records[cur][i] # Records[cur][rec]

SpelledOnce(m) ==
  \A i, j \in 1 .. Len(Records[m]) :
    Key[Records[m][i]] = Key[Records[m][j]] => Records[m][i] = Records[m][j]

\* Without repeats in a listing, rows the database refuses and two spellings of
\* a sender in one report, a duplicate report needs a fault, and one fault
\* duplicates at most one report row: each save flushes the ledger rows of all
\* earlier messages.  The rows of a message beyond its first are numbered, to
\* count them over all messages.
Numbered(count) == UNION {{m} \X (1 .. count[m]) : m \in Messages}

DuplicatesNeedFaults ==
  Cardinality(Numbered([m \in Messages |-> reports[m] - 1])) <= faults

\* Under the same conditions, between cycles, in a service no fault ever hit,
\* every report is stored once and counted in full, and every processed message
\* has its verdict.
ExactWithoutFaults ==
  pc = "idle" /\ faults = 0 =>
    \A m \in Messages :
      /\ rolled[m] = reports[m] * Len(Records[m])
      /\ reports[m] = IF ledger[m] = "Success" THEN 1 ELSE 0

\* Ingestion implements the ledger: see MessageLedger.
Ledger == INSTANCE MessageLedger WITH
  Verdicts <- Statuses, verdict <- ledger, copies <- reports, passed <- Passed

ImplementsLedger == Ledger!Spec

\* Every message with attachments that arrives gets a verdict in the end, past
\* crashes, timeouts and failed saves, and whatever another message holds.
Healthy == {m \in WithAttachments : /\ SpelledOnce(m)
                                    /\ \A row \in {"report", "scores", "ledger"} :
                                         <<row, m>> \notin Rejected}
Arrived(m) == \E i \in 1 .. Len(feed[Inbox[m]]) : feed[Inbox[m]][i] = m

EveryMessageSettled == \A m \in Healthy : Arrived(m) ~> ledger[m] # None

\* ProcessedMessage's claim, and FR-ING-4's: a message is processed only once.
OneReportPerMessage ==
  \A m \in Messages : reports[m] <= 1

\* NFR-REL-2: no exception terminates the hosted service.
ServiceSurvives == pc # "faulted"
=============================================================================
