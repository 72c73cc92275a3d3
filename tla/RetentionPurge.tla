--------------------------- MODULE RetentionPurge ---------------------------
(***************************************************************************)
(* RetentionPurgeService: the daily run that deletes the reports that are  *)
(* older than the retention window, in batches, beside an ingestion that   *)
(* inserts reports and an administrator who removes domains and changes    *)
(* the window.  A report stands for its row and the child rows that SQL    *)
(* Server's cascade deletes with it.                                       *)
(***************************************************************************)
EXTENDS Integers, FiniteSets

CONSTANTS
  Reports,     \* ids of AggregateReport rows; an id is never used again
  Domains,     \* the domain names an administrator may monitor
  DomainOf,    \* the domain of a report
  End,         \* DateRangeEndUtc of a report, in days
  Windows,     \* the values RetentionDays may take
  BatchSize,   \* rows per delete statement: 500
  MaxDay,      \* bound: the last day
  MaxChanges,  \* bound: what administrators do
  MaxFaults,   \* bound: failed statements and crashes
  None

ASSUME ConstantsAssumption ==
  /\ IsFiniteSet(Reports)
  /\ DomainOf \in [Reports -> Domains]
  /\ End \in [Reports -> Nat]
  /\ Windows \subseteq Nat
  /\ BatchSize \in Nat \ {0}
  /\ {MaxDay, MaxChanges, MaxFaults} \subseteq Nat
  /\ None \notin Nat

VARIABLES
  domains,      \* the Domain rows
  stored,       \* the AggregateReport rows
  used,         \* every id that was ever stored
  days,         \* RetentionSettings.RetentionDays, None while there is no row
  lastDeleted,  \* RetentionSettings.LastPurgeRowsDeleted
  now,          \* the day
  pc,           \* where the service stands
  cutoff,       \* the first day the run keeps
  ids,          \* idsToDelete
  total,        \* totalDeleted
  atStart,      \* history: the reports stored when the run began
  purged,       \* history: the rows the run's statements deleted
  tracked,      \* RetentionDays as the run's context has read it
  changes,      \* how much of MaxChanges is spent
  faults        \* how much of MaxFaults is spent

run == <<cutoff, ids, total, atStart, purged, tracked>>
vars == <<domains, stored, used, days, lastDeleted, now, pc, run, changes, faults>>

ForgetRun ==
  /\ cutoff' = 0
  /\ ids' = {}
  /\ total' = 0
  /\ atStart' = {}
  /\ purged' = {}
  /\ tracked' = None

Init ==
  /\ domains = {}
  /\ stored = {}
  /\ used = {}
  /\ days = None
  /\ lastDeleted = 0
  /\ now = 0
  /\ pc = "waiting"
  /\ cutoff = 0
  /\ ids = {}
  /\ total = 0
  /\ atStart = {}
  /\ purged = {}
  /\ tracked = None
  /\ changes = 0
  /\ faults = 0

-----------------------------------------------------------------------------
(***************************************************************************)
(* PurgeAsync                                                              *)
(***************************************************************************)
Expired(day) == {r \in stored : End[r] < day}

\* A tick of the timer, or the start of the service, before the setup.
NoSettings ==
  /\ pc = "waiting"
  /\ days = None
  /\ pc' = "done"
  /\ UNCHANGED <<domains, stored, used, days, lastDeleted, now, run, changes, faults>>

\* The settings are read, and the cutoff is computed once for the whole run.
Begin ==
  /\ pc = "waiting"
  /\ days # None
  /\ cutoff' = now - days
  /\ tracked' = days
  /\ total' = 0
  /\ ids' = {}
  /\ atStart' = stored
  /\ purged' = {}
  /\ pc' = "select"
  /\ UNCHANGED <<domains, stored, used, days, lastDeleted, now, changes, faults>>

\* OrderBy(DateRangeEndUtc).Take(BatchSize): which of two reports of one day
\* comes first is the database's choice.
OldestOf(batch, all) ==
  \A r \in batch, other \in all \ batch : End[r] <= End[other]

Select ==
  /\ pc = "select"
  /\ \E batch \in SUBSET Expired(cutoff) :
       /\ Cardinality(batch) <= BatchSize
       /\ Cardinality(batch) < BatchSize => batch = Expired(cutoff)
       /\ OldestOf(batch, Expired(cutoff))
       /\ ids' = batch
       /\ pc' = IF batch = {} THEN "save" ELSE "delete"
  /\ UNCHANGED <<domains, stored, used, days, lastDeleted, now, cutoff, total,
                 atStart, purged, tracked, changes, faults>>

\* Variants with a mistake: the batch size for the number of deleted rows, or
\* a loop that ends on the number of deleted rows.
DeletedRows_Batch == Cardinality(ids)
LastBatch_ByDeleted == Cardinality(ids \cap stored) < BatchSize

\* What ExecuteDeleteAsync returns: some rows of the batch may be gone already.
DeletedRows == Cardinality(ids \cap stored)
LastBatch == Cardinality(ids) < BatchSize

DeleteBatch ==
  /\ stored' = stored \ ids
  /\ purged' = purged \cup (ids \cap stored)

Delete ==
  /\ pc = "delete"
  /\ DeleteBatch
  /\ total' = total + DeletedRows
  /\ pc' = IF LastBatch THEN "save" ELSE "select"
  /\ ids' = {}
  /\ UNCHANGED <<domains, used, days, lastDeleted, now, cutoff, atStart, tracked,
                 changes, faults>>

\* Variant with a mistake: the whole settings row is written, as it was read.
Save_WholeRow ==
  /\ pc = "save"
  /\ lastDeleted' = total
  /\ days' = tracked
  /\ pc' = "done"
  /\ ForgetRun
  /\ UNCHANGED <<domains, stored, used, now, changes, faults>>

\* SaveChanges updates the columns that changed, RetentionDays never among them.
Save ==
  /\ pc = "save"
  /\ lastDeleted' = total
  /\ pc' = "done"
  /\ ForgetRun
  /\ UNCHANGED <<domains, stored, used, days, now, changes, faults>>

-----------------------------------------------------------------------------
(***************************************************************************)
(* The loop of ExecuteAsync, and what goes wrong                           *)
(***************************************************************************)
Fault ==
  /\ faults < MaxFaults
  /\ faults' = faults + 1

\* The timer ticks again.
Tick ==
  /\ pc = "done"
  /\ pc' = "waiting"
  /\ UNCHANGED <<domains, stored, used, days, lastDeleted, now, run, changes, faults>>

\* Variant with a mistake: the exception ends the loop.
RunFails_Ends ==
  /\ pc \in {"select", "delete", "save"}
  /\ Fault
  /\ pc' = "ended"
  /\ ForgetRun
  /\ UNCHANGED <<domains, stored, used, days, lastDeleted, now, changes>>

\* A statement throws: the exception is logged, the next tick starts over.
RunFails ==
  /\ pc \in {"select", "delete", "save"}
  /\ Fault
  /\ pc' = "done"
  /\ ForgetRun
  /\ UNCHANGED <<domains, stored, used, days, lastDeleted, now, changes>>

\* The delete commits, and the service only sees a broken connection.
DeleteUnacknowledged ==
  /\ pc = "delete"
  /\ Fault
  /\ stored' = stored \ ids
  /\ pc' = "done"
  /\ ForgetRun
  /\ UNCHANGED <<domains, used, days, lastDeleted, now, changes>>

\* A crash or a deployment, between two awaits.
Crash ==
  /\ pc # "down"
  /\ Fault
  /\ pc' = "down"
  /\ ForgetRun
  /\ UNCHANGED <<domains, stored, used, days, lastDeleted, now, changes>>

Restart ==
  /\ pc = "down"
  /\ pc' = "waiting"
  /\ UNCHANGED <<domains, stored, used, days, lastDeleted, now, run, changes, faults>>

-----------------------------------------------------------------------------
(***************************************************************************)
(* The ingestion, the administrator and the calendar                       *)
(***************************************************************************)

\* A message that arrives late may bring a report that is expired already.
Ingest(r) ==
  /\ r \notin used
  /\ DomainOf[r] \in domains
  /\ stored' = stored \cup {r}
  /\ used' = used \cup {r}
  /\ UNCHANGED <<domains, days, lastDeleted, now, pc, run, changes, faults>>

Change ==
  /\ changes < MaxChanges
  /\ changes' = changes + 1

AddDomain(d) ==
  /\ d \notin domains
  /\ Change
  /\ domains' = domains \cup {d}
  /\ UNCHANGED <<stored, used, days, lastDeleted, now, pc, run, faults>>

\* Variant with a mistake: a foreign key that does not cascade.
RemoveDomain_Orphans(d) ==
  /\ d \in domains
  /\ Change
  /\ domains' = domains \ {d}
  /\ UNCHANGED <<stored, used, days, lastDeleted, now, pc, run, faults>>

\* The foreign key deletes the domain's reports with it.
RemoveDomain(d) ==
  /\ d \in domains
  /\ Change
  /\ domains' = domains \ {d}
  /\ stored' = {r \in stored : DomainOf[r] # d}
  /\ UNCHANGED <<used, days, lastDeleted, now, pc, run, faults>>

SetRetention(n) ==
  /\ Change
  /\ days' = n
  /\ UNCHANGED <<domains, stored, used, lastDeleted, now, pc, run, faults>>

Midnight ==
  /\ now < MaxDay
  /\ now' = now + 1
  /\ UNCHANGED <<domains, stored, used, days, lastDeleted, pc, run, changes, faults>>

PurgeStep == NoSettings \/ Begin \/ Select \/ Delete \/ Save

Next ==
  \/ PurgeStep
  \/ Tick
  \/ RunFails
  \/ DeleteUnacknowledged
  \/ Crash
  \/ Restart
  \/ \E r \in Reports : Ingest(r)
  \/ \E d \in Domains : AddDomain(d)
  \/ \E d \in Domains : RemoveDomain(d)
  \/ \E n \in Windows : SetRetention(n)
  \/ Midnight

Spec == Init /\ [][Next]_vars

\* The service's own steps, the timer and the host that restarts it.
FairSpec == Spec /\ WF_vars(PurgeStep) /\ WF_vars(Tick) /\ WF_vars(Restart)

-----------------------------------------------------------------------------
TypeOK ==
  /\ domains \in SUBSET Domains
  /\ stored \in SUBSET {r \in used : DomainOf[r] \in domains}
  /\ used \in SUBSET Reports
  /\ days \in Windows \cup {None}
  /\ lastDeleted \in Nat
  /\ now \in Nat
  /\ pc \in {"waiting", "select", "delete", "save", "done", "down"}
  /\ cutoff \in Int
  /\ ids \in SUBSET used
  /\ total \in Nat
  /\ atStart \in SUBSET used
  /\ purged \in SUBSET used
  /\ tracked \in Windows \cup {None}
  /\ changes \in Nat
  /\ faults \in Nat

-----------------------------------------------------------------------------
(***************************************************************************)
(* Properties                                                              *)
(***************************************************************************)

\* A run that comes to its end has left nothing behind that was stored when it
\* began and is out of the window it began with, although the loop stops at the
\* first batch that is not full and rows come and go between two statements.
RunFinishesTheJob ==
  pc = "save" => atStart \cap Expired(cutoff) = {}

\* The number shown as the last run's deletions counts the rows the run deleted
\* itself, not those a removed domain took away between select and delete.
CountIsHonest ==
  pc = "save" => total = Cardinality(purged)

\* A window the administrator saves during a run survives the run's own save of
\* the same row.
WindowSurvivesTheRun ==
  [][days' # days => UNCHANGED pc]_vars

\* A report that is out of the window is deleted in the end, unless the window
\* is widened: past failed statements, crashes and concurrent changes.
OutOfWindow(r) == r \in stored /\ days # None /\ End[r] < now - days

ExpiredIsPurged ==
  \A r \in Reports : OutOfWindow(r) ~> ~OutOfWindow(r)
=============================================================================
