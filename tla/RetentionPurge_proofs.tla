----------------------- MODULE RetentionPurge_proofs -----------------------
(***************************************************************************)
(* The purge run does what it promises for any reports, any window and any *)
(* batch size: its job (RunIsComplete), its count (CountIsExact) and the   *)
(* window it leaves alone; what it may take (NothingElseGoes), in which    *)
(* order (OldestGoFirst), and that it comes to an end (RunsEnd).           *)
(***************************************************************************)
EXTENDS RetentionPurge, FiniteSetTheorems, TLAPS

LEMMA LaterIsFurther ==
  ASSUME NEW c \in Int, NEW n \in Nat, NEW m \in Nat, NEW t \in Nat, c <= n - t, n <= m
  PROVE  c <= m - t
OBVIOUS

USE ConstantsAssumption DEF vars, run

LEMMA EmptyCount == Cardinality({}) = 0 /\ IsFiniteSet({})
BY FS_EmptySet

\* What the state variables hold: TypeOK, every set of rows being finite.
LEMMA Finite == ASSUME TypeOK, NEW S \in SUBSET used
                PROVE  IsFiniteSet(S) /\ Cardinality(S) \in Nat
<1>1. used \subseteq Reports
  BY DEF TypeOK
<1>2. IsFiniteSet(S)
  BY <1>1, FS_Subset
<1> QED
  BY <1>2, FS_CardinalityType

\* The state a step sees has its types: no statement, failure or change by an
\* administrator leads out of them, and a stored report has its domain row.
THEOREM TypeCorrect == Spec => []TypeOK
<1>1. Init => TypeOK
  BY DEF Init, TypeOK
<1>2. TypeOK /\ [Next]_vars => TypeOK'
  <2> SUFFICES ASSUME TypeOK, [Next]_vars PROVE TypeOK'
    OBVIOUS
  <2> USE DEF TypeOK
  <2>1. CASE UNCHANGED vars
    BY <2>1
  <2>2. CASE NoSettings
    BY <2>2 DEF NoSettings
  <2>3. CASE Begin
    <3>1. days \in Nat /\ now - days \in Int
      BY <2>3 DEF Begin
    <3> QED
      BY <2>3, <3>1 DEF Begin
  <2>4. CASE Select
    <3>1. PICK batch \in SUBSET Expired(cutoff) :
             ids' = batch /\ pc' = IF batch = {} THEN "save" ELSE "delete"
      BY <2>4 DEF Select
    <3>2. batch \subseteq used
      BY DEF Expired
    <3> QED
      BY <2>4, <3>1, <3>2 DEF Select
  <2>5. CASE Delete
    <3>1. ids \cap stored \in SUBSET used
      OBVIOUS
    <3>2. Cardinality(ids \cap stored) \in Nat
      BY <3>1, Finite
    <3>3. total' \in Nat
      BY <2>5, <3>2 DEF Delete, DeletedRows
    <3>4. purged' \in SUBSET used' /\ stored' \in SUBSET {r \in used' : DomainOf[r] \in domains'}
      BY <2>5, <3>1 DEF Delete, DeleteBatch
    <3> QED
      BY <2>5, <3>3, <3>4 DEF Delete
  <2>6. CASE Save
    BY <2>6 DEF Save, ForgetRun
  <2>7. CASE Tick
    BY <2>7 DEF Tick
  <2>8. CASE RunFails
    BY <2>8 DEF RunFails, Fault, ForgetRun
  <2>9. CASE DeleteUnacknowledged
    BY <2>9 DEF DeleteUnacknowledged, Fault, ForgetRun
  <2>10. CASE Crash
    BY <2>10 DEF Crash, Fault, ForgetRun
  <2>11. CASE Restart
    BY <2>11 DEF Restart
  <2>12. CASE \E r \in Reports : Ingest(r)
    BY <2>12 DEF Ingest
  <2>13. CASE \E d \in Domains : AddDomain(d)
    BY <2>13 DEF AddDomain, Change
  <2>14. CASE \E d \in Domains : RemoveDomain(d)
    BY <2>14 DEF RemoveDomain, Change
  <2>15. CASE \E n \in Windows : SetRetention(n)
    BY <2>15 DEF SetRetention, Change
  <2>16. CASE Midnight
    BY <2>16 DEF Midnight
  <2> QED
    BY <2>1, <2>2, <2>3, <2>4, <2>5, <2>6, <2>7, <2>8, <2>9, <2>10, <2>11,
       <2>12, <2>13, <2>14, <2>15, <2>16 DEF Next, PurgeStep
<1> QED
  BY <1>1, <1>2, PTL DEF Spec

-----------------------------------------------------------------------------
(***************************************************************************)
(* RunFinishesTheJob is inductive with what a batch that is not full tells: *)
(* it holds every report of the start that is still stored and expired.     *)
(***************************************************************************)
Due == atStart \cap Expired(cutoff)

JobInv ==
  /\ pc = "save" => Due = {}
  /\ pc = "delete" /\ LastBatch => Due \subseteq ids

\* Steps of the others only shrink what is due: an id is never used again.
LEMMA DueShrinks ==
  ASSUME TypeOK, JobInv, UNCHANGED <<cutoff, atStart, ids, pc>>,
         stored' \cap atStart \subseteq stored
  PROVE  JobInv'
<1>1. Due' \subseteq Due
  BY DEF Due, Expired, TypeOK
<1>2. LastBatch' <=> LastBatch
  BY DEF LastBatch
<1> QED
  BY <1>1, <1>2 DEF JobInv

\* Whatever happens between two statements, a run that ends has deleted all
\* that was due when it began.
THEOREM RunIsComplete == Spec => []RunFinishesTheJob
<1>1. Init => JobInv
  BY DEF Init, JobInv
<1>2. TypeOK /\ JobInv /\ [Next]_vars => JobInv'
  <2> SUFFICES ASSUME TypeOK, JobInv, [Next]_vars PROVE JobInv'
    OBVIOUS
  <2>1. CASE UNCHANGED vars
    BY <2>1, DueShrinks
  <2>2. CASE pc' \notin {"save", "delete"}
    BY <2>2 DEF JobInv
  <2>3. CASE Select
    <3>1. PICK batch \in SUBSET Expired(cutoff) :
             /\ Cardinality(batch) < BatchSize => batch = Expired(cutoff)
             /\ ids' = batch
             /\ pc' = IF batch = {} THEN "save" ELSE "delete"
      BY <2>3 DEF Select
    <3>2. Expired(cutoff)' = Expired(cutoff) /\ Due' = Due
      BY <2>3 DEF Select, Expired, Due
    <3>3. CASE batch = {}
      BY <3>1, <3>2, <3>3, EmptyCount DEF JobInv, Due
    <3>4. CASE batch # {}
      BY <3>1, <3>2, <3>4 DEF JobInv, Due, LastBatch
    <3> QED
      BY <3>3, <3>4
  <2>4. CASE Delete
    <3>1. CASE LastBatch
      <4>1. Due \subseteq ids /\ pc' = "save"
        BY <2>4, <3>1 DEF Delete, JobInv
      <4>2. Due' = Due \ ids
        BY <2>4 DEF Delete, DeleteBatch, Due, Expired
      <4> QED
        BY <4>1, <4>2 DEF JobInv
    <3>2. CASE ~LastBatch
      BY <2>4, <3>2, <2>2 DEF Delete
    <3> QED
      BY <3>1, <3>2
  <2>5. CASE \E r \in Reports : Ingest(r)
    <3>1. PICK r \in Reports : Ingest(r)
      BY <2>5
    <3>2. stored' \cap atStart \subseteq stored
      BY <3>1 DEF Ingest, TypeOK
    <3> QED
      BY <3>1, <3>2, DueShrinks DEF Ingest
  <2>6. CASE \E d \in Domains : RemoveDomain(d)
    BY <2>6, DueShrinks DEF RemoveDomain
  <2>7. CASE \/ \E d \in Domains : AddDomain(d)
             \/ \E n \in Windows : SetRetention(n)
             \/ Midnight
    BY <2>7, DueShrinks DEF AddDomain, SetRetention, Midnight
  <2>8. CASE \/ NoSettings \/ Begin \/ Save \/ Tick \/ RunFails
             \/ DeleteUnacknowledged \/ Crash \/ Restart
    BY <2>8, <2>2 DEF NoSettings, Begin, Save, Tick, RunFails,
       DeleteUnacknowledged, Crash, Restart
  <2> QED
    BY <2>1, <2>3, <2>4, <2>5, <2>6, <2>7, <2>8 DEF Next, PurgeStep
<1>3. JobInv => RunFinishesTheJob
  BY DEF JobInv, RunFinishesTheJob, Due
<1> QED
  BY <1>1, <1>2, <1>3, TypeCorrect, PTL DEF Spec

-----------------------------------------------------------------------------
(***************************************************************************)
(* CountIsHonest: the rows the run deleted stay deleted, so that two        *)
(* statements never count the same row.                                     *)
(***************************************************************************)
CountInv ==
  /\ total = Cardinality(purged)
  /\ purged \cap stored = {}

LEMMA CountKept ==
  ASSUME TypeOK, CountInv, UNCHANGED <<total, purged>>,
         stored' \cap used \subseteq stored
  PROVE  CountInv'
BY DEF CountInv, TypeOK

LEMMA CountReset ==
  ASSUME total' = 0, purged' = {}
  PROVE  CountInv'
BY EmptyCount DEF CountInv

\* What a run reports as deleted is what it deleted, whatever else removes rows.
THEOREM CountIsExact == Spec => []CountIsHonest
<1>1. Init => CountInv
  BY EmptyCount DEF Init, CountInv
<1>2. TypeOK /\ CountInv /\ [Next]_vars => CountInv'
  <2> SUFFICES ASSUME TypeOK, CountInv, [Next]_vars PROVE CountInv'
    OBVIOUS
  <2>1. CASE UNCHANGED vars
    BY <2>1, CountKept
  <2>2. CASE Begin \/ Save \/ RunFails \/ DeleteUnacknowledged \/ Crash
    BY <2>2, CountReset DEF Begin, Save, RunFails, DeleteUnacknowledged, Crash, ForgetRun
  <2>3. CASE Delete
    <3> DEFINE gone == ids \cap stored
    <3>1. IsFiniteSet(gone) /\ IsFiniteSet(purged)
      BY Finite DEF TypeOK
    <3>2. purged \cap gone = {}
      BY DEF CountInv
    <3>3. Cardinality(purged \cup gone) = Cardinality(purged) + Cardinality(gone)
      <4>1. Cardinality(purged) \in Nat /\ Cardinality(gone) \in Nat
        BY Finite DEF TypeOK
      <4>2. Cardinality(purged \cup gone) =
              Cardinality(purged) + Cardinality(gone) - Cardinality(purged \cap gone)
        BY <3>1, FS_Union
      <4> QED
        BY SMTT(30), <3>2, <4>1, <4>2, EmptyCount
    <3>4. purged' = purged \cup gone /\ stored' = stored \ ids
      BY <2>3 DEF Delete, DeleteBatch
    <3>5. total' = total + Cardinality(gone)
      BY <2>3 DEF Delete, DeletedRows
    <3> QED
      BY <3>3, <3>4, <3>5 DEF CountInv
  <2>4. CASE \E r \in Reports : Ingest(r)
    <3>1. PICK r \in Reports : Ingest(r)
      BY <2>4
    <3>2. stored' \cap used \subseteq stored
      BY <3>1 DEF Ingest
    <3> QED
      BY <3>1, <3>2, CountKept DEF Ingest
  <2>5. CASE \/ NoSettings \/ Select \/ Tick \/ Restart \/ Midnight
             \/ \E d \in Domains : AddDomain(d)
             \/ \E d \in Domains : RemoveDomain(d)
             \/ \E n \in Windows : SetRetention(n)
    BY <2>5, CountKept DEF NoSettings, Select, Tick, Restart, Midnight,
       AddDomain, RemoveDomain, SetRetention
  <2> QED
    BY <2>1, <2>2, <2>3, <2>4, <2>5 DEF Next, PurgeStep
<1>3. CountInv => CountIsHonest
  BY DEF CountInv, CountIsHonest
<1> QED
  BY <1>1, <1>2, <1>3, TypeCorrect, PTL DEF Spec
-----------------------------------------------------------------------------
\* No step of the service touches the window: it changes by the administrator's
\* own step, during a run or outside of one, and keeps the value saved there.
THEOREM WindowIsTheAdministrators == Spec => WindowSurvivesTheRun
<1>1. [Next]_vars => [days' # days => UNCHANGED pc]_vars
  BY DEF Next, PurgeStep, NoSettings, Begin, Select, Delete, Save, Tick, RunFails,
         DeleteUnacknowledged, Crash, Restart, Ingest, AddDomain, RemoveDomain, SetRetention,
         Midnight, vars
<1> QED
  BY <1>1, PTL DEF Spec, WindowSurvivesTheRun

-----------------------------------------------------------------------------
(***************************************************************************)
(* Nothing else goes.  The cutoff is computed once, so that it may only be  *)
(* earlier than the day's; what a run selects is before it.                 *)
(***************************************************************************)
InRun == pc \in {"select", "delete", "save"}

CutoffInv ==
  /\ InRun => tracked \in Windows /\ cutoff <= now - tracked
  /\ ids \cup purged \subseteq {r \in Reports : End[r] < cutoff}

\* A report leaves the database with its domain, or because a run deletes it that
\* found it older than the window it had read; midnight, late arrivals and a
\* window changed meanwhile do not add to what a run takes.
OnlyExpiredGo ==
  [][\A r \in stored \ stored' :
       \/ DomainOf[r] \notin domains'
       \/ pc = "delete" /\ tracked \in Windows /\ End[r] < now - tracked]_vars

LEMMA CutoffForgotten ==
  ASSUME ids' = {}, purged' = {}, ~InRun'
  PROVE  CutoffInv'
BY DEF CutoffInv

LEMMA CutoffKept ==
  ASSUME TypeOK, CutoffInv, UNCHANGED <<cutoff, ids, purged, tracked>>,
         now' \in Nat, now <= now', InRun' => InRun
  PROVE  CutoffInv'
<1>1. ASSUME InRun' PROVE tracked' \in Windows /\ cutoff' <= now' - tracked'
  <2>1. tracked \in Nat /\ tracked \in Windows /\ cutoff \in Int /\ now \in Nat /\ cutoff <= now - tracked
    BY <1>1 DEF CutoffInv, TypeOK
  <2>2. tracked' = tracked /\ cutoff' = cutoff
    OBVIOUS
  <2>3. cutoff <= now' - tracked
    BY <2>1, LaterIsFurther
  <2> QED
    BY <2>1, <2>2, <2>3
<1> QED
  BY <1>1 DEF CutoffInv

LEMMA CutoffStep == ASSUME TypeOK, CutoffInv, [Next]_vars
                    PROVE  CutoffInv'
<1>0. now \in Nat /\ now <= now
  BY DEF TypeOK
<1>1. CASE UNCHANGED vars
  BY <1>0, <1>1, CutoffKept DEF InRun
<1>2. CASE Begin
  <2>1. days \in Windows /\ days \in Nat /\ now \in Nat
    BY <1>2 DEF Begin, TypeOK
  <2>2. tracked' \in Windows /\ cutoff' <= now' - tracked'
    BY <1>2, <2>1 DEF Begin
  <2> QED
    BY <1>2, <2>2 DEF Begin, CutoffInv
<1>3. CASE Select
  <2>1. PICK batch \in SUBSET Expired(cutoff) : ids' = batch
    BY <1>3 DEF Select
  <2>2. Expired(cutoff) \subseteq {r \in Reports : End[r] < cutoff}
    BY DEF Expired, TypeOK
  <2>3. InRun /\ UNCHANGED <<cutoff, purged, tracked, now>>
    BY <1>3 DEF Select, InRun
  <2> QED
    BY <2>1, <2>2, <2>3 DEF CutoffInv
<1>4. CASE Delete
  <2>1. InRun /\ UNCHANGED <<cutoff, tracked, now>> /\ ids' = {} /\ purged' \subseteq purged \cup ids
    BY <1>4 DEF Delete, DeleteBatch, InRun
  <2> QED
    BY <2>1 DEF CutoffInv
<1>5. CASE Save \/ RunFails \/ DeleteUnacknowledged \/ Crash
  BY <1>5, CutoffForgotten DEF Save, RunFails, DeleteUnacknowledged, Crash, ForgetRun, InRun
<1>6. CASE Midnight
  BY <1>0, <1>6, CutoffKept DEF Midnight, InRun
<1>7. CASE \/ NoSettings \/ Tick \/ Restart
           \/ \E r \in Reports : Ingest(r)
           \/ \E d \in Domains : AddDomain(d) \/ RemoveDomain(d)
           \/ \E n \in Windows : SetRetention(n)
  BY <1>0, <1>7, CutoffKept
     DEF NoSettings, Tick, Restart, Ingest, AddDomain, RemoveDomain, SetRetention, InRun
<1> QED
  BY <1>1, <1>2, <1>3, <1>4, <1>5, <1>6, <1>7 DEF Next, PurgeStep

\* Whatever runs beside it, the purge takes no report that the window of its run
\* still keeps: the steps of PurgeAsync, RemoveDomain's cascade and the failures.
THEOREM NothingElseGoes == Spec => OnlyExpiredGo
<1>1. Init => CutoffInv
  BY DEF Init, CutoffInv, InRun
<1>2. TypeOK /\ CutoffInv /\ [Next]_vars =>
        [\A r \in stored \ stored' :
           \/ DomainOf[r] \notin domains'
           \/ pc = "delete" /\ tracked \in Windows /\ End[r] < now - tracked]_vars
  <2> SUFFICES ASSUME TypeOK, CutoffInv, Next, NEW r \in stored \ stored', DomainOf[r] \in domains'
               PROVE  pc = "delete" /\ tracked \in Windows /\ End[r] < now - tracked
    BY DEF vars
  <2>1. Delete \/ DeleteUnacknowledged
    BY DEF Next, PurgeStep, NoSettings, Begin, Select, Save, Tick, RunFails, Crash, Restart,
           Ingest, AddDomain, RemoveDomain, SetRetention, Midnight
  <2>2. pc = "delete" /\ r \in ids
    BY <2>1 DEF Delete, DeleteBatch, DeleteUnacknowledged
  <2>3. End[r] < cutoff /\ r \in Reports /\ tracked \in Windows /\ cutoff <= now - tracked
    BY <2>2 DEF CutoffInv, InRun
  <2>4. End[r] \in Nat /\ cutoff \in Int /\ now \in Nat /\ tracked \in Nat
    BY <2>3 DEF TypeOK
  <2> QED
    BY <2>2, <2>3, <2>4
<1>3. TypeOK /\ CutoffInv /\ [Next]_vars => CutoffInv'
  BY CutoffStep
<1> QED
  BY <1>1, <1>2, <1>3, TypeCorrect, PTL DEF Spec, OnlyExpiredGo

-----------------------------------------------------------------------------
(***************************************************************************)
(* The oldest go first, so that a run that breaks off has done the part of  *)
(* its job that mattered most.                                             *)
(***************************************************************************)
OldestFirst ==
  \A p \in purged, r \in stored \cap atStart : End[p] <= End[r]

OldestInv ==
  /\ OldestFirst
  /\ \A i \in ids, r \in (stored \cap atStart) \ ids : End[i] <= End[r]

LEMMA OldestForgotten ==
  ASSUME ids' = {}, purged' = {}
  PROVE  OldestInv'
BY DEF OldestInv, OldestFirst

LEMMA OldestKept ==
  ASSUME OldestInv, UNCHANGED <<ids, purged, atStart>>, stored' \cap atStart \subseteq stored
  PROVE  OldestInv'
BY DEF OldestInv, OldestFirst

\* At each moment of a run, no report that was there at its start and still is, is
\* older than one that it has deleted: OrderBy(DateRangeEndUtc) before Take, in each
\* batch anew, beside late arrivals and domains that go.
THEOREM OldestGoFirst == Spec => []OldestFirst
<1>1. Init => OldestInv
  BY DEF Init, OldestInv, OldestFirst
<1>2. TypeOK /\ CutoffInv /\ OldestInv /\ [Next]_vars => OldestInv'
  <2> SUFFICES ASSUME TypeOK, CutoffInv, OldestInv, [Next]_vars PROVE OldestInv'
    OBVIOUS
  <2>1. CASE UNCHANGED vars
    BY <2>1, OldestKept
  <2>2. CASE Begin \/ Save \/ RunFails \/ DeleteUnacknowledged \/ Crash
    BY <2>2, OldestForgotten DEF Begin, Save, RunFails, DeleteUnacknowledged, Crash, ForgetRun
  <2>3. CASE Select
    <3>1. PICK batch \in SUBSET Expired(cutoff) : OldestOf(batch, Expired(cutoff)) /\ ids' = batch
      BY <2>3 DEF Select
    <3>2. UNCHANGED <<stored, atStart, purged>>
      BY <2>3 DEF Select
    <3>3. ASSUME NEW i \in batch, NEW r \in (stored \cap atStart) \ batch
          PROVE  End[i] <= End[r]
      <4>1. CASE r \in Expired(cutoff)
        BY <3>1, <4>1 DEF OldestOf
      <4>2. CASE r \notin Expired(cutoff)
        <5>1. End[i] < cutoff /\ ~(End[r] < cutoff) /\ i \in Reports /\ r \in Reports
          BY <3>1, <4>2 DEF Expired, TypeOK
        <5>2. End[i] \in Nat /\ End[r] \in Nat /\ cutoff \in Int
          BY <5>1 DEF TypeOK
        <5> QED
          BY <5>1, <5>2
      <4> QED
        BY <4>1, <4>2
    <3> QED
      BY <3>1, <3>2, <3>3 DEF OldestInv, OldestFirst
  <2>4. CASE Delete
    <3>1. /\ ids' = {} /\ atStart' = atStart /\ stored' = stored \ ids
          /\ purged' = purged \cup (ids \cap stored)
      BY <2>4 DEF Delete, DeleteBatch
    <3> QED
      BY <3>1 DEF OldestInv, OldestFirst
  <2>5. CASE \E r \in Reports : Ingest(r)
    <3>1. PICK r \in Reports : Ingest(r)
      BY <2>5
    <3>2. stored' \cap atStart \subseteq stored
      BY <3>1 DEF Ingest, TypeOK
    <3> QED
      BY <3>1, <3>2, OldestKept DEF Ingest
  <2>6. CASE \/ NoSettings \/ Tick \/ Restart \/ Midnight
             \/ \E d \in Domains : AddDomain(d) \/ RemoveDomain(d)
             \/ \E n \in Windows : SetRetention(n)
    BY <2>6, OldestKept
       DEF NoSettings, Tick, Restart, Midnight, AddDomain, RemoveDomain, SetRetention
  <2> QED
    BY <2>1, <2>2, <2>3, <2>4, <2>5, <2>6 DEF Next, PurgeStep
<1>3. OldestInv => OldestFirst
  BY DEF OldestInv
<1>4. Init => CutoffInv
  BY DEF Init, CutoffInv, InRun
<1>5. TypeOK /\ CutoffInv /\ [Next]_vars => CutoffInv'
  BY CutoffStep
<1> QED
  BY <1>1, <1>2, <1>3, <1>4, <1>5, TypeCorrect, PTL DEF Spec

-----------------------------------------------------------------------------
(***************************************************************************)
(* A run ends: what it has left to do is a number that each of its own      *)
(* statements makes smaller, and that nothing beside it makes larger.       *)
(* A report that is still to arrive counts for two, one that is stored or   *)
(* in the batch for one, and these count for more than the place in the     *)
(* loop.                                                                   *)
(***************************************************************************)
InReach == stored \cup ids
Coming == Reports \ used
Place == IF pc = "select" THEN 2 ELSE IF pc = "delete" THEN 1 ELSE 0
Left == 2 * (2 * Cardinality(Coming) + Cardinality(InReach)) + Place

BatchInv ==
  /\ pc = "select" => ids = {}
  /\ pc = "delete" => ids # {}

\* No run goes on for ever: within a run what is left never grows, and each
\* statement of PurgeAsync leaves less, so that a run takes at most 4 statements
\* for each report that is or will be there, and 2 more.
RunsShrink ==
  [][InRun /\ InRun' =>
       /\ Left \in 0 .. 4 * Cardinality(Reports) + 2
       /\ Left' <= Left
       /\ PurgeStep => Left' < Left]_vars

LEMMA LeftIsCounted ==
  ASSUME TypeOK
  PROVE  /\ IsFiniteSet(Coming) /\ Cardinality(Coming) \in Nat
         /\ IsFiniteSet(InReach) /\ Cardinality(InReach) \in Nat
         /\ Left \in 0 .. 4 * Cardinality(Reports) + 2
<1>1. used \subseteq Reports /\ InReach \subseteq used
  BY DEF TypeOK, InReach
<1>2. IsFiniteSet(Coming) /\ IsFiniteSet(InReach) /\ IsFiniteSet(used)
  BY <1>1, FS_Subset DEF Coming
<1>3. /\ Cardinality(Coming) \in Nat /\ Cardinality(InReach) \in Nat
      /\ Cardinality(used) \in Nat /\ Cardinality(Reports) \in Nat
  BY <1>2, FS_CardinalityType
<1>4. Cardinality(InReach) <= Cardinality(used)
  BY <1>1, <1>2, FS_Subset
<1>5. Cardinality(Coming) = Cardinality(Reports) - Cardinality(used)
  <2>1. Cardinality(Reports \ used) = Cardinality(Reports) - Cardinality(Reports \cap used)
    BY <1>2, FS_Difference
  <2>2. Reports \cap used = used
    BY <1>1
  <2> QED
    BY <2>1, <2>2 DEF Coming
<1>6. Place \in 0 .. 2
  BY DEF Place
<1> QED
  BY <1>2, <1>3, <1>4, <1>5, <1>6 DEF Left

\* Less in reach, as much to come: less is left, unless the loop goes back.
LEMMA ReachShrinks ==
  ASSUME TypeOK, TypeOK', used' = used, InReach' \subseteq InReach
  PROVE  /\ Place' <= Place => Left' <= Left
         /\ Place' < Place => Left' < Left
         /\ InReach' # InReach /\ Place' <= Place + 1 => Left' < Left
<1>1. Coming' = Coming
  BY DEF Coming
<1>2. /\ Cardinality(Coming) \in Nat
      /\ IsFiniteSet(InReach) /\ Cardinality(InReach) \in Nat /\ Cardinality(InReach') \in Nat
  <2>1. Cardinality(InReach') \in Nat
    BY LeftIsCounted, FS_Subset, FS_CardinalityType
  <2> QED
    BY <2>1, LeftIsCounted
<1>3. /\ Cardinality(InReach') <= Cardinality(InReach)
      /\ InReach' # InReach => Cardinality(InReach') < Cardinality(InReach)
  BY <1>2, FS_Subset
<1>4. Place \in 0 .. 2 /\ Place' \in 0 .. 2
  BY DEF Place
<1>5. /\ Left = 2 * (2 * Cardinality(Coming) + Cardinality(InReach)) + Place
      /\ Left' = 2 * (2 * Cardinality(Coming) + Cardinality(InReach')) + Place'
  BY <1>1 DEF Left
<1> QED
  BY <1>2, <1>3, <1>4, <1>5

\* No run of the purge is endless: not for rows that vanish from under it, and not for
\* the reports that arrive expired while it runs, as long as they are finitely many.
\* (The loop of PurgeAsync.)
THEOREM RunsEnd == Spec => RunsShrink
<1>1. Init => BatchInv
  BY DEF Init, BatchInv
<1>2. BatchInv /\ [Next]_vars => BatchInv'
  BY EmptyCount DEF BatchInv, Next, PurgeStep, NoSettings, Begin, Select, Delete, Save, Tick, RunFails,
         DeleteUnacknowledged, Crash, Restart, Ingest, AddDomain, RemoveDomain, SetRetention,
         Midnight, ForgetRun
<1>3. TypeOK /\ TypeOK' /\ BatchInv /\ [Next]_vars =>
        [InRun /\ InRun' =>
           /\ Left \in 0 .. 4 * Cardinality(Reports) + 2
           /\ Left' <= Left
           /\ PurgeStep => Left' < Left]_vars
  <2> SUFFICES ASSUME TypeOK, TypeOK', BatchInv, Next, InRun, InRun'
               PROVE  /\ Left' <= Left
                      /\ PurgeStep => Left' < Left
    BY LeftIsCounted
  <2>0. Left \in Nat /\ Left' \in Nat
    <3>1. /\ Cardinality(Coming') \in Nat /\ Cardinality(InReach') \in Nat
          /\ Cardinality(Coming) \in Nat /\ Cardinality(InReach) \in Nat
      <4>1. /\ Coming' \in SUBSET Reports /\ InReach' \in SUBSET Reports
            /\ Coming \in SUBSET Reports /\ InReach \in SUBSET Reports
        BY DEF TypeOK, Coming, InReach
      <4> QED
        BY <4>1, FS_Subset, FS_CardinalityType
    <3>2. Place \in 0 .. 2 /\ Place' \in 0 .. 2
      BY DEF Place
    <3> QED
      BY <3>1, <3>2 DEF Left
  <2>1. CASE Select
    <3>1. ids = {} /\ ids' \subseteq stored /\ stored' = stored /\ used' = used
      BY <2>1 DEF Select, Expired, BatchInv
    <3>2. InReach' \subseteq InReach
      BY <3>1 DEF InReach
    <3>3. Place' < Place
      BY <2>1 DEF Select, Place
    <3> QED
      BY <2>0, <3>1, <3>2, <3>3, ReachShrinks
  <2>2. CASE Delete
    <3>1. ids # {} /\ InReach' = InReach \ ids /\ ids \subseteq InReach /\ used' = used
      BY <2>2 DEF Delete, DeleteBatch, BatchInv, InReach
    <3>2. InReach' \subseteq InReach /\ InReach' # InReach
      BY <3>1
    <3>3. Place' <= Place + 1
      BY <2>2 DEF Delete, Place
    <3> QED
      BY <2>0, <3>1, <3>2, <3>3, ReachShrinks
  <2>3. CASE \E r \in Reports : Ingest(r)
    <3>1. PICK r \in Reports : Ingest(r)
      BY <2>3
    <3>2. /\ r \in Coming /\ Coming' = Coming \ {r} /\ InReach' = InReach \cup {r}
          /\ Place' = Place /\ ~PurgeStep
      BY <3>1 DEF Ingest, Coming, InReach, Place, PurgeStep, NoSettings, Begin, Select, Delete, Save
    <3>3. Cardinality(Coming') = Cardinality(Coming) - 1
      BY <3>2, LeftIsCounted, FS_RemoveElement
    <3>4. Cardinality(InReach') = Cardinality(InReach) \/ Cardinality(InReach') = Cardinality(InReach) + 1
      BY <3>2, LeftIsCounted, FS_AddElement
    <3>5. /\ Left = 2 * (2 * Cardinality(Coming) + Cardinality(InReach)) + Place
          /\ Left' = 2 * (2 * Cardinality(Coming') + Cardinality(InReach')) + Place
      BY <3>2 DEF Left
    <3>6. Cardinality(Coming) \in Nat /\ Cardinality(InReach) \in Nat /\ Place \in Nat
      BY LeftIsCounted DEF Place
    <3> QED
      BY <3>2, <3>3, <3>4, <3>5, <3>6
  <2>4. CASE \E d \in Domains : RemoveDomain(d)
    <3>1. InReach' \subseteq InReach /\ used' = used /\ Place' = Place /\ Place \in Nat /\ ~PurgeStep
      BY <2>4 DEF RemoveDomain, InReach, Place, PurgeStep, NoSettings, Begin, Select, Delete, Save
    <3> QED
      BY <3>1, ReachShrinks
  <2>5. CASE \/ \E d \in Domains : AddDomain(d)
             \/ \E n \in Windows : SetRetention(n)
             \/ Midnight
    <3>1. InReach' = InReach /\ used' = used /\ Place' = Place /\ Place \in Nat
      BY <2>5 DEF AddDomain, SetRetention, Midnight, InReach, Place
    <3>2. ~PurgeStep
      BY <2>5 DEF AddDomain, Change, SetRetention, Midnight, PurgeStep, NoSettings, Begin, Select, Delete,
                  Save, TypeOK
    <3> QED
      BY <3>1, <3>2, ReachShrinks
  <2>6. CASE \/ NoSettings \/ Begin \/ Save \/ Tick \/ RunFails
             \/ DeleteUnacknowledged \/ Crash \/ Restart
    BY <2>6 DEF NoSettings, Begin, Save, Tick, RunFails, DeleteUnacknowledged, Crash, Restart, InRun
  <2> QED
    BY <2>1, <2>2, <2>3, <2>4, <2>5, <2>6 DEF Next, PurgeStep
<1> QED
  BY <1>1, <1>2, <1>3, TypeCorrect, PTL DEF Spec, RunsShrink
=============================================================================
