------------------------ MODULE SenderScoring_proofs ------------------------
(***************************************************************************)
(* Proofs about SenderScoring: its type invariant, why two new rows of a   *)
(* sender meet, that good news never lowers a verdict, and that a stored   *)
(* verdict is the documented one of all that its sender was scored from.   *)
(***************************************************************************)
EXTENDS SenderScoring, FiniteSetTheorems, TLAPS

\* A verdict is one of the four levels, whatever the row holds.
LEMMA VerdictType == \A row : Verdict(row) \in Levels
BY DEF Verdict, Levels

\* One record more makes a row of a row, and keeps aligned mail within the mail.
LEMMA UpsertedType ==
  ASSUME NEW row \in Rows, row.aligned <= row.total,
         NEW r \in Records, NEW allowed \in BOOLEAN
  PROVE  /\ Upserted(row, r, allowed) \in Rows
         /\ Upserted(row, r, allowed).aligned <= Upserted(row, r, allowed).total
<1> DEFINE next == Refreshed(row, r, allowed)
<1>1. /\ r.count \in Nat
      /\ r.spf \in SpfResults \cup {"fails"}
  BY ConstantsAssumption
<1>2. LiveSpf(r) \in SpfResults
  BY <1>1 DEF LiveSpf, SpfResults
<1>3. /\ DkimStale(r) \in BOOLEAN
      /\ HasReverseDns(r) \in BOOLEAN
      /\ ForwardConfirmed(r) \in BOOLEAN
  BY DEF DkimStale, HasReverseDns, ForwardConfirmed
<1>4. next \in Rows /\ next.aligned <= next.total
  <2> DEFINE total == row.total + r.count
             aligned == IF IsAlignedPass(r) THEN row.aligned + r.count ELSE row.aligned
             spf == LiveSpf(r)
             stale == DkimStale(r)
             host == HasReverseDns(r)
             forward == ForwardConfirmed(r)
  <2>1. row.total \in Nat /\ row.aligned \in Nat
    BY DEF Rows
  <2>2. total \in Nat /\ aligned \in Nat /\ aligned <= total
    BY <1>1, <2>1
  <2>3. next = [row EXCEPT !.total = total, !.aligned = aligned, !.spf = spf,
                           !.stale = stale, !.allowed = allowed,
                           !.host = host, !.forward = forward]
    BY DEF Refreshed
  <2>4. spf \in SpfResults /\ stale \in BOOLEAN /\ host \in BOOLEAN /\ forward \in BOOLEAN
    BY <1>2, <1>3
  <2> HIDE DEF next, total, aligned, spf, stale, host, forward
  <2>5. next \in Rows /\ next.total = total /\ next.aligned = aligned
    BY ZenonT(30), <2>2, <2>3, <2>4 DEF Rows
  <2> QED
    BY <2>2, <2>5
<1>5. Verdict(next) \in Levels
  BY VerdictType
<1> HIDE DEF next
<1> QED
  BY <1>4, <1>5 DEF Upserted, Rows, next

LEMMA NewRowType == NewRow \in Rows /\ NewRow.aligned <= NewRow.total
BY DEF NewRow, Rows, SpfResults, Levels

\* A note more is a sequence of notes.
LEMMA NotesGrow ==
  ASSUME NEW notes \in Seq(Notes), NEW n \in Notes
  PROVE  Append(notes, n) \in Seq(Notes)
OBVIOUS

LEMMA InitTypeOK == Init => TypeOK
<1> SUFFICES ASSUME Init PROVE TypeOK
  OBVIOUS
<1>1. NoRow \notin Rows
  BY ConstantsAssumption
<1>2. <<>> \in Seq(Notes)
  OBVIOUS
<1> QED
  BY <1>1, <1>2 DEF Init, TypeOK

\* The type part of a record that is scored.
LEMMA ScoreTypeOK ==
  ASSUME TypeOK, NEW r \in Records, Score(r)
  PROVE  TypeOK'
<1> DEFINE k == Key[r.source]
           allowed == Matches(r, org, loaded)
           old == IF tracked[k] = NoRow THEN NewRow ELSE tracked[k]
           note == [record |-> r, allowed |-> allowed]
<1>1. r.source \in Sources /\ k \in Keys
  BY ConstantsAssumption
<1>2. allowed \in BOOLEAN
  BY DEF Matches
<1>3. old \in Rows /\ old.aligned <= old.total
  BY <1>1, NewRowType DEF TypeOK
<1>4. /\ Upserted(old, r, allowed) \in Rows
      /\ Upserted(old, r, allowed).aligned <= Upserted(old, r, allowed).total
  BY <1>2, <1>3, UpsertedType
<1>5. note \in Notes
  BY <1>2 DEF Notes
<1>6. Append(noted[k], note) \in Seq(Notes)
  BY <1>1, <1>5, NotesGrow DEF TypeOK
<1>7. \/ /\ tracked' = [tracked EXCEPT ![k] = Upserted(old, r, allowed)]
         /\ noted' = [noted EXCEPT ![k] = Append(noted[k], note)]
         /\ clash' = clash
      \/ tracked' = tracked /\ noted' = noted /\ clash' = TRUE
  BY DEF Score
<1>8. /\ cached' = cached \cup {r.source}
      /\ records' = records + 1
      /\ overrides' = overrides /\ stored' = stored /\ heard' = heard
      /\ failed' = failed /\ pc' = pc /\ org' = org /\ loaded' = loaded
      /\ faults' = faults
  BY DEF Score, table
<1> HIDE DEF k, allowed, old, note
<1>9. /\ tracked' \in [Keys -> Rows \cup {NoRow}]
      /\ \A j \in Keys : tracked'[j] \in Rows => tracked'[j].aligned <= tracked'[j].total
  <2>1. tracked \in [Keys -> Rows \cup {NoRow}]
    BY DEF TypeOK
  <2>2. \A j \in Keys : tracked[j] \in Rows => tracked[j].aligned <= tracked[j].total
    BY DEF TypeOK
  <2> QED
    BY <1>1, <1>4, <1>7, <2>1, <2>2
<1>10. noted' \in [Keys -> Seq(Notes)]
  BY <1>1, <1>6, <1>7 DEF TypeOK
<1>11. clash' \in BOOLEAN
  BY <1>7 DEF TypeOK
<1> QED
  BY <1>1, <1>8, <1>9, <1>10, <1>11 DEF TypeOK

LEMMA NextTypeOK == TypeOK /\ [Next]_vars => TypeOK'
<1> SUFFICES ASSUME TypeOK, [Next]_vars PROVE TypeOK'
  OBVIOUS
<1> USE DEF TypeOK
<1>1. CASE StartCycle
  BY <1>1 DEF StartCycle, table, unit, report
<1>2. ASSUME NEW o \in Orgs, BeginReport(o) PROVE TypeOK'
  BY <1>2 DEF BeginReport, Commit
<1>3. CASE BeginReportFails
  BY <1>3 DEF BeginReportFails, SaveThrows, Fault, table, report
<1>4. ASSUME NEW r \in Records, Score(r) PROVE TypeOK'
  BY <1>4, ScoreTypeOK
<1>5. ASSUME NEW r \in Records, PassOver(r) PROVE TypeOK'
  BY <1>5 DEF PassOver, table, unit, report
<1>6. CASE LookupFails
  BY <1>6 DEF LookupFails, Fault, table, unit, report
<1>7. CASE EndReport
  BY <1>7 DEF EndReport, Commit, report
<1>8. CASE EndReportFails
  BY <1>8 DEF EndReportFails, SaveThrows, Fault, table, report
<1>9. CASE EndCycle
  BY <1>9 DEF EndCycle, DropUnit, report
<1>10. CASE CycleFails
  <2>1. faults' \in Nat
    BY <1>10 DEF CycleFails, Fault
  <2>2. /\ stored' = stored /\ heard' = heard /\ overrides' = overrides
        /\ tracked' = stored' /\ noted' = heard' /\ clash' = FALSE /\ failed' = FALSE
        /\ pc' = "idle" /\ org' = org /\ loaded' = loaded /\ cached' = cached
        /\ records' = records
    BY <1>10 DEF CycleFails, DropUnit, table, report
  <2> QED
    BY <2>1, <2>2
<1>11. ASSUME NEW e \in Entries, EditOverrides(e) PROVE TypeOK'
  BY <1>11 DEF EditOverrides, table, unit, report
<1>12. CASE UNCHANGED vars
  BY <1>12 DEF vars, table, unit, report
<1> QED
  BY <1>1, <1>2, <1>3, <1>4, <1>5, <1>6, <1>7, <1>8, <1>9, <1>10, <1>11, <1>12 DEF Next

\* Every variable keeps its type, and no row, whether tracked or stored, counts
\* more aligned mail than mail.
THEOREM TypeCorrect == Spec => []TypeOK
<1>1. Init => TypeOK
  BY InitTypeOK
<1>2. TypeOK /\ [Next]_vars => TypeOK'
  BY NextTypeOK
<1> QED
  BY <1>1, <1>2, PTL DEF Spec

-----------------------------------------------------------------------------
(***************************************************************************)
(* Two new rows of one sender                                              *)
(***************************************************************************)

\* A row that is tracked and not stored was made under a text the cache has,
\* or a save has failed since.
NewRowIsCached ==
  \A k \in Keys :
    tracked[k] # NoRow /\ stored[k] = NoRow
    => failed \/ \E t \in cached : Key[t] = k

ClashInv == NewRowIsCached /\ RowsClashForCause

LEMMA InitClashInv == Init => ClashInv
BY DEF Init, ClashInv, NewRowIsCached, RowsClashForCause

LEMMA ScoreClashInv ==
  ASSUME TypeOK, ClashInv, NEW r \in Records, Score(r)
  PROVE  ClashInv'
<1> DEFINE k == Key[r.source]
<1>1. k \in Keys /\ DOMAIN tracked = Keys
  BY ConstantsAssumption DEF TypeOK
<1>2. /\ cached' = cached \cup {r.source}
      /\ stored' = stored /\ failed' = failed
  BY DEF Score, table
<1>3. \A j \in Keys : j # k => tracked'[j] = tracked[j]
  BY <1>1 DEF Score
<1>4. NewRowIsCached'
  BY <1>1, <1>2, <1>3 DEF NewRowIsCached, ClashInv
<1>5. RowsClashForCause'
  <2>1. CASE HasRow(r.source) \/ tracked[k] = NoRow
    <3>1. clash' = clash
      BY <2>1 DEF Score
    <3> QED
      BY <1>2, <3>1 DEF RowsClashForCause, ClashInv
  <2>2. CASE ~(HasRow(r.source) \/ tracked[k] = NoRow)
    <3>1. r.source \notin cached /\ stored[k] = NoRow /\ tracked[k] # NoRow
      BY <2>2 DEF HasRow
    <3>2. failed \/ \E t \in cached : Key[t] = k
      BY <1>1, <3>1 DEF NewRowIsCached, ClashInv
    <3> QED
      BY <1>2, <3>1, <3>2 DEF RowsClashForCause
  <2> QED
    BY <2>1, <2>2
<1> QED
  BY <1>4, <1>5 DEF ClashInv

LEMMA NextClashInv == TypeOK /\ ClashInv /\ [Next]_vars => ClashInv'
<1> SUFFICES ASSUME TypeOK, ClashInv, [Next]_vars PROVE ClashInv'
  OBVIOUS
<1> USE DEF ClashInv, NewRowIsCached, RowsClashForCause
<1>1. CASE StartCycle
  BY <1>1 DEF StartCycle, table, unit, report
<1>2. ASSUME NEW o \in Orgs, BeginReport(o) PROVE ClashInv'
  BY <1>2 DEF BeginReport, Commit
<1>3. CASE BeginReportFails
  BY <1>3 DEF BeginReportFails, SaveThrows, table, report
<1>4. ASSUME NEW r \in Records, Score(r) PROVE ClashInv'
  BY <1>4, ScoreClashInv
<1>5. ASSUME NEW r \in Records, PassOver(r) PROVE ClashInv'
  BY <1>5 DEF PassOver, table, unit, report
<1>6. CASE LookupFails
  BY <1>6 DEF LookupFails, table, unit, report
<1>7. CASE EndReport
  BY <1>7 DEF EndReport, Commit, report
<1>8. CASE EndReportFails
  BY <1>8 DEF EndReportFails, SaveThrows, table, report
<1>9. CASE EndCycle
  BY <1>9 DEF EndCycle, DropUnit, report
<1>10. CASE CycleFails
  BY <1>10 DEF CycleFails, DropUnit, table, report
<1>11. ASSUME NEW e \in Entries, EditOverrides(e) PROVE ClashInv'
  BY <1>11 DEF EditOverrides, table, unit, report
<1>12. CASE UNCHANGED vars
  BY <1>12 DEF vars, table, unit, report
<1> QED
  BY <1>1, <1>2, <1>3, <1>4, <1>5, <1>6, <1>7, <1>8, <1>9, <1>10, <1>11, <1>12 DEF Next

\* A unit of work holds two new rows of one sender, which no save can commit,
\* only after a failed save or when one report spells the address in two ways.
THEOREM ClashHasCause == Spec => []RowsClashForCause
<1>1. Init => ClashInv
  BY InitClashInv
<1>2. TypeOK /\ ClashInv /\ [Next]_vars => ClashInv'
  BY NextClashInv
<1>3. ClashInv => RowsClashForCause
  BY DEF ClashInv
<1> QED
  BY <1>1, <1>2, <1>3, TypeCorrect, PTL DEF Spec

-----------------------------------------------------------------------------
(***************************************************************************)
(* Good news                                                               *)
(***************************************************************************)

\* A verdict is that of its own row, stored or tracked.
Rated(row) == row \in Rows => row.level = Verdict(row)
RatedInv == \A k \in Keys : Rated(tracked[k]) /\ Rated(stored[k])

\* What an upsert leaves is rated: the level is not among the columns rated.
LEMMA UpsertedRated ==
  ASSUME NEW row \in Rows, row.aligned <= row.total,
         NEW r \in Records, NEW allowed \in BOOLEAN
  PROVE  Upserted(row, r, allowed).level = Verdict(Upserted(row, r, allowed))
<1> DEFINE next == Refreshed(row, r, allowed)
           rated == [next EXCEPT !.level = Verdict(next)]
<1>1. next = [next EXCEPT !.level = next.level] /\ DOMAIN next = DOMAIN row
  BY DEF Refreshed, Rows
<1>2. DOMAIN row = {"total", "aligned", "spf", "stale", "host", "forward", "allowed", "level"}
  BY DEF Rows
<1> HIDE DEF next
<1>3. /\ rated.level = Verdict(next)
      /\ rated.total = next.total /\ rated.aligned = next.aligned
      /\ rated.spf = next.spf /\ rated.stale = next.stale
      /\ rated.host = next.host /\ rated.forward = next.forward
      /\ rated.allowed = next.allowed
  BY <1>1, <1>2
<1> HIDE DEF rated
<1>4. Verdict(rated) = Verdict(next)
  BY <1>3 DEF Verdict, AtLeast
<1> QED
  BY <1>3, <1>4 DEF Upserted, next, rated

LEMMA InitRated == Init => RatedInv
BY ConstantsAssumption DEF Init, RatedInv, Rated

LEMMA ScoreRated ==
  ASSUME TypeOK, RatedInv, NEW r \in Records, Score(r)
  PROVE  RatedInv'
<1> DEFINE k == Key[r.source]
           allowed == Matches(r, org, loaded)
           old == IF tracked[k] = NoRow THEN NewRow ELSE tracked[k]
<1>1. k \in Keys /\ DOMAIN tracked = Keys
  BY ConstantsAssumption DEF TypeOK
<1>2. old \in Rows /\ old.aligned <= old.total /\ allowed \in BOOLEAN
  BY <1>1, NewRowType DEF TypeOK, Matches
<1>3. Rated(Upserted(old, r, allowed))
  BY <1>2, UpsertedRated DEF Rated
<1>4. /\ stored' = stored
      /\ \/ tracked' = [tracked EXCEPT ![k] = Upserted(old, r, allowed)]
         \/ tracked' = tracked
  BY DEF Score, table
<1> HIDE DEF k, allowed, old
<1> QED
  BY <1>1, <1>3, <1>4 DEF RatedInv

LEMMA NextRated == TypeOK /\ RatedInv /\ [Next]_vars => RatedInv'
<1> SUFFICES ASSUME TypeOK, RatedInv, [Next]_vars PROVE RatedInv'
  OBVIOUS
<1>1. ASSUME NEW r \in Records, Score(r) PROVE RatedInv'
  BY <1>1, ScoreRated
<1>2. ASSUME tracked' \in {tracked, stored}, stored' \in {tracked, stored} PROVE RatedInv'
  BY <1>2 DEF RatedInv
<1>3. CASE ~\E r \in Records : Score(r)
  <2>1. tracked' \in {tracked, stored} /\ stored' \in {tracked, stored}
    BY <1>3 DEF Next, StartCycle, BeginReport, BeginReportFails, PassOver, LookupFails,
      EndReport, EndReportFails, EndCycle, CycleFails, EditOverrides, Commit, SaveThrows,
      DropUnit, vars, table, unit
  <2> QED
    BY <1>2, <2>1
<1> QED
  BY <1>1, <1>3

\* The rules are monotone: no column better means no lower verdict.
LEMMA VerdictMonotone ==
  ASSUME NEW old \in Rows, NEW new \in Rows, NEW n \in Nat,
         old.aligned <= old.total,
         new.total = old.total + n, new.aligned = old.aligned + n,
         old.spf = "Pass" => new.spf = "Pass",
         new.stale => old.stale,
         old.host => new.host,
         old.forward => new.forward,
         old.allowed => new.allowed
  PROVE  Rank[Verdict(new)] >= Rank[Verdict(old)]
<1>1. \A p \in {50, 95} : AtLeast(old, p) => AtLeast(new, p)
  BY DEF AtLeast, Rows
<1>2. /\ Rank["Suspicious"] = 0 /\ Rank["Unverified"] = 1
      /\ Rank["LikelyLegitimate"] = 2 /\ Rank["Verified"] = 3
  BY DEF Rank, Levels
<1>3. CASE old.allowed
  BY <1>2, <1>3 DEF Verdict
<1>4. CASE ~old.allowed /\ AtLeast(old, 95) /\ old.spf = "Pass" /\ ~old.stale
  BY <1>1, <1>2, <1>4 DEF Verdict
<1>5. CASE AtLeast(old, 50) \/ old.spf = "Pass" \/ old.forward
  <2>1. AtLeast(new, 50) \/ new.spf = "Pass" \/ new.forward
    BY <1>1, <1>5
  <2>2. Verdict(new) \in {"Verified", "LikelyLegitimate"}
    BY <2>1 DEF Verdict
  <2>3. /\ Verdict(old) \in Levels
        /\ ~old.allowed /\ ~(AtLeast(old, 95) /\ old.spf = "Pass" /\ ~old.stale)
             => Verdict(old) = "LikelyLegitimate"
    BY <1>5 DEF Verdict, Levels
  <2> QED
    BY <1>2, <1>3, <1>4, <2>2, <2>3
<1>6. CASE /\ ~old.allowed /\ ~(AtLeast(old, 95) /\ old.spf = "Pass" /\ ~old.stale)
           /\ ~(AtLeast(old, 50) \/ old.spf = "Pass" \/ old.forward)
  <2>1. Verdict(old) = IF ~old.host THEN "Suspicious" ELSE "Unverified"
    BY <1>6 DEF Verdict
  <2>2. new.host => Verdict(new) # "Suspicious"
    BY DEF Verdict
  <2>3. Verdict(new) \in Levels
    BY VerdictType
  <2>4. Rank[Verdict(new)] >= 0 /\ (Verdict(new) # "Suspicious" => Rank[Verdict(new)] >= 1)
    BY <1>2, <2>3 DEF Levels
  <2> QED
    BY <1>2, <2>1, <2>2, <2>4
<1> QED
  BY <1>3, <1>4, <1>5, <1>6

\* The step part of GoodNewsNeverLowers.
NoLowering ==
  \A k \in Keys :
    /\ noted'[k] # noted[k]
    /\ records' # records
    /\ tracked[k] # NoRow
    /\ GoodNews(noted'[k][Len(noted'[k])], tracked[k])
    => Rank[tracked'[k].level] >= Rank[tracked[k].level]

LEMMA LastOfAppend ==
  ASSUME NEW notes \in Seq(Notes), NEW n \in Notes
  PROVE  Append(notes, n)[Len(Append(notes, n))] = n
OBVIOUS

LEMMA ScoreNoLowering ==
  ASSUME TypeOK, RatedInv, NEW r \in Records, Score(r)
  PROVE  NoLowering
<1> SUFFICES ASSUME NEW k \in Keys,
                    noted'[k] # noted[k], tracked[k] # NoRow,
                    GoodNews(noted'[k][Len(noted'[k])], tracked[k])
             PROVE  Rank[tracked'[k].level] >= Rank[tracked[k].level]
  BY DEF NoLowering
<1> DEFINE allowed == Matches(r, org, loaded)
           note == [record |-> r, allowed |-> allowed]
           old == tracked[k]
           new == Upserted(old, r, allowed)
<1>1. Key[r.source] \in Keys /\ DOMAIN tracked = Keys /\ DOMAIN noted = Keys
  BY ConstantsAssumption DEF TypeOK
<1>2. /\ k = Key[r.source]
      /\ tracked'[k] = new
      /\ noted'[k] = Append(noted[k], note)
  BY <1>1 DEF Score
<1>3. old \in Rows /\ old.aligned <= old.total /\ allowed \in BOOLEAN
  BY DEF TypeOK, Matches
<1>4. note \in Notes /\ noted[k] \in Seq(Notes)
  BY <1>3 DEF Notes, TypeOK
<1>5. GoodNews(note, old)
  <2>1. noted'[k][Len(noted'[k])] = note
    BY <1>2, <1>4, LastOfAppend
  <2> QED
    BY <2>1
<1>6. new \in Rows
  BY <1>3, UpsertedType
<1>7. r.count \in Nat
  BY ConstantsAssumption
<1>8. /\ new.total = old.total + r.count
      /\ new.aligned = IF IsAlignedPass(r) THEN old.aligned + r.count ELSE old.aligned
      /\ new.spf = LiveSpf(r) /\ new.stale = DkimStale(r)
      /\ new.host = HasReverseDns(r) /\ new.forward = ForwardConfirmed(r)
      /\ new.allowed = allowed
  BY <1>3 DEF Upserted, Refreshed, Rows
<1>9. /\ note.record = r /\ note.allowed = allowed
  OBVIOUS
<1>10. /\ IsAlignedPass(r)
       /\ old.spf = "Pass" => new.spf = "Pass"
       /\ new.stale => old.stale
       /\ old.host => new.host
       /\ old.forward => new.forward
       /\ old.allowed => new.allowed
  <2> HIDE DEF note, old, new, allowed
  <2> QED
    BY <1>5, <1>8, <1>9 DEF GoodNews, LiveSpf, ForwardConfirmed
<1>11. new.level = Verdict(new) /\ old.level = Verdict(old)
  BY <1>3, UpsertedRated DEF RatedInv, Rated
<1>12. Rank[Verdict(new)] >= Rank[Verdict(old)]
  <2> HIDE DEF new, old, allowed
  <2> QED
    BY <1>3, <1>6, <1>7, <1>8, <1>10, VerdictMonotone
<1> QED
  BY <1>2, <1>11, <1>12

LEMMA StepNoLowering == TypeOK /\ RatedInv /\ [Next]_vars => NoLowering \/ UNCHANGED vars
<1> SUFFICES ASSUME TypeOK, RatedInv, Next PROVE NoLowering
  OBVIOUS
<1>1. ASSUME NEW r \in Records, Score(r) PROVE NoLowering
  BY <1>1, ScoreNoLowering
<1>2. CASE ~\E r \in Records : Score(r)
  <2>1. noted' = noted \/ records' = records
    BY <1>2 DEF Next, StartCycle, BeginReport, BeginReportFails, PassOver, LookupFails,
      EndReport, EndReportFails, EndCycle, CycleFails, EditOverrides, unit
  <2> QED
    BY <2>1 DEF NoLowering
<1> QED
  BY <1>1, <1>2

\* An aligned record none of whose checks is worse than what the row says never
\* lowers the sender's verdict, whatever the volumes.
THEOREM GoodNewsHelps == Spec => GoodNewsNeverLowers
<1>1. Init => RatedInv
  BY InitRated
<1>2. TypeOK /\ RatedInv /\ [Next]_vars => RatedInv'
  BY NextRated
<1>3. TypeOK /\ RatedInv /\ [Next]_vars => [NoLowering]_vars
  BY StepNoLowering
<1>4. Spec => [][NoLowering]_vars
  BY <1>1, <1>2, <1>3, TypeCorrect, PTL DEF Spec
<1> QED
  BY <1>4 DEF NoLowering, GoodNewsNeverLowers

-----------------------------------------------------------------------------
(***************************************************************************)
(* The verdict and the history                                             *)
(***************************************************************************)

\* What the volumes of a row stand for: all the mail of its history, and the
\* mail of the aligned records in it.
Counts(notes, total, aligned) ==
  /\ IsFiniteSet(Mail(notes, DOMAIN notes))
  /\ total = Cardinality(Mail(notes, DOMAIN notes))
  /\ aligned = Cardinality(Mail(notes, Aligned(notes)))

\* A row is what its history says: the volumes are sums, the rest is that of
\* the last record.
Tells(notes, row) ==
  IF notes = <<>> THEN row = NoRow
  ELSE LET last == notes[Len(notes)].record
       IN  /\ row \in Rows
           /\ Counts(notes, row.total, row.aligned)
           /\ row.spf = LiveSpf(last)
           /\ row.stale = DkimStale(last)
           /\ row.host = HasReverseDns(last)
           /\ row.forward = ForwardConfirmed(last)
           /\ row.allowed = notes[Len(notes)].allowed

HistoryInv == \A k \in Keys : Tells(noted[k], tracked[k]) /\ Tells(heard[k], stored[k])

LEMMA NothingCounts == Counts(<<>>, 0, 0)
<1>1. DOMAIN <<>> = {} /\ Aligned(<<>>) = {}
  BY DEF Aligned
<1>2. Mail(<<>>, {}) = {}
  BY DEF Mail
<1> QED
  BY <1>1, <1>2, FS_EmptySet DEF Counts

\* The messages of one record, numbered.
LEMMA MailOfOne ==
  ASSUME NEW i, NEW n \in Nat
  PROVE  /\ IsFiniteSet({i} \X (1 .. n))
         /\ Cardinality({i} \X (1 .. n)) = n
<1>1. IsFiniteSet(1 .. n) /\ Cardinality(1 .. n) = n
  BY FS_Interval
<1>2. IsFiniteSet({i}) /\ Cardinality({i}) = 1
  BY FS_Singleton
<1> QED
  BY <1>1, <1>2, FS_Product

\* Disjoint mail adds up.
LEMMA DisjointMail ==
  ASSUME NEW S, NEW T, IsFiniteSet(S), IsFiniteSet(T), S \cap T = {}
  PROVE  /\ IsFiniteSet(S \cup T)
         /\ Cardinality(S \cup T) = Cardinality(S) + Cardinality(T)
<1>1. Cardinality(S) \in Nat /\ Cardinality(T) \in Nat
  BY FS_CardinalityType
<1> QED
  BY <1>1, FS_Union, FS_EmptySet

\* A record more adds its volume, and to the aligned mail if it is aligned.
LEMMA CountsGrow ==
  ASSUME NEW notes \in Seq(Notes), NEW n \in Notes,
         NEW total \in Nat, NEW aligned \in Nat, Counts(notes, total, aligned)
  PROVE  Counts(Append(notes, n), total + n.record.count,
                IF IsAlignedPass(n.record) THEN aligned + n.record.count ELSE aligned)
<1> DEFINE i == Len(notes) + 1
           more == Append(notes, n)
           new == {i} \X (1 .. n.record.count)
           all == Mail(notes, DOMAIN notes)
           good == Mail(notes, Aligned(notes))
<1>1. /\ Len(notes) \in Nat /\ DOMAIN notes = 1 .. Len(notes)
      /\ DOMAIN more = (DOMAIN notes) \cup {i} /\ i \notin DOMAIN notes
      /\ more[i] = n
      /\ \A j \in DOMAIN notes : more[j] = notes[j]
  OBVIOUS
<1>2. n.record.count \in Nat
  BY ConstantsAssumption DEF Notes
<1>3. IsFiniteSet(new) /\ Cardinality(new) = n.record.count
  BY <1>2, MailOfOne
<1>4. Aligned(notes) \subseteq DOMAIN notes
  BY DEF Aligned
<1>5. good \in SUBSET all
  BY <1>4 DEF Mail
<1>6. IsFiniteSet(all) /\ IsFiniteSet(good)
  BY <1>5, FS_Subset DEF Counts
<1>7. all \cap new = {} /\ good \cap new = {}
  BY <1>1, <1>4 DEF Mail
<1>8. Mail(more, DOMAIN more) = all \cup new
  <2> HIDE DEF i, more
  <2>1. \A p : p \in Mail(more, DOMAIN more) <=> p \in all \cup new
    BY <1>1 DEF Mail
  <2> QED
    BY <2>1
<1>9. Aligned(more) = IF IsAlignedPass(n.record) THEN Aligned(notes) \cup {i} ELSE Aligned(notes)
  <2> HIDE DEF i, more
  <2> QED
    BY <1>1 DEF Aligned
<1>10. Mail(more, Aligned(more)) = IF IsAlignedPass(n.record) THEN good \cup new ELSE good
  <2> HIDE DEF i, more
  <2>1. \A p : p \in Mail(more, Aligned(more))
             <=> p \in IF IsAlignedPass(n.record) THEN good \cup new ELSE good
    BY <1>1, <1>4, <1>9 DEF Mail
  <2> QED
    BY <2>1
<1>11. /\ IsFiniteSet(all \cup new)
       /\ Cardinality(all \cup new) = total + n.record.count
  BY <1>3, <1>6, <1>7, DisjointMail DEF Counts
<1>12. Cardinality(good \cup new) = aligned + n.record.count
  BY <1>3, <1>6, <1>7, DisjointMail DEF Counts
<1> HIDE DEF i, more, new, all, good
<1>13. Counts(more, total + n.record.count,
              IF IsAlignedPass(n.record) THEN aligned + n.record.count ELSE aligned)
  BY <1>8, <1>10, <1>11, <1>12 DEF Counts, good
<1> QED
  BY <1>13 DEF more

\* The empty table has no history.
LEMMA InitHistory == Init => HistoryInv
BY DEF Init, HistoryInv, Tells

LEMMA ScoreHistory ==
  ASSUME TypeOK, HistoryInv, NEW r \in Records, Score(r)
  PROVE  HistoryInv'
<1> DEFINE k == Key[r.source]
           allowed == Matches(r, org, loaded)
           old == IF tracked[k] = NoRow THEN NewRow ELSE tracked[k]
           new == Upserted(old, r, allowed)
           note == [record |-> r, allowed |-> allowed]
           notes == noted[k]
           more == Append(notes, note)
<1>1. k \in Keys /\ DOMAIN tracked = Keys /\ DOMAIN noted = Keys
  BY ConstantsAssumption DEF TypeOK
<1>2. allowed \in BOOLEAN /\ note \in Notes /\ notes \in Seq(Notes)
  BY <1>1 DEF TypeOK, Matches, Notes
<1>3. old \in Rows /\ old.aligned <= old.total
  BY <1>1, NewRowType DEF TypeOK
<1>4. Tells(notes, tracked[k])
  BY <1>1 DEF HistoryInv
<1>5. Counts(notes, old.total, old.aligned)
  <2>1. CASE notes = <<>>
    <3>1. old = NewRow
      BY <1>4, <2>1 DEF Tells
    <3>2. old.total = 0 /\ old.aligned = 0
      BY <3>1 DEF NewRow
    <3> QED
      BY <2>1, <3>2, NothingCounts
  <2>2. CASE notes # <<>>
    <3>1. tracked[k] \in Rows /\ Counts(notes, tracked[k].total, tracked[k].aligned)
      BY <1>4, <2>2 DEF Tells
    <3>2. old = tracked[k]
      BY <3>1, ConstantsAssumption
    <3> QED
      BY <3>1, <3>2
  <2> QED
    BY <2>1, <2>2
<1>6. note.record = r /\ note.allowed = allowed
  OBVIOUS
<1>7. /\ new \in Rows
      /\ new.total = old.total + r.count
      /\ new.aligned = IF IsAlignedPass(r) THEN old.aligned + r.count ELSE old.aligned
      /\ new.spf = LiveSpf(r) /\ new.stale = DkimStale(r)
      /\ new.host = HasReverseDns(r) /\ new.forward = ForwardConfirmed(r)
      /\ new.allowed = allowed
  <2>1. new \in Rows
    BY <1>2, <1>3, UpsertedType
  <2> HIDE DEF old, allowed
  <2> QED
    BY <1>3, <2>1 DEF Upserted, Refreshed, Rows
<1>8. old.total \in Nat /\ old.aligned \in Nat
  BY <1>3 DEF Rows
<1>9. more # <<>> /\ more[Len(more)] = note
  BY <1>2
<1> HIDE DEF old, allowed, note, new, notes, k
<1>10. Counts(more, new.total, new.aligned)
  <2>1. Counts(more, old.total + note.record.count,
               IF IsAlignedPass(note.record) THEN old.aligned + note.record.count
                                             ELSE old.aligned)
    BY <1>2, <1>5, <1>8, CountsGrow
  <2> QED
    BY <1>6, <1>7, <2>1
<1> HIDE DEF more
<1>11. Tells(more, new)
  BY <1>6, <1>7, <1>9, <1>10 DEF Tells
<1>12. /\ stored' = stored /\ heard' = heard
       /\ \/ tracked' = [tracked EXCEPT ![k] = new] /\ noted' = [noted EXCEPT ![k] = more]
          \/ tracked' = tracked /\ noted' = noted
  BY DEF Score, table, k, new, old, allowed, more, notes, note
<1>13. \A j \in Keys : Tells(noted'[j], tracked'[j])
  BY <1>1, <1>11, <1>12 DEF HistoryInv
<1> QED
  BY <1>12, <1>13 DEF HistoryInv

LEMMA NextHistory == TypeOK /\ HistoryInv /\ [Next]_vars => HistoryInv'
<1> SUFFICES ASSUME TypeOK, HistoryInv, [Next]_vars PROVE HistoryInv'
  OBVIOUS
<1>1. ASSUME NEW r \in Records, Score(r) PROVE HistoryInv'
  BY <1>1, ScoreHistory
<1>2. CASE ~\E r \in Records : Score(r)
  <2>1. /\ \/ tracked' = tracked /\ noted' = noted
           \/ tracked' = stored /\ noted' = heard
        /\ \/ stored' = stored /\ heard' = heard
           \/ stored' = tracked /\ heard' = noted
    BY <1>2 DEF Next, StartCycle, BeginReport, BeginReportFails, PassOver, LookupFails,
      EndReport, EndReportFails, EndCycle, CycleFails, EditOverrides, Commit, SaveThrows,
      DropUnit, vars, table, unit
  <2> QED
    BY <2>1 DEF HistoryInv
<1> QED
  BY <1>1, <1>2

\* The rules read off a row are the documented ones of its history.
LEMMA VerdictOfHistory ==
  ASSUME NEW notes \in Seq(Notes), notes # <<>>, NEW row, Tells(notes, row)
  PROVE  Verdict(row) = Documented(notes)
<1> DEFINE n == notes[Len(notes)]
           all == Cardinality(Mail(notes, DOMAIN notes))
           good == Cardinality(Mail(notes, Aligned(notes)))
           passes == n.record.spf = "Pass"
           earned == passes /\ ~DkimStale(n.record) /\ all > 0 /\ 20 * good >= 19 * all
           likely == passes \/ n.record.ptr = "confirmed" \/ (all > 0 /\ 2 * good >= all)
<1>1. /\ row \in Rows
      /\ row.total = all /\ row.aligned = good
      /\ row.spf = LiveSpf(n.record)
      /\ row.stale = DkimStale(n.record)
      /\ row.host = HasReverseDns(n.record)
      /\ row.forward = ForwardConfirmed(n.record)
      /\ row.allowed = n.allowed
  BY DEF Tells, Counts
<1>2. all \in Nat /\ good \in Nat
  BY <1>1 DEF Rows
<1>3. row.spf = "Pass" <=> passes
  BY <1>1 DEF LiveSpf
<1>4. /\ AtLeast(row, 95) <=> all > 0 /\ 20 * good >= 19 * all
      /\ AtLeast(row, 50) <=> all > 0 /\ 2 * good >= all
  <2> HIDE DEF all, good
  <2> QED
    BY <1>1, <1>2 DEF AtLeast
<1>5. row.forward <=> n.record.ptr = "confirmed"
  BY <1>1 DEF ForwardConfirmed
<1>6. n.allowed \in BOOLEAN
  BY <1>1 DEF Rows
<1>7. Documented(notes)
      = CASE n.allowed \/ earned -> "Verified"
          [] ~(n.allowed \/ earned) /\ likely -> "LikelyLegitimate"
          [] ~(n.allowed \/ earned) /\ ~likely ->
               IF HasReverseDns(n.record) THEN "Unverified" ELSE "Suspicious"
  BY DEF Documented
<1>8. (AtLeast(row, 95) /\ row.spf = "Pass" /\ ~row.stale) <=> earned
  BY <1>1, <1>3, <1>4
<1>9. (AtLeast(row, 50) \/ row.spf = "Pass" \/ row.forward) <=> likely
  BY <1>3, <1>4, <1>5
<1> HIDE DEF n, all, good, passes, earned, likely
<1>10. Verdict(row)
       = IF n.allowed THEN "Verified"
         ELSE IF earned THEN "Verified"
         ELSE IF likely THEN "LikelyLegitimate"
         ELSE IF ~HasReverseDns(n.record) THEN "Suspicious"
         ELSE "Unverified"
  BY <1>1, <1>8, <1>9 DEF Verdict
<1> QED
  BY <1>7, <1>10

\* Every stored verdict is the documented one of all the records its sender was
\* ever scored from, through failed saves, abandoned cycles and any spelling.
THEOREM VerdictFollowsTheRules == Spec => []VerdictIsDocumented
<1>1. Init => RatedInv /\ HistoryInv
  BY InitRated, InitHistory
<1>2. TypeOK /\ RatedInv /\ HistoryInv /\ [Next]_vars => (RatedInv /\ HistoryInv)'
  BY NextRated, NextHistory
<1>3. TypeOK /\ RatedInv /\ HistoryInv => VerdictIsDocumented
  <2> SUFFICES ASSUME TypeOK, RatedInv, HistoryInv, NEW k \in Keys
               PROVE  IF heard[k] = <<>> THEN stored[k] = NoRow
                      ELSE stored[k] # NoRow /\ stored[k].level = Documented(heard[k])
    BY DEF VerdictIsDocumented
  <2>1. Tells(heard[k], stored[k]) /\ Rated(stored[k]) /\ heard[k] \in Seq(Notes)
    BY DEF HistoryInv, RatedInv, TypeOK
  <2>2. CASE heard[k] = <<>>
    BY <2>1, <2>2 DEF Tells
  <2>3. CASE heard[k] # <<>>
    <3>1. stored[k] \in Rows
      BY <2>1, <2>3 DEF Tells
    <3>2. stored[k] # NoRow /\ stored[k].level = Verdict(stored[k])
      BY <2>1, <3>1, ConstantsAssumption DEF Rated
    <3>3. Verdict(stored[k]) = Documented(heard[k])
      BY <2>1, <2>3, VerdictOfHistory
    <3> QED
      BY <2>3, <3>2, <3>3
  <2> QED
    BY <2>2, <2>3
<1> QED
  BY <1>1, <1>2, <1>3, TypeCorrect, PTL DEF Spec
=============================================================================
