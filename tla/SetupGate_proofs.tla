-------------------------- MODULE SetupGate_proofs --------------------------
(***************************************************************************)
(* Proofs about SetupGate, for any number of requests, domains and         *)
(* mailboxes, and any number of aborted checks and restarts.               *)
(***************************************************************************)
EXTENDS SetupGate, TLAPS

\* The four queries ask for the four parts.
LEMMA QueriesAreParts ==
  /\ Len(Queries) = 4
  /\ \A i \in 1 .. 4 : Queries[i] \in Parts
  /\ \A part \in Parts : \E i \in 1 .. 4 : Queries[i] = part
  <1>1. Len(Queries) = 4
    BY DEF Queries
  <1>2. /\ Queries[1] = "graph" /\ Queries[2] = "domain"
        /\ Queries[3] = "mailbox" /\ Queries[4] = "retention"
    BY DEF Queries
  <1>3. 1 .. 4 = {1, 2, 3, 4}
    OBVIOUS
  <1> QED
    BY <1>1, <1>2, <1>3 DEF Parts

\* A request that asks has a query left to ask.
LEMMA AsksForAPart ==
  ASSUME TypeOK, NEW r \in Requests, phase[r] = "asking"
  PROVE  Asks(r) \in Parts /\ asked[r] \in 0 .. 3
  <1>1. asked[r] \in 0 .. 4 /\ asked[r] < 4
    BY QueriesAreParts DEF TypeOK
  <1>2. asked[r] \in 0 .. 3 /\ asked[r] + 1 \in 1 .. 4
    BY <1>1
  <1> QED
    BY <1>2, QueriesAreParts DEF Asks

-----------------------------------------------------------------------------
\* What a page of the wizard does to the gate's state.
Stored == UNCHANGED <<latch, request, faults>>

\* A page of the wizard keeps the types, stores rows, and shows what is there.
LEMMA WizardTyped ==
  ASSUME TypeOK, Wizard
  PROVE  TypeOK' /\ Stored /\ seen' = seen \cup Present(rows')
  <1> DEFINE Table == [Parts -> SUBSET (Domains \cup Mailboxes \cup {"singleton"})]
  <1>1. ASSUME NEW part \in Parts,
               NEW kept \in SUBSET (Domains \cup Mailboxes \cup {"singleton"}),
               Store(part, kept)
        PROVE  TypeOK' /\ Stored /\ seen' = seen \cup Present(rows')
    <2>1. rows' \in Table
      BY <1>1 DEF TypeOK, Store
    <2>2. seen' = seen \cup Present(rows') /\ seen' \subseteq Parts
      BY <1>1 DEF TypeOK, Store, Present
    <2>3. doubt' \in BOOLEAN
      BY <1>1 DEF Store
    <2>4. Stored
      BY <1>1 DEF Store, Stored
    <2> QED
      BY <2>1, <2>2, <2>3, <2>4 DEF TypeOK, Stored, request
  <1>2. CASE \E part \in Singletons : SaveSettings(part)
    <2>1. PICK part \in Singletons : Store(part, Keys[part])
      BY <1>2 DEF SaveSettings
    <2>2. part \in Parts /\ Keys[part] = {"singleton"}
      BY DEF Singletons, Parts, Keys
    <2> QED
      BY <1>1, <2>1, <2>2
  <1>3. CASE \E d \in Domains : AddDomain(d) \/ RemoveDomain(d)
    BY <1>1, <1>3 DEF AddDomain, RemoveDomain, TypeOK, Parts
  <1>4. CASE \E m \in Mailboxes : AddMailbox(m) \/ RemoveMailbox(m)
    BY <1>1, <1>4 DEF AddMailbox, RemoveMailbox, TypeOK, Parts
  <1> QED
    BY <1>2, <1>3, <1>4 DEF Wizard

\* Entering the gate and leaving it keep the types.
LEMMA GateTyped ==
  ASSUME TypeOK, NEW r \in Requests, WaveThrough(r) \/ BeginCheck(r) \/ Abort(r)
  PROVE  TypeOK'
  <1> USE DEF TypeOK, Phases
  <1>1. CASE WaveThrough(r)
    BY <1>1 DEF WaveThrough, Enter
  <1>2. CASE BeginCheck(r)
    <2>1. asked' = [asked EXCEPT ![r] = 0] /\ asked' \in [Requests -> 0 .. Len(Queries)]
      BY <1>2, QueriesAreParts DEF BeginCheck
    <2>2. \A q \in Requests : phase'[q] = "asking" => asked'[q] < Len(Queries)
      BY <1>2, <2>1, QueriesAreParts DEF BeginCheck, Enter
    <2>3. doubt' \in BOOLEAN
      BY <1>2 DEF BeginCheck, Complete
    <2>4. phase' \in [Requests -> Phases] /\ UNCHANGED <<rows, latch, verdict, seen, faults>>
      BY <1>2 DEF BeginCheck, Enter
    <2> QED
      BY <2>1, <2>2, <2>3, <2>4
  <1>3. CASE Abort(r)
    BY <1>3 DEF Abort
  <1> QED
    BY <1>1, <1>2, <1>3

\* Every step of a check keeps the types: no query is asked after the last.
LEMMA CheckTyped ==
  ASSUME TypeOK, NEW r \in Requests, Check(r)
  PROVE  TypeOK'
  <1> USE DEF TypeOK, Phases
  <1>1. CASE FindsRow(r)
    <2>1. phase[r] = "asking" /\ asked[r] \in 0 .. 3
      BY <1>1, AsksForAPart DEF FindsRow
    <2>2. asked' = [asked EXCEPT ![r] = asked[r] + 1] /\ asked'[r] = asked[r] + 1
      BY <1>1 DEF FindsRow
    <2>3. CASE asked'[r] = Len(Queries)
      <3>1. /\ phase' = [phase EXCEPT ![r] = "deciding"]
            /\ verdict' = [verdict EXCEPT ![r] = TRUE]
            /\ UNCHANGED <<rows, latch, seen, doubt, faults>>
        BY <1>1, <2>3 DEF FindsRow, Conclude
      <3>2. asked' \in [Requests -> 0 .. Len(Queries)]
        BY <2>1, <2>2, QueriesAreParts
      <3>3. \A q \in Requests : phase'[q] = "asking" => q # r /\ phase[q] = "asking" /\ asked'[q] = asked[q]
        BY <2>2, <3>1
      <3> QED
        BY <3>1, <3>2, <3>3
    <2>4. CASE asked'[r] # Len(Queries)
      <3>1. asked'[r] < Len(Queries)
        <4>1. asked'[r] \in 1 .. 4 /\ asked'[r] # 4
          BY <2>1, <2>2, <2>4, QueriesAreParts
        <4> QED
          BY <4>1, QueriesAreParts
      <3>2. asked' \in [Requests -> 0 .. Len(Queries)]
        BY <2>1, <2>2, QueriesAreParts
      <3>3. \A q \in Requests : phase'[q] = "asking" => asked'[q] < Len(Queries)
        BY <1>1, <2>2, <2>4, <3>1 DEF FindsRow
      <3> QED
        BY <1>1, <2>4, <3>2, <3>3 DEF FindsRow
    <2> QED
      BY <2>3, <2>4
  <1>2. CASE FindsNone(r)
    BY <1>2 DEF FindsNone, Conclude
  <1>3. CASE Decide(r)
    BY <1>3 DEF Decide
  <1>4. CASE Answer(r)
    BY <1>4 DEF Answer
  <1> QED
    BY <1>1, <1>2, <1>3, <1>4 DEF Check

\* A restart keeps the types.
LEMMA RestartTyped ==
  ASSUME TypeOK, Restart
  PROVE  TypeOK'
  <1>1. seen' \subseteq Parts /\ faults' \in Nat
    BY DEF TypeOK, Restart, Present
  <1>2. phase' \in [Requests -> Phases] /\ \A r \in Requests : phase'[r] # "asking"
    BY DEF Restart, Phases
  <1> QED
    BY <1>1, <1>2 DEF TypeOK, Restart

\* Every step keeps the types.
LEMMA StepTyped ==
  ASSUME TypeOK, [Next]_vars
  PROVE  TypeOK'
  <1>1. CASE UNCHANGED vars
    BY <1>1 DEF vars, TypeOK
  <1> QED
    BY <1>1, WizardTyped, GateTyped, CheckTyped, RestartTyped DEF Next

\* Before the first request nothing is set up and nothing is known.
LEMMA InitTyped ==
  ASSUME Init
  PROVE  TypeOK
  <1>1. asked \in [Requests -> 0 .. Len(Queries)] /\ phase \in [Requests -> Phases]
    BY QueriesAreParts DEF Init, Phases
  <1>2. \A r \in Requests : phase[r] # "asking"
    BY DEF Init
  <1> QED
    BY <1>1, <1>2 DEF Init, TypeOK

\* The gate's state is well typed; in particular a check that still asks has a
\* query left.
THEOREM TypeCorrect == Spec => []TypeOK
  BY InitTyped, StepTyped, PTL DEF Spec

-----------------------------------------------------------------------------
\* What opens the gate: every part was seen, and the settings are there.
Opened ==
  /\ seen = Parts
  /\ \A part \in Singletons : rows[part] # {}

\* A check that found a row knows that the part was seen, and a row of the
\* settings never goes away.
Found(part) == part \in seen /\ (part \in Singletons => rows[part] # {})

PresentSeen == \A part \in Parts : rows[part] # {} => part \in seen
AskedFound == \A r \in Requests : phase[r] = "asking" =>
                \A i \in 1 .. asked[r] : Found(Queries[i])
ConcludedOpened == \A r \in Requests : phase[r] = "deciding" /\ verdict[r] => Opened
LatchOpened == latch => Opened
PassedOpened == \A r \in Requests : phase[r] = "passed" => Opened

OpenInv ==
  /\ TypeOK
  /\ PresentSeen
  /\ AskedFound
  /\ ConcludedOpened
  /\ LatchOpened
  /\ PassedOpened

\* When every query found a row, every part was seen.
LEMMA AllFound ==
  ASSUME TypeOK, \A i \in 1 .. 4 : Found(Queries[i])
  PROVE  Opened
  <1>1. \A part \in Parts : Found(part)
    BY QueriesAreParts
  <1>2. Singletons \subseteq Parts
    BY DEF Singletons, Parts
  <1> QED
    BY <1>1, <1>2 DEF Opened, Found, TypeOK

\* The wizard takes nothing back of what was found: rows of domains and
\* mailboxes may go, but they were seen.
LEMMA WizardKeepsFound ==
  ASSUME OpenInv, Wizard
  PROVE  /\ \A part \in Parts : Found(part) => Found(part)'
         /\ PresentSeen'
         /\ Opened => Opened'
  <1>1. /\ seen \subseteq seen' /\ seen' = seen \cup Present(rows')
        /\ seen' \subseteq Parts
    BY WizardTyped DEF OpenInv, TypeOK
  <1>2. \A part \in Singletons : rows[part] # {} => rows'[part] # {}
    <2>1. ASSUME NEW p \in {"domain", "mailbox"}, NEW kept, Store(p, kept)
          PROVE  \A part \in Singletons : rows'[part] = rows[part]
      BY <2>1 DEF OpenInv, TypeOK, Store, Singletons, Parts
    <2>2. CASE \E part \in Singletons : SaveSettings(part)
      <3>1. PICK p \in Singletons : Store(p, Keys[p])
        BY <2>2 DEF SaveSettings
      <3>2. p \in Parts /\ Keys[p] = {"singleton"}
        BY <3>1 DEF Singletons, Parts, Keys
      <3>3. rows' = [rows EXCEPT ![p] = {"singleton"}] /\ DOMAIN rows = Parts
        BY <3>1, <3>2 DEF Store, OpenInv, TypeOK
      <3> QED
        BY <3>2, <3>3 DEF Singletons, Parts
    <2>3. CASE \E d \in Domains : AddDomain(d) \/ RemoveDomain(d)
      BY <2>1, <2>3 DEF AddDomain, RemoveDomain
    <2>4. CASE \E m \in Mailboxes : AddMailbox(m) \/ RemoveMailbox(m)
      BY <2>1, <2>4 DEF AddMailbox, RemoveMailbox
    <2> QED
      BY <2>2, <2>3, <2>4 DEF Wizard
  <1>3. PresentSeen'
    BY <1>1 DEF PresentSeen, Present
  <1> QED
    BY <1>1, <1>2, <1>3 DEF Found, Opened

\* A page of the wizard keeps the invariant: what was found stays found.
LEMMA WizardKeepsOpen ==
  ASSUME OpenInv, Wizard
  PROVE  OpenInv'
  <1>1. TypeOK' /\ Stored
    BY WizardTyped DEF OpenInv
  <1>2. UNCHANGED <<latch, phase, asked, verdict>>
    BY <1>1 DEF Stored, request
  <1>3. AskedFound'
    <2>1. ASSUME NEW r \in Requests, phase[r] = "asking", NEW i \in 1 .. asked[r]
          PROVE  Found(Queries[i])'
      <3>1. i \in 1 .. 4
        BY <2>1, AsksForAPart DEF OpenInv
      <3> QED
        BY <2>1, <3>1, QueriesAreParts, WizardKeepsFound DEF OpenInv, AskedFound
    <2> QED
      BY <1>2, <2>1 DEF AskedFound
  <1>4. (ConcludedOpened /\ LatchOpened /\ PassedOpened)'
    BY <1>2, WizardKeepsFound DEF OpenInv, ConcludedOpened, LatchOpened, PassedOpened
  <1> QED
    BY <1>1, <1>3, <1>4, WizardKeepsFound DEF OpenInv

\* A query that finds a row keeps the invariant; the last one has found all parts.
LEMMA FindsRowKeepsOpen ==
  ASSUME OpenInv, NEW r \in Requests, FindsRow(r)
  PROVE  OpenInv'
  <1>1. TypeOK /\ TypeOK'
    BY CheckTyped DEF OpenInv, Check
  <1>2. phase[r] = "asking" /\ asked[r] \in 0 .. 3 /\ Asks(r) \in Parts
    BY <1>1, AsksForAPart DEF FindsRow
  <1>3. /\ asked' = [asked EXCEPT ![r] = asked[r] + 1] /\ asked'[r] = asked[r] + 1
        /\ UNCHANGED <<rows, latch, seen>>
    BY <1>1 DEF FindsRow, TypeOK
  <1>4. Found(Asks(r))
    BY <1>2 DEF OpenInv, PresentSeen, Found, FindsRow
  <1>5. \A i \in 1 .. asked'[r] : Found(Queries[i])
    <2>1. ASSUME NEW i \in 1 .. asked'[r] PROVE Found(Queries[i])
      <3>1. i \in 1 .. asked[r] \/ i = asked[r] + 1
        BY <1>2, <1>3, <2>1
      <3> QED
        BY <1>2, <1>4, <3>1 DEF OpenInv, AskedFound, Asks
    <2> QED
      BY <2>1
  <1>6. CASE asked'[r] = Len(Queries)
    <2>1. Opened
      BY <1>1, <1>5, <1>6, AllFound, QueriesAreParts
    <2>2. /\ phase' = [phase EXCEPT ![r] = "deciding"]
          /\ verdict' = [verdict EXCEPT ![r] = TRUE]
      BY <1>6 DEF FindsRow, Conclude
    <2>3. Opened'
      BY <1>3, <2>1 DEF Opened
    <2>4. AskedFound'
      BY <1>1, <1>3, <2>2 DEF OpenInv, AskedFound, Found, TypeOK
    <2> QED
      BY <1>1, <1>3, <2>3, <2>4
      DEF OpenInv, PresentSeen, ConcludedOpened, LatchOpened, PassedOpened
  <1>7. CASE asked'[r] # Len(Queries)
    <2>1. UNCHANGED <<phase, verdict>>
      BY <1>7 DEF FindsRow
    <2>2. AskedFound'
      BY <1>1, <1>3, <1>5, <2>1 DEF OpenInv, AskedFound, Found, TypeOK
    <2> QED
      BY <1>1, <1>3, <2>1, <2>2
      DEF OpenInv, PresentSeen, ConcludedOpened, LatchOpened, PassedOpened, Opened
  <1> QED
    BY <1>6, <1>7

\* The other steps of a request keep the invariant: an open latch has its cause.
LEMMA RequestKeepsOpen ==
  ASSUME OpenInv, NEW r \in Requests,
         \/ WaveThrough(r) \/ BeginCheck(r) \/ FindsNone(r)
         \/ Decide(r) \/ Answer(r) \/ Abort(r)
  PROVE  OpenInv'
  <1>1. TypeOK /\ TypeOK'
    BY GateTyped, CheckTyped DEF OpenInv, Check
  <1>2. UNCHANGED <<rows, seen>>
    BY DEF WaveThrough, BeginCheck, Enter, FindsNone, Decide, Answer, Abort
  <1>3. (Opened' = Opened) /\ PresentSeen'
    BY <1>2 DEF OpenInv, Opened, PresentSeen
  <1> USE DEF OpenInv, AskedFound, ConcludedOpened, LatchOpened, PassedOpened, Found, TypeOK
  <1>4. CASE WaveThrough(r)
    BY <1>1, <1>2, <1>3, <1>4 DEF WaveThrough, Enter
  <1>5. CASE BeginCheck(r)
    <2>1. UNCHANGED <<latch, verdict>> /\ phase' = [phase EXCEPT ![r] = "asking"]
          /\ asked' = [asked EXCEPT ![r] = 0]
      BY <1>5 DEF BeginCheck, Enter
    <2>2. AskedFound'
      BY <1>1, <1>2, <2>1
    <2> QED
      BY <1>1, <1>2, <1>3, <2>1, <2>2
  <1>6. CASE FindsNone(r)
    BY <1>1, <1>2, <1>3, <1>6 DEF FindsNone, Conclude
  <1>7. CASE Decide(r)
    BY <1>1, <1>2, <1>3, <1>7 DEF Decide
  <1>8. CASE Answer(r)
    BY <1>1, <1>2, <1>3, <1>8 DEF Answer
  <1>9. CASE Abort(r)
    BY <1>1, <1>2, <1>3, <1>9 DEF Abort
  <1> QED
    BY <1>4, <1>5, <1>6, <1>7, <1>8, <1>9

\* Every step keeps the invariant of the open gate.
LEMMA OpenStep ==
  ASSUME OpenInv, [Next]_vars
  PROVE  OpenInv'
  <1>1. CASE UNCHANGED vars
    <2>1. TypeOK'
      BY <1>1, StepTyped DEF OpenInv
    <2> QED
      BY <1>1, <2>1
      DEF vars, OpenInv, PresentSeen, AskedFound, Found, ConcludedOpened, LatchOpened,
          PassedOpened, Opened
  <1>2. CASE Restart
    <2>1. TypeOK'
      BY <1>2, RestartTyped DEF OpenInv
    <2>2. PresentSeen'
      BY <1>2 DEF Restart, PresentSeen, Present
    <2>3. (AskedFound /\ ConcludedOpened /\ LatchOpened /\ PassedOpened)'
      BY <1>2 DEF Restart, AskedFound, ConcludedOpened, LatchOpened, PassedOpened
    <2> QED
      BY <2>1, <2>2, <2>3 DEF OpenInv
  <1> QED
    BY <1>1, <1>2, WizardKeepsOpen, FindsRowKeepsOpen, RequestKeepsOpen DEF Next, Check

\* FR-CFG-2, as far as it holds: whatever checks, pages and restarts overlap, no
\* request gets past the gate unless every part was seen in this process and the
\* settings are there.
THEOREM GateIsJustified == Spec => []GateOpensForCause
  <1>1. Init => OpenInv
    <2>1. ASSUME Init PROVE TypeOK
      BY <2>1, InitTyped
    <2> QED
      BY <2>1
      DEF Init, OpenInv, PresentSeen, AskedFound, ConcludedOpened, LatchOpened, PassedOpened
  <1>2. OpenInv => GateOpensForCause
    BY DEF OpenInv, LatchOpened, PassedOpened, Opened, GateOpensForCause
  <1> QED
    BY <1>1, <1>2, OpenStep, PTL DEF Spec

-----------------------------------------------------------------------------
\* Without doubt, a result that says no is neither under way nor in the latch.
IncompleteIsDoubted == ~Quiet /\ ~Complete => doubt
NoIsDoubted == \A r \in Requests : phase[r] = "deciding" /\ ~verdict[r] => doubt
ClosedIsDoubted == \A r \in Requests : phase[r] = "answering" /\ ~latch => doubt

DoubtInv ==
  /\ TypeOK
  /\ IncompleteIsDoubted
  /\ NoIsDoubted
  /\ ClosedIsDoubted

\* A table that lacks a part a check asks for is not complete.
LEMMA MissingPart ==
  ASSUME TypeOK, NEW part \in Parts, rows[part] = {}
  PROVE  ~Complete
  BY DEF Complete, Present

\* Every step keeps the invariant of the doubt: a closed latch that a request is about
\* to read was closed by a check that overlaps it.
LEMMA DoubtStep ==
  ASSUME DoubtInv, [Next]_vars
  PROVE  DoubtInv'
  <1> USE DEF DoubtInv
  <1>0. TypeOK /\ TypeOK'
    BY StepTyped
  <1> USE DEF IncompleteIsDoubted, NoIsDoubted, ClosedIsDoubted
  <1>1. CASE UNCHANGED vars
    BY <1>0, <1>1 DEF vars, Quiet, InFlight, Complete, Present
  <1>2. CASE Restart
    BY <1>0, <1>2 DEF Restart, Quiet, InFlight
  <1>3. CASE Wizard
    <2>1. PICK part, kept : Store(part, kept)
      BY <1>3 DEF Wizard, SaveSettings, AddDomain, RemoveDomain, AddMailbox, RemoveMailbox
    <2>2. /\ UNCHANGED <<latch, phase, verdict>>
          /\ doubt' = (doubt \/ (~Quiet /\ Present(rows') # Parts))
      BY <2>1 DEF Store, request
    <2>3. Quiet' = Quiet
      BY <2>2 DEF Quiet, InFlight
    <2>4. Complete' = (Present(rows') = Parts)
      BY DEF Complete, Present
    <2> QED
      BY <1>0, <2>2, <2>3, <2>4
  <1>4. ASSUME NEW r \in Requests, WaveThrough(r) \/ Answer(r) \/ Abort(r)
        PROVE  DoubtInv'
    <2>1. UNCHANGED <<rows, latch, verdict, doubt>>
      BY <1>4 DEF WaveThrough, Enter, Answer, Abort
    <2>2. \A q \in Requests : phase'[q] = phase[q] \/ phase'[q] \in {"away", "passed", "redirected"}
      BY <1>0, <1>4 DEF WaveThrough, Enter, Answer, Abort, TypeOK
    <2>3. Quiet => Quiet'
      BY <2>2 DEF Quiet, InFlight
    <2>4. Complete' = Complete
      BY <2>1 DEF Complete, Present
    <2> QED
      BY <1>0, <2>1, <2>2, <2>3, <2>4
  <1>5. ASSUME NEW r \in Requests, BeginCheck(r)
        PROVE  DoubtInv'
    <2>1. /\ ~latch /\ UNCHANGED <<rows, latch, verdict>>
          /\ phase' = [phase EXCEPT ![r] = "asking"]
          /\ doubt' = IF Quiet THEN ~Complete ELSE doubt
      BY <1>5 DEF BeginCheck, Enter
    <2>2. Complete' = Complete
      BY <2>1 DEF Complete, Present
    <2>3. \A q \in Requests : phase'[q] \in {"deciding", "answering"} =>
            phase'[q] = phase[q] /\ ~Quiet
      BY <1>0, <2>1 DEF Quiet, InFlight, TypeOK
    <2> QED
      BY <1>0, <2>1, <2>2, <2>3
  <1>6. ASSUME NEW r \in Requests, FindsRow(r) \/ FindsNone(r)
        PROVE  DoubtInv'
    <2>1. phase[r] = "asking" /\ UNCHANGED <<rows, latch, doubt>>
      BY <1>6 DEF FindsRow, FindsNone
    <2>2. ~Quiet
      BY <2>1 DEF Quiet, InFlight
    <2>3. Complete' = Complete
      BY <2>1 DEF Complete, Present
    <2>4. CASE UNCHANGED <<phase, verdict>>
      BY <1>0, <2>1, <2>2, <2>3, <2>4
    <2>5. CASE Conclude(r, TRUE)
      BY <1>0, <2>1, <2>2, <2>3, <2>5 DEF Conclude, TypeOK
    <2>6. CASE FindsNone(r)
      <3>1. ~Complete
        BY <1>0, <2>1, <2>6, AsksForAPart, MissingPart DEF FindsNone
      <3>2. doubt
        BY <2>2, <3>1
      <3> QED
        BY <1>0, <2>1, <3>2
    <2> QED
      BY <1>6, <2>4, <2>5, <2>6 DEF FindsRow
  <1>7. ASSUME NEW r \in Requests, Decide(r)
        PROVE  DoubtInv'
    <2>1. /\ phase[r] = "deciding" /\ latch' = verdict[r]
          /\ phase' = [phase EXCEPT ![r] = "answering"]
          /\ UNCHANGED <<rows, verdict, doubt>>
      BY <1>7 DEF Decide
    <2>2. ~Quiet /\ (~verdict[r] => doubt)
      BY <2>1 DEF Quiet, InFlight
    <2>3. Complete' = Complete
      BY <2>1 DEF Complete, Present
    <2> QED
      BY <1>0, <2>1, <2>2, <2>3 DEF TypeOK
  <1> QED
    BY <1>1, <1>2, <1>3, <1>4, <1>5, <1>6, <1>7 DEF Next, Check

LEMMA DoubtStart == Init => DoubtInv
  <1> SUFFICES ASSUME Init PROVE DoubtInv
    OBVIOUS
  <1>1. TypeOK
    BY InitTyped
  <1> QED
    BY <1>1 DEF Init, DoubtInv, IncompleteIsDoubted, NoIsDoubted, ClosedIsDoubted, Quiet, InFlight

\* NFR-USE-1, the other way round: whichever way checks overlap and overwrite
\* each other's result, a request is redirected only if the setup was incomplete
\* during its check or an overlapping one.
THEOREM RedirectIsJustified == Spec => RedirectedForCause
  <1>1. Init => DoubtInv
    BY DoubtStart
  <1>2. ASSUME DoubtInv, [Next]_vars
        PROVE  [\A r \in Requests : phase[r] # "redirected" /\ phase'[r] = "redirected" => doubt]_vars
    <2>1. SUFFICES ASSUME NEW r \in Requests, phase[r] # "redirected", phase'[r] = "redirected"
                   PROVE  doubt
      OBVIOUS
    <2>2. phase \in [Requests -> Phases]
      BY <1>2 DEF DoubtInv, TypeOK
    <2>3. phase' # phase
      BY <2>1
    <2>4. ~Wizard
      <3>1. Wizard => UNCHANGED phase
        BY <1>2, WizardTyped DEF DoubtInv, Stored, request
      <3> QED
        BY <2>3, <3>1
    <2>5. ~Restart
      BY <2>1 DEF Restart
    <2>6. PICK q \in Requests : WaveThrough(q) \/ BeginCheck(q) \/ Check(q) \/ Abort(q)
      BY <1>2, <2>3, <2>4, <2>5 DEF Next, vars
    <2>7. Answer(q) /\ ~latch /\ q = r
      BY <2>1, <2>2, <2>6
      DEF WaveThrough, BeginCheck, Enter, Check, FindsRow, FindsNone, Conclude, Decide, Answer, Abort
    <2> QED
      BY <1>2, <2>7 DEF DoubtInv, ClosedIsDoubted, Answer
  <1> QED
    BY <1>1, <1>2, DoubtStep, PTL DEF Spec, RedirectedForCause

-----------------------------------------------------------------------------
\* The latch is taken back only by a check that missed a part, or by a restart.
ClosedForCause == [][latch /\ ~latch' => doubt \/ Restart]_vars

\* The gate does not close by chance: once the setup was found complete, the latch is
\* taken back only by a restart of the process, or by a check that the setup was
\* incomplete for while it, or one that overlaps it, was under way. No order in which
\* complete answers arrive closes it, however many checks overwrite each other's result.
THEOREM GateClosesForCause == Spec => ClosedForCause
  <1>1. ASSUME DoubtInv, [Next]_vars
        PROVE  [latch /\ ~latch' => doubt \/ Restart]_vars
    <2>1. SUFFICES ASSUME latch, ~latch', ~Restart
                   PROVE  doubt
      OBVIOUS
    <2>2. ~Wizard
      BY <1>1, <2>1, WizardTyped DEF DoubtInv, Stored
    <2>3. PICK r \in Requests : WaveThrough(r) \/ BeginCheck(r) \/ Check(r) \/ Abort(r)
      BY <1>1, <2>1, <2>2 DEF Next, vars
    <2>4. Decide(r) /\ ~verdict[r]
      BY <2>1, <2>3
      DEF WaveThrough, BeginCheck, Enter, Check, FindsRow, FindsNone, Decide, Answer, Abort
    <2> QED
      BY <1>1, <2>4 DEF DoubtInv, NoIsDoubted, Decide
  <1> QED
    BY <1>1, DoubtStart, DoubtStep, PTL DEF Spec, ClosedForCause
=============================================================================
