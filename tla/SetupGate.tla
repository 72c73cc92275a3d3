------------------------------ MODULE SetupGate ------------------------------
(***************************************************************************)
(* SetupGateMiddleware and SetupStateService: every request that is not    *)
(* for the wizard is redirected to it until the Graph connection, a        *)
(* domain, a mailbox and the retention are configured.  A check is four    *)
(* queries, one after the other, while other requests run their own checks *)
(* and administrators add and remove rows; its result goes to one static   *)
(* flag, the latch, and the request is answered by what the latch holds.   *)
(*                                                                         *)
(* What a page saves is one step: its reads before the save decide only    *)
(* whether it tries, and the unique indexes refuse what came in between.   *)
(***************************************************************************)
EXTENDS Naturals, Sequences

CONSTANTS
  Requests,   \* slots for requests that are not for the wizard
  Domains,
  Mailboxes,
  MaxFaults   \* bound: aborted checks and restarts

Queries == <<"graph", "domain", "mailbox", "retention">>
Parts == {"graph", "domain", "mailbox", "retention"}

\* The settings of a singleton are one row, under a fixed id.
Singletons == {"graph", "retention"}
Keys == [part \in Parts |->
           CASE part \in Singletons -> {"singleton"}
             [] part = "domain" -> Domains
             [] part = "mailbox" -> Mailboxes]

ASSUME ConstantsAssumption == MaxFaults \in Nat

VARIABLES
  rows,     \* of every part, the rows in the database
  latch,    \* _setupComplete
  phase,    \* of every request: "away", "asking", "deciding", "answering", or its answer
  asked,    \* how many queries of its check have found a row
  verdict,  \* what its check returned
  seen,     \* parts that had a row since the process started (not in the code)
  doubt,    \* the setup was incomplete during these checks (not in the code)
  faults    \* how much of MaxFaults is spent

request == <<phase, asked, verdict>>
vars == <<rows, latch, phase, asked, verdict, seen, doubt, faults>>

Phases == {"away", "asking", "deciding", "answering", "passed", "redirected"}
InFlight(r) == phase[r] \in {"asking", "deciding", "answering"}
Quiet == \A r \in Requests : ~InFlight(r)

Present(table) == {part \in Parts : table[part] # {}}
Complete == Present(rows) = Parts

Init ==
  /\ rows = [part \in Parts |-> {}]
  /\ latch = FALSE
  /\ phase = [r \in Requests |-> "away"]
  /\ asked = [r \in Requests |-> 0]
  /\ verdict = [r \in Requests |-> FALSE]
  /\ seen = {}
  /\ doubt = FALSE
  /\ faults = 0

-----------------------------------------------------------------------------
(***************************************************************************)
(* The pages of the wizard.                                                *)
(***************************************************************************)
Store(part, kept) ==
  /\ rows' = [rows EXCEPT ![part] = kept]
  /\ seen' = seen \cup Present(rows')
  /\ doubt' = (doubt \/ (~Quiet /\ Present(rows') # Parts))
  /\ UNCHANGED <<latch, request, faults>>

\* The pages of the Graph connection and of the retention create their row with
\* the first post and update it with the later ones; nothing deletes it.
SaveSettings(part) ==
  /\ part \in Singletons
  /\ Store(part, Keys[part])

AddDomain(d) == Store("domain", rows["domain"] \cup {d})

\* Its links to mailboxes and its reports go with a domain; the mailboxes stay.
RemoveDomain(d) == Store("domain", rows["domain"] \ {d})

\* A mailbox is saved with links to one domain or more: the foreign key refuses
\* it when all that were chosen are gone.
AddMailbox(m) ==
  /\ rows["domain"] # {}
  /\ Store("mailbox", rows["mailbox"] \cup {m})

\* Refused for a mailbox that has reports, which changes nothing.
RemoveMailbox(m) == Store("mailbox", rows["mailbox"] \ {m})

-----------------------------------------------------------------------------
(***************************************************************************)
(* A request meets the gate.                                               *)
(***************************************************************************)
Enter(r, next) ==
  /\ ~InFlight(r)
  /\ phase' = [phase EXCEPT ![r] = next]
  /\ UNCHANGED <<rows, latch, verdict, seen, faults>>

WaveThrough(r) ==
  /\ latch
  /\ Enter(r, "passed")
  /\ UNCHANGED <<asked, doubt>>

BeginCheck(r) ==
  /\ ~latch
  /\ Enter(r, "asking")
  /\ asked' = [asked EXCEPT ![r] = 0]
  /\ doubt' = IF Quiet THEN ~Complete ELSE doubt

Conclude(r, complete) ==
  /\ phase' = [phase EXCEPT ![r] = "deciding"]
  /\ verdict' = [verdict EXCEPT ![r] = complete]

Asks(r) == Queries[asked[r] + 1]

\* Variant with a mistake: the last part is not asked for.
FindsRow_SkipsLast(r) ==
  /\ phase[r] = "asking"
  /\ rows[Asks(r)] # {}
  /\ asked' = [asked EXCEPT ![r] = @ + 1]
  /\ IF asked'[r] = Len(Queries) - 1 THEN Conclude(r, TRUE) ELSE UNCHANGED <<phase, verdict>>
  /\ UNCHANGED <<rows, latch, seen, doubt, faults>>

FindsRow(r) ==
  /\ phase[r] = "asking"
  /\ rows[Asks(r)] # {}
  /\ asked' = [asked EXCEPT ![r] = @ + 1]
  /\ IF asked'[r] = Len(Queries) THEN Conclude(r, TRUE) ELSE UNCHANGED <<phase, verdict>>
  /\ UNCHANGED <<rows, latch, seen, doubt, faults>>

FindsNone(r) ==
  /\ phase[r] = "asking"
  /\ rows[Asks(r)] = {}
  /\ Conclude(r, FALSE)
  /\ UNCHANGED <<rows, latch, asked, seen, doubt, faults>>

\* Variants with a mistake: the latch only ever narrows; the result stays local.
Decide_Narrows(r) ==
  /\ phase[r] = "deciding"
  /\ latch' = (latch /\ verdict[r])
  /\ phase' = [phase EXCEPT ![r] = "answering"]
  /\ UNCHANGED <<rows, asked, verdict, seen, doubt, faults>>

Decide_Forgets(r) ==
  /\ phase[r] = "deciding"
  /\ phase' = [phase EXCEPT ![r] = IF verdict[r] THEN "passed" ELSE "redirected"]
  /\ UNCHANGED <<rows, latch, asked, verdict, seen, doubt, faults>>

\* The result of the check replaces whatever another check has left there ...
Decide(r) ==
  /\ phase[r] = "deciding"
  /\ latch' = verdict[r]
  /\ phase' = [phase EXCEPT ![r] = "answering"]
  /\ UNCHANGED <<rows, asked, verdict, seen, doubt, faults>>

\* ... and the latch is read once more for the answer.
Answer(r) ==
  /\ phase[r] = "answering"
  /\ phase' = [phase EXCEPT ![r] = IF latch THEN "passed" ELSE "redirected"]
  /\ UNCHANGED <<rows, latch, asked, verdict, seen, doubt, faults>>

-----------------------------------------------------------------------------
\* The client goes away (RequestAborted), or a query fails: no result is stored.
Abort(r) ==
  /\ faults < MaxFaults
  /\ faults' = faults + 1
  /\ phase[r] = "asking"
  /\ phase' = [phase EXCEPT ![r] = "away"]
  /\ UNCHANGED <<rows, latch, asked, verdict, seen, doubt>>

\* The latch lives as long as the process; the rows stay.
Restart ==
  /\ faults < MaxFaults
  /\ faults' = faults + 1
  /\ latch' = FALSE
  /\ phase' = [r \in Requests |-> "away"]
  /\ seen' = Present(rows)
  /\ doubt' = FALSE
  /\ UNCHANGED <<rows, asked, verdict>>

Wizard ==
  \/ \E part \in Singletons : SaveSettings(part)
  \/ \E d \in Domains : AddDomain(d) \/ RemoveDomain(d)
  \/ \E m \in Mailboxes : AddMailbox(m) \/ RemoveMailbox(m)

Check(r) == FindsRow(r) \/ FindsNone(r) \/ Decide(r) \/ Answer(r)

Next ==
  \/ Wizard
  \/ \E r \in Requests : WaveThrough(r) \/ BeginCheck(r) \/ Check(r) \/ Abort(r)
  \/ Restart

Spec == Init /\ [][Next]_vars

\* A request that was let into the gate is worked on; nobody has to come, and
\* nobody has to use the wizard.
FairSpec == Spec /\ \A r \in Requests : WF_vars(Check(r))

-----------------------------------------------------------------------------
\* Types; a check that asks has a query left to ask.
TypeOK ==
  /\ rows \in [Parts -> SUBSET (Domains \cup Mailboxes \cup {"singleton"})]
  /\ latch \in BOOLEAN
  /\ phase \in [Requests -> Phases]
  /\ asked \in [Requests -> 0 .. Len(Queries)]
  /\ verdict \in [Requests -> BOOLEAN]
  /\ \A r \in Requests : phase[r] = "asking" => asked[r] < Len(Queries)
  /\ seen \subseteq Parts
  /\ doubt \in BOOLEAN
  /\ faults \in Nat

(***************************************************************************)
(* Properties                                                              *)
(***************************************************************************)
\* FR-CFG-2, as far as it holds: four queries are no snapshot, so the setup need
\* never have been complete at one moment; but no request gets past the gate
\* unless every part had a row at some time since the process started, and the
\* settings, which nothing deletes, are there.
GateOpensForCause ==
  latch \/ (\E r \in Requests : phase[r] = "passed") =>
    /\ seen = Parts
    /\ \A part \in Singletons : rows[part] # {}

\* NFR-USE-1, the other way round: although an older check may close the gate
\* behind a newer one, a request is redirected only if the setup was incomplete
\* while its check, or one that overlaps it directly or through others, was
\* under way.
RedirectedForCause ==
  [][\A r \in Requests : phase[r] # "redirected" /\ phase'[r] = "redirected" => doubt]_vars

\* Once the setup stays complete, late results of older checks cannot keep the
\* gate closed: it opens for good, unless no request needs it.
GateSettles == <>[]Complete => <>[](latch \/ Quiet)
=============================================================================
