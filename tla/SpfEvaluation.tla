--------------------------- MODULE SpfEvaluation ---------------------------
(***************************************************************************)
(* SpfEvaluator: the recursive evaluation of a domain's SPF record against *)
(* the IP address of a report record, over a DNS that may answer with an   *)
(* error, throw, or change between two queries.                            *)
(*                                                                         *)
(* The recursion of EvaluateDomainAsync is the stack frames, its innermost *)
(* call first.  An action is the code from one DNS query to the next; the  *)
(* LookupCounter is shared by all frames of one call of EvaluateAsync.     *)
(***************************************************************************)
EXTENDS SpfCidr

CONSTANTS
  Domains,     \* domain and host names
  Zones,       \* what DNS may hold: see ConstantsAssumption
  Terms,       \* the terms of SPF records
  MaxLookups,  \* SpfEvaluator.MaxLookups, 10 in the code
  Unsteady,    \* bound: the zones that change, or answer with an error
  MaxFaults    \* bound: how often they do

Qualifiers == {"+", "-", "~", "?"}
Mechanisms == {"all", "ip4", "ip6", "a", "mx", "exists", "include", "ptr", "unknown"}
Modifiers == {"redirect", "other"}
Codes == {"None", "Neutral", "Pass", "Fail", "SoftFail", "TempError", "PermError"}

\* A term has the address or the domain it names (None for a mechanism that
\* names none) and the prefix it gives for the family of the checked address.
\* A zone holds the SPF records of every domain, each the sequence of its
\* terms, its A and AAAA addresses and its mail exchanges.
ASSUME ConstantsAssumption ==
  /\ MaxLookups \in Nat
  /\ MaxFaults \in Nat
  /\ \A t \in Terms : /\ t.kind \in Mechanisms \cup Modifiers
                      /\ t.qualifier \in Qualifiers
                      /\ t.kind \notin {"ip4", "ip6"} => t.target \in Domains \cup {None}
                      /\ t.kind = "redirect" => t.target # None
  /\ \A z \in Zones : /\ z.txt \in [Domains -> Seq(Seq(Terms))]
                      /\ z.exchanges \in [Domains -> Seq(Domains)]
  /\ Unsteady \subseteq Zones
  /\ None \notin Domains \cup Mechanisms

VARIABLES
  zone,       \* what DNS holds now
  pc,         \* "idle", before a query, a term or an exchange, "return", or over
  frames,     \* calls of EvaluateDomainAsync: domain, terms left, redirect
  count,      \* LookupCounter.Count
  exchanges,  \* the exchanges of an mx mechanism still to resolve
  outcome,    \* the result being returned
  exhausted,  \* TryIncrement has refused a lookup (not in the code)
  faults      \* how much of MaxFaults is spent

vars == <<zone, pc, frames, count, exchanges, outcome, exhausted, faults>>
quiet == <<zone, exchanges, faults>>    \* untouched by a step without a query

Result(code, mechanism) == [code |-> code, mechanism |-> mechanism]
Frame(d) == [domain |-> d, terms |-> <<>>, redirect |-> None]

Init ==
  /\ zone \in Zones
  /\ pc = "idle"
  /\ frames = <<>>
  /\ count = 0
  /\ exchanges = <<>>
  /\ outcome = Result("None", None)
  /\ exhausted = FALSE
  /\ faults = 0

-----------------------------------------------------------------------------
Top == Head(frames)
Term == Head(Top.terms)
Target == IF Term.target = None THEN Top.domain ELSE Term.target
At(kinds) == pc = "term" /\ Top.terms # <<>> /\ Term.kind \in kinds
AtRedirect == pc = "term" /\ Top.terms = <<>> /\ Top.redirect # None

RequiresLookup == {"a", "mx", "include", "exists", "ptr"}

TryIncrement ==
  /\ count < MaxLookups
  /\ count' = count + 1
  /\ UNCHANGED exhausted

QualifierToResult(q) ==
  CASE q = "+" -> "Pass"
    [] q = "-" -> "Fail"
    [] q = "~" -> "SoftFail"
    [] q = "?" -> "Neutral"

\* One query: DNS tells what it holds, or answers with an error, which the
\* resolver hands on as no record at all.
Ask(held, empty, answer) ==
  /\ \/ answer = held /\ UNCHANGED faults
     \/ /\ answer = empty /\ held # empty
        /\ zone \in Unsteady /\ faults < MaxFaults
        /\ faults' = faults + 1
  /\ UNCHANGED zone

Return(code, mechanism) ==
  /\ outcome' = Result(code, mechanism)
  /\ pc' = "return"

\* Go on with the next term of the innermost frame of stack.
Advance(stack) ==
  /\ frames' = <<[Head(stack) EXCEPT !.terms = Tail(@)]>> \o Tail(stack)
  /\ pc' = "term"
  /\ UNCHANGED outcome

\* A mechanism that matches decides; any other lets the next term try.
Decide(matched) ==
  IF matched
  THEN Return(QualifierToResult(Term.qualifier), Term.kind) /\ UNCHANGED frames
  ELSE Advance(frames)

Call(d) ==
  /\ frames' = <<Frame(d)>> \o frames
  /\ pc' = "query"
  /\ UNCHANGED outcome

-----------------------------------------------------------------------------
\* The pipeline evaluates the next record of a report.
EvaluateAsync(d) ==
  /\ pc \in {"idle", "done", "failed"}
  /\ pc' = "query"
  /\ frames' = <<Frame(d)>>
  /\ count' = 0
  /\ exchanges' = <<>>
  /\ outcome' = Result("None", None)
  /\ exhausted' = FALSE
  /\ UNCHANGED <<zone, faults>>

Published == zone.txt[Top.domain]

NoRecord ==
  /\ pc = "query"
  /\ Ask(Published, <<>>, <<>>)
  /\ Return("None", None)
  /\ UNCHANGED <<frames, count, exchanges, exhausted>>

ManyRecords ==
  /\ pc = "query"
  /\ Len(Published) > 1
  /\ Ask(Published, <<>>, Published)
  /\ Return("PermError", None)
  /\ UNCHANGED <<frames, count, exchanges, exhausted>>

OneRecord ==
  /\ pc = "query"
  /\ Len(Published) = 1
  /\ Ask(Published, <<>>, Published)
  /\ frames' = <<[Top EXCEPT !.terms = Head(Published)]>> \o Tail(frames)
  /\ pc' = "term"
  /\ UNCHANGED <<count, exchanges, outcome, exhausted>>

\* The last redirect wins; other modifiers are ignored.
Modifier ==
  /\ At(Modifiers)
  /\ frames' = <<[Top EXCEPT !.terms = Tail(@),
                             !.redirect = IF Term.kind = "redirect" THEN Term.target ELSE @]>>
               \o Tail(frames)
  /\ UNCHANGED <<quiet, pc, count, outcome, exhausted>>

LookupRefused ==
  /\ count = MaxLookups
  /\ At(RequiresLookup) \/ AtRedirect
  /\ Return("PermError", None)
  /\ exhausted' = TRUE
  /\ UNCHANGED <<quiet, frames, count>>

MatchDirectly ==
  /\ At({"all", "ip4", "ip6"})
  /\ Decide(Term.kind = "all" \/ MatchesIpMechanism(Term.kind, Term.target, Term.prefix))
  /\ UNCHANGED <<quiet, count, exhausted>>

\* The addresses of a host in the family of the checked address.
Addresses(z, host) == IF Len(Checked) = Ip4Bytes THEN z.a[host] ELSE z.aaaa[host]

\* exists asks for A records, whatever the family of the checked address.
AddressesOf(z, kind, host) == IF kind = "exists" THEN z.a[host] ELSE Addresses(z, host)

MatchAddresses ==
  /\ At({"a", "exists"})
  /\ TryIncrement
  /\ \E addresses \in {AddressesOf(zone, Term.kind, Target), {}} :
       /\ Ask(AddressesOf(zone, Term.kind, Target), {}, addresses)
       /\ Decide(IF Term.kind = "a" THEN MatchesHost(addresses, Term.prefix)
                 ELSE addresses # {})
  /\ UNCHANGED exchanges

ResolveMx ==
  /\ At({"mx"})
  /\ TryIncrement
  /\ exchanges' \in {zone.exchanges[Target], <<>>}
  /\ Ask(zone.exchanges[Target], <<>>, exchanges')
  /\ pc' = "mx"
  /\ UNCHANGED <<frames, outcome>>

\* The address queries of an mx mechanism are not counted as lookups.
ExchangeMatches(addresses) ==
  /\ MatchesHost(addresses, Term.prefix)
  /\ Decide(TRUE)
  /\ exchanges' = <<>>

ExchangeDiffers(addresses) ==
  /\ ~MatchesHost(addresses, Term.prefix)
  /\ exchanges' = Tail(exchanges)
  /\ UNCHANGED <<pc, frames, outcome>>

MatchExchange ==
  /\ pc = "mx"
  /\ exchanges # <<>>
  /\ \E addresses \in {Addresses(zone, Head(exchanges)), {}} :
       /\ Ask(Addresses(zone, Head(exchanges)), {}, addresses)
       /\ ExchangeMatches(addresses) \/ ExchangeDiffers(addresses)
  /\ UNCHANGED <<count, exhausted>>

NoExchangeMatches ==
  /\ pc = "mx"
  /\ exchanges = <<>>
  /\ Decide(FALSE)
  /\ UNCHANGED <<quiet, count, exhausted>>

\* Variant with a mistake: an include is not counted.
Include_Uncounted ==
  /\ At({"include"})
  /\ Term.target # None
  /\ Call(Term.target)
  /\ UNCHANGED <<quiet, count, exhausted>>

Include ==
  /\ At({"include"})
  /\ Term.target # None
  /\ TryIncrement
  /\ Call(Term.target)
  /\ UNCHANGED quiet

\* An include that names no domain, ptr, or a mechanism nobody knows.
Unsupported ==
  /\ \/ At({"ptr"}) /\ TryIncrement
     \/ At({"include"}) /\ Term.target = None /\ TryIncrement
     \/ At({"unknown"}) /\ UNCHANGED <<count, exhausted>>
  /\ Return("PermError", None)
  /\ UNCHANGED <<quiet, frames>>

\* Variants with a mistake: a loop instead of the recursion forgets the limit;
\* every record redirects.
Redirect_Loop ==
  /\ AtRedirect
  /\ frames' = <<Frame(Top.redirect)>> \o Tail(frames)
  /\ pc' = "query"
  /\ UNCHANGED <<quiet, count, outcome, exhausted>>

Redirect_Always ==
  /\ pc = "term" /\ Top.terms = <<>>
  /\ TryIncrement
  /\ Call(Top.redirect)
  /\ UNCHANGED quiet

Redirect ==
  /\ AtRedirect
  /\ TryIncrement
  /\ Call(Top.redirect)
  /\ UNCHANGED quiet

NothingMatches ==
  /\ pc = "term" /\ Top.terms = <<>>
  /\ Top.redirect = None
  /\ Return("Neutral", None)
  /\ UNCHANGED <<quiet, frames, count, exhausted>>

-----------------------------------------------------------------------------
(***************************************************************************)
(* Back in the caller.  A caller with terms left stands at an include, one *)
(* without has followed its redirect.                                      *)
(***************************************************************************)
Caller == Head(Tail(frames))

ReturnTo(kind) ==
  /\ pc = "return"
  /\ Len(frames) > 1
  /\ (Caller.terms # <<>>) = (kind = "include")
  /\ UNCHANGED <<quiet, count, exhausted>>

IncludePasses ==
  /\ ReturnTo("include")
  /\ outcome.code = "Pass"
  /\ Return(QualifierToResult(Head(Caller.terms).qualifier), "include")
  /\ frames' = Tail(frames)

\* Variant with a mistake: an include that ends in an error does not match.
IncludeErrs_Ignored ==
  /\ ReturnTo("include")
  /\ outcome.code \in {"None", "PermError", "TempError"}
  /\ Advance(Tail(frames))

IncludeErrs ==
  /\ ReturnTo("include")
  /\ outcome.code \in {"None", "PermError", "TempError"}
  /\ Return(IF outcome.code = "TempError" THEN "TempError" ELSE "PermError", None)
  /\ frames' = Tail(frames)

IncludeFails ==
  /\ ReturnTo("include")
  /\ outcome.code \in {"Fail", "SoftFail", "Neutral"}
  /\ Advance(Tail(frames))

RedirectReturns ==
  /\ ReturnTo("redirect")
  /\ Return(IF outcome.code = "None" THEN "PermError" ELSE outcome.code, outcome.mechanism)
  /\ frames' = Tail(frames)

Returned ==
  /\ pc = "return"
  /\ Len(frames) = 1
  /\ pc' = "done"
  /\ UNCHANGED <<quiet, frames, count, outcome, exhausted>>

-----------------------------------------------------------------------------
\* A query that times out throws through every frame; the pipeline catches it
\* and stores no evaluation for the record.
QueryThrows ==
  /\ \/ pc = "query"
     \/ At({"a", "exists", "mx"}) /\ count < MaxLookups
     \/ pc = "mx" /\ exchanges # <<>>
  /\ pc' = "failed"
  /\ UNCHANGED <<quiet, frames, count, outcome, exhausted>>

\* Somebody publishes other records.
ZoneChanges ==
  /\ zone \in Unsteady
  /\ faults < MaxFaults
  /\ faults' = faults + 1
  /\ zone' \in Unsteady \ {zone}
  /\ UNCHANGED <<pc, frames, count, exchanges, outcome, exhausted>>

Step ==
  \/ NoRecord \/ ManyRecords \/ OneRecord \/ Modifier \/ LookupRefused
  \/ MatchDirectly \/ MatchAddresses \/ ResolveMx \/ MatchExchange \/ NoExchangeMatches
  \/ Include \/ Unsupported \/ Redirect \/ NothingMatches
  \/ IncludePasses \/ IncludeErrs \/ IncludeFails \/ RedirectReturns \/ Returned

Next ==
  \/ \E d \in Domains : EvaluateAsync(d)
  \/ Step
  \/ QueryThrows
  \/ ZoneChanges

Spec == Init /\ [][Next]_vars

\* The awaited queries complete; DNS is not obliged to throw or to change.
FairSpec == Spec /\ WF_vars(Step)

-----------------------------------------------------------------------------
TypeOK ==
  /\ zone.txt \in [Domains -> Seq(Seq(Terms))]
  /\ zone.exchanges \in [Domains -> Seq(Domains)]
  /\ pc \in {"idle", "query", "term", "mx", "return", "done", "failed"}
  /\ frames \in Seq([domain : Domains, terms : Seq(Terms), redirect : Domains \cup {None}])
  /\ (pc = "idle") = (frames = <<>>)
  /\ pc = "mx" => Top.terms # <<>> /\ Term.kind = "mx"
  /\ count \in Nat
  /\ exchanges \in Seq(Domains)
  /\ outcome \in [code : Codes, mechanism : Mechanisms \cup {None}]
  /\ exhausted \in BOOLEAN
  /\ faults \in Nat

(***************************************************************************)
(* Properties                                                              *)
(***************************************************************************)
\* Domains may include or redirect to each other in a circle, and DNS may
\* change meanwhile: the one counter still bounds how deep the recursion goes,
\* and how often TXT records are fetched in it.
RecursionBounded ==
  /\ count <= MaxLookups
  /\ Len(frames) <= count + 1

\* FR-SPF-4: a lookup refused in whatever inner call ends the evaluation, and
\* with PermError, whatever qualifiers and terms the outer records still have.
LimitIsFatal ==
  exhausted => pc \in {"return", "done"} /\ outcome.code = "PermError"

\* Every evaluation comes to an end.
Evaluating == pc \notin {"idle", "done", "failed"}
Terminates == Evaluating ~> ~Evaluating
=============================================================================
