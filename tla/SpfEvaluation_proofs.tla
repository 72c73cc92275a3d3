------------------------ MODULE SpfEvaluation_proofs ------------------------
(***************************************************************************)
(* Proofs about SpfEvaluation, for every DNS and every lookup limit: its   *)
(* types, the bound on the recursion, the refused lookup, the order in     *)
(* which its steps descend, and that its verdict is the one that the rules *)
(* of SpfRules give; and that its network test compares the first bits.    *)
(***************************************************************************)
EXTENDS SpfRules, TLAPS, WellFoundedInduction

Frames == [domain : Domains, terms : Seq(Terms), redirect : Domains \cup {None}]

\* What the typing of one step needs to know of a stack.
LEMMA Push ==
  ASSUME NEW S, NEW s \in Seq(S), NEW x \in S
  PROVE  /\ <<x>> \o s \in Seq(S)
         /\ <<x>> \o s # <<>>
         /\ Len(<<x>> \o s) = Len(s) + 1
         /\ Head(<<x>> \o s) = x
         /\ Tail(<<x>> \o s) = s
  OBVIOUS

LEMMA Pop ==
  ASSUME NEW S, NEW s \in Seq(S), s # <<>>
  PROVE  /\ Head(s) \in S
         /\ Tail(s) \in Seq(S)
         /\ Len(s) \in Nat \ {0}
         /\ Len(Tail(s)) = Len(s) - 1
         /\ Len(s) > 1 => Tail(s) # <<>>
  BY SMTT(30)

-----------------------------------------------------------------------------
\* What the innermost frame and its next term are.
LEMMA TopTyped ==
  ASSUME frames \in Seq(Frames), frames # <<>>
  PROVE  /\ Top \in Frames
         /\ Top.domain \in Domains
         /\ Top.redirect \in Domains \cup {None}
         /\ Top.terms \in Seq(Terms)
         /\ Top.terms # <<>> => Term \in Terms /\ Tail(Top.terms) \in Seq(Terms)
         /\ Tail(frames) \in Seq(Frames)
  <1>1. Top \in Frames /\ Tail(frames) \in Seq(Frames)
    BY Pop DEF Top
  <1>2. Top.domain \in Domains /\ Top.redirect \in Domains \cup {None} /\ Top.terms \in Seq(Terms)
    BY <1>1 DEF Frames
  <1>3. Top.terms # <<>> => Term \in Terms /\ Tail(Top.terms) \in Seq(Terms)
    BY <1>2, Pop DEF Term
  <1> QED
    BY <1>1, <1>2, <1>3

LEMMA TermTyped ==
  ASSUME NEW t \in Terms
  PROVE  /\ t.kind \in Mechanisms \cup Modifiers
         /\ QualifierToResult(t.qualifier) \in Codes
         /\ t.kind \notin {"ip4", "ip6"} => t.target \in Domains \cup {None}
         /\ t.kind = "redirect" => t.target \in Domains
  BY ConstantsAssumption DEF QualifierToResult, Qualifiers, Codes

\* The three ways a step changes the stack.
LEMMA AdvanceTyped ==
  ASSUME NEW stack \in Seq(Frames), stack # <<>>, Head(stack).terms # <<>>, Advance(stack)
  PROVE  /\ frames' \in Seq(Frames) /\ frames' # <<>>
         /\ Len(frames') = Len(stack)
         /\ pc' = "term" /\ outcome' = outcome
  <1> DEFINE f == [Head(stack) EXCEPT !.terms = Tail(Head(stack).terms)]
  <1>1. Head(stack) \in Frames /\ Tail(stack) \in Seq(Frames) /\ Len(Tail(stack)) = Len(stack) - 1
        /\ Len(stack) \in Nat
    BY Pop
  <1>2. Tail(Head(stack).terms) \in Seq(Terms)
    BY <1>1, Pop DEF Frames
  <1>3. f \in Frames
    BY <1>1, <1>2 DEF Frames
  <1>4. frames' = <<f>> \o Tail(stack) /\ pc' = "term" /\ outcome' = outcome
    BY DEF Advance
  <1> HIDE DEF f
  <1> QED
    BY <1>1, <1>3, <1>4, Push

LEMMA CallTyped ==
  ASSUME frames \in Seq(Frames), NEW d \in Domains, Call(d)
  PROVE  /\ frames' \in Seq(Frames) /\ frames' # <<>>
         /\ Len(frames') = Len(frames) + 1
         /\ pc' = "query" /\ outcome' = outcome
  <1>1. Frame(d) \in Frames
    BY DEF Frame, Frames
  <1>2. frames' = <<Frame(d)>> \o frames /\ pc' = "query" /\ outcome' = outcome
    BY DEF Call
  <1> QED
    BY <1>1, <1>2, Push

\* Whatever a step decides on, it decides for or against.
LEMMA DecideEither ==
  ASSUME NEW matched, Decide(matched)
  PROVE  \E m \in BOOLEAN : Decide(m)
  <1>1. CASE matched
    <2>1. Decide(TRUE)
      BY <1>1 DEF Decide
    <2> QED
      BY <2>1
  <1>2. CASE ~matched
    <2>1. Decide(FALSE)
      BY <1>2 DEF Decide
    <2> QED
      BY <2>1
  <1> QED
    BY <1>1, <1>2

\* Every step that decides on a mechanism decides for or against.
LEMMA SomeDecision ==
  ASSUME MatchDirectly \/ MatchAddresses \/ NoExchangeMatches
  PROVE  \E m \in BOOLEAN : Decide(m)
  <1>1. CASE MatchDirectly
    BY <1>1, DecideEither DEF MatchDirectly
  <1>2. CASE MatchAddresses
    <2>1. PICK addresses :
            Decide(IF Term.kind = "a" THEN MatchesHost(addresses, Term.prefix)
                   ELSE addresses # {})
      BY <1>2 DEF MatchAddresses
    <2> QED
      BY <2>1, DecideEither
  <1>3. CASE NoExchangeMatches
    BY <1>3 DEF NoExchangeMatches
  <1> QED
    BY <1>1, <1>2, <1>3

\* A decision returns, or goes on with the next term.
LEMMA DecideTyped ==
  ASSUME frames \in Seq(Frames), frames # <<>>, Top.terms # <<>>, Term.kind \in Mechanisms,
         outcome \in [code : Codes, mechanism : Mechanisms \cup {None}],
         NEW matched \in BOOLEAN, Decide(matched)
  PROVE  /\ frames' \in Seq(Frames) /\ frames' # <<>>
         /\ Len(frames') = Len(frames)
         /\ pc' \in {"return", "term"}
         /\ outcome' \in [code : Codes, mechanism : Mechanisms \cup {None}]
  <1>1. CASE matched
    BY <1>1, TopTyped, TermTyped DEF Decide, Return, Result
  <1>2. CASE ~matched
    BY <1>2, AdvanceTyped DEF Decide, Top
  <1> QED
    BY <1>1, <1>2

-----------------------------------------------------------------------------
\* Type correctness.  Term may be read at a term, and at an exchange, because
\* the stack is not empty then and its innermost frame has terms left.
USE DEF Frames

LEMMA AskTyped ==
  ASSUME faults \in Nat, NEW held, NEW empty, NEW answer,
         Ask(held, empty, answer)
  PROVE  zone' = zone /\ faults' \in Nat
  BY DEF Ask

LEMMA EvaluateTyped ==
  ASSUME TypeOK, NEW d \in Domains, EvaluateAsync(d)
  PROVE  TypeOK'
  <1>1. frames' \in Seq(Frames) /\ frames' # <<>>
    BY DEF EvaluateAsync, Frame
  <1>2. outcome' \in [code : Codes, mechanism : Mechanisms \cup {None}]
    BY DEF EvaluateAsync, Result, Codes
  <1>3. exchanges' \in Seq(Domains) /\ zone' = zone /\ faults' \in Nat
    BY DEF TypeOK, EvaluateAsync
  <1>4. pc' = "query" /\ count' = 0 /\ exhausted' = FALSE
    BY DEF EvaluateAsync
  <1> QED
    BY <1>1, <1>2, <1>3, <1>4 DEF TypeOK

LEMMA QueryTyped ==
  ASSUME TypeOK, NoRecord \/ ManyRecords \/ OneRecord
  PROVE  TypeOK'
  <1>1. pc = "query" /\ frames \in Seq(Frames) /\ frames # <<>>
    BY DEF TypeOK, NoRecord, ManyRecords, OneRecord
  <1>2. Published \in Seq(Seq(Terms))
    BY <1>1, TopTyped, ConstantsAssumption DEF TypeOK, Published
  <1>3. zone' = zone /\ faults' \in Nat
    BY AskTyped DEF TypeOK, NoRecord, ManyRecords, OneRecord
  <1>4. CASE NoRecord
    BY <1>1, <1>3, <1>4 DEF TypeOK, NoRecord, Return, Result, Codes
  <1>5. CASE ManyRecords
    BY <1>1, <1>3, <1>5 DEF TypeOK, ManyRecords, Return, Result, Codes
  <1>6. CASE OneRecord
    <2>1. Head(Published) \in Seq(Terms)
      BY <1>2, <1>6 DEF OneRecord
    <2>2. [Top EXCEPT !.terms = Head(Published)] \in Frames /\ Tail(frames) \in Seq(Frames)
      BY <1>1, <2>1, TopTyped
    <2>3. frames' \in Seq(Frames) /\ frames' # <<>>
      BY <1>6, <2>2, Push DEF OneRecord
    <2> QED
      BY <1>3, <1>6, <2>3 DEF TypeOK, OneRecord
  <1> QED
    BY <1>4, <1>5, <1>6

LEMMA TermStepTyped ==
  ASSUME TypeOK,
         \/ Modifier \/ LookupRefused \/ MatchDirectly \/ MatchAddresses
         \/ ResolveMx \/ Include \/ Unsupported
  PROVE  TypeOK'
  <1> USE DEF TypeOK, quiet
  <1>1. CASE Modifier
    <2>1. frames # <<>> /\ Top.terms # <<>> /\ Term.kind \in Modifiers
      BY <1>1 DEF Modifier, At
    <2> DEFINE f == [Top EXCEPT !.terms = Tail(Top.terms),
                     !.redirect = IF Term.kind = "redirect" THEN Term.target ELSE Top.redirect]
    <2>2. f \in Frames
      BY <2>1, TopTyped, TermTyped
    <2>3. frames' = <<f>> \o Tail(frames)
      BY <1>1 DEF Modifier
    <2> HIDE DEF f
    <2>4. frames' \in Seq(Frames) /\ frames' # <<>>
      BY <2>1, <2>2, <2>3, TopTyped, Push
    <2> QED
      BY <1>1, <2>1, <2>4 DEF Modifier, At
  <1>2. CASE LookupRefused
    BY <1>2 DEF LookupRefused, Return, Result, Codes, At, AtRedirect
  <1>3. CASE MatchDirectly
    <2>1. frames # <<>> /\ Top.terms # <<>> /\ Term.kind \in Mechanisms
      BY <1>3 DEF MatchDirectly, At, Mechanisms
    <2>2. \E matched \in BOOLEAN : Decide(matched)
      BY <1>3 DEF MatchDirectly
    <2>3. /\ frames' \in Seq(Frames) /\ frames' # <<>> /\ pc' \in {"return", "term"}
          /\ outcome' \in [code : Codes, mechanism : Mechanisms \cup {None}]
      BY <2>1, <2>2, DecideTyped
    <2> QED
      BY <1>3, <2>3 DEF MatchDirectly
  <1>4. CASE MatchAddresses
    <2>1. frames # <<>> /\ Top.terms # <<>> /\ Term.kind \in Mechanisms
      BY <1>4 DEF MatchAddresses, At, Mechanisms
    <2>2. \E matched \in BOOLEAN : Decide(matched)
      BY <1>4, SomeDecision
    <2>3. /\ frames' \in Seq(Frames) /\ frames' # <<>> /\ pc' \in {"return", "term"}
          /\ outcome' \in [code : Codes, mechanism : Mechanisms \cup {None}]
      BY <2>1, <2>2, DecideTyped
    <2>4. zone' = zone /\ faults' \in Nat /\ count' \in Nat
      BY <1>4, AskTyped DEF MatchAddresses, TryIncrement
    <2> QED
      BY <1>4, <2>3, <2>4 DEF MatchAddresses, TryIncrement
  <1>5. CASE ResolveMx
    <2>1. frames # <<>> /\ Top.terms # <<>> /\ Term.kind = "mx"
      BY <1>5 DEF ResolveMx, At
    <2>2. Target \in Domains
      BY <2>1, TopTyped, TermTyped DEF Target
    <2>a. zone.exchanges[Target] \in Seq(Domains) /\ <<>> \in Seq(Domains)
      <3>1. zone.exchanges \in [Domains -> Seq(Domains)]
        BY ConstantsAssumption
      <3> QED
        BY <2>2, <3>1
    <2>3. exchanges' \in Seq(Domains)
      BY <1>5, <2>a DEF ResolveMx
    <2>4. zone' = zone /\ faults' \in Nat /\ count' \in Nat
      BY SMTT(30), <1>5, AskTyped DEF ResolveMx, TryIncrement
    <2>5. (Top.terms # <<>> /\ Term.kind = "mx")'
      BY <1>5, <2>1 DEF ResolveMx, Top, Term
    <2> QED
      BY <1>5, <2>1, <2>3, <2>4, <2>5 DEF ResolveMx, TryIncrement
  <1>6. CASE Include
    <2>1. frames # <<>> /\ Top.terms # <<>> /\ Term.kind = "include"
      BY <1>6 DEF Include, At
    <2>2. Term.target \in Domains
      BY <1>6, <2>1, TopTyped, TermTyped DEF Include
    <2>3. frames' \in Seq(Frames) /\ frames' # <<>> /\ pc' = "query" /\ outcome' = outcome
      BY <1>6, <2>2, CallTyped DEF Include
    <2>4. UNCHANGED quiet /\ count' \in Nat /\ exhausted' = exhausted
      BY <1>6 DEF Include, TryIncrement
    <2> QED
      BY <2>3, <2>4
  <1>7. CASE Unsupported
    <2>1. frames # <<>> /\ count' \in Nat /\ exhausted' = exhausted
      BY <1>7 DEF Unsupported, At, TryIncrement
    <2> QED
      BY <1>7, <2>1 DEF Unsupported, Return, Result, Codes
  <1> QED
    BY <1>1, <1>2, <1>3, <1>4, <1>5, <1>6, <1>7

LEMMA LaterStepTyped ==
  ASSUME TypeOK,
         MatchExchange \/ NoExchangeMatches \/ Redirect \/ NothingMatches
  PROVE  TypeOK'
  <1> USE DEF TypeOK, quiet
  <1>1. CASE MatchExchange
    <2>1. frames # <<>> /\ Top.terms # <<>> /\ Term.kind = "mx" /\ Term.kind \in Mechanisms
      BY <1>1 DEF MatchExchange, Mechanisms
    <2>2. zone' = zone /\ faults' \in Nat /\ exchanges' \in Seq(Domains)
      <3>1. zone' = zone /\ faults' \in Nat
        <4>1. PICK answer : Ask(Addresses(zone, Head(exchanges)), {}, answer)
          BY <1>1 DEF MatchExchange
        <4> QED
          BY <4>1, AskTyped
      <3>2. exchanges' \in {<<>>, Tail(exchanges)}
        BY <1>1 DEF MatchExchange, ExchangeMatches, ExchangeDiffers
      <3>3. Tail(exchanges) \in Seq(Domains) /\ <<>> \in Seq(Domains)
        BY <1>1, Pop DEF MatchExchange
      <3> QED
        BY <3>1, <3>2, <3>3
    <2>3. CASE Decide(TRUE)
      <3>1. /\ frames' \in Seq(Frames) /\ frames' # <<>> /\ pc' \in {"return", "term"}
            /\ outcome' \in [code : Codes, mechanism : Mechanisms \cup {None}]
        BY <2>1, <2>3, DecideTyped
      <3> QED
        BY <1>1, <2>2, <3>1 DEF MatchExchange
    <2>4. CASE UNCHANGED <<pc, frames, outcome>>
      BY <1>1, <2>1, <2>2, <2>4 DEF MatchExchange, Top, Term
    <2> QED
      BY <1>1, <2>3, <2>4 DEF MatchExchange, ExchangeMatches, ExchangeDiffers
  <1>2. CASE NoExchangeMatches
    <2>1. frames # <<>> /\ Top.terms # <<>> /\ Term.kind \in Mechanisms /\ Decide(FALSE)
      BY <1>2 DEF NoExchangeMatches, Mechanisms
    <2>2. /\ frames' \in Seq(Frames) /\ frames' # <<>> /\ pc' \in {"return", "term"}
          /\ outcome' \in [code : Codes, mechanism : Mechanisms \cup {None}]
      BY <2>1, DecideTyped
    <2> QED
      BY <1>2, <2>2 DEF NoExchangeMatches
  <1>3. CASE Redirect
    <2>1. Top.redirect \in Domains
      BY <1>3, TopTyped DEF Redirect, AtRedirect
    <2>2. frames' \in Seq(Frames) /\ frames' # <<>> /\ pc' = "query" /\ outcome' = outcome
      BY <1>3, <2>1, CallTyped DEF Redirect
    <2> QED
      BY SMTT(30), <1>3, <2>2 DEF Redirect, TryIncrement
  <1>4. CASE NothingMatches
    BY <1>4 DEF NothingMatches, Return, Result, Codes
  <1> QED
    BY <1>1, <1>2, <1>3, <1>4

\* A caller is a frame, and the include it stands at a term.
LEMMA CallerTyped ==
  ASSUME frames \in Seq(Frames), Len(frames) > 1
  PROVE  /\ Tail(frames) \in Seq(Frames) /\ Tail(frames) # <<>>
         /\ Len(Tail(frames)) = Len(frames) - 1
         /\ Caller.terms # <<>> => Head(Caller.terms) \in Terms
  <1>1. Tail(frames) \in Seq(Frames) /\ Tail(frames) # <<>> /\ Len(Tail(frames)) = Len(frames) - 1
    BY Pop
  <1>2. Caller \in Frames
    BY <1>1, Pop DEF Caller
  <1>3. Caller.terms # <<>> => Head(Caller.terms) \in Terms
    BY <1>2, Pop
  <1> QED
    BY <1>1, <1>3

LEMMA ReturnTyped ==
  ASSUME TypeOK,
         IncludePasses \/ IncludeErrs \/ IncludeFails \/ RedirectReturns \/ Returned
  PROVE  TypeOK'
  <1> USE DEF TypeOK, quiet
  <1>1. CASE IncludePasses
    <2>1. Len(frames) > 1 /\ Caller.terms # <<>>
      BY <1>1 DEF IncludePasses, ReturnTo
    <2>2. QualifierToResult(Head(Caller.terms).qualifier) \in Codes
      BY <2>1, CallerTyped, TermTyped
    <2>3. outcome' \in [code : Codes, mechanism : Mechanisms \cup {None}] /\ pc' = "return"
      BY <1>1, <2>2 DEF IncludePasses, Return, Result, Mechanisms
    <2> QED
      BY <1>1, <2>1, <2>3, CallerTyped DEF IncludePasses, ReturnTo
  <1>2. CASE IncludeErrs
    <2>1. Len(frames) > 1
      BY <1>2 DEF IncludeErrs, ReturnTo
    <2>2. outcome' \in [code : Codes, mechanism : Mechanisms \cup {None}] /\ pc' = "return"
      BY <1>2 DEF IncludeErrs, Return, Result, Codes
    <2> QED
      BY <1>2, <2>1, <2>2, CallerTyped DEF IncludeErrs, ReturnTo
  <1>3. CASE IncludeFails
    <2>1. Len(frames) > 1 /\ Head(Tail(frames)).terms # <<>> /\ Advance(Tail(frames))
      BY <1>3 DEF IncludeFails, ReturnTo, Caller
    <2>2. frames' \in Seq(Frames) /\ frames' # <<>> /\ pc' = "term" /\ outcome' = outcome
      BY <2>1, CallerTyped, AdvanceTyped
    <2> QED
      BY <1>3, <2>2 DEF IncludeFails, ReturnTo
  <1>4. CASE RedirectReturns
    <2>1. Len(frames) > 1
      BY <1>4 DEF RedirectReturns, ReturnTo
    <2>2. outcome' \in [code : Codes, mechanism : Mechanisms \cup {None}] /\ pc' = "return"
      BY <1>4 DEF RedirectReturns, Return, Result, Codes
    <2> QED
      BY <1>4, <2>1, <2>2, CallerTyped DEF RedirectReturns, ReturnTo
  <1>5. CASE Returned
    BY <1>5 DEF Returned
  <1> QED
    BY <1>1, <1>2, <1>3, <1>4, <1>5

LEMMA StepTyped ==
  ASSUME TypeOK, [Next]_vars
  PROVE  TypeOK'
  <1>1. CASE UNCHANGED vars
    BY <1>1 DEF TypeOK, vars, Top, Term
  <1>2. CASE QueryThrows
    <2>1. frames # <<>>
      BY <1>2 DEF TypeOK, QueryThrows, At
    <2> QED
      BY <1>2, <2>1 DEF TypeOK, QueryThrows, quiet
  <1>3. CASE ZoneChanges
    BY SMTT(30), <1>3, ConstantsAssumption DEF TypeOK, ZoneChanges, Top, Term
  <1> QED
    BY <1>1, <1>2, <1>3, EvaluateTyped, QueryTyped, TermStepTyped, LaterStepTyped, ReturnTyped
    DEF Next, Step

\* The evaluator's state is well typed; in particular there is an innermost
\* frame whenever a step needs one.
THEOREM TypeCorrect == Spec => []TypeOK
  <1>1. ASSUME Init PROVE TypeOK
    <2>1. outcome \in [code : Codes, mechanism : Mechanisms \cup {None}]
      BY <1>1 DEF Init, Result, Codes
    <2>2. frames \in Seq(Frames) /\ frames = <<>> /\ exchanges \in Seq(Domains)
      BY <1>1 DEF Init
    <2>3. /\ pc = "idle"
          /\ zone.txt \in [Domains -> Seq(Seq(Terms))]
          /\ zone.exchanges \in [Domains -> Seq(Domains)]
      BY <1>1, ConstantsAssumption DEF Init
    <2>4. count \in Nat /\ faults \in Nat /\ exhausted \in BOOLEAN
      BY <1>1 DEF Init
    <2> QED
      BY <2>1, <2>2, <2>3, <2>4 DEF TypeOK
  <1> QED
    BY <1>1, StepTyped, PTL DEF Spec

-----------------------------------------------------------------------------
\* The stack grows by a frame only with a lookup that is counted, and the
\* counter never passes the limit.
LEMMA ReplaceTop ==
  ASSUME frames \in Seq(Frames), frames # <<>>, NEW f \in Frames,
         frames' = <<f>> \o Tail(frames)
  PROVE  Len(frames') = Len(frames)
  BY Push, Pop

LEMMA DecideKeepsDepth ==
  ASSUME frames \in Seq(Frames), frames # <<>>, Top.terms # <<>>,
         NEW matched \in BOOLEAN, Decide(matched)
  PROVE  Len(frames') = Len(frames)
  <1>1. CASE matched
    BY <1>1 DEF Decide
  <1>2. CASE ~matched
    BY <1>2, AdvanceTyped DEF Decide, Top
  <1> QED
    BY <1>1, <1>2

\* Every step but a new call, an include, a redirect or their return.
LocalStep ==
  \/ NoRecord \/ ManyRecords \/ OneRecord \/ Modifier \/ LookupRefused
  \/ MatchDirectly \/ MatchAddresses \/ ResolveMx \/ MatchExchange \/ NoExchangeMatches
  \/ Unsupported \/ NothingMatches \/ Returned \/ QueryThrows \/ ZoneChanges

LEMMA OneIsNotEmpty ==
  ASSUME NEW S, NEW s \in Seq(S), Len(s) = 1
  PROVE  s # <<>>
  OBVIOUS

LEMMA LocalStepKeepsDepth ==
  ASSUME TypeOK, LocalStep
  PROVE  Len(frames') = Len(frames)
  <1> USE DEF TypeOK
  <1>1. CASE OneRecord
    <2>1. frames # <<>> /\ frames' = <<[Top EXCEPT !.terms = Head(Published)]>> \o Tail(frames)
      BY <1>1 DEF OneRecord
    <2>2. zone.txt[Top.domain] \in Seq(Seq(Terms)) /\ Published # <<>>
      <3>1. Top.domain \in Domains
        BY <2>1, TopTyped
      <3>2. zone.txt \in [Domains -> Seq(Seq(Terms))]
        BY ConstantsAssumption
      <3>3. zone.txt[Top.domain] \in Seq(Seq(Terms))
        BY <3>1, <3>2
      <3>4. Len(zone.txt[Top.domain]) = 1
        BY <1>1 DEF OneRecord, Published
      <3>5. zone.txt[Top.domain] # <<>>
        BY <3>3, <3>4, OneIsNotEmpty
      <3> QED
        BY <3>3, <3>5 DEF Published
    <2>3. [Top EXCEPT !.terms = Head(Published)] \in Frames
      BY <2>1, <2>2, TopTyped, Pop DEF Published
    <2> QED
      BY <2>1, <2>3, ReplaceTop
  <1>2. CASE Modifier
    <2>1. frames # <<>> /\ Top.terms # <<>> /\ Term.kind \in Modifiers
      BY <1>2 DEF Modifier, At
    <2> DEFINE f == [Top EXCEPT !.terms = Tail(Top.terms),
                     !.redirect = IF Term.kind = "redirect" THEN Term.target ELSE Top.redirect]
    <2>2. f \in Frames
      BY <2>1, TopTyped, TermTyped
    <2>3. frames' = <<f>> \o Tail(frames)
      BY <1>2 DEF Modifier
    <2> HIDE DEF f
    <2> QED
      BY <2>1, <2>2, <2>3, ReplaceTop
  <1>3. CASE MatchDirectly \/ MatchAddresses \/ NoExchangeMatches
    <2>1. frames # <<>> /\ Top.terms # <<>>
      BY <1>3 DEF MatchDirectly, MatchAddresses, NoExchangeMatches, At
    <2>2. \E matched \in BOOLEAN : Decide(matched)
      BY <1>3, SomeDecision
    <2> QED
      BY <2>1, <2>2, DecideKeepsDepth
  <1>4. CASE MatchExchange
    <2>1. frames # <<>> /\ Top.terms # <<>>
      BY <1>4 DEF MatchExchange
    <2>2. Decide(TRUE) \/ UNCHANGED frames
      BY <1>4 DEF MatchExchange, ExchangeMatches, ExchangeDiffers
    <2> QED
      BY <2>1, <2>2, DecideKeepsDepth
  <1>5. CASE \/ NoRecord \/ ManyRecords \/ LookupRefused \/ ResolveMx
             \/ Unsupported \/ NothingMatches \/ Returned \/ QueryThrows \/ ZoneChanges
    <2>1. UNCHANGED frames
      BY <1>5 DEF NoRecord, ManyRecords, LookupRefused, ResolveMx, Unsupported,
                  NothingMatches, Returned, QueryThrows, ZoneChanges
    <2> QED
      BY <2>1
  <1> QED
    BY <1>1, <1>2, <1>3, <1>4, <1>5 DEF LocalStep

LEMMA LocalStepCounts ==
  ASSUME LocalStep
  PROVE  count' = count \/ (count < MaxLookups /\ count' = count + 1)
  BY DEF LocalStep, NoRecord, ManyRecords, OneRecord, Modifier, LookupRefused, MatchDirectly,
         MatchAddresses, ResolveMx, MatchExchange, NoExchangeMatches, Unsupported,
         NothingMatches, Returned, QueryThrows, ZoneChanges, TryIncrement

LEMMA StepKeepsBound ==
  ASSUME TypeOK, RecursionBounded, [Next]_vars
  PROVE  RecursionBounded'
  <1> USE DEF RecursionBounded
  <1>1. count \in Nat /\ MaxLookups \in Nat /\ frames \in Seq(Frames) /\ Len(frames) \in Nat
    BY ConstantsAssumption DEF TypeOK
  <1>2. CASE UNCHANGED vars
    BY <1>2 DEF vars
  <1>3. CASE \E d \in Domains : EvaluateAsync(d)
    <2>1. Len(frames') = 1 /\ count' = 0
      BY <1>3 DEF EvaluateAsync
    <2> QED
      BY <1>1, <2>1
  <1>4. CASE LocalStep
    BY <1>1, <1>4, LocalStepKeepsDepth, LocalStepCounts
  <1>5. CASE Include \/ Redirect
    <2>1. \E d \in Domains : Call(d)
      <3>1. CASE Include
        <4>1. frames # <<>> /\ Top.terms # <<>> /\ Term.kind = "include"
          BY <3>1 DEF TypeOK, Include, At
        <4>2. Term.target \in Domains
          BY <1>1, <3>1, <4>1, TopTyped, TermTyped DEF Include
        <4> QED
          BY <3>1, <4>2 DEF Include
      <3>2. CASE Redirect
        <4>1. Top.redirect \in Domains
          BY <1>1, <3>2, TopTyped DEF TypeOK, Redirect, AtRedirect
        <4> QED
          BY <3>2, <4>1 DEF Redirect
      <3> QED
        BY <1>5, <3>1, <3>2
    <2>2. Len(frames') = Len(frames) + 1
      BY <1>1, <2>1, CallTyped
    <2>3. count < MaxLookups /\ count' = count + 1
      BY <1>5 DEF Include, Redirect, TryIncrement
    <2> QED
      BY <1>1, <2>2, <2>3
  <1>6. CASE IncludePasses \/ IncludeErrs \/ IncludeFails \/ RedirectReturns
    <2>1. Len(frames) > 1 /\ UNCHANGED count
      BY <1>6 DEF IncludePasses, IncludeErrs, IncludeFails, RedirectReturns, ReturnTo
    <2>2. Len(frames') = Len(frames) - 1
      <3>1. CASE IncludeFails
        <4>1. Head(Tail(frames)).terms # <<>> /\ Advance(Tail(frames))
          BY <3>1 DEF IncludeFails, ReturnTo, Caller
        <4> QED
          BY <1>1, <2>1, <4>1, CallerTyped, AdvanceTyped
      <3>2. CASE frames' = Tail(frames)
        BY <1>1, <2>1, <3>2, CallerTyped
      <3> QED
        BY <1>6, <3>1, <3>2 DEF IncludePasses, IncludeErrs, RedirectReturns
    <2> QED
      BY <1>1, <2>1, <2>2
  <1> QED
    BY <1>2, <1>3, <1>4, <1>5, <1>6 DEF Next, Step, LocalStep

\* Whatever records include or redirect to each other, and however DNS changes
\* under the evaluation, it never nests deeper than the lookups it has counted.
THEOREM RecursionIsBounded == Spec => []RecursionBounded
  <1>1. Init => RecursionBounded
    BY ConstantsAssumption DEF Init, RecursionBounded
  <1> QED
    BY <1>1, StepKeepsBound, TypeCorrect, PTL DEF Spec

-----------------------------------------------------------------------------
LEMMA StepKeepsLimitFatal ==
  ASSUME TypeOK, LimitIsFatal, [Next]_vars
  PROVE  LimitIsFatal'
  <1> USE DEF LimitIsFatal
  <1>1. CASE UNCHANGED vars
    BY <1>1 DEF vars
  <1>2. CASE \E d \in Domains : EvaluateAsync(d)
    BY <1>2 DEF EvaluateAsync
  <1>3. CASE LookupRefused
    BY <1>3 DEF LookupRefused, Return, Result
  <1>4. CASE \/ NoRecord \/ ManyRecords \/ OneRecord \/ Modifier \/ MatchDirectly
             \/ MatchAddresses \/ ResolveMx \/ MatchExchange \/ NoExchangeMatches
             \/ Include \/ Unsupported \/ Redirect \/ NothingMatches \/ QueryThrows
    <2>1. pc \in {"query", "term", "mx"} /\ exhausted' = exhausted
      BY <1>4 DEF NoRecord, ManyRecords, OneRecord, Modifier, MatchDirectly, MatchAddresses,
                  ResolveMx, MatchExchange, NoExchangeMatches, Include, Unsupported, Redirect,
                  NothingMatches, QueryThrows, At, AtRedirect, TryIncrement
    <2> QED
      BY <2>1
  <1>5. CASE IncludeErrs \/ RedirectReturns
    <2>1. exhausted' = exhausted /\ pc' = "return"
      BY <1>5 DEF IncludeErrs, RedirectReturns, ReturnTo, Return
    <2>2. outcome.code = "PermError" => outcome'.code = "PermError"
      <3>1. CASE IncludeErrs
        <4>1. outcome'.code = IF outcome.code = "TempError" THEN "TempError" ELSE "PermError"
          BY <3>1 DEF IncludeErrs, Return, Result
        <4> QED
          BY <4>1
      <3>2. CASE RedirectReturns
        <4>1. outcome'.code = IF outcome.code = "None" THEN "PermError" ELSE outcome.code
          BY <3>2 DEF RedirectReturns, Return, Result
        <4> QED
          BY <4>1
      <3> QED
        BY <1>5, <3>1, <3>2
    <2> QED
      BY <2>1, <2>2
  <1>6. CASE IncludePasses \/ IncludeFails
    BY <1>6 DEF IncludePasses, IncludeFails, ReturnTo
  <1>7. CASE Returned \/ ZoneChanges
    BY <1>7 DEF Returned, ZoneChanges, quiet
  <1> QED
    BY <1>1, <1>2, <1>3, <1>4, <1>5, <1>6, <1>7 DEF Next, Step

\* A refused lookup, at whatever depth, is the end: every caller hands on
\* PermError, past the qualifiers and terms it has left.
THEOREM RefusedLookupIsFatal == Spec => []LimitIsFatal
  <1>1. Init => LimitIsFatal
    BY DEF Init, LimitIsFatal
  <1> QED
    BY <1>1, StepKeepsLimitFatal, TypeCorrect, PTL DEF Spec

-----------------------------------------------------------------------------
(***************************************************************************)
(* What is left to do                                                      *)
(***************************************************************************)

\* How far the code has come with the call at hand: it matters among steps that
\* leave lookups, stack and terms as they are.
Phase == IF pc \in {"term", "mx"} THEN 2 ELSE IF pc = "return" THEN 1 ELSE 0

\* Lookups, frames, whether the record is still to be fetched, terms, exchanges.
Remaining ==
  <<MaxLookups - count, Len(frames), IF pc = "query" THEN 1 ELSE 0, Len(Top.terms),
    Phase, Len(exchanges)>>

Less == {p \in Nat \X Nat : p[1] < p[2]}
Order == LexProductOrdering(Less, Nat, 6)

\* Nothing descends for ever in this order.
LEMMA OrderIsWellFounded == IsWellFoundedOn(Order, [1 .. 6 -> Nat])
  <1>1. IsWellFoundedOn(Less, Nat)
    BY NatLessThanWellFounded, Zenon DEF OpToRel, Less
  <1>2. \A n \in Nat : IsWellFoundedOn(LexProductOrdering(Less, Nat, n), [1 .. n -> Nat])
    BY <1>1, WFLexProductOrdering
  <1> QED
    BY <1>2 DEF Order

\* One component is smaller, and those before it are no larger.
LEMMA Smaller ==
  ASSUME NEW a \in [1 .. 6 -> Nat], NEW b \in [1 .. 6 -> Nat], NEW j \in 1 .. 6,
         b[j] < a[j], \A i \in 1 .. j - 1 : b[i] = a[i]
  PROVE  <<b, a>> \in Order
  <1> DEFINE p == <<b, a>>
  <1>1. p \in [1 .. 6 -> Nat] \X [1 .. 6 -> Nat] /\ p[1] = b /\ p[2] = a
    OBVIOUS
  <1>2. a[j] \in Nat /\ b[j] \in Nat
    OBVIOUS
  <1>3. <<b[j], a[j]>> \in Less
    BY <1>2 DEF Less
  <1> HIDE DEF p
  <1>4. \E k \in 1 .. 6 : (\A i \in 1 .. k - 1 : p[1][i] = p[2][i]) /\ <<p[1][k], p[2][k]>> \in Less
    BY <1>1, <1>3
  <1>5. p \in Order
    BY <1>1, <1>4, Zenon DEF Order, LexProductOrdering
  <1> QED
    BY <1>5 DEF p

LEMMA Descent ==
  ASSUME NEW a1 \in Nat, NEW a2 \in Nat, NEW a3 \in Nat, NEW a4 \in Nat, NEW a5 \in Nat,
         NEW a6 \in Nat, NEW b1 \in Nat, NEW b2 \in Nat, NEW b3 \in Nat, NEW b4 \in Nat,
         NEW b5 \in Nat, NEW b6 \in Nat,
         \/ b1 < a1
         \/ b1 = a1 /\ b2 < a2
         \/ b1 = a1 /\ b2 = a2 /\ b3 < a3
         \/ b1 = a1 /\ b2 = a2 /\ b3 = a3 /\ b4 < a4
         \/ b1 = a1 /\ b2 = a2 /\ b3 = a3 /\ b4 = a4 /\ b5 < a5
         \/ b1 = a1 /\ b2 = a2 /\ b3 = a3 /\ b4 = a4 /\ b5 = a5 /\ b6 < a6
  PROVE  << <<b1, b2, b3, b4, b5, b6>>, <<a1, a2, a3, a4, a5, a6>> >> \in Order
  <1> DEFINE a == <<a1, a2, a3, a4, a5, a6>>
             b == <<b1, b2, b3, b4, b5, b6>>
  <1>1. /\ a \in [1 .. 6 -> Nat]
        /\ a[1] = a1 /\ a[2] = a2 /\ a[3] = a3 /\ a[4] = a4 /\ a[5] = a5 /\ a[6] = a6
    OBVIOUS
  <1>2. /\ b \in [1 .. 6 -> Nat]
        /\ b[1] = b1 /\ b[2] = b2 /\ b[3] = b3 /\ b[4] = b4 /\ b[5] = b5 /\ b[6] = b6
    OBVIOUS
  <1> HIDE DEF a, b
  <1>3. PICK j \in 1 .. 6 : b[j] < a[j] /\ \A i \in 1 .. j - 1 : b[i] = a[i]
    <2>1. b[1] < a[1] => \E j \in 1 .. 6 : b[j] < a[j] /\ \A i \in 1 .. j - 1 : b[i] = a[i]
      <3>1. 1 \in 1 .. 6 /\ 1 .. 1 - 1 = {}
        OBVIOUS
      <3> QED
        BY <3>1
    <2>2. b[1] = a[1] /\ b[2] < a[2] =>
            \E j \in 1 .. 6 : b[j] < a[j] /\ \A i \in 1 .. j - 1 : b[i] = a[i]
      <3>1. 2 \in 1 .. 6 /\ \A i \in 1 .. 2 - 1 : i = 1
        OBVIOUS
      <3> QED
        BY <3>1
    <2>3. b[1] = a[1] /\ b[2] = a[2] /\ b[3] < a[3] =>
            \E j \in 1 .. 6 : b[j] < a[j] /\ \A i \in 1 .. j - 1 : b[i] = a[i]
      <3>1. 3 \in 1 .. 6 /\ \A i \in 1 .. 3 - 1 : i = 1 \/ i = 2
        OBVIOUS
      <3> QED
        BY <3>1
    <2>4. b[1] = a[1] /\ b[2] = a[2] /\ b[3] = a[3] /\ b[4] < a[4] =>
            \E j \in 1 .. 6 : b[j] < a[j] /\ \A i \in 1 .. j - 1 : b[i] = a[i]
      <3>1. 4 \in 1 .. 6 /\ \A i \in 1 .. 4 - 1 : i = 1 \/ i = 2 \/ i = 3
        OBVIOUS
      <3> QED
        BY <3>1
    <2>5. b[1] = a[1] /\ b[2] = a[2] /\ b[3] = a[3] /\ b[4] = a[4] /\ b[5] < a[5] =>
            \E j \in 1 .. 6 : b[j] < a[j] /\ \A i \in 1 .. j - 1 : b[i] = a[i]
      <3>1. 5 \in 1 .. 6 /\ \A i \in 1 .. 5 - 1 : i = 1 \/ i = 2 \/ i = 3 \/ i = 4
        OBVIOUS
      <3> QED
        BY <3>1
    <2>6. b[1] = a[1] /\ b[2] = a[2] /\ b[3] = a[3] /\ b[4] = a[4] /\ b[5] = a[5] /\ b[6] < a[6] =>
            \E j \in 1 .. 6 : b[j] < a[j] /\ \A i \in 1 .. j - 1 : b[i] = a[i]
      <3>1. 6 \in 1 .. 6 /\ \A i \in 1 .. 6 - 1 : i = 1 \/ i = 2 \/ i = 3 \/ i = 4 \/ i = 5
        OBVIOUS
      <3> QED
        BY <3>1
    <2> QED
      BY <1>1, <1>2, <2>1, <2>2, <2>3, <2>4, <2>5, <2>6, Zenon
  <1>4. <<b, a>> \in Order
    BY <1>1, <1>2, <1>3, Smaller
  <1> QED
    BY <1>4 DEF a, b

Counted ==
  pc # "idle" =>
    /\ MaxLookups - count \in Nat /\ Len(frames) \in Nat
    /\ Len(Top.terms) \in Nat /\ Phase \in Nat /\ Len(exchanges) \in Nat

LEMMA WhatIsLeftIsCounted ==
  ASSUME TypeOK, RecursionBounded
  PROVE  Counted
  <1> SUFFICES ASSUME pc # "idle"
               PROVE  /\ MaxLookups - count \in Nat /\ Len(frames) \in Nat
                      /\ Len(Top.terms) \in Nat /\ Phase \in Nat /\ Len(exchanges) \in Nat
    BY DEF Counted
  <1>1. MaxLookups - count \in Nat
    BY ConstantsAssumption DEF TypeOK, RecursionBounded
  <1>2. Len(frames) \in Nat /\ Len(exchanges) \in Nat /\ frames \in Seq(Frames) /\ frames # <<>>
    BY DEF TypeOK
  <1>3. Len(Top.terms) \in Nat
    BY <1>2, TopTyped
  <1>4. Phase \in Nat
    BY DEF Phase
  <1> QED
    BY <1>1, <1>2, <1>3, <1>4

\* The ways a step leaves less to do.
LeavesLess ==
  \/ count' = count + 1
  \/ /\ count' = count
     /\ \/ Len(frames') < Len(frames)
        \/ /\ Len(frames') = Len(frames)
           /\ \/ pc = "query" /\ pc' # "query"
              \/ /\ pc # "query" /\ pc' # "query"
                 /\ \/ Len(Top'.terms) < Len(Top.terms)
                    \/ /\ Top' = Top
                       /\ \/ Phase' < Phase
                          \/ Phase' = Phase /\ Len(exchanges') < Len(exchanges)

LEMMA LessIsLess ==
  ASSUME MaxLookups - count \in Nat, Len(frames) \in Nat, Len(Top.terms) \in Nat,
         Phase \in Nat, Len(exchanges) \in Nat,
         (MaxLookups - count)' \in Nat, Len(frames)' \in Nat, Len(Top.terms)' \in Nat,
         Phase' \in Nat, Len(exchanges)' \in Nat,
         count \in Nat, LeavesLess
  PROVE  <<Remaining', Remaining>> \in Order
  <1>1. PICK a1 \in Nat, a2 \in Nat, a3 \in Nat, a4 \in Nat, a5 \in Nat, a6 \in Nat :
          /\ a1 = MaxLookups - count /\ a2 = Len(frames)
          /\ a3 = IF pc = "query" THEN 1 ELSE 0
          /\ a4 = Len(Top.terms) /\ a5 = Phase /\ a6 = Len(exchanges)
    OBVIOUS
  <1>2. PICK b1 \in Nat, b2 \in Nat, b3 \in Nat, b4 \in Nat, b5 \in Nat, b6 \in Nat :
          /\ b1 = MaxLookups - count' /\ b2 = Len(frames')
          /\ b3 = IF pc' = "query" THEN 1 ELSE 0
          /\ b4 = Len(Top'.terms) /\ b5 = Phase' /\ b6 = Len(exchanges')
    OBVIOUS
  <1>3. MaxLookups \in Int
    BY ConstantsAssumption
  <1>4. \/ b1 < a1
        \/ b1 = a1 /\ b2 < a2
        \/ b1 = a1 /\ b2 = a2 /\ b3 < a3
        \/ b1 = a1 /\ b2 = a2 /\ b3 = a3 /\ b4 < a4
        \/ b1 = a1 /\ b2 = a2 /\ b3 = a3 /\ b4 = a4 /\ b5 < a5
        \/ b1 = a1 /\ b2 = a2 /\ b3 = a3 /\ b4 = a4 /\ b5 = a5 /\ b6 < a6
    <2>1. CASE count' = count + 1
      BY <1>1, <1>2, <1>3, <2>1
    <2>2. CASE count' = count
      BY <1>1, <1>2, <2>2 DEF LeavesLess
    <2> QED
      BY <2>1, <2>2 DEF LeavesLess
  <1>5. << <<b1, b2, b3, b4, b5, b6>>, <<a1, a2, a3, a4, a5, a6>> >> \in Order
    BY ZenonT(30), <1>4, Descent
  <1>6. Remaining = <<a1, a2, a3, a4, a5, a6>> /\ Remaining' = <<b1, b2, b3, b4, b5, b6>>
    BY <1>1, <1>2 DEF Remaining
  <1> QED
    BY <1>5, <1>6

\* A call that goes on has a term less to try.
LEMMA Shortens ==
  ASSUME frames \in Seq(Frames), frames # <<>>, Top.terms # <<>>,
         NEW f \in Frames, f.terms = Tail(Top.terms), frames' = <<f>> \o Tail(frames)
  PROVE  Len(frames') = Len(frames) /\ Len(Top'.terms) < Len(Top.terms)
  <1>1. Len(frames') = Len(frames)
    BY ReplaceTop
  <1>2. Top' = f
    BY Pop, Push DEF Top
  <1>3. Top.terms \in Seq(Terms)
    BY TopTyped
  <1>4. Len(Tail(Top.terms)) = Len(Top.terms) - 1 /\ Len(Top.terms) \in Nat
    BY <1>3, Pop
  <1> QED
    BY <1>1, <1>2, <1>4

LEMMA DecideShortens ==
  ASSUME frames \in Seq(Frames), frames # <<>>, Top.terms # <<>>, pc \in {"term", "mx"},
         NEW matched \in BOOLEAN, Decide(matched), count' = count
  PROVE  LeavesLess
  <1>1. CASE matched
    <2>1. UNCHANGED frames /\ pc' = "return" /\ Top' = Top
      BY <1>1 DEF Decide, Return, Top
    <2>2. Phase' < Phase
      BY <2>1 DEF Phase
    <2> QED
      BY <2>1, <2>2 DEF LeavesLess
  <1>2. CASE ~matched
    <2> DEFINE f == [Top EXCEPT !.terms = Tail(Top.terms)]
    <2>1. f \in Frames /\ f.terms = Tail(Top.terms)
      BY TopTyped
    <2>2. frames' = <<f>> \o Tail(frames) /\ pc' = "term"
      BY <1>2 DEF Decide, Advance, Top
    <2> HIDE DEF f
    <2> QED
      BY <2>1, <2>2, Shortens DEF LeavesLess
  <1> QED
    BY <1>1, <1>2

LEMMA StepLeavesLess ==
  ASSUME TypeOK, Step \/ QueryThrows
  PROVE  LeavesLess /\ frames # <<>> /\ pc' # "idle"
  <1>1. frames \in Seq(Frames) /\ Len(frames) \in Nat /\ exchanges \in Seq(Domains)
    BY DEF TypeOK
  <1>2. frames # <<>> /\ pc' # "idle"
    <2>1. frames # <<>>
      BY DEF Step, NoRecord, ManyRecords, OneRecord, Modifier, LookupRefused, MatchDirectly,
             MatchAddresses, ResolveMx, MatchExchange, NoExchangeMatches, Include, Unsupported,
             Redirect, NothingMatches, IncludePasses, IncludeErrs, IncludeFails, RedirectReturns,
             ReturnTo, Returned, QueryThrows, At, AtRedirect, TypeOK
    <2>2. pc' # "idle"
      BY DEF Step, NoRecord, ManyRecords, OneRecord, Modifier, LookupRefused, MatchDirectly,
             MatchAddresses, ResolveMx, MatchExchange, ExchangeMatches, ExchangeDiffers,
             NoExchangeMatches, Include, Unsupported, Redirect, NothingMatches, IncludePasses,
             IncludeErrs, IncludeFails, RedirectReturns, Returned, QueryThrows, Return, Decide,
             Advance, Call, At, AtRedirect
    <2> QED
      BY <2>1, <2>2
  <1>3. CASE MatchAddresses \/ ResolveMx \/ Include \/ Redirect
    BY <1>2, <1>3 DEF MatchAddresses, ResolveMx, Include, Redirect, TryIncrement, LeavesLess
  <1>4. CASE IncludePasses \/ IncludeErrs \/ IncludeFails \/ RedirectReturns
    <2>1. Len(frames) > 1 /\ count' = count
      BY <1>4 DEF IncludePasses, IncludeErrs, IncludeFails, RedirectReturns, ReturnTo
    <2>2. Len(Tail(frames)) = Len(frames) - 1 /\ Tail(frames) \in Seq(Frames) /\ Tail(frames) # <<>>
      BY SMTT(30), <1>1, <2>1, CallerTyped
    <2>3. IncludeFails => Len(frames') = Len(Tail(frames))
      BY ZenonT(30), <2>2, AdvanceTyped DEF IncludeFails, ReturnTo, Caller
    <2>4. Len(frames') = Len(Tail(frames))
      BY <1>4, <2>3 DEF IncludePasses, IncludeErrs, RedirectReturns
    <2>5. Len(frames') < Len(frames)
      BY <1>1, <2>2, <2>4
    <2> QED
      BY <1>2, <2>1, <2>5 DEF LeavesLess
  <1>5. CASE pc = "query" /\ (NoRecord \/ ManyRecords \/ OneRecord \/ QueryThrows)
    <2>1. count' = count /\ pc' # "query"
      BY <1>5 DEF NoRecord, ManyRecords, OneRecord, QueryThrows, Return
    <2>2. Len(frames') = Len(frames)
      BY <1>5, LocalStepKeepsDepth DEF LocalStep
    <2> QED
      BY <1>2, <1>5, <2>1, <2>2 DEF LeavesLess
  <1>6. CASE MatchDirectly \/ NoExchangeMatches
    <2>1. Top.terms # <<>> /\ pc \in {"term", "mx"} /\ count' = count
      BY <1>6 DEF MatchDirectly, NoExchangeMatches, At, TypeOK
    <2>2. \E matched \in BOOLEAN : Decide(matched)
      BY <1>6, SomeDecision
    <2> QED
      BY <1>1, <1>2, <2>1, <2>2, DecideShortens
  <1>7. CASE MatchExchange
    <2>1. Top.terms # <<>> /\ pc = "mx" /\ count' = count /\ exchanges # <<>>
      BY <1>7 DEF MatchExchange, TypeOK
    <2>2. CASE Decide(TRUE)
      BY <1>1, <1>2, <2>1, <2>2, DecideShortens
    <2>3. CASE exchanges' = Tail(exchanges) /\ UNCHANGED <<pc, frames>>
      <3>1. Len(exchanges') < Len(exchanges)
        BY <1>1, <2>1, <2>3
      <3>2. Top' = Top /\ Phase' = Phase
        BY <2>3 DEF Top, Phase
      <3> QED
        BY <1>2, <2>1, <2>3, <3>1, <3>2 DEF LeavesLess
    <2> QED
      BY <1>7, <2>2, <2>3 DEF MatchExchange, ExchangeMatches, ExchangeDiffers
  <1>8. CASE Modifier
    <2>1. pc = "term" /\ pc' = pc /\ Top.terms # <<>> /\ Term \in Terms /\ count' = count
      BY <1>1, <1>2, <1>8, TopTyped DEF Modifier, At
    <2> DEFINE f == [Top EXCEPT !.terms = Tail(Top.terms),
                     !.redirect = IF Term.kind = "redirect" THEN Term.target ELSE Top.redirect]
    <2>2. f \in Frames /\ f.terms = Tail(Top.terms)
      BY <1>1, <1>2, <2>1, TopTyped, TermTyped
    <2>3. frames' = <<f>> \o Tail(frames)
      BY <1>8 DEF Modifier
    <2> HIDE DEF f
    <2> QED
      BY <1>1, <1>2, <2>1, <2>2, <2>3, Shortens DEF LeavesLess
  <1>9. CASE \/ LookupRefused \/ Unsupported \/ NothingMatches \/ Returned
             \/ (QueryThrows /\ pc # "query")
    <2>1. /\ UNCHANGED frames /\ Top' = Top /\ Len(frames') = Len(frames)
          /\ count' = count \/ count' = count + 1
      BY <1>9 DEF LookupRefused, Unsupported, NothingMatches, Returned, QueryThrows,
                  TryIncrement, Top
    <2>2. pc # "query" /\ pc' # "query" /\ Phase' < Phase
      BY <1>9 DEF LookupRefused, Unsupported, NothingMatches, Returned, QueryThrows, Return,
                  At, AtRedirect, Phase
    <2> QED
      BY <1>2, <2>1, <2>2 DEF LeavesLess
  <1> QED
    BY <1>2, <1>3, <1>4, <1>5, <1>6, <1>7, <1>8, <1>9
       DEF Step, NoRecord, ManyRecords, OneRecord

\* Whatever DNS publishes and however it changes, a step of an evaluation leaves
\* less to do, in an order in which nothing descends for ever: the safety part of
\* Terminates, for circles of records of any size.
THEOREM EvaluationDescends ==
  /\ IsWellFoundedOn(Order, [1 .. 6 -> Nat])
  /\ Spec => [][\/ \E d \in Domains : EvaluateAsync(d)
                \/ ZoneChanges
                \/ <<Remaining', Remaining>> \in Order]_vars
  <1>1. TypeOK /\ Counted /\ Counted' /\ (Step \/ QueryThrows) => <<Remaining', Remaining>> \in Order
    <2> SUFFICES ASSUME TypeOK, Counted, Counted', Step \/ QueryThrows
                 PROVE  <<Remaining', Remaining>> \in Order
      OBVIOUS
    <2>1. LeavesLess /\ pc # "idle" /\ pc' # "idle" /\ count \in Nat
      BY StepLeavesLess DEF TypeOK
    <2> QED
      BY <2>1, LessIsLess DEF Counted
  <1>2. TypeOK /\ RecursionBounded => Counted
    BY WhatIsLeftIsCounted
  <1> QED
    BY <1>1, <1>2, OrderIsWellFounded, TypeCorrect, RecursionIsBounded, PTL DEF Spec, Next

-----------------------------------------------------------------------------
(***************************************************************************)
(* The verdict follows from the rules                                      *)
(*                                                                         *)
(* Every call on the stack has passed over the terms it has behind it, by  *)
(* the rules and from any verdicts that are closed under them; so when it  *)
(* returns, the rules give what it returns.  The invariant needs to know   *)
(* of each call what the counter was when it was made (start): one lookup  *)
(* more than its caller had spent.                                         *)
(***************************************************************************)

\* How many terms of its record a call has behind it.
Place(z, f) == Len(RecordOf(z, f.domain)) - Len(f.terms)

\* The call has its record before it.
Placed(z, f) ==
  /\ Len(z.txt[f.domain]) = 1
  /\ Place(z, f) >= 0
  /\ \A i \in 1 .. Len(f.terms) : f.terms[i] = RecordOf(z, f.domain)[Place(z, f) + i]
  /\ IF f.redirect = None
     THEN NoRedirect(RecordOf(z, f.domain), Place(z, f))
     ELSE Redirects(RecordOf(z, f.domain), Place(z, f), f.redirect)

\* It was made with n lookups spent, and none of the terms behind it decided; m are
\* spent at the next one.
Reached(z, known, f, n, m) ==
  /\ Placed(z, f)
  /\ PassedTo(z, known, f.domain, n, Place(z, f) + 1, m)

\* It stands at an include of d, or has followed its redirect there.
Awaits(f, d) ==
  IF f.terms # <<>> THEN f.terms[1].kind = "include" /\ f.terms[1].target = d
                    ELSE f.redirect = d

CallersTell(known, start) ==
  \A i \in 2 .. Len(frames) :
    /\ start[i - 1] > 0
    /\ Reached(zone, known, frames[i], start[i], start[i - 1] - 1)
    /\ Awaits(frames[i], frames[i - 1].domain)

TopTells(known, n) ==
  /\ pc = "query" => count = n /\ Top.redirect = None
  /\ pc = "term" => Reached(zone, known, Top, n, count)
  /\ pc = "mx" =>
       /\ count > 0
       /\ Reached(zone, known, Top, n, count - 1)
       /\ Meant(zone, Top.domain, Term) <=>
            \E i \in DOMAIN exchanges : MatchesHost(Addresses(zone, exchanges[i]), Term.prefix)
  /\ pc \in {"return", "done"} =>
       <<Top.domain, n, Verdict(outcome.code, outcome.mechanism, count)>> \in known
  /\ pc = "done" => Len(frames) = 1

StackTells(known) ==
  pc \notin {"idle", "failed"} =>
    \E start \in [1 .. Len(frames) -> Spendings] :
      /\ start[Len(frames)] = 0
      /\ CallersTell(known, start)
      /\ TopTells(known, start[1])

RulesInv ==
  faults = 0 =>
    \A known \in SUBSET (Domains \X Spendings \X Verdicts) :
      Closed(zone, known) => StackTells(known)

-----------------------------------------------------------------------------
ZoneTyped(z) == z.txt \in [Domains -> Seq(Seq(Terms))]

LEMMA RecordTyped ==
  ASSUME NEW z, ZoneTyped(z), NEW d \in Domains, Len(z.txt[d]) = 1
  PROVE  /\ RecordOf(z, d) \in Seq(Terms)
         /\ RecordOf(z, d) = Head(z.txt[d])
         /\ Len(RecordOf(z, d)) \in Nat
  <1>1. z.txt[d] \in Seq(Seq(Terms))
    BY DEF ZoneTyped
  <1> QED
    BY <1>1 DEF RecordOf

\* A call that has read its record has none of it behind it.
LEMMA Starts ==
  ASSUME NEW z, ZoneTyped(z), NEW known, NEW n \in Spendings, NEW f \in Frames,
         Len(z.txt[f.domain]) = 1, f.terms = Head(z.txt[f.domain]), f.redirect = None
  PROVE  Reached(z, known, f, n, n)
  <1> DEFINE r == RecordOf(z, f.domain)
  <1>1. r \in Seq(Terms) /\ f.terms = r /\ Len(r) \in Nat /\ f.domain \in Domains
    BY RecordTyped
  <1>2. Place(z, f) = 0
    BY <1>1 DEF Place
  <1>3. Placed(z, f)
    BY <1>1, <1>2 DEF Placed, NoRedirect
  <1>4. PassedTo(z, known, f.domain, n, 1, n)
    <2> DEFINE spent == [i \in 1 .. 1 |-> n]
    <2>1. spent \in [1 .. 1 -> Spendings] /\ spent[1] = n
      OBVIOUS
    <2>2. 1 .. 1 - 1 = {}
      OBVIOUS
    <2> HIDE DEF spent
    <2> QED
      BY <2>1, <2>2 DEF PassedTo
  <1> QED
    BY <1>2, <1>3, <1>4 DEF Reached

\* A call that passes over a term has reached the next one.
LEMMA Advances ==
  ASSUME NEW z, ZoneTyped(z), NEW known, NEW n, NEW f \in Frames, NEW m, NEW q \in Spendings,
         Reached(z, known, f, n, m), f.terms # <<>>,
         Passed(z, known, f.domain, Head(f.terms), m, q),
         NEW g \in Frames, g.domain = f.domain, g.terms = Tail(f.terms),
         g.redirect = IF Head(f.terms).kind = "redirect" THEN Head(f.terms).target ELSE f.redirect
  PROVE  Reached(z, known, g, n, q)
  <1> DEFINE d == f.domain
             r == RecordOf(z, d)
             k == Place(z, f)
  <1>1. /\ r \in Seq(Terms) /\ Len(r) \in Nat /\ Len(f.terms) \in Nat /\ Len(f.terms) > 0
        /\ k \in Nat /\ k + Len(f.terms) = Len(r)
        /\ Len(g.terms) = Len(f.terms) - 1
        /\ Head(f.terms) = f.terms[1]
        /\ \A i \in 1 .. Len(g.terms) : g.terms[i] = f.terms[i + 1]
    BY RecordTyped DEF Reached, Placed, Place
  <1>2. Place(z, g) = k + 1 /\ Head(f.terms) = r[k + 1] /\ r[k + 1] \in Terms
    BY <1>1 DEF Place, Reached, Placed
  <1>3. /\ RecordOf(z, d) = r /\ Place(z, f) = k /\ f.domain = d /\ g.domain = d
        /\ Len(z.txt[d]) = 1
        /\ \A i \in 1 .. Len(f.terms) : f.terms[i] = r[k + i]
        /\ IF f.redirect = None THEN NoRedirect(r, k) ELSE Redirects(r, k, f.redirect)
        /\ PassedTo(z, known, d, n, k + 1, m)
    BY DEF Reached, Placed
  <1> HIDE DEF d, r, k
  <1>4. \A i \in 1 .. Len(g.terms) : g.terms[i] = r[k + 1 + i]
    <2> SUFFICES ASSUME NEW i \in 1 .. Len(g.terms)
                 PROVE  g.terms[i] = r[k + 1 + i]
      OBVIOUS
    <2>1. f.terms[i + 1] = r[k + (i + 1)]
      BY <1>1, <1>3
    <2>2. k + (i + 1) = k + 1 + i
      BY <1>1
    <2> QED
      BY <1>1, <2>1, <2>2
  <1>5. IF g.redirect = None THEN NoRedirect(r, k + 1) ELSE Redirects(r, k + 1, g.redirect)
    <2>1. CASE r[k + 1].kind = "redirect"
      <3>1. g.redirect = r[k + 1].target
        BY <1>2, <2>1
      <3>2. g.redirect # None
        BY <1>2, <2>1, <3>1, TermTyped, ConstantsAssumption
      <3>3. k + 1 \in 1 .. k + 1 /\ k + 1 + 1 .. k + 1 = {}
        BY <1>1
      <3>4. Redirects(r, k + 1, g.redirect)
        BY <2>1, <3>1, <3>3 DEF Redirects
      <3> QED
        BY <3>2, <3>4
    <2>2. CASE r[k + 1].kind # "redirect"
      <3>1. g.redirect = f.redirect
        BY <1>2, <2>2
      <3>2. NoRedirect(r, k) => NoRedirect(r, k + 1)
        BY <1>1, <2>2 DEF NoRedirect
      <3>3. ASSUME NEW e, Redirects(r, k, e)
            PROVE  Redirects(r, k + 1, e)
        <4>1. PICK j \in 1 .. k : /\ r[j].kind = "redirect" /\ r[j].target = e
                                 /\ \A l \in j + 1 .. k : r[l].kind # "redirect"
          BY <3>3 DEF Redirects
        <4>2. j \in 1 .. k + 1 /\ \A l \in j + 1 .. k + 1 : l \in j + 1 .. k \/ l = k + 1
          BY <1>1
        <4> QED
          BY <2>2, <4>1, <4>2 DEF Redirects
      <3> QED
        BY <1>3, <3>1, <3>2, <3>3
    <2> QED
      BY <2>1, <2>2
  <1>6. Placed(z, g)
    BY <1>1, <1>2, <1>3, <1>4, <1>5 DEF Placed
  <1>7. PassedTo(z, known, d, n, k + 2, q)
    <2>1. PICK spent \in [1 .. k + 1 -> Spendings] :
             /\ spent[1] = n
             /\ spent[k + 1] = m
             /\ \A i \in 1 .. (k + 1) - 1 :
                  Passed(z, known, d, RecordOf(z, d)[i], spent[i], spent[i + 1])
      BY <1>3, Zenon DEF PassedTo
    <2> DEFINE more == [i \in 1 .. k + 2 |-> IF i = k + 2 THEN q ELSE spent[i]]
    <2>2. /\ more \in [1 .. k + 2 -> Spendings]
          /\ more[1] = n /\ more[k + 2] = q /\ more[k + 1] = m
          /\ \A i \in 1 .. k + 1 : more[i] = spent[i]
      BY <1>1, <2>1
    <2> HIDE DEF more
    <2>3. ASSUME NEW i \in 1 .. k + 1
          PROVE  Passed(z, known, d, r[i], more[i], more[i + 1])
      <3>1. CASE i = k + 1
        <4>1. k + 1 + 1 = k + 2
          BY <1>1
        <4>2. Passed(z, known, d, r[k + 1], m, q)
          BY <1>2, <1>3
        <4> QED
          BY <2>2, <3>1, <4>1, <4>2
      <3>2. CASE i # k + 1
        <4>1. i \in 1 .. k /\ i + 1 \in 1 .. k + 1
          BY <1>1, <3>2
        <4>2. more[i] = spent[i] /\ more[i + 1] = spent[i + 1]
          BY <2>2, <4>1
        <4>3. i \in 1 .. (k + 1) - 1
          BY <1>1, <4>1
        <4>4. Passed(z, known, d, RecordOf(z, d)[i], spent[i], spent[i + 1])
          BY <2>1, <4>3
        <4> QED
          BY <1>3, <4>2, <4>4
      <3> QED
        BY <3>1, <3>2
    <2>4. (k + 2) - 1 = k + 1
      BY <1>1
    <2>5. \A i \in 1 .. (k + 2) - 1 : Passed(z, known, d, RecordOf(z, d)[i], more[i], more[i + 1])
      BY <1>3, <2>3, <2>4
    <2> QED
      BY <2>2, <2>5, Zenon DEF PassedTo
  <1>8. k + 1 + 1 = k + 2
    BY <1>1
  <1> QED
    BY <1>2, <1>3, <1>6, <1>7, <1>8 DEF Reached

\* A call that is decided by a term, or ends its record, returns what the rules give.
LEMMA Decides ==
  ASSUME NEW z, ZoneTyped(z), NEW known, Closed(z, known),
         NEW f \in Frames, NEW n \in Spendings, NEW m \in Spendings,
         Reached(z, known, f, n, m), f.terms # <<>>,
         NEW v \in Verdicts, Decided(z, known, f.domain, Head(f.terms), m, v)
  PROVE  <<f.domain, n, v>> \in known
  <1> DEFINE d == f.domain
             k == Place(z, f) + 1
  <1>1. /\ Len(z.txt[d]) = 1 /\ RecordOf(z, d) \in Seq(Terms)
        /\ d \in Domains
        /\ k \in 1 .. Len(RecordOf(z, d)) + 1 /\ k <= Len(RecordOf(z, d))
        /\ Head(f.terms) = RecordOf(z, d)[k]
    BY RecordTyped DEF Reached, Placed, Place
  <1>2. PassedTo(z, known, d, n, k, m)
    BY DEF Reached
  <1> HIDE DEF k
  <1>3. Comes(z, known, d, n, v)
    BY <1>1, <1>2 DEF Comes
  <1> QED
    BY <1>1, <1>3 DEF Closed

LEMMA Ends ==
  ASSUME NEW z, ZoneTyped(z), NEW known, Closed(z, known),
         NEW f \in Frames, NEW n \in Spendings, NEW m \in Spendings,
         Reached(z, known, f, n, m), f.terms = <<>>,
         NEW v \in Verdicts, Ended(known, RecordOf(z, f.domain), m, v)
  PROVE  <<f.domain, n, v>> \in known
  <1> DEFINE d == f.domain
             k == Place(z, f) + 1
  <1>1. /\ Len(z.txt[d]) = 1 /\ RecordOf(z, d) \in Seq(Terms)
        /\ d \in Domains
        /\ k \in 1 .. Len(RecordOf(z, d)) + 1 /\ ~(k <= Len(RecordOf(z, d)))
    BY RecordTyped DEF Reached, Placed, Place
  <1>2. PassedTo(z, known, d, n, k, m)
    BY DEF Reached
  <1> HIDE DEF k
  <1>3. Comes(z, known, d, n, v)
    BY <1>1, <1>2 DEF Comes
  <1> QED
    BY <1>1, <1>3 DEF Closed

\* At the end of its record a call knows its redirect.
LEMMA KnowsRedirect ==
  ASSUME NEW z, ZoneTyped(z), NEW f \in Frames, Placed(z, f), f.terms = <<>>
  PROVE  IF f.redirect = None
         THEN NoRedirect(RecordOf(z, f.domain), Len(RecordOf(z, f.domain)))
         ELSE Redirects(RecordOf(z, f.domain), Len(RecordOf(z, f.domain)), f.redirect)
  <1>1. Place(z, f) = Len(RecordOf(z, f.domain))
    BY RecordTyped DEF Placed, Place
  <1> QED
    BY <1>1 DEF Placed

-----------------------------------------------------------------------------
\* A stack by its positions.
LEMMA StackPositions ==
  ASSUME NEW S, NEW s \in Seq(S), NEW x \in S
  PROVE  /\ s # <<>> => /\ Head(s) = s[1]
                        /\ Len(<<x>> \o Tail(s)) = Len(s)
                        /\ (<<x>> \o Tail(s))[1] = x
                        /\ \A i \in 2 .. Len(s) : (<<x>> \o Tail(s))[i] = s[i]
         /\ (<<x>> \o s)[1] = x
         /\ \A i \in 2 .. Len(s) + 1 : (<<x>> \o s)[i] = s[i - 1]
         /\ Len(s) > 1 => /\ Len(Tail(s)) = Len(s) - 1
                          /\ Head(Tail(s)) = s[2]
                          /\ \A i \in 1 .. Len(s) - 1 : Tail(s)[i] = s[i + 1]
  <1>1. s # <<>> => /\ Head(s) = s[1]
                    /\ Len(<<x>> \o Tail(s)) = Len(s)
                    /\ (<<x>> \o Tail(s))[1] = x
    OBVIOUS
  <1>2. s # <<>> => \A i \in 2 .. Len(s) : (<<x>> \o Tail(s))[i] = s[i]
    OBVIOUS
  <1>3. (<<x>> \o s)[1] = x /\ \A i \in 2 .. Len(s) + 1 : (<<x>> \o s)[i] = s[i - 1]
    OBVIOUS
  <1>4. Len(s) > 1 => /\ Len(Tail(s)) = Len(s) - 1
                      /\ Head(Tail(s)) = s[2]
                      /\ \A i \in 1 .. Len(s) - 1 : Tail(s)[i] = s[i + 1]
    OBVIOUS
  <1> QED
    BY <1>1, <1>2, <1>3, <1>4

\* A step of the innermost call that leaves its callers alone.
LEMMA TopStep ==
  ASSUME NEW CONSTANT known, StackTells(known), pc \notin {"idle", "failed"},
         zone' = zone, Len(frames) \in Nat, Len(frames) > 0,
         Len(frames') = Len(frames), frames'[1].domain = frames[1].domain,
         \A i \in 2 .. Len(frames) : frames'[i] = frames[i],
         \A n \in Spendings : TopTells(known, n) => TopTells(known, n)'
  PROVE  StackTells(known)'
  <1>1. PICK start \in [1 .. Len(frames) -> Spendings] :
          start[Len(frames)] = 0 /\ CallersTell(known, start) /\ TopTells(known, start[1])
    BY DEF StackTells
  <1>2. \A i \in 2 .. Len(frames) : frames'[i - 1].domain = frames[i - 1].domain
    OBVIOUS
  <1>3. CallersTell(known, start)'
    BY <1>1, <1>2 DEF CallersTell
  <1>4. TopTells(known, start[1])'
    BY <1>1
  <1> QED
    BY <1>1, <1>3, <1>4 DEF StackTells

\* The innermost call goes on, and its callers stay.
GoesOn ==
  /\ Len(frames') = Len(frames)
  /\ frames'[1].domain = frames[1].domain
  /\ \A i \in 2 .. Len(frames) : frames'[i] = frames[i]

LEMMA TopReplaced ==
  ASSUME frames \in Seq(Frames), frames # <<>>, NEW f \in Frames, f.domain = Top.domain,
         frames' = <<f>> \o Tail(frames)
  PROVE  GoesOn /\ Top' = f
  BY StackPositions DEF GoesOn, Top

\* What every step may use.
LEMMA Context ==
  ASSUME TypeOK, RecursionBounded
  PROVE  /\ ZoneTyped(zone)
         /\ count \in Spendings /\ MaxLookups \in Nat
         /\ frames \in Seq(Frames) /\ Len(frames) \in Nat
         /\ frames # <<>> => /\ Len(frames) > 0
                             /\ Top = frames[1] /\ Top \in Frames /\ Top.domain \in Domains
                             /\ Top.redirect \in Domains \cup {None}
         /\ frames # <<>> /\ Top.terms # <<>> =>
               /\ Term = Head(Top.terms) /\ Term \in Terms
               /\ Tail(Top.terms) \in Seq(Terms)
               /\ Target = Named(Top.domain, Term)
  <1>1. ZoneTyped(zone)
    BY DEF ZoneTyped, TypeOK
  <1>2. count \in Spendings /\ MaxLookups \in Nat
    BY ConstantsAssumption DEF TypeOK, RecursionBounded, Spendings
  <1>3. frames \in Seq(Frames) /\ Len(frames) \in Nat
    BY DEF TypeOK
  <1>4. frames # <<>> => Len(frames) > 0 /\ Top = frames[1]
    BY <1>3, StackPositions, Pop DEF Top
  <1> QED
    BY <1>1, <1>2, <1>3, <1>4, TopTyped DEF Term, Target, Named

\* An answer that is no error is what DNS holds.
LEMMA TrueAnswer ==
  ASSUME faults = 0, faults' = 0, NEW held, NEW empty, NEW answer, Ask(held, empty, answer)
  PROVE  answer = held /\ zone' = zone
  BY DEF Ask

LEMMA VerdictTyped ==
  ASSUME NEW c \in Codes, NEW by \in Mechanisms \cup {None}, NEW k \in Spendings
  PROVE  Verdict(c, by, k) \in Verdicts
  BY DEF Verdict, Verdicts

LEMMA QueryTells ==
  ASSUME TypeOK, RecursionBounded, faults = 0, faults' = 0,
         NEW CONSTANT known, Closed(zone, known), NEW CONSTANT n \in Spendings,
         TopTells(known, n), NoRecord \/ ManyRecords \/ OneRecord
  PROVE  zone' = zone /\ GoesOn /\ TopTells(known, n)'
  <1>1. /\ pc = "query" /\ count = n /\ count' = count
        /\ frames # <<>> /\ frames \in Seq(Frames)
        /\ Top \in Frames /\ Top.domain \in Domains /\ ZoneTyped(zone)
    BY Context DEF NoRecord, ManyRecords, OneRecord, TopTells, TypeOK
  <1>2. CASE NoRecord
    <2>1. zone.txt[Top.domain] = <<>> /\ zone' = zone
      BY <1>2, TrueAnswer DEF NoRecord, Published
    <2>2. Verdict("None", None, n) \in Verdicts
      BY VerdictTyped DEF Codes
    <2>3. <<Top.domain, n, Verdict("None", None, n)>> \in known
      BY <1>1, <2>1, <2>2 DEF Closed, Comes
    <2>4. /\ frames' = frames /\ Top' = Top /\ pc' = "return"
          /\ outcome' = Result("None", None)
      BY <1>2 DEF NoRecord, Return, Top
    <2> QED
      BY <1>1, <2>1, <2>3, <2>4 DEF TopTells, GoesOn, Result
  <1>3. CASE ManyRecords
    <2>1. Len(zone.txt[Top.domain]) > 1 /\ zone' = zone
      BY <1>3, TrueAnswer DEF ManyRecords, Published
    <2>2. Verdict("PermError", None, n) \in Verdicts
      BY VerdictTyped DEF Codes
    <2>3. <<Top.domain, n, Verdict("PermError", None, n)>> \in known
      BY <1>1, <2>1, <2>2 DEF Closed, Comes
    <2>4. /\ frames' = frames /\ Top' = Top /\ pc' = "return"
          /\ outcome' = Result("PermError", None)
      BY <1>3 DEF ManyRecords, Return, Top
    <2> QED
      BY <1>1, <2>1, <2>3, <2>4 DEF TopTells, GoesOn, Result
  <1>4. CASE OneRecord
    <2>1. Len(zone.txt[Top.domain]) = 1 /\ zone' = zone
      BY <1>4, TrueAnswer DEF OneRecord, Published
    <2> DEFINE f == [Top EXCEPT !.terms = Head(Published)]
    <2>2. Head(Published) \in Seq(Terms) /\ Head(Published) = Head(zone.txt[Top.domain])
      BY <1>1, <2>1, RecordTyped DEF Published
    <2>3. /\ f \in Frames /\ f.domain = Top.domain /\ f.terms = Head(zone.txt[f.domain])
          /\ f.redirect = None
      BY <1>1, <2>2 DEF TopTells
    <2>4. frames' = <<f>> \o Tail(frames) /\ pc' = "term"
      BY <1>4 DEF OneRecord
    <2> HIDE DEF f
    <2>5. GoesOn /\ Top' = f
      BY <1>1, <2>3, <2>4, TopReplaced
    <2>6. Reached(zone, known, f, n, n)
      BY <1>1, <2>1, <2>3, Starts
    <2> QED
      BY <1>1, <2>1, <2>4, <2>5, <2>6 DEF TopTells
  <1> QED
    BY <1>2, <1>3, <1>4

LEMMA ReturnTells ==
  ASSUME NEW CONSTANT known, NEW CONSTANT n \in Spendings, NEW c, NEW by,
         UNCHANGED frames, Return(c, by),
         <<Top.domain, n, Verdict(c, by, count')>> \in known
  PROVE  GoesOn /\ TopTells(known, n)'
  <1>1. /\ Top' = Top /\ pc' = "return"
        /\ outcome'.code = c /\ outcome'.mechanism = by
    BY DEF Return, Result, Top
  <1> QED
    BY <1>1 DEF GoesOn, TopTells

LEMMA AdvanceTells ==
  ASSUME TypeOK, RecursionBounded, NEW CONSTANT known, NEW CONSTANT n \in Spendings, NEW m,
         frames # <<>>, Top.terms # <<>>, Term.kind \in Mechanisms,
         Reached(zone, known, Top, n, m), zone' = zone, count' \in Spendings,
         Passed(zone, known, Top.domain, Term, m, count'),
         Advance(frames)
  PROVE  GoesOn /\ TopTells(known, n)'
  <1> DEFINE f == [Top EXCEPT !.terms = Tail(Top.terms)]
  <1>1. /\ frames \in Seq(Frames) /\ Top \in Frames /\ Tail(Top.terms) \in Seq(Terms)
        /\ ZoneTyped(zone) /\ Term = Head(Top.terms)
    BY Context
  <1>2. /\ f \in Frames /\ f.domain = Top.domain /\ f.terms = Tail(Top.terms)
        /\ f.redirect = Top.redirect
    BY <1>1
  <1>3. frames' = <<f>> \o Tail(frames) /\ pc' = "term"
    BY DEF Advance, Top
  <1>4. Term.kind # "redirect"
    BY DEF Mechanisms
  <1> HIDE DEF f
  <1>5. Reached(zone, known, f, n, count')
    BY <1>1, <1>2, <1>4, Advances
  <1>6. GoesOn /\ Top' = f
    BY <1>1, <1>2, <1>3, TopReplaced
  <1> QED
    BY <1>3, <1>5, <1>6 DEF TopTells

\* A mechanism that is tried decides, or is passed over.
Tried == {"all", "ip4", "ip6", "a", "exists", "mx"}

LEMMA DecideTells ==
  ASSUME TypeOK, RecursionBounded, NEW CONSTANT known, Closed(zone, known),
         NEW CONSTANT n \in Spendings, NEW m \in Spendings,
         frames # <<>>, Top.terms # <<>>, Term.kind \in Tried,
         Reached(zone, known, Top, n, m), zone' = zone,
         count' = Spent(Term, m), count' \in Spendings,
         NEW matched, matched <=> Meant(zone, Top.domain, Term), Decide(matched)
  PROVE  GoesOn /\ TopTells(known, n)'
  <1>1. /\ Top \in Frames /\ ZoneTyped(zone) /\ Term = Head(Top.terms) /\ Term \in Terms
        /\ Term.kind \in Mechanisms
    BY Context DEF Tried, Mechanisms
  <1>2. CASE matched
    <2> DEFINE v == Verdict(QualifierToResult(Term.qualifier), Term.kind, Spent(Term, m))
    <2>1. v \in Verdicts
      BY <1>1, TermTyped, VerdictTyped
    <2>2. Decided(zone, known, Top.domain, Term, m, v)
      BY <1>2 DEF Decided, Tried
    <2>3. <<Top.domain, n, v>> \in known
      <3> HIDE DEF v
      <3> QED
        BY <1>1, <2>1, <2>2, Decides
    <2>4. Return(QualifierToResult(Term.qualifier), Term.kind) /\ UNCHANGED frames
      BY <1>2 DEF Decide
    <2> QED
      BY <2>3, <2>4, ReturnTells
  <1>3. CASE ~matched
    <2>1. Passed(zone, known, Top.domain, Term, m, count')
      BY <1>3 DEF Passed, Tried
    <2>2. Advance(frames)
      BY <1>3 DEF Decide
    <2> QED
      BY <1>1, <2>1, <2>2, AdvanceTells
  <1> QED
    BY <1>2, <1>3

LEMMA TermTells ==
  ASSUME TypeOK, RecursionBounded, faults = 0, faults' = 0,
         NEW CONSTANT known, Closed(zone, known), NEW CONSTANT n \in Spendings,
         TopTells(known, n),
         \/ Modifier \/ LookupRefused \/ MatchDirectly \/ MatchAddresses
         \/ ResolveMx \/ Unsupported \/ NothingMatches
  PROVE  zone' = zone /\ GoesOn /\ TopTells(known, n)'
  <1>1. /\ pc = "term" /\ frames # <<>>
        /\ Reached(zone, known, Top, n, count)
    BY DEF Modifier, LookupRefused, MatchDirectly, MatchAddresses, ResolveMx, Unsupported,
           NothingMatches, At, AtRedirect, TopTells, TypeOK
  <1>2. /\ frames \in Seq(Frames) /\ Top \in Frames /\ Top.domain \in Domains
        /\ ZoneTyped(zone) /\ count \in Spendings /\ MaxLookups \in Nat
        /\ Top.redirect \in Domains \cup {None}
    BY <1>1, Context
  <1>3. CASE Modifier
    <2>1. Top.terms # <<>> /\ Term.kind \in Modifiers
      BY <1>3 DEF Modifier, At
    <2>2. Term = Head(Top.terms) /\ Term \in Terms /\ Tail(Top.terms) \in Seq(Terms)
      BY <1>1, <2>1, Context
    <2> DEFINE f == [Top EXCEPT !.terms = Tail(Top.terms),
                     !.redirect = IF Term.kind = "redirect" THEN Term.target ELSE Top.redirect]
    <2>3. /\ f \in Frames /\ f.domain = Top.domain /\ f.terms = Tail(Top.terms)
          /\ f.redirect = IF Term.kind = "redirect" THEN Term.target ELSE Top.redirect
      BY <1>2, <2>2, TermTyped
    <2>4. /\ frames' = <<f>> \o Tail(frames) /\ pc' = pc /\ count' = count /\ zone' = zone
      BY <1>3 DEF Modifier, quiet
    <2>5. Passed(zone, known, Top.domain, Term, count, count)
      BY <2>1 DEF Passed
    <2> HIDE DEF f
    <2>6. Reached(zone, known, f, n, count)
      BY <1>1, <1>2, <2>1, <2>2, <2>3, <2>5, Advances
    <2>7. GoesOn /\ Top' = f
      BY <1>1, <1>2, <2>3, <2>4, TopReplaced
    <2> QED
      BY <1>1, <2>4, <2>6, <2>7 DEF TopTells
  <1>4. CASE LookupRefused
    <2> DEFINE v == Verdict("PermError", None, count)
    <2>1. v \in Verdicts
      BY <1>2, VerdictTyped DEF Codes
    <2>2. /\ UNCHANGED frames /\ zone' = zone /\ count' = count /\ count = MaxLookups
          /\ Return("PermError", None)
      BY <1>4 DEF LookupRefused, quiet
    <2>3. CASE At(RequiresLookup)
      <3>1. Top.terms # <<>> /\ Term.kind \in RequiresLookup /\ Term = Head(Top.terms)
        BY <2>3 DEF At, Term
      <3>2. Decided(zone, known, Top.domain, Term, count, v)
        BY <2>2, <3>1 DEF Decided
      <3>3. <<Top.domain, n, v>> \in known
        <4> HIDE DEF v
        <4> QED
          BY <1>1, <1>2, <2>1, <3>1, <3>2, Decides
      <3> QED
        BY <2>2, <3>3, ReturnTells
    <2>4. CASE AtRedirect
      <3>1. Top.terms = <<>> /\ Top.redirect # None
        BY <2>4 DEF AtRedirect
      <3>2. Redirects(RecordOf(zone, Top.domain), Len(RecordOf(zone, Top.domain)), Top.redirect)
        BY <1>1, <1>2, <3>1, KnowsRedirect DEF Reached
      <3>3. Ended(known, RecordOf(zone, Top.domain), count, v)
        BY <1>2, <2>2, <3>1, <3>2 DEF Ended
      <3>4. <<Top.domain, n, v>> \in known
        <4> HIDE DEF v
        <4> QED
          BY <1>1, <1>2, <2>1, <3>1, <3>3, Ends
      <3> QED
        BY <2>2, <3>4, ReturnTells
    <2> QED
      BY <1>4, <2>3, <2>4 DEF LookupRefused
  <1>5. CASE MatchDirectly
    <2>1. Top.terms # <<>> /\ Term.kind \in {"all", "ip4", "ip6"}
      BY <1>5 DEF MatchDirectly, At
    <2>2. zone' = zone /\ count' = count /\ count' = Spent(Term, count)
      BY <1>5, <2>1 DEF MatchDirectly, quiet, Spent, RequiresLookup
    <2>3. (Term.kind = "all" \/ MatchesIpMechanism(Term.kind, Term.target, Term.prefix))
             <=> Meant(zone, Top.domain, Term)
      BY <2>1 DEF Meant
    <2>4. Decide(Term.kind = "all" \/ MatchesIpMechanism(Term.kind, Term.target, Term.prefix))
      BY <1>5 DEF MatchDirectly
    <2> QED
      BY <1>1, <1>2, <2>1, <2>2, <2>3, <2>4, DecideTells DEF Tried
  <1>6. CASE MatchAddresses
    <2>1. Top.terms # <<>> /\ Term.kind \in {"a", "exists"}
      BY <1>6 DEF MatchAddresses, At
    <2>2. PICK addresses \in {AddressesOf(zone, Term.kind, Target), {}} :
            /\ Ask(AddressesOf(zone, Term.kind, Target), {}, addresses)
            /\ Decide(IF Term.kind = "a" THEN MatchesHost(addresses, Term.prefix)
                      ELSE addresses # {})
      BY <1>6 DEF MatchAddresses
    <2>3. addresses = AddressesOf(zone, Term.kind, Named(Top.domain, Term)) /\ zone' = zone
      BY <1>1, <2>1, <2>2, TrueAnswer, Context
    <2>4. count' = Spent(Term, count) /\ count' \in Spendings
      BY <1>2, <1>6, <2>1 DEF MatchAddresses, TryIncrement, Spent, RequiresLookup, Spendings
    <2>5. (IF Term.kind = "a" THEN MatchesHost(addresses, Term.prefix) ELSE addresses # {})
             <=> Meant(zone, Top.domain, Term)
      BY <2>1, <2>3 DEF Meant, AddressesOf
    <2> QED
      BY <1>1, <1>2, <2>1, <2>2, <2>3, <2>4, <2>5, DecideTells DEF Tried
  <1>7. CASE ResolveMx
    <2>1. Top.terms # <<>> /\ Term.kind = "mx"
      BY <1>7 DEF ResolveMx, At
    <2>2. exchanges' = zone.exchanges[Named(Top.domain, Term)] /\ zone' = zone
      <3>1. Ask(zone.exchanges[Target], <<>>, exchanges')
        BY <1>7 DEF ResolveMx
      <3> QED
        BY <1>1, <2>1, <3>1, TrueAnswer, Context
    <2>3. /\ UNCHANGED frames /\ pc' = "mx" /\ count' = count + 1
          /\ Top' = Top /\ Term' = Term
      BY <1>7 DEF ResolveMx, TryIncrement, Top, Term
    <2>4. Meant(zone, Top.domain, Term) <=>
            \E i \in DOMAIN exchanges' : MatchesHost(Addresses(zone, exchanges'[i]), Term.prefix)
      BY <2>1, <2>2 DEF Meant
    <2>5. count' > 0 /\ count' - 1 = count
      BY <1>2, <2>3 DEF Spendings
    <2> QED
      BY <1>1, <2>2, <2>3, <2>4, <2>5 DEF TopTells, GoesOn
  <1>8. CASE Unsupported
    <2>1. Top.terms # <<>> /\ Term = Head(Top.terms) /\ Term \in Terms
      BY <1>1, <1>8, Context DEF Unsupported, At
    <2> DEFINE v == Verdict("PermError", None, Spent(Term, count))
    <2>2. /\ Term.kind \in {"ptr", "unknown"} \/ (Term.kind = "include" /\ Term.target = None)
          /\ count' = Spent(Term, count) /\ count' \in Spendings
      BY <1>2, <1>8 DEF Unsupported, At, TryIncrement, Spent, RequiresLookup, Spendings
    <2>3. v \in Verdicts
      BY <2>2, VerdictTyped DEF Codes
    <2>4. Decided(zone, known, Top.domain, Term, count, v)
      BY <2>2 DEF Decided
    <2>5. <<Top.domain, n, v>> \in known
      <3> HIDE DEF v
      <3> QED
        BY <1>1, <1>2, <2>1, <2>3, <2>4, Decides
    <2>6. UNCHANGED frames /\ zone' = zone /\ Return("PermError", None)
      BY <1>8 DEF Unsupported, quiet
    <2> QED
      BY <2>2, <2>5, <2>6, ReturnTells
  <1>9. CASE NothingMatches
    <2> DEFINE v == Verdict("Neutral", None, count)
    <2>1. v \in Verdicts
      BY <1>2, VerdictTyped DEF Codes
    <2>2. /\ Top.terms = <<>> /\ Top.redirect = None
          /\ UNCHANGED frames /\ zone' = zone /\ count' = count /\ Return("Neutral", None)
      BY <1>9 DEF NothingMatches, quiet
    <2>3. NoRedirect(RecordOf(zone, Top.domain), Len(RecordOf(zone, Top.domain)))
      BY <1>1, <1>2, <2>2, KnowsRedirect DEF Reached
    <2>4. Ended(known, RecordOf(zone, Top.domain), count, v)
      BY <2>3 DEF Ended
    <2>5. <<Top.domain, n, v>> \in known
      <3> HIDE DEF v
      <3> QED
        BY <1>1, <1>2, <2>1, <2>2, <2>4, Ends
    <2> QED
      BY <2>2, <2>5, ReturnTells
  <1> QED
    BY <1>3, <1>4, <1>5, <1>6, <1>7, <1>8, <1>9

LEMMA ExchangeTells ==
  ASSUME TypeOK, RecursionBounded, faults = 0, faults' = 0,
         NEW CONSTANT known, Closed(zone, known), NEW CONSTANT n \in Spendings,
         TopTells(known, n), MatchExchange \/ NoExchangeMatches
  PROVE  zone' = zone /\ GoesOn /\ TopTells(known, n)'
  <1> DEFINE m == count - 1
             Host(e) == MatchesHost(Addresses(zone, e), Term.prefix)
  <1>1. /\ pc = "mx" /\ frames # <<>> /\ Top.terms # <<>> /\ Term.kind = "mx"
        /\ exchanges \in Seq(Domains)
        /\ count > 0 /\ Reached(zone, known, Top, n, m)
        /\ Meant(zone, Top.domain, Term) <=> \E i \in DOMAIN exchanges : Host(exchanges[i])
    BY DEF MatchExchange, NoExchangeMatches, TypeOK, TopTells
  <1>2. m \in Spendings /\ count = Spent(Term, m) /\ count \in Spendings
    BY <1>1, Context DEF Spendings, Spent, RequiresLookup
  <1>3. count' = count
    BY DEF MatchExchange, NoExchangeMatches
  <1>4. CASE MatchExchange
    <2>1. exchanges # <<>>
      BY <1>4 DEF MatchExchange
    <2>2. PICK addresses \in {Addresses(zone, Head(exchanges)), {}} :
            /\ Ask(Addresses(zone, Head(exchanges)), {}, addresses)
            /\ ExchangeMatches(addresses) \/ ExchangeDiffers(addresses)
      BY <1>4 DEF MatchExchange
    <2>3. addresses = Addresses(zone, exchanges[1]) /\ zone' = zone
      <3>1. Head(exchanges) = exchanges[1]
        BY <1>1, <2>1
      <3> QED
        BY <2>2, <3>1, TrueAnswer
    <2>4. CASE ExchangeMatches(addresses)
      <3>1. Host(exchanges[1]) /\ 1 \in DOMAIN exchanges
        BY <1>1, <2>1, <2>3, <2>4 DEF ExchangeMatches
      <3>2. Meant(zone, Top.domain, Term)
        BY <1>1, <3>1
      <3>3. Decide(TRUE)
        BY <2>4 DEF ExchangeMatches
      <3> HIDE DEF m, Host
      <3> QED
        BY <1>1, <1>2, <1>3, <2>3, <3>2, <3>3, DecideTells DEF Tried
    <2>5. CASE ExchangeDiffers(addresses)
      <3>1. /\ ~Host(exchanges[1]) /\ exchanges' = Tail(exchanges)
            /\ UNCHANGED <<pc, frames, outcome>> /\ Top' = Top /\ Term' = Term
        BY <2>3, <2>5 DEF ExchangeDiffers, Top, Term
      <3>2. /\ \A i \in DOMAIN exchanges' : exchanges'[i] = exchanges[i + 1] /\ i + 1 \in DOMAIN exchanges
            /\ \A i \in DOMAIN exchanges : i = 1 \/ (i - 1 \in DOMAIN exchanges' /\ (i - 1) + 1 = i)
        BY <1>1, <2>1, <3>1
      <3>3. (\E i \in DOMAIN exchanges : Host(exchanges[i]))
               <=> \E i \in DOMAIN exchanges' : Host(exchanges'[i])
        <4> HIDE DEF Host
        <4> QED
          BY <3>1, <3>2
      <3> QED
        BY <1>1, <1>3, <2>3, <3>1, <3>3 DEF TopTells, GoesOn
    <2> QED
      BY <2>2, <2>4, <2>5
  <1>5. CASE NoExchangeMatches
    <2>1. ~Meant(zone, Top.domain, Term)
      BY <1>1, <1>5 DEF NoExchangeMatches
    <2>2. Decide(FALSE) /\ zone' = zone
      BY <1>5 DEF NoExchangeMatches, quiet
    <2> HIDE DEF m, Host
    <2> QED
      BY <1>1, <1>2, <1>3, <2>1, <2>2, DecideTells DEF Tried
  <1> QED
    BY <1>4, <1>5

LEMMA ReturnedTells ==
  ASSUME NEW CONSTANT known, NEW CONSTANT n, TopTells(known, n), Returned
  PROVE  zone' = zone /\ GoesOn /\ TopTells(known, n)'
  BY DEF Returned, quiet, TopTells, GoesOn, Top

-----------------------------------------------------------------------------
\* An include or a redirect calls with one lookup more spent.
LEMMA CallTells ==
  ASSUME TypeOK, RecursionBounded, NEW CONSTANT known, StackTells(known),
         pc = "term", frames # <<>>, NEW d \in Domains, Awaits(Top, d), Call(d),
         TryIncrement, zone' = zone
  PROVE  StackTells(known)'
  <1>1. PICK start \in [1 .. Len(frames) -> Spendings] :
          start[Len(frames)] = 0 /\ CallersTell(known, start) /\ TopTells(known, start[1])
    BY DEF StackTells
  <1>2. /\ frames \in Seq(Frames) /\ Len(frames) \in Nat /\ Len(frames) > 0
        /\ Top = frames[1] /\ count \in Spendings /\ MaxLookups \in Nat
    BY Context
  <1>10. Len(frames') = Len(frames) + 1 /\ pc' = "query"
    BY <1>2, CallTyped
  <1>3. /\ frames' = <<Frame(d)>> \o frames /\ Len(frames') = Len(frames) + 1
        /\ pc' = "query" /\ count' = count + 1 /\ count' \in Spendings
    BY <1>2, <1>10 DEF Call, TryIncrement, Spendings
  <1>4. Frame(d) \in Frames /\ Frame(d).domain = d /\ Frame(d).redirect = None
    BY DEF Frame
  <1>5. /\ frames'[1] = Frame(d) /\ Top' = Frame(d)
        /\ \A i \in 2 .. Len(frames) + 1 : frames'[i] = frames[i - 1]
    BY <1>2, <1>3, <1>4, StackPositions, Push DEF Top
  <1>6. PICK more \in [1 .. Len(frames') -> Spendings] :
          /\ more[1] = count' /\ more[Len(frames')] = 0
          /\ \A i \in 2 .. Len(frames') : more[i] = start[i - 1]
    <2> DEFINE new == [i \in 1 .. Len(frames') |-> IF i = 1 THEN count' ELSE start[i - 1]]
    <2>1. /\ new \in [1 .. Len(frames') -> Spendings]
          /\ new[1] = count' /\ new[Len(frames')] = 0
          /\ \A i \in 2 .. Len(frames') : new[i] = start[i - 1]
      BY <1>1, <1>2, <1>3
    <2> QED
      BY <2>1
  <1>7. ASSUME NEW i \in 2 .. Len(frames')
        PROVE  /\ more[i - 1] > 0
               /\ Reached(zone, known, frames'[i], more[i], more[i - 1] - 1)
               /\ Awaits(frames'[i], frames'[i - 1].domain)
    <2>1. CASE i = 2
      <3>1. more[1] = count + 1 /\ more[2] = start[1] /\ frames'[2] = Top
            /\ frames'[1].domain = d
        BY <1>2, <1>3, <1>4, <1>5, <1>6
      <3>2. more[1] > 0 /\ more[1] - 1 = count
        BY <1>2, <3>1 DEF Spendings
      <3>3. Reached(zone, known, Top, start[1], count)
        BY <1>1 DEF TopTells
      <3>4. i - 1 = 1
        BY <2>1
      <3> QED
        BY <2>1, <3>1, <3>2, <3>3, <3>4
    <2>2. CASE i > 2
      <3> DEFINE j == i - 1
      <3>3. j \in 2 .. Len(frames) /\ i - 1 \in 2 .. Len(frames')
        BY <1>2, <1>3, <2>2
      <3>4. more[i] = start[j] /\ frames'[i] = frames[j]
        BY <1>2, <1>3, <1>5, <1>6
      <3>5. more[j] = start[j - 1] /\ frames'[j] = frames[j - 1]
        BY <1>2, <1>3, <1>5, <1>6, <3>3
      <3>1. /\ j \in 2 .. Len(frames) /\ more[i - 1] = start[j - 1] /\ more[i] = start[j]
            /\ frames'[i] = frames[j] /\ frames'[i - 1] = frames[j - 1]
        BY <3>3, <3>4, <3>5
      <3> HIDE DEF j
      <3>2. /\ start[j - 1] > 0
            /\ Reached(zone, known, frames[j], start[j], start[j - 1] - 1)
            /\ Awaits(frames[j], frames[j - 1].domain)
        BY <1>1, <3>1 DEF CallersTell
      <3> QED
        BY <3>1, <3>2
    <2> QED
      BY <2>1, <2>2
  <1>8. CallersTell(known, more)'
    BY <1>7 DEF CallersTell
  <1>9. TopTells(known, more[1])'
    BY <1>3, <1>4, <1>5, <1>6 DEF TopTells
  <1> QED
    BY <1>6, <1>8, <1>9 DEF StackTells

LEMMA CallsTell ==
  ASSUME TypeOK, RecursionBounded, NEW CONSTANT known, StackTells(known), Include \/ Redirect
  PROVE  zone' = zone /\ StackTells(known)'
  <1>1. pc = "term" /\ frames # <<>> /\ TryIncrement /\ zone' = zone
    BY DEF Include, Redirect, At, AtRedirect, TypeOK, quiet
  <1>2. CASE Include
    <2>1. Top.terms # <<>> /\ Term.kind = "include" /\ Term.target # None
      BY <1>2 DEF Include, At
    <2>2. Term \in Terms /\ Term = Top.terms[1]
      BY <1>1, <2>1, Context, TopTyped
    <2>3. Term.target \in Domains
      BY <2>1, <2>2, TermTyped
    <2>4. Awaits(Top, Term.target) /\ Call(Term.target)
      BY <1>2, <2>1, <2>2 DEF Awaits, Include
    <2> QED
      BY <1>1, <2>3, <2>4, CallTells
  <1>3. CASE Redirect
    <2>1. Top.redirect \in Domains /\ Awaits(Top, Top.redirect) /\ Call(Top.redirect)
      BY <1>1, <1>3, Context DEF Redirect, AtRedirect, Awaits
    <2> QED
      BY <1>1, <2>1, CallTells
  <1> QED
    BY <1>2, <1>3

\* The innermost call is over, and its caller is the innermost now.
GoesBack ==
  /\ Len(frames') = Len(frames) - 1
  /\ frames'[1].domain = frames[2].domain
  /\ \A i \in 2 .. Len(frames) - 1 : frames'[i] = frames[i + 1]

LEMMA BackInCaller ==
  ASSUME NEW CONSTANT known, NEW CONSTANT start \in [1 .. Len(frames) -> Spendings],
         Len(frames) \in Nat, Len(frames) > 1, zone' = zone,
         start[Len(frames)] = 0, CallersTell(known, start),
         GoesBack, TopTells(known, start[2])'
  PROVE  StackTells(known)'
  <1>1. PICK more \in [1 .. Len(frames) - 1 -> Spendings] :
          \A i \in 1 .. Len(frames) - 1 : more[i] = start[i + 1]
    <2> DEFINE new == [i \in 1 .. Len(frames) - 1 |-> start[i + 1]]
    <2>1. /\ new \in [1 .. Len(frames) - 1 -> Spendings]
          /\ \A i \in 1 .. Len(frames) - 1 : new[i] = start[i + 1]
      OBVIOUS
    <2> QED
      BY <2>1
  <1>2. Len(frames') = Len(frames) - 1 /\ more[1] = start[2] /\ more[Len(frames')] = 0
    BY <1>1 DEF GoesBack
  <1>3. ASSUME NEW i \in 2 .. Len(frames')
        PROVE  /\ more[i - 1] > 0
               /\ Reached(zone, known, frames'[i], more[i], more[i - 1] - 1)
               /\ Awaits(frames'[i], frames'[i - 1].domain)
    <2> DEFINE j == i + 1
    <2>1. j \in 2 .. Len(frames) /\ j - 1 = i /\ i \in 2 .. Len(frames) - 1
      BY <1>2
    <2>2. more[i] = start[j] /\ more[i - 1] = start[j - 1] /\ frames'[i] = frames[j]
      <3>1. i \in 1 .. Len(frames) - 1 /\ i - 1 \in 1 .. Len(frames) - 1 /\ i = (i - 1) + 1
        BY <2>1
      <3>2. more[i] = start[i + 1] /\ more[i - 1] = start[(i - 1) + 1]
        BY <1>1, <3>1
      <3>3. frames'[i] = frames[i + 1]
        BY <2>1 DEF GoesBack
      <3> QED
        BY <2>1, <3>1, <3>2, <3>3
    <2>3. frames'[i - 1].domain = frames[j - 1].domain
      <3>1. CASE i = 2
        BY <3>1 DEF GoesBack
      <3>2. CASE i # 2
        <4>1. i - 1 \in 2 .. Len(frames) - 1 /\ (i - 1) + 1 = j - 1
          BY <2>1, <3>2
        <4> QED
          BY <4>1 DEF GoesBack
      <3> QED
        BY <3>1, <3>2
    <2> HIDE DEF j
    <2>4. /\ start[j - 1] > 0
          /\ Reached(zone, known, frames[j], start[j], start[j - 1] - 1)
          /\ Awaits(frames[j], frames[j - 1].domain)
      BY <2>1 DEF CallersTell
    <2>5. Awaits(frames'[i], frames'[i - 1].domain)
      BY <2>2, <2>3, <2>4 DEF Awaits
    <2> QED
      BY <2>2, <2>4, <2>5
  <1>4. CallersTell(known, more)'
    BY <1>3 DEF CallersTell
  <1>5. TopTells(known, more[1])'
    BY <1>2
  <1>6. more \in [1 .. Len(frames') -> Spendings]
    BY <1>2
  <1> QED
    BY <1>2, <1>4, <1>5, <1>6 DEF StackTells

LEMMA ReturnsTell ==
  ASSUME TypeOK, RecursionBounded, NEW CONSTANT known, Closed(zone, known), StackTells(known),
         IncludePasses \/ IncludeErrs \/ IncludeFails \/ RedirectReturns
  PROVE  zone' = zone /\ StackTells(known)'
  <1>1. /\ pc = "return" /\ Len(frames) > 1 /\ zone' = zone /\ count' = count
    BY DEF IncludePasses, IncludeErrs, IncludeFails, RedirectReturns, ReturnTo, quiet
  <1>2. PICK start \in [1 .. Len(frames) -> Spendings] :
          start[Len(frames)] = 0 /\ CallersTell(known, start) /\ TopTells(known, start[1])
    BY <1>1 DEF StackTells
  <1>3. /\ frames \in Seq(Frames) /\ Len(frames) \in Nat /\ frames # <<>> /\ ZoneTyped(zone)
        /\ Top = frames[1] /\ Top.domain \in Domains
        /\ count \in Spendings /\ MaxLookups \in Nat
        /\ outcome.code \in Codes /\ outcome.mechanism \in Mechanisms \cup {None}
    BY <1>1, Context DEF TypeOK
  <1>4. /\ Tail(frames) \in Seq(Frames) /\ Tail(frames) # <<>> /\ Caller = frames[2]
        /\ Caller \in Frames /\ Len(Tail(frames)) = Len(frames) - 1
        /\ \A i \in 1 .. Len(frames) - 1 : Tail(frames)[i] = frames[i + 1]
    <2>1. Top \in Frames
      BY <1>3, TopTyped
    <2>2. Tail(frames) \in Seq(Frames) /\ Tail(frames) # <<>>
      BY <1>1, <1>3, Pop
    <2>3. /\ Caller = frames[2] /\ Len(Tail(frames)) = Len(frames) - 1
          /\ \A i \in 1 .. Len(frames) - 1 : Tail(frames)[i] = frames[i + 1]
      BY <1>1, <1>3, <2>1, StackPositions DEF Caller
    <2>4. Caller \in Frames
      BY <2>2, Pop DEF Caller
    <2> QED
      BY <2>2, <2>3, <2>4
  <1>5. PICK m \in Spendings : start[1] = m + 1 /\ m = start[1] - 1 /\ m < MaxLookups
    <2>1. start[1] \in Spendings /\ start[1] > 0
      <3>1. 2 \in 2 .. Len(frames) /\ 2 - 1 = 1 /\ 1 \in 1 .. Len(frames)
        BY <1>1, <1>3
      <3>2. start[2 - 1] > 0
        BY <1>2, <3>1 DEF CallersTell
      <3>3. start[1] \in Spendings
        BY <3>1
      <3> QED
        BY <3>1, <3>2, <3>3
    <2>2. start[1] - 1 \in Spendings /\ start[1] = (start[1] - 1) + 1 /\ start[1] - 1 < MaxLookups
      BY <1>3, <2>1 DEF Spendings
    <2> QED
      BY <2>2
  <1>6. PICK n \in Spendings : n = start[2]
    <2>1. 2 \in 1 .. Len(frames)
      BY <1>1, <1>3
    <2>2. start[2] \in Spendings
      BY <2>1
    <2> QED
      BY <2>2
  <1>7. Reached(zone, known, Caller, n, m) /\ Awaits(Caller, Top.domain)
    <2>1. 2 \in 2 .. Len(frames) /\ 2 - 1 = 1
      BY <1>1, <1>3
    <2>2. /\ Reached(zone, known, frames[2], start[2], start[2 - 1] - 1)
          /\ Awaits(frames[2], frames[2 - 1].domain)
      BY <1>2, <2>1 DEF CallersTell
    <2> QED
      BY <1>3, <1>4, <1>5, <1>6, <2>1, <2>2
  <1> DEFINE w == Verdict(outcome.code, outcome.mechanism, count)
  <1>8. /\ w \in Verdicts /\ <<Top.domain, m + 1, w>> \in known
        /\ w.code = outcome.code /\ w.mechanism = outcome.mechanism /\ w.used = count
    <2>1. <<Top.domain, start[1], w>> \in known
      BY <1>1, <1>2 DEF TopTells
    <2>2. w \in Verdicts
      BY <1>3, VerdictTyped
    <2> QED
      BY <1>5, <2>1, <2>2 DEF Verdict
  <1> HIDE DEF w
  \* What the caller returns in its turn.
  <1>9. ASSUME NEW c \in Codes, NEW by \in Mechanisms \cup {None},
               <<Caller.domain, n, Verdict(c, by, count)>> \in known,
               outcome' = Result(c, by), pc' = "return", frames' = Tail(frames)
        PROVE  StackTells(known)'
    <2>1. GoesBack /\ Top' = Caller
      BY <1>1, <1>3, <1>4, <1>9, StackPositions DEF GoesBack, Top, Caller
    <2>2. TopTells(known, n)'
      BY <1>1, <1>9, <2>1 DEF TopTells, Result
    <2> QED
      BY <1>1, <1>2, <1>3, <1>6, <2>1, <2>2, BackInCaller
  <1>10. CASE IncludePasses \/ IncludeErrs \/ IncludeFails
    <2> DEFINE t == Head(Caller.terms)
    <2>1. /\ Caller.terms # <<>> /\ t \in Terms /\ t = Caller.terms[1]
          /\ t.kind = "include" /\ t.target = Top.domain /\ t.target # None
          /\ Tail(Caller.terms) \in Seq(Terms)
      <3>1. Caller.terms # <<>> /\ Caller.terms \in Seq(Terms)
        BY <1>4, <1>10 DEF IncludePasses, IncludeErrs, IncludeFails, ReturnTo, Frames
      <3>2. t \in Terms /\ t = Caller.terms[1] /\ Tail(Caller.terms) \in Seq(Terms)
        BY <3>1, Pop, StackPositions
      <3>3. t.kind = "include" /\ t.target = Top.domain
        BY <1>7, <3>1, <3>2 DEF Awaits
      <3> QED
        BY <1>3, <3>1, <3>2, <3>3, ConstantsAssumption
    <2> HIDE DEF t
    <2>2. ASSUME NEW c \in Codes, NEW by \in Mechanisms \cup {None},
                 Decided(zone, known, Caller.domain, t, m, Verdict(c, by, count))
          PROVE  <<Caller.domain, n, Verdict(c, by, count)>> \in known
      <3> DEFINE v == Verdict(c, by, count)
      <3>1. v \in Verdicts
        BY <1>3, VerdictTyped
      <3>2. Decided(zone, known, Caller.domain, Head(Caller.terms), m, v)
        BY <2>2 DEF t
      <3> HIDE DEF v
      <3>3. <<Caller.domain, n, v>> \in known
        BY <1>3, <1>4, <1>7, <2>1, <3>1, <3>2, Decides
      <3> QED
        BY <3>3 DEF v
    <2>3. CASE IncludePasses
      <3> DEFINE c == QualifierToResult(t.qualifier)
      <3>1. c \in Codes
        BY <2>1, TermTyped
      <3>2. w.code = "Pass"
        BY <1>8, <2>3 DEF IncludePasses
      <3>3. outcome' = Result(c, "include") /\ pc' = "return" /\ frames' = Tail(frames)
        BY <2>3 DEF IncludePasses, Return, t
      <3>4. Decided(zone, known, Caller.domain, t, m, Verdict(c, "include", count))
        BY <1>5, <1>8, <2>1, <3>2 DEF Decided
      <3> HIDE DEF c
      <3>5. "include" \in Mechanisms \cup {None}
        BY DEF Mechanisms
      <3> QED
        BY <1>1, <1>9, <2>2, <3>1, <3>3, <3>4, <3>5
    <2>4. CASE IncludeErrs
      <3> DEFINE c == IF outcome.code = "TempError" THEN "TempError" ELSE "PermError"
      <3>1. c \in Codes
        BY DEF Codes
      <3>2. w.code \in {"None", "PermError", "TempError"}
        BY <1>8, <2>4 DEF IncludeErrs
      <3>3. outcome' = Result(c, None) /\ pc' = "return" /\ frames' = Tail(frames)
        BY <2>4 DEF IncludeErrs, Return
      <3>4. Decided(zone, known, Caller.domain, t, m, Verdict(c, None, count))
        BY <1>5, <1>8, <2>1, <3>2 DEF Decided
      <3> HIDE DEF c
      <3> QED
        BY <1>1, <1>9, <2>2, <3>1, <3>3, <3>4
    <2>5. CASE IncludeFails
      <3> DEFINE f == [Caller EXCEPT !.terms = Tail(Caller.terms)]
      <3>1. /\ f \in Frames /\ f.domain = Caller.domain /\ f.terms = Tail(Caller.terms)
            /\ f.redirect = Caller.redirect
        BY <1>4, <2>1 DEF Frames
      <3>2. w.code \in {"Fail", "SoftFail", "Neutral"}
        BY <1>8, <2>5 DEF IncludeFails
      <3>3. frames' = <<f>> \o Tail(Tail(frames)) /\ pc' = "term"
        BY <2>5 DEF IncludeFails, Advance, Caller
      <3>4. Passed(zone, known, Caller.domain, t, m, count)
        BY <1>5, <1>8, <2>1, <3>2 DEF Passed
      <3> HIDE DEF f
      <3>5. Reached(zone, known, f, n, count)
        BY <1>3, <1>4, <1>7, <2>1, <3>1, <3>4, Advances DEF t
      <3>6. /\ Len(frames') = Len(Tail(frames)) /\ frames'[1] = f
            /\ \A i \in 2 .. Len(Tail(frames)) : frames'[i] = Tail(frames)[i]
        BY SMTT(30), <1>4, <3>1, <3>3, StackPositions
      <3>7. GoesBack
        BY <1>1, <1>3, <1>4, <3>1, <3>6 DEF GoesBack
      <3>8. Top' = f
        <4>1. Tail(Tail(frames)) \in Seq(Frames)
          BY <1>4, Pop
        <4> QED
          BY <3>1, <3>3, <4>1, Push DEF Top
      <3>9. TopTells(known, n)'
        BY <1>1, <3>3, <3>5, <3>8 DEF TopTells
      <3> QED
        BY <1>1, <1>2, <1>3, <1>6, <3>7, <3>9, BackInCaller
    <2> QED
      BY <1>10, <2>3, <2>4, <2>5, <1>1
  <1>11. CASE RedirectReturns
    <2> DEFINE c == IF outcome.code = "None" THEN "PermError" ELSE outcome.code
               v == Verdict(c, outcome.mechanism, count)
    <2>1. Caller.terms = <<>> /\ Caller.redirect = Top.domain /\ Caller.redirect # None
      <3>1. Caller.terms = <<>>
        BY <1>11 DEF RedirectReturns, ReturnTo
      <3> QED
        BY <1>3, <1>7, <3>1, ConstantsAssumption DEF Awaits
    <2>2. c \in Codes /\ outcome' = Result(c, outcome.mechanism)
          /\ pc' = "return" /\ frames' = Tail(frames)
      BY <1>3, <1>11 DEF RedirectReturns, Return, Codes
    <2>3. v \in Verdicts
      BY <1>3, <2>2, VerdictTyped
    <2>4. Redirects(RecordOf(zone, Caller.domain), Len(RecordOf(zone, Caller.domain)), Top.domain)
      BY <1>3, <1>4, <1>7, <2>1, KnowsRedirect DEF Reached
    <2>5. Ended(known, RecordOf(zone, Caller.domain), m, v)
      BY <1>3, <1>5, <1>8, <2>4 DEF Ended
    <2> HIDE DEF c
    <2>6. <<Caller.domain, n, v>> \in known
      <3> HIDE DEF v
      <3> QED
        BY <1>3, <1>4, <1>7, <2>1, <2>3, <2>5, Ends
    <2> QED
      BY <1>1, <1>3, <1>9, <2>2, <2>6
  <1> QED
    BY <1>1, <1>10, <1>11

-----------------------------------------------------------------------------
\* A new evaluation has spent nothing.
LEMMA EvaluateTells ==
  ASSUME NEW CONSTANT known, NEW CONSTANT d \in Domains, EvaluateAsync(d)
  PROVE  zone' = zone /\ StackTells(known)'
  <1>1. /\ zone' = zone /\ pc' = "query" /\ count' = 0
        /\ frames' = <<Frame(d)>> /\ Len(frames') = 1
        /\ Top' = Frame(d) /\ Frame(d).redirect = None
    BY DEF EvaluateAsync, Top, Frame
  <1>2. 0 \in Spendings
    BY ConstantsAssumption DEF Spendings
  <1>3. PICK start \in [1 .. 1 -> Spendings] : start[1] = 0
    <2>1. [i \in 1 .. 1 |-> 0] \in [1 .. 1 -> Spendings] /\ [i \in 1 .. 1 |-> 0][1] = 0
      BY <1>2
    <2> QED
      BY <2>1
  <1>4. 2 .. Len(frames') = {}
    BY <1>1
  <1>5. CallersTell(known, start)'
    BY <1>4 DEF CallersTell
  <1>6. TopTells(known, start[1])'
    BY <1>1, <1>3 DEF TopTells
  <1> QED
    BY <1>1, <1>3, <1>5, <1>6 DEF StackTells

\* A step of the innermost call.
LEMMA LocalStepTells ==
  ASSUME TypeOK, RecursionBounded, faults = 0, faults' = 0,
         NEW CONSTANT known, Closed(zone, known), StackTells(known),
         \/ NoRecord \/ ManyRecords \/ OneRecord \/ Modifier \/ LookupRefused
         \/ MatchDirectly \/ MatchAddresses \/ ResolveMx \/ Unsupported \/ NothingMatches
         \/ MatchExchange \/ NoExchangeMatches \/ Returned
  PROVE  zone' = zone /\ StackTells(known)'
  <1>1. pc \notin {"idle", "failed"} /\ frames # <<>>
    BY DEF NoRecord, ManyRecords, OneRecord, Modifier, LookupRefused, MatchDirectly,
           MatchAddresses, ResolveMx, Unsupported, NothingMatches, MatchExchange,
           NoExchangeMatches, Returned, At, AtRedirect, TypeOK
  <1>2. PICK start \in [1 .. Len(frames) -> Spendings] : TopTells(known, start[1])
    BY <1>1 DEF StackTells
  <1>3. Len(frames) \in Nat /\ Len(frames) > 0
    BY <1>1, Context
  <1>4. start[1] \in Spendings
    <2>1. 1 \in 1 .. Len(frames)
      BY <1>3
    <2> QED
      BY <2>1
  <1>5. ASSUME NEW CONSTANT n \in Spendings, TopTells(known, n)
        PROVE  zone' = zone /\ GoesOn /\ TopTells(known, n)'
    <2>1. CASE NoRecord \/ ManyRecords \/ OneRecord
      BY <1>5, <2>1, QueryTells
    <2>2. CASE \/ Modifier \/ LookupRefused \/ MatchDirectly \/ MatchAddresses
               \/ ResolveMx \/ Unsupported \/ NothingMatches
      BY <1>5, <2>2, TermTells
    <2>3. CASE MatchExchange \/ NoExchangeMatches
      BY <1>5, <2>3, ExchangeTells
    <2>4. CASE Returned
      BY <1>5, <2>4, ReturnedTells
    <2> QED
      BY <2>1, <2>2, <2>3, <2>4
  <1>6. zone' = zone /\ GoesOn
    BY <1>2, <1>4, <1>5
  <1> QED
    BY <1>1, <1>3, <1>5, <1>6, TopStep DEF GoesOn

LEMMA StepTells ==
  ASSUME TypeOK, RecursionBounded, RulesInv, [Next]_vars
  PROVE  RulesInv'
  <1> SUFFICES ASSUME faults' = 0,
                      NEW CONSTANT known \in SUBSET (Domains \X Spendings \X Verdicts),
                      Closed(zone', known)
               PROVE  StackTells(known)'
    BY DEF RulesInv
  \* Faults are never forgotten.
  <1>1. faults = 0 /\ ~ZoneChanges
    <2>1. faults \in Nat
      BY DEF TypeOK
    <2>2. faults' = faults \/ faults' = faults + 1
      BY DEF Next, Step, vars, quiet, EvaluateAsync, NoRecord, ManyRecords, OneRecord, Modifier,
             LookupRefused, MatchDirectly, MatchAddresses, ResolveMx, MatchExchange,
             NoExchangeMatches, Include, Unsupported, Redirect, NothingMatches, IncludePasses,
             IncludeErrs, IncludeFails, RedirectReturns, ReturnTo, Returned, QueryThrows,
             ZoneChanges, Ask
    <2>3. ZoneChanges => faults' = faults + 1
      BY DEF ZoneChanges
    <2> QED
      BY <2>1, <2>2, <2>3
  <1>2. zone' = zone /\ Closed(zone, known) => StackTells(known)
    BY <1>1 DEF RulesInv
  <1>3. CASE UNCHANGED vars
    <2>1. zone' = zone /\ UNCHANGED <<pc, frames, count, exchanges, outcome>>
      BY <1>3 DEF vars
    <2>2. Closed(zone, known)
      BY <2>1
    <2>3. StackTells(known) => StackTells(known)'
      BY <2>1 DEF StackTells, CallersTell, TopTells, Top, Term
    <2> QED
      BY <1>2, <2>1, <2>2, <2>3
  <1>4. CASE \E d \in Domains : EvaluateAsync(d)
    BY <1>4, EvaluateTells
  <1>5. CASE QueryThrows
    BY <1>5 DEF QueryThrows, StackTells
  <1>6. CASE Step
    <2>1. zone' = zone
      BY <1>6, <1>1 DEF Step, quiet, NoRecord, ManyRecords, OneRecord, Modifier,
             LookupRefused, MatchDirectly, MatchAddresses, ResolveMx, MatchExchange,
             NoExchangeMatches, Include, Unsupported, Redirect, NothingMatches, IncludePasses,
             IncludeErrs, IncludeFails, RedirectReturns, ReturnTo, Returned, Ask
    <2>2. Closed(zone, known) /\ StackTells(known)
      BY <1>2, <2>1
    <2>3. CASE Include \/ Redirect
      BY <2>2, <2>3, CallsTell
    <2>4. CASE IncludePasses \/ IncludeErrs \/ IncludeFails \/ RedirectReturns
      BY <2>2, <2>4, ReturnsTell
    <2>5. CASE /\ ~(Include \/ Redirect)
               /\ ~(IncludePasses \/ IncludeErrs \/ IncludeFails \/ RedirectReturns)
      BY <1>1, <1>6, <2>2, <2>5, LocalStepTells DEF Step
    <2> QED
      BY <2>3, <2>4, <2>5
  <1> QED
    BY <1>1, <1>3, <1>4, <1>5, <1>6 DEF Next

-----------------------------------------------------------------------------
(***************************************************************************)
(* The rules give one verdict                                              *)
(***************************************************************************)

\* Every set of numbers has a least one: the form of induction used below.
LEMMA LeastNatural ==
  ASSUME NEW T \in SUBSET Nat, T # {}
  PROVE  \E x \in T : \A y \in T : x <= y
  <1>1. IsWellFoundedOn({p \in Nat \X Nat : p[1] < p[2]}, Nat)
    BY NatLessThanWellFounded, Zenon DEF OpToRel
  <1>2. PICK R : IsWellFoundedOn(R, Nat) /\ R = {p \in Nat \X Nat : p[1] < p[2]}
    BY <1>1
  <1>3. PICK x \in T : \A y \in T : ~(<<y, x>> \in R)
    BY <1>2, WFMin
  <1>4. ASSUME NEW y \in T
        PROVE  x <= y
    <2>1. x \in Nat /\ y \in Nat /\ <<y, x>> \notin R
      BY <1>3
    <2>2. <<y, x>> \in R <=> y < x
      BY <1>2, <2>1
    <2> QED
      BY <2>1, <2>2
  <1> QED
    BY <1>4

\* No record has two verdicts, one known here and one there.
Agree(here, there) ==
  \A d \in Domains, n \in Spendings, v, w \in Verdicts :
    <<d, n, v>> \in here /\ <<d, n, w>> \in there => v = w

LEMMA VerdictFields ==
  ASSUME NEW c, NEW by, NEW k
  PROVE  /\ Verdict(c, by, k).code = c
         /\ Verdict(c, by, k).mechanism = by
         /\ Verdict(c, by, k).used = k
         /\ Verdict(c, by, k) \in Verdicts => k \in Spendings
  BY DEF Verdict, Verdicts

\* One term: both pass over it, and spend the same, or both decide, and alike.
LEMMA PassedAlike ==
  ASSUME NEW z, NEW here, NEW there, Agree(here, there),
         NEW d, NEW t \in Terms, NEW n \in Spendings,
         NEW m, NEW q, Passed(z, here, d, t, n, m), Passed(z, there, d, t, n, q)
  PROVE  m = q
  <1>1. CASE t.kind = "include"
    <2>1. PICK v \in Verdicts : <<t.target, n + 1, v>> \in here /\ m = v.used
      BY <1>1 DEF Passed, Modifiers
    <2>2. PICK w \in Verdicts : <<t.target, n + 1, w>> \in there /\ q = w.used
      BY <1>1 DEF Passed, Modifiers
    <2>3. t.target \in Domains /\ n + 1 \in Spendings
      BY <1>1, TermTyped, ConstantsAssumption DEF Passed, Modifiers, Spendings
    <2> QED
      BY <2>1, <2>2, <2>3 DEF Agree
  <1>2. CASE t.kind # "include"
    BY <1>2 DEF Passed, Modifiers
  <1> QED
    BY <1>1, <1>2

LEMMA PassedOrDecided ==
  ASSUME NEW z, NEW here, NEW there, Agree(here, there),
         NEW d, NEW t \in Terms, NEW n \in Spendings,
         NEW m \in Spendings, NEW v \in Verdicts,
         Passed(z, here, d, t, n, m), Decided(z, there, d, t, n, v)
  PROVE  FALSE
  <1>1. MaxLookups \in Nat /\ n \in 0 .. MaxLookups /\ m \in 0 .. MaxLookups
    BY ConstantsAssumption DEF Spendings
  <1>2. CASE t.kind = "include"
    <2>1. PICK u \in Verdicts : /\ <<t.target, n + 1, u>> \in here
                               /\ u.code \in {"Fail", "SoftFail", "Neutral"}
      BY <1>2 DEF Passed, Modifiers
    <2>2. t.target # None /\ n < MaxLookups
      BY <1>2 DEF Passed, Modifiers
    <2>3. PICK w \in Verdicts : /\ <<t.target, n + 1, w>> \in there
                               /\ w.code \in {"Pass", "None", "PermError", "TempError"}
      <3>1. n # MaxLookups
        BY <1>1, <2>2
      <3>2. \E w \in Verdicts :
               /\ <<t.target, n + 1, w>> \in there
               /\ \/ w.code = "Pass"
                  \/ w.code \in {"None", "PermError"}
                  \/ w.code = "TempError"
        BY <1>2, <2>2, <3>1 DEF Decided
      <3> QED
        BY <3>2
    <2>4. t.target \in Domains /\ n + 1 \in Spendings
      BY <1>1, <1>2, <2>2, TermTyped DEF Spendings
    <2>5. u = w
      BY <2>1, <2>3, <2>4 DEF Agree
    <2> QED
      BY <2>1, <2>3, <2>5
  <1>3. CASE t.kind # "include"
    <2>1. CASE t.kind \in Modifiers
      BY <2>1 DEF Decided, Modifiers, RequiresLookup
    <2>2. CASE t.kind \notin Modifiers
      <3>1. t.kind \in {"all", "ip4", "ip6", "a", "exists", "mx"} /\ ~Meant(z, d, t) /\ m = Spent(t, n)
        BY <1>3, <2>2 DEF Passed
      <3>2. t.kind \in RequiresLookup /\ n = MaxLookups
        BY <1>3, <3>1 DEF Decided
      <3> QED
        BY <1>1, <3>1, <3>2 DEF Spent
    <2> QED
      BY <2>1, <2>2
  <1> QED
    BY <1>2, <1>3

LEMMA DecidedAlike ==
  ASSUME NEW z, NEW here, NEW there, Agree(here, there),
         NEW d, NEW t \in Terms, NEW n \in Spendings,
         NEW v \in Verdicts, NEW w \in Verdicts,
         Decided(z, here, d, t, n, v), Decided(z, there, d, t, n, w)
  PROVE  v = w
  <1>1. MaxLookups \in Nat /\ n \in 0 .. MaxLookups
    BY ConstantsAssumption DEF Spendings
  \* A lookup past the limit would spend more than a verdict may.
  <1>2. ASSUME NEW c, NEW by, Verdict(c, by, Spent(t, n)) \in Verdicts, t.kind \in RequiresLookup
        PROVE  n < MaxLookups
    <2>1. Spent(t, n) \in 0 .. MaxLookups /\ Spent(t, n) = n + 1
      BY <1>2, VerdictFields DEF Spent, Spendings
    <2> QED
      BY <1>1, <2>1
  <1>3. CASE t.kind \in RequiresLookup /\ n = MaxLookups
    <2>1. ASSUME NEW known, NEW u \in Verdicts, Decided(z, known, d, t, n, u)
          PROVE  u = Verdict("PermError", None, n)
      BY <1>1, <1>2, <1>3, <2>1 DEF Decided
    <2> QED
      BY <2>1
  <1>4. CASE ~(t.kind \in RequiresLookup /\ n = MaxLookups)
    <2>1. CASE t.kind \in {"all", "ip4", "ip6", "a", "exists", "mx"}
      BY <1>4, <2>1 DEF Decided
    <2>2. CASE t.kind \in {"ptr", "unknown"} \/ (t.kind = "include" /\ t.target = None)
      BY <1>4, <2>2 DEF Decided
    <2>3. CASE t.kind = "include" /\ t.target # None
      <3>1. PICK x \in Verdicts :
              /\ <<t.target, n + 1, x>> \in here
              /\ \/ x.code = "Pass"
                    /\ v = Verdict(QualifierToResult(t.qualifier), "include", x.used)
                 \/ x.code \in {"None", "PermError"} /\ v = Verdict("PermError", None, x.used)
                 \/ x.code = "TempError" /\ v = Verdict("TempError", None, x.used)
        BY <1>4, <2>3 DEF Decided, RequiresLookup
      <3>2. PICK y \in Verdicts :
              /\ <<t.target, n + 1, y>> \in there
              /\ \/ y.code = "Pass"
                    /\ w = Verdict(QualifierToResult(t.qualifier), "include", y.used)
                 \/ y.code \in {"None", "PermError"} /\ w = Verdict("PermError", None, y.used)
                 \/ y.code = "TempError" /\ w = Verdict("TempError", None, y.used)
        BY <1>4, <2>3 DEF Decided, RequiresLookup
      <3>3. t.target \in Domains /\ n + 1 \in Spendings
        BY <1>1, <1>4, <2>3, TermTyped DEF Spendings, RequiresLookup
      <3>4. x = y
        BY <3>1, <3>2, <3>3 DEF Agree
      <3> QED
        BY <3>1, <3>2, <3>4
    <2>4. t.kind \in Modifiers => FALSE
      BY <1>4 DEF Decided, Modifiers, RequiresLookup
    <2> QED
      BY <2>1, <2>2, <2>3, <2>4, TermTyped DEF Mechanisms
  <1> QED
    BY <1>3, <1>4

\* The end of a record: at most one redirect is the last.
LEMMA OneRedirect ==
  ASSUME NEW record, NEW n \in Nat, NEW d, Redirects(record, n, d)
  PROVE  /\ ~NoRedirect(record, n)
         /\ \A e : Redirects(record, n, e) => e = d
  <1>1. PICK i \in 1 .. n : /\ record[i].kind = "redirect" /\ record[i].target = d
                           /\ \A k \in i + 1 .. n : record[k].kind # "redirect"
    BY DEF Redirects
  <1>2. ~NoRedirect(record, n)
    BY <1>1 DEF NoRedirect
  <1>3. ASSUME NEW e, Redirects(record, n, e)
        PROVE  e = d
    <2>1. PICK j \in 1 .. n : /\ record[j].kind = "redirect" /\ record[j].target = e
                             /\ \A k \in j + 1 .. n : record[k].kind # "redirect"
      BY <1>3 DEF Redirects
    <2>2. j \notin i + 1 .. n /\ i \notin j + 1 .. n
      BY <1>1, <2>1
    <2>3. i = j
      BY <2>2
    <2> QED
      BY <1>1, <2>1, <2>3
  <1> QED
    BY <1>2, <1>3

LEMMA EndedAlike ==
  ASSUME NEW here, NEW there, Agree(here, there), NEW record, Len(record) \in Nat,
         NEW n \in Spendings, NEW v, NEW w,
         Ended(here, record, n, v), Ended(there, record, n, w)
  PROVE  v = w
  <1>1. CASE NoRedirect(record, Len(record))
    <2>1. \A d : ~Redirects(record, Len(record), d)
      BY <1>1, OneRedirect
    <2> QED
      BY <2>1 DEF Ended
  <1>2. CASE ~NoRedirect(record, Len(record))
    <2>1. PICK d \in Domains :
            /\ Redirects(record, Len(record), d)
            /\ \/ n = MaxLookups /\ v = Verdict("PermError", None, n)
               \/ /\ n < MaxLookups
                  /\ \E x \in Verdicts :
                       /\ <<d, n + 1, x>> \in here
                       /\ v = Verdict(IF x.code = "None" THEN "PermError" ELSE x.code,
                                      x.mechanism, x.used)
      BY <1>2 DEF Ended
    <2>2. PICK e \in Domains :
            /\ Redirects(record, Len(record), e)
            /\ \/ n = MaxLookups /\ w = Verdict("PermError", None, n)
               \/ /\ n < MaxLookups
                  /\ \E y \in Verdicts :
                       /\ <<e, n + 1, y>> \in there
                       /\ w = Verdict(IF y.code = "None" THEN "PermError" ELSE y.code,
                                      y.mechanism, y.used)
      BY <1>2 DEF Ended
    <2>3. e = d
      BY <2>1, <2>2, OneRedirect
    <2>4. MaxLookups \in Nat /\ n \in 0 .. MaxLookups
      BY ConstantsAssumption DEF Spendings
    <2>5. CASE n = MaxLookups
      BY <2>1, <2>2, <2>4, <2>5
    <2>6. CASE n # MaxLookups
      <3>1. PICK x \in Verdicts :
              /\ <<d, n + 1, x>> \in here
              /\ v = Verdict(IF x.code = "None" THEN "PermError" ELSE x.code, x.mechanism, x.used)
        BY <2>1, <2>6
      <3>2. PICK y \in Verdicts :
              /\ <<d, n + 1, y>> \in there
              /\ w = Verdict(IF y.code = "None" THEN "PermError" ELSE y.code, y.mechanism, y.used)
        BY <2>2, <2>3, <2>6
      <3>3. n + 1 \in Spendings
        BY <2>4, <2>6 DEF Spendings
      <3>4. x = y
        BY <3>1, <3>2, <3>3 DEF Agree
      <3> QED
        BY <3>1, <3>2, <3>4
    <2> QED
      BY <2>5, <2>6
  <1> QED
    BY <1>1, <1>2

\* Two readings of a record go in step: where the one stops, the other has spent
\* as much, and stops too or passes over the term.
LEMMA Lockstep ==
  ASSUME NEW z, ZoneTyped(z), NEW here, NEW there, Agree(here, there),
         NEW d \in Domains, Len(z.txt[d]) = 1, NEW n,
         NEW k \in Nat, NEW l \in Nat, 1 <= k, k <= l, l <= Len(RecordOf(z, d)) + 1,
         NEW m, NEW q, PassedTo(z, here, d, n, k, m), PassedTo(z, there, d, n, l, q)
  PROVE  IF k = l THEN m = q
         ELSE \E p \in Spendings : Passed(z, there, d, RecordOf(z, d)[k], m, p)
  <1>1. PICK r : r = RecordOf(z, d) /\ r \in Seq(Terms) /\ Len(r) \in Nat
    BY RecordTyped
  <1>2. PICK spent \in [1 .. k -> Spendings] :
          /\ spent[1] = n
          /\ spent[k] = m
          /\ \A i \in 1 .. k - 1 : Passed(z, here, d, r[i], spent[i], spent[i + 1])
    BY <1>1 DEF PassedTo
  <1>3. PICK paid \in [1 .. l -> Spendings] :
          /\ paid[1] = n
          /\ paid[l] = q
          /\ \A i \in 1 .. l - 1 : Passed(z, there, d, r[i], paid[i], paid[i + 1])
    BY <1>1 DEF PassedTo
  <1>4. ASSUME NEW i \in 1 .. k
        PROVE  spent[i] = paid[i]
    <2> DEFINE T == {j \in 1 .. k : spent[j] # paid[j]}
    <2>1. SUFFICES ASSUME T # {}
                   PROVE  FALSE
      BY <1>4
    <2>2. T \in SUBSET Nat
      OBVIOUS
    <2>3. PICK x \in T : \A y \in T : x <= y
      BY <2>1, <2>2, LeastNatural
    <2>4. x \in 1 .. k /\ x # 1 /\ spent[x] # paid[x]
      BY <1>2, <1>3, <2>3
    <2>5. PICK y \in 1 .. k - 1 : x = y + 1 /\ y \in 1 .. k /\ y \in 1 .. l - 1 /\ y \in 1 .. l
                                /\ y \in 1 .. Len(r) /\ ~(x <= y)
      <3>1. x - 1 \in 1 .. k - 1 /\ x = (x - 1) + 1 /\ x - 1 \in 1 .. k /\ x - 1 \in 1 .. l - 1
            /\ x - 1 \in 1 .. l /\ x - 1 \in 1 .. Len(r) /\ ~(x <= x - 1)
        BY <1>1, <2>4
      <3> QED
        BY <3>1
    <2>6. spent[y] = paid[y]
      BY <2>3, <2>5
    <2>7. /\ Passed(z, here, d, r[y], spent[y], spent[y + 1])
          /\ Passed(z, there, d, r[y], paid[y], paid[y + 1])
      BY <1>2, <1>3, <2>5
    <2>8. r[y] \in Terms /\ spent[y] \in Spendings
      BY <1>1, <2>5
    <2>9. spent[y + 1] = paid[y + 1]
      BY <2>6, <2>7, <2>8, PassedAlike
    <2> QED
      BY <2>4, <2>5, <2>9
  <1>5. k \in 1 .. k /\ spent[k] = paid[k]
    BY <1>4
  <1>6. CASE k = l
    BY <1>2, <1>3, <1>5, <1>6
  <1>7. CASE k # l
    <2>1. k \in 1 .. l - 1 /\ k + 1 \in 1 .. l
      BY <1>7
    <2>2. Passed(z, there, d, r[k], m, paid[k + 1])
      BY <1>2, <1>3, <1>5, <2>1
    <2>3. paid[k + 1] \in Spendings
      BY <2>1
    <2> QED
      BY <1>1, <1>7, <2>2, <2>3
  <1> QED
    BY <1>6, <1>7

\* From verdicts that agree, the rules give one.
LEMMA ComesAlike ==
  ASSUME NEW z, ZoneTyped(z), NEW here, NEW there, Agree(here, there),
         NEW d \in Domains, NEW n \in Spendings, NEW v \in Verdicts, NEW w \in Verdicts,
         Comes(z, here, d, n, v), Comes(z, there, d, n, w)
  PROVE  v = w
  <1>1. z.txt[d] \in Seq(Seq(Terms)) /\ Len(z.txt[d]) \in Nat
    BY DEF ZoneTyped
  <1>2. CASE Len(z.txt[d]) # 1
    <2>1. z.txt[d] = <<>> => ~(Len(z.txt[d]) > 1)
      BY <1>1
    <2> QED
      BY <1>2, <2>1 DEF Comes
  <1>3. CASE Len(z.txt[d]) = 1
    <2>1. z.txt[d] # <<>> /\ ~(Len(z.txt[d]) > 1)
      <3>1. \A s : s = <<>> => Len(s) = 0
        OBVIOUS
      <3> QED
        BY <1>3, <3>1
    <2>2. PICK r : r = RecordOf(z, d) /\ r \in Seq(Terms) /\ Len(r) \in Nat
      BY <1>3, RecordTyped
    <2>3. PICK k \in 1 .. Len(r) + 1, m \in Spendings :
            /\ PassedTo(z, here, d, n, k, m)
            /\ IF k <= Len(r) THEN Decided(z, here, d, r[k], m, v) ELSE Ended(here, r, m, v)
      BY <2>1, <2>2 DEF Comes
    <2>4. PICK l \in 1 .. Len(r) + 1, q \in Spendings :
            /\ PassedTo(z, there, d, n, l, q)
            /\ IF l <= Len(r) THEN Decided(z, there, d, r[l], q, w) ELSE Ended(there, r, q, w)
      BY <2>1, <2>2 DEF Comes
    <2>5. k \in Nat /\ l \in Nat /\ 1 <= k /\ 1 <= l /\ k <= Len(r) + 1 /\ l <= Len(r) + 1
      BY <2>2
    <2>6. Agree(there, here)
      BY DEF Agree
    <2>7. ~(k < l)
      <3> SUFFICES ASSUME k < l
                   PROVE  FALSE
        OBVIOUS
      <3>1. k <= l /\ k # l /\ k <= Len(r) /\ r[k] \in Terms
        BY <2>2, <2>5
      <3>2. PICK p \in Spendings : Passed(z, there, d, r[k], m, p)
        BY <1>3, <2>2, <2>3, <2>4, <2>5, <3>1, Lockstep
      <3>3. Decided(z, here, d, r[k], m, v)
        BY <2>3, <3>1
      <3> QED
        BY <2>6, <3>1, <3>2, <3>3, PassedOrDecided
    <2>8. ~(l < k)
      <3> SUFFICES ASSUME l < k
                   PROVE  FALSE
        OBVIOUS
      <3>1. l <= k /\ l # k /\ l <= Len(r) /\ r[l] \in Terms
        BY <2>2, <2>5
      <3>2. PICK p \in Spendings : Passed(z, here, d, r[l], q, p)
        BY <1>3, <2>2, <2>3, <2>4, <2>5, <2>6, <3>1, Lockstep
      <3>3. Decided(z, there, d, r[l], q, w)
        BY <2>4, <3>1
      <3> QED
        BY <3>1, <3>2, <3>3, PassedOrDecided
    <2>9. k = l /\ k <= l
      BY <2>5, <2>7, <2>8
    <2>10. m = q
      BY <1>3, <2>2, <2>3, <2>4, <2>5, <2>9, Lockstep
    <2>11. CASE k <= Len(r)
      <3>1. r[k] \in Terms
        BY <2>2, <2>5, <2>11
      <3> QED
        BY <2>3, <2>4, <2>9, <2>10, <2>11, <3>1, DecidedAlike
    <2>12. CASE ~(k <= Len(r))
      BY <2>2, <2>3, <2>4, <2>9, <2>10, <2>12, EndedAlike
    <2> QED
      BY <2>11, <2>12
  <1> QED
    BY <1>2, <1>3

\* More verdicts known, no fewer derived.
LEMMA ComesMore ==
  ASSUME NEW z, NEW known, NEW more, known \subseteq more, NEW d, NEW n, NEW v,
         Comes(z, known, d, n, v)
  PROVE  Comes(z, more, d, n, v)
  <1>1. ASSUME NEW t, NEW i, NEW j, Passed(z, known, d, t, i, j)
        PROVE  Passed(z, more, d, t, i, j)
    BY <1>1 DEF Passed
  <1>2. ASSUME NEW t, NEW i, Decided(z, known, d, t, i, v)
        PROVE  Decided(z, more, d, t, i, v)
    BY <1>2 DEF Decided
  <1>3. ASSUME NEW record, NEW i, Ended(known, record, i, v)
        PROVE  Ended(more, record, i, v)
    BY <1>3 DEF Ended
  <1>4. ASSUME NEW k, NEW m, PassedTo(z, known, d, n, k, m)
        PROVE  PassedTo(z, more, d, n, k, m)
    BY <1>1, <1>4 DEF PassedTo
  <1> QED
    BY <1>2, <1>3, <1>4 DEF Comes

\* What follows from the rules is closed under them, and nothing in it is without
\* a derivation; so the verdicts that have no rival are all there are.
LEMMA FollowsOnce ==
  ASSUME NEW z, ZoneTyped(z), NEW d \in Domains, NEW v \in Verdicts, NEW w \in Verdicts,
         Follows(z, d, v), Follows(z, d, w)
  PROVE  v = w
  <1> DEFINE U == Domains \X Spendings \X Verdicts
  <1>1. PICK K \in SUBSET U :
          \A x \in U : x \in K <=> \A known \in SUBSET U : Closed(z, known) => x \in known
    <2> DEFINE L == {x \in U : \A known \in SUBSET U : Closed(z, known) => x \in known}
    <2>1. L \in SUBSET U
      OBVIOUS
    <2>2. \A x \in U : x \in L <=> \A known \in SUBSET U : Closed(z, known) => x \in known
      OBVIOUS
    <2> HIDE DEF L, U
    <2> QED
      BY <2>1, <2>2
  <1>2. \A known \in SUBSET U : Closed(z, known) => K \subseteq known
    BY <1>1
  <1>3. Closed(z, K)
    <2> SUFFICES ASSUME NEW e \in Domains, NEW n \in Spendings, NEW x \in Verdicts,
                        Comes(z, K, e, n, x)
                 PROVE  <<e, n, x>> \in K
      BY DEF Closed
    <2>1. ASSUME NEW known \in SUBSET U, Closed(z, known)
          PROVE  <<e, n, x>> \in known
      <3>1. Comes(z, known, e, n, x)
        BY <1>2, <2>1, ComesMore
      <3> QED
        BY <2>1, <3>1 DEF Closed
    <2>2. <<e, n, x>> \in U
      OBVIOUS
    <2> HIDE DEF U
    <2> QED
      BY <1>1, <2>1, <2>2
  <1>4. ASSUME NEW e \in Domains, NEW n \in Spendings, NEW x \in Verdicts, <<e, n, x>> \in K
        PROVE  Comes(z, K, e, n, x)
    <2> SUFFICES ASSUME ~Comes(z, K, e, n, x)
                 PROVE  FALSE
      OBVIOUS
    <2> DEFINE Others == K \ {<<e, n, x>>}
    <2>1. Others \in SUBSET U /\ Others \subseteq K /\ <<e, n, x>> \notin Others
      OBVIOUS
    <2>2. ASSUME NEW f \in Domains, NEW m \in Spendings, NEW y \in Verdicts,
                 Comes(z, Others, f, m, y)
          PROVE  <<f, m, y>> \in Others
      <3>1. Comes(z, K, f, m, y)
        BY <2>1, <2>2, ComesMore
      <3>2. <<f, m, y>> \in K
        BY <1>3, <3>1 DEF Closed
      <3>3. <<f, m, y>> # <<e, n, x>>
        BY <3>1
      <3> QED
        BY <3>2, <3>3
    <2>3. Closed(z, Others)
      <3> HIDE DEF Others
      <3> QED
        BY <2>2 DEF Closed
    <2> HIDE DEF Others
    <2> QED
      BY <1>2, <1>4, <2>1, <2>3
  <1> DEFINE Sole == {x \in K : \A y \in Verdicts : <<x[1], x[2], y>> \in K => y = x[3]}
  <1>5. /\ Sole \in SUBSET U /\ Sole \subseteq K
        /\ \A e \in Domains, n \in Spendings, x \in Verdicts :
             <<e, n, x>> \in Sole <=> /\ <<e, n, x>> \in K
                                      /\ \A y \in Verdicts : <<e, n, y>> \in K => y = x
    OBVIOUS
  <1> HIDE DEF Sole
  <1>6. Agree(Sole, K)
    BY <1>5 DEF Agree
  <1>7. ASSUME NEW e \in Domains, NEW n \in Spendings, NEW x \in Verdicts, Comes(z, Sole, e, n, x)
        PROVE  <<e, n, x>> \in Sole
    <2>1. Comes(z, K, e, n, x)
      BY <1>5, <1>7, ComesMore
    <2>2. <<e, n, x>> \in K
      BY <1>3, <2>1 DEF Closed
    <2>3. ASSUME NEW y \in Verdicts, <<e, n, y>> \in K
          PROVE  y = x
      <3>1. Comes(z, K, e, n, y)
        BY <1>4, <2>3
      <3> QED
        BY <1>6, <1>7, <3>1, ComesAlike
    <2> QED
      BY <1>5, <2>2, <2>3
  <1>8. Closed(z, Sole)
    BY <1>7 DEF Closed
  <1>9. <<d, 0, v>> \in Sole /\ <<d, 0, w>> \in Sole /\ 0 \in Spendings
    BY <1>5, <1>8, ConstantsAssumption DEF Follows, Spendings
  <1> QED
    BY <1>5, <1>9

\* FR-SPF-2 to FR-SPF-5: whatever records a DNS without faults publishes, and
\* whatever they include or redirect to, when the evaluator ends, its verdict, the
\* mechanism it names and the lookups it has counted follow from the rules, and no
\* other verdict does.
THEOREM VerdictFromRules == Spec => []VerdictFollows
  <1>1. Init => RulesInv
    BY DEF Init, RulesInv, StackTells
  <1>2. TypeOK /\ RecursionBounded /\ RulesInv => VerdictFollows
    <2> SUFFICES ASSUME TypeOK, RecursionBounded, RulesInv, pc = "done", faults = 0
                 PROVE  {v \in Verdicts : Follows(zone, Top.domain, v)} =
                          {Verdict(outcome.code, outcome.mechanism, count)}
      BY DEF VerdictFollows
    <2> DEFINE u == Verdict(outcome.code, outcome.mechanism, count)
    <2>1. u \in Verdicts /\ ZoneTyped(zone) /\ Top.domain \in Domains
      BY Context, VerdictTyped DEF TypeOK
    <2>2. Follows(zone, Top.domain, u)
      <3> SUFFICES ASSUME NEW CONSTANT known \in SUBSET (Domains \X Spendings \X Verdicts),
                          Closed(zone, known)
                   PROVE  <<Top.domain, 0, u>> \in known
        BY DEF Follows
      <3>1. StackTells(known)
        BY DEF RulesInv
      <3>2. PICK start \in [1 .. Len(frames) -> Spendings] :
              start[Len(frames)] = 0 /\ TopTells(known, start[1])
        BY <3>1 DEF StackTells
      <3>3. Len(frames) = 1
        BY <3>2 DEF TopTells
      <3> QED
        BY <3>2, <3>3 DEF TopTells
    <2> HIDE DEF u
    <2>3. \A v \in Verdicts : Follows(zone, Top.domain, v) => v = u
      BY <2>1, <2>2, FollowsOnce
    <2>4. {v \in Verdicts : Follows(zone, Top.domain, v)} = {u}
      BY <2>1, <2>2, <2>3
    <2> QED
      BY <2>4 DEF u
  <1> QED
    BY <1>1, <1>2, StepTells, TypeCorrect, RecursionIsBounded, PTL DEF Spec

-----------------------------------------------------------------------------
(***************************************************************************)
(* The network test                                                        *)
(*                                                                         *)
(* IsInCidr compares bytes and masks one of them.  What it decides is       *)
(* whether two addresses agree in their first bits, which is what a prefix *)
(* means.  Bits are numbered from the most significant one of the first     *)
(* byte; a byte has at most eight of them.                                  *)
(***************************************************************************)
Bytes == 0 .. 2 ^ ByteBits - 1
BitOf(byte, j) == (byte \div (2 ^ (ByteBits - 1 - j))) % 2
Bit(address, i) == BitOf(address[(i \div ByteBits) + 1], i % ByteBits)

AgreeIn(bits, candidate) ==
  /\ Len(candidate) = Len(Checked)
  /\ \A i \in 0 .. bits - 1 : Bit(candidate, i) = Bit(Checked, i)

\* The powers that a byte needs.
Pow == [n \in 0 .. 8 |-> 2 ^ n]

LEMMA Powers ==
  /\ Pow[0] = 1
  /\ \A n \in 0 .. 7 : Pow[n + 1] = 2 * Pow[n]
  /\ \A n \in 0 .. 8 : Pow[n] \in Nat \ {0}
  <1>1. /\ 2 ^ 0 = 1 /\ 2 ^ 1 = 2 /\ 2 ^ 2 = 4 /\ 2 ^ 3 = 8 /\ 2 ^ 4 = 16
        /\ 2 ^ 5 = 32 /\ 2 ^ 6 = 64 /\ 2 ^ 7 = 128 /\ 2 ^ 8 = 256
    OBVIOUS
  <1>2. /\ 0 \in 0 .. 8 /\ 1 \in 0 .. 8 /\ 2 \in 0 .. 8 /\ 3 \in 0 .. 8 /\ 4 \in 0 .. 8
        /\ 5 \in 0 .. 8 /\ 6 \in 0 .. 8 /\ 7 \in 0 .. 8 /\ 8 \in 0 .. 8
    OBVIOUS
  <1>3. /\ Pow[0] = 1 /\ Pow[1] = 2 /\ Pow[2] = 4 /\ Pow[3] = 8 /\ Pow[4] = 16
        /\ Pow[5] = 32 /\ Pow[6] = 64 /\ Pow[7] = 128 /\ Pow[8] = 256
    BY Zenon, <1>1, <1>2 DEF Pow
  <1>4. ASSUME NEW n \in 0 .. 7 PROVE Pow[n + 1] = 2 * Pow[n]
    <2>1. \/ n = 0 \/ n = 1 \/ n = 2 \/ n = 3 \/ n = 4 \/ n = 5 \/ n = 6 \/ n = 7
      OBVIOUS
    <2> QED
      BY <1>3, <2>1
  <1>5. ASSUME NEW n \in 0 .. 8 PROVE Pow[n] \in Nat \ {0}
    <2>1. \/ n = 0 \/ n = 1 \/ n = 2 \/ n = 3 \/ n = 4 \/ n = 5 \/ n = 6 \/ n = 7 \/ n = 8
      OBVIOUS
    <2> QED
      BY <1>3, <2>1
  <1> QED
    BY <1>3, <1>4, <1>5

LEMMA PowIs == ASSUME NEW n \in 0 .. 8 PROVE 2 ^ n = Pow[n]
  BY Zenon DEF Pow

LEMMA Halves ==
  ASSUME NEW a \in Nat, NEW c \in Nat \ {0}
  PROVE  a \div c \in Nat /\ a \div (2 * c) = (a \div c) \div 2
  BY SMTT(30)

LEMMA BitByBit ==
  ASSUME NEW x \in Nat, NEW y \in Nat
  PROVE  x = y <=> x \div 2 = y \div 2 /\ x % 2 = y % 2
  OBVIOUS

LEMMA SmallOverLarge ==
  ASSUME NEW c \in Nat \ {0}, NEW a \in 0 .. c - 1
  PROVE  a \div c = 0
  BY SMTT(30)

LEMMA CutAlike ==
  ASSUME NEW a \in Nat, NEW b \in Nat, NEW c \in Nat \ {0}
  PROVE  a - (a % c) = b - (b % c) <=> a \div c = b \div c
  BY SMTT(30)

LEMMA PlaceOfBit ==
  ASSUME NEW B \in Nat \ {0}, NEW k \in Nat, NEW j \in 0 .. B - 1
  PROVE  (k * B + j) \div B = k /\ (k * B + j) % B = j
  BY SMTT(30)

LEMMA BitInPlace ==
  ASSUME NEW B \in Nat \ {0}, NEW i \in Nat
  PROVE  i \div B \in Nat /\ i % B \in 0 .. B - 1 /\ i = (i \div B) * B + (i % B)
  <1>1. i % B \in 0 .. B - 1
    OBVIOUS
  <1>2. i = (i \div B) * B + (i % B)
    BY SMTT(30)
  <1>3. i \div B \in Nat
    BY SMTT(30)
  <1> QED
    BY <1>1, <1>2, <1>3

LEMMA BytesAreNumbers ==
  ASSUME ByteBits \in 1 .. 8, NEW a \in Bytes
  PROVE  a \in Nat /\ a < Pow[ByteBits]
  <1>1. Bytes = 0 .. Pow[ByteBits] - 1 /\ Pow[ByteBits] \in Nat
    <2>1. ByteBits \in 0 .. 8
      OBVIOUS
    <2>2. 2 ^ ByteBits = Pow[ByteBits]
      BY Zenon, <2>1, PowIs
    <2>3. Pow[ByteBits] \in Nat
      BY <2>1, Powers
    <2> QED
      BY Zenon, <2>2, <2>3 DEF Bytes
  <1> QED
    BY <1>1

LEMMA EarlierByte ==
  ASSUME NEW B \in Nat \ {0}, NEW k \in Nat, NEW q \in Nat, NEW j \in 0 .. B - 1, NEW m \in 0 .. B - 1,
         k * B + j < q * B + m
  PROVE  k < q \/ (k = q /\ j < m)
  BY SMTT(30)

LEMMA LaterByte ==
  ASSUME NEW B \in Nat \ {0}, NEW k \in Nat, NEW q \in Nat, NEW j \in 0 .. B - 1, NEW m \in 0 .. B - 1,
         k < q \/ (k = q /\ j < m)
  PROVE  k * B + j \in Nat /\ k * B + j < q * B + m
  BY SMTT(30)

Alike(a, b, r) ==
  a \div (2 ^ (ByteBits - r)) = b \div (2 ^ (ByteBits - r)) <=>
    \A j \in 0 .. r - 1 : BitOf(a, j) = BitOf(b, j)

LEMMA OneBitMore ==
  ASSUME ByteBits \in 1 .. 8, NEW a \in Bytes, NEW b \in Bytes, NEW r \in 0 .. ByteBits - 1,
         Alike(a, b, r)
  PROVE  Alike(a, b, r + 1)
  <1> DEFINE c == 2 ^ (ByteBits - (r + 1))
  <1>1. c \in Nat \ {0} /\ 2 ^ (ByteBits - r) = 2 * c
    <2>1. PICK n \in 0 .. 7 : n = ByteBits - (r + 1) /\ ByteBits - r = n + 1
      OBVIOUS
    <2>2. n \in 0 .. 8 /\ n + 1 \in 0 .. 8
      OBVIOUS
    <2>3. 2 ^ n = Pow[n] /\ 2 ^ (n + 1) = Pow[n + 1]
      BY <2>2, PowIs
    <2>4. Pow[n] \in Nat \ {0} /\ Pow[n + 1] = 2 * Pow[n]
      BY <2>2, Powers
    <2> QED
      BY Zenon, <2>1, <2>3, <2>4
  <1>2. a \in Nat /\ b \in Nat
    BY BytesAreNumbers
  <1>3. BitOf(a, r) = (a \div c) % 2 /\ BitOf(b, r) = (b \div c) % 2
    <2>1. ByteBits - 1 - r = ByteBits - (r + 1)
      OBVIOUS
    <2> QED
      BY <2>1 DEF BitOf
  <1> HIDE DEF c
  <1>4. /\ a \div c \in Nat /\ a \div (2 * c) = (a \div c) \div 2
        /\ b \div c \in Nat /\ b \div (2 * c) = (b \div c) \div 2
    BY <1>1, <1>2, Halves
  <1>5. a \div c = b \div c <=> a \div (2 * c) = b \div (2 * c) /\ BitOf(a, r) = BitOf(b, r)
    BY <1>3, <1>4, BitByBit
  <1>6. a \div (2 * c) = b \div (2 * c) <=> \A j \in 0 .. r - 1 : BitOf(a, j) = BitOf(b, j)
    BY <1>1 DEF Alike
  <1>7. 0 .. (r + 1) - 1 = (0 .. r - 1) \cup {r}
    OBVIOUS
  <1>8. a \div c = b \div c <=> \A j \in 0 .. (r + 1) - 1 : BitOf(a, j) = BitOf(b, j)
    BY Zenon, <1>5, <1>6, <1>7
  <1> QED
    BY <1>8 DEF Alike, c

\* The first bits of a byte are what is left of it without the other ones.
LEMMA FirstBits ==
  ASSUME ByteBits \in 1 .. 8, NEW a \in Bytes, NEW b \in Bytes, NEW r \in 0 .. ByteBits
  PROVE  Alike(a, b, r)
  <1> DEFINE Wrong == {n \in Nat : n <= ByteBits /\ ~Alike(a, b, n)}
  <1> SUFFICES ASSUME Wrong # {} PROVE FALSE
    OBVIOUS
  <1>1. PICK n \in Wrong : \A k \in Wrong : n <= k
    BY LeastNatural
  <1>2. Alike(a, b, 0)
    <2>1. a \div (2 ^ ByteBits) = 0 /\ b \div (2 ^ ByteBits) = 0
      <3>0. ByteBits \in 0 .. 8
        OBVIOUS
      <3>1. Pow[ByteBits] \in Nat \ {0} /\ 2 ^ ByteBits = Pow[ByteBits]
        BY Zenon, <3>0, Powers, PowIs
      <3>2. a \in 0 .. Pow[ByteBits] - 1 /\ b \in 0 .. Pow[ByteBits] - 1
        BY <3>1, BytesAreNumbers
      <3>3. a \div Pow[ByteBits] = 0 /\ b \div Pow[ByteBits] = 0
        BY <3>1, <3>2, SmallOverLarge
      <3> QED
        BY Zenon, <3>1, <3>3
    <2>2. ByteBits - 0 = ByteBits /\ 0 .. 0 - 1 = {}
      OBVIOUS
    <2> QED
      BY <2>1, <2>2 DEF Alike
  <1>3. n \in Nat \ {0} /\ n <= ByteBits
    BY <1>1, <1>2
  <1>4. n - 1 \in 0 .. ByteBits - 1 /\ Alike(a, b, n - 1)
    BY <1>1, <1>3
  <1>5. Alike(a, b, (n - 1) + 1)
    BY <1>4, OneBitMore
  <1>6. (n - 1) + 1 = n
    BY <1>3
  <1> QED
    BY <1>1, <1>5, <1>6

\* Bytes are the same if all their bits are.
LEMMA AllBits ==
  ASSUME ByteBits \in 1 .. 8, NEW a \in Bytes, NEW b \in Bytes,
         \A j \in 0 .. ByteBits - 1 : BitOf(a, j) = BitOf(b, j)
  PROVE  a = b
  <1>1. Alike(a, b, ByteBits)
    BY FirstBits
  <1>2. 2 ^ (ByteBits - ByteBits) = 1
    <2>1. ByteBits - ByteBits = 0
      OBVIOUS
    <2>2. 2 ^ 0 = 1
      OBVIOUS
    <2> QED
      BY Zenon, <2>1, <2>2
  <1>3. a \in Nat /\ b \in Nat
    BY BytesAreNumbers
  <1>4. a \div 1 = b \div 1
    BY <1>1, <1>2 DEF Alike
  <1> QED
    BY <1>3, <1>4

\* What the mask keeps of two bytes is the same if their first bits are.
LEMMA MaskedBits ==
  ASSUME ByteBits \in 1 .. 8, NEW a \in Bytes, NEW b \in Bytes, NEW r \in 0 .. ByteBits
  PROVE  HighBits(a, r) = HighBits(b, r) <=> \A j \in 0 .. r - 1 : BitOf(a, j) = BitOf(b, j)
  <1>1. 2 ^ (ByteBits - r) \in Nat \ {0} /\ a \in Nat /\ b \in Nat
    <2>1. PICK n \in 0 .. 8 : n = ByteBits - r
      OBVIOUS
    <2>2. 2 ^ n = Pow[n] /\ Pow[n] \in Nat \ {0}
      BY <2>1, PowIs, Powers
    <2> QED
      BY Zenon, <2>1, <2>2, BytesAreNumbers
  <1> QED
    BY <1>1, FirstBits, CutAlike DEF Alike, HighBits

\* The test of the code is that of RFC 4632: the address lies in the network if the
\* two are of one family and agree in as many bits as the prefix says, which counts
\* from none to all of them whatever number it is.  (IsInCidr, over full bytes and
\* the masked one.)
THEOREM NetworksArePrefixes ==
  ASSUME ByteBits \in 1 .. 8, Checked \in Seq(Bytes), NEW candidate \in Seq(Bytes), NEW length \in Int
  PROVE  IsInCidr(candidate, length) <=> AgreeIn(Clamp(length, 0, Width(candidate)), candidate)
  <1> DEFINE bits == Clamp(length, 0, Width(candidate))
             q == bits \div ByteBits
             m == bits % ByteBits
  <1> SUFFICES ASSUME Len(candidate) = Len(Checked)
               PROVE  /\ \A t \in 1 .. q : candidate[t] = Checked[t]
                      /\ m # 0 => HighBits(candidate[q + 1], m) = HighBits(Checked[q + 1], m)
                      <=> \A i \in 0 .. bits - 1 : Bit(candidate, i) = Bit(Checked, i)
    BY DEF IsInCidr, AgreeIn
  <1>1. Len(candidate) \in Nat /\ Width(candidate) = Len(candidate) * ByteBits
    BY DEF Width
  <1>2. bits \in Nat /\ bits <= Len(candidate) * ByteBits
    <2>1. Width(candidate) \in Nat
      BY <1>1
    <2>2. bits \in Nat /\ bits <= Width(candidate)
      BY <2>1 DEF Clamp
    <2> QED
      BY <1>1, <2>2
  <1> HIDE DEF bits
  <1>3. q \in Nat /\ m \in 0 .. ByteBits - 1 /\ bits = q * ByteBits + m
    <2>1. ByteBits \in Nat \ {0} /\ bits \in Nat
      BY <1>2
    <2> QED
      BY Zenon, <2>1, BitInPlace
  <1> HIDE DEF q, m
  <1>4. q <= Len(candidate) /\ (m # 0 => q < Len(candidate))
    <2>1. CASE m = 0
      <3>1. q * ByteBits + 0 < Len(candidate) * ByteBits + 1
        BY <1>1, <1>2, <1>3, <2>1
      <3>2. ByteBits = 1 => q <= Len(candidate)
        BY <1>1, <1>3, <3>1
      <3>3. ByteBits # 1 => q <= Len(candidate)
        BY <1>1, <1>3, <3>1, EarlierByte
      <3> QED
        BY <2>1, <3>2, <3>3
    <2>2. CASE m # 0
      <3>1. ~(Len(candidate) * ByteBits + 0 < q * ByteBits + m)
        BY <1>1, <1>2, <1>3
      <3>2. ~(Len(candidate) < q \/ (Len(candidate) = q /\ 0 < m))
        BY <1>1, <1>3, <3>1, LaterByte
      <3> QED
        BY <1>1, <1>3, <2>2, <3>2
    <2> QED
      BY <2>1, <2>2
  <1>5. \A t \in 1 .. Len(candidate) : candidate[t] \in Bytes /\ Checked[t] \in Bytes
    OBVIOUS
  <1>6. ASSUME \A t \in 1 .. q : candidate[t] = Checked[t],
               m # 0 => HighBits(candidate[q + 1], m) = HighBits(Checked[q + 1], m),
               NEW i \in 0 .. bits - 1
        PROVE  Bit(candidate, i) = Bit(Checked, i)
    <2> DEFINE k == i \div ByteBits
               j == i % ByteBits
    <2>1. k \in Nat /\ j \in 0 .. ByteBits - 1 /\ i = k * ByteBits + j
      <3>1. ByteBits \in Nat \ {0} /\ i \in Nat
        BY <1>2
      <3> QED
        BY Zenon, <3>1, BitInPlace
    <2> HIDE DEF k, j
    <2>2. k * ByteBits + j < q * ByteBits + m
      BY <1>2, <1>3, <2>1
    <2>3. k < q \/ (k = q /\ j < m)
      BY <1>3, <2>1, <2>2, EarlierByte
    <2>4. CASE k < q
      <3>1. k + 1 \in 1 .. q
        BY <1>3, <2>1, <2>4
      <3> QED
        BY <1>6, <3>1 DEF Bit, k
    <2>5. CASE k = q /\ j < m
      <3>1. m # 0 /\ q + 1 \in 1 .. Len(candidate)
        BY <1>1, <1>3, <1>4, <2>1, <2>5
      <3>2. candidate[q + 1] \in Bytes /\ Checked[q + 1] \in Bytes
        BY <1>5, <3>1
      <3>3. m \in 0 .. ByteBits /\ j \in 0 .. m - 1
        BY <1>3, <2>1, <2>5
      <3>4. BitOf(candidate[q + 1], j) = BitOf(Checked[q + 1], j)
        BY <1>6, <3>1, <3>2, <3>3, MaskedBits
      <3> QED
        BY <2>5, <3>4 DEF Bit, k, j
    <2> QED
      BY <2>3, <2>4, <2>5
  <1>7. ASSUME \A i \in 0 .. bits - 1 : Bit(candidate, i) = Bit(Checked, i),
               NEW k \in Nat, NEW j \in 0 .. ByteBits - 1, k < q \/ (k = q /\ j < m)
        PROVE  BitOf(candidate[k + 1], j) = BitOf(Checked[k + 1], j)
    <2>1. k * ByteBits + j \in Nat /\ k * ByteBits + j < q * ByteBits + m
      BY <1>3, <1>7, LaterByte
    <2>2. k * ByteBits + j \in 0 .. bits - 1
      BY <1>2, <1>3, <2>1
    <2>3. (k * ByteBits + j) \div ByteBits = k /\ (k * ByteBits + j) % ByteBits = j
      BY <1>7, PlaceOfBit
    <2> QED
      BY <1>7, <2>2, <2>3 DEF Bit
  <1>8. ASSUME \A i \in 0 .. bits - 1 : Bit(candidate, i) = Bit(Checked, i)
        PROVE  /\ \A t \in 1 .. q : candidate[t] = Checked[t]
               /\ m # 0 => HighBits(candidate[q + 1], m) = HighBits(Checked[q + 1], m)
    <2>1. ASSUME NEW t \in 1 .. q PROVE candidate[t] = Checked[t]
      <3>1. t - 1 \in Nat /\ t - 1 < q /\ (t - 1) + 1 = t /\ t \in 1 .. Len(candidate)
        BY <1>1, <1>3, <1>4
      <3>2. \A j \in 0 .. ByteBits - 1 : BitOf(candidate[t], j) = BitOf(Checked[t], j)
        BY <1>7, <1>8, <3>1
      <3> QED
        BY <1>5, <3>1, <3>2, AllBits
    <2>2. ASSUME m # 0 PROVE HighBits(candidate[q + 1], m) = HighBits(Checked[q + 1], m)
      <3>1. q + 1 \in 1 .. Len(candidate) /\ m \in 0 .. ByteBits
        BY <1>1, <1>3, <1>4, <2>2
      <3>2. \A j \in 0 .. m - 1 : BitOf(candidate[q + 1], j) = BitOf(Checked[q + 1], j)
        BY <1>3, <1>7, <1>8
      <3> QED
        BY <1>5, <3>1, <3>2, MaskedBits
    <2> QED
      BY <2>1, <2>2
  <1> QED
    BY <1>6, <1>8
=============================================================================
