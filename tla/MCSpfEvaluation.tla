--------------------------- MODULE MCSpfEvaluation ---------------------------
(***************************************************************************)
(* Instances of SpfEvaluation for TLC, and the evaluation of a record as a *)
(* recursive function, written after RFC 7208 and FR-SPF-2 to FR-SPF-5.    *)
(***************************************************************************)
EXTENDS SpfRules, TLC, SequencesExt

CONSTANTS d1, d2

Plain(kind, q, target, prefix) ==
  [kind |-> kind, qualifier |-> q, target |-> target, prefix |-> prefix]

\* The checked address is an IPv6 one, of two bytes of three bits each; an IPv4
\* address has one byte.  The near one differs in the last two bits only.
SomeAddress == <<5, 2>>
Near == <<5, 1>>
Other == <<2, 2>>

AllTerms ==
  {Plain("all", "~", None, None), Plain("unknown", "+", None, None),
   Plain("ip6", "+", Other, None), Plain("ip4", "-", Near, None),
   Plain("a", "+", None, None), Plain("exists", "+", d2, None),
   Plain("mx", "?", None, None),
   Plain("include", "+", d1, None), Plain("include", "-", d2, None),
   Plain("redirect", "+", d2, None), Plain("redirect", "+", d1, None),
   Plain("other", "+", None, None)}

\* One term of every effect, for the second domain.
InnerTerms == {t \in AllTerms : t.kind \notin {"a", "mx", "other", "redirect"}}

\* Every network of either family, and no network, with every prefix: shorter
\* and longer than any address, negative, absent and unreadable ones.
Networks == [1 .. 2 -> 0 .. 7] \cup [1 .. 1 -> 0 .. 7] \cup {None}
SomePrefixes == -1 .. 7 \cup {None, Junk}
OddTerms == {Plain("include", "+", None, None), Plain("ptr", "+", None, None),
             Plain("exists", "+", d1, None)}
LoneTerms ==
  OddTerms \cup
  {Plain("ip6", "+", network, prefix) : network \in Networks, prefix \in SomePrefixes} \cup
  {Plain("ip4", "+", network, prefix) : network \in Networks, prefix \in {None, 4}} \cup
  {Plain(kind, "+", host, prefix) : kind \in {"a", "mx"}, host \in Domains, prefix \in SomePrefixes}

SomeTerms == AllTerms \cup LoneTerms

\* The first domain has IPv6 addresses only.
A == d1 :> {} @@ d2 :> {<<5>>}
Aaaa == d1 :> {Other, Near} @@ d2 :> {Checked}
Exchanges == {[d \in Domains |-> IF d = d1 THEN <<d1, d2>> ELSE <<d1>>]}

-----------------------------------------------------------------------------
\* The addresses of a network: as numbers, they agree with it in all bits but
\* the last ones.
Number(address) == FoldLeft(LAMBDA n, byte : n * 2 ^ ByteBits + byte, 0, address)
Spans(address, length) ==
  /\ Len(address) = Len(Checked)
  /\ LET kept == CASE length \in {None, Junk} -> Width(address)
                   [] length < 0 -> 0
                   [] length > Width(address) -> Width(address)
                   [] OTHER -> length
         free == 2 ^ (Width(address) - kept)
     IN Number(address) \div free = Number(Checked) \div free

\* ip4 and ip6 name the prefixes of whole addresses.
Default == "ip4" :> 3 @@ "ip6" :> 6

\* What the record of d comes to when used lookups are spent already.
RECURSIVE Check(_, _, _)
Check(z, d, used) ==
  LET record == Head(z.txt[d])
      mechanisms == SelectSeq(record, LAMBDA t : t.kind \in Mechanisms)
      redirects == SelectSeq(record, LAMBDA t : t.kind = "redirect")
      open == Verdict("open", None, used)

      Names(t) == IF t.target = None THEN d ELSE t.target
      Reaches(t, hosts) == \E h \in hosts : \E x \in z.aaaa[h] : Spans(x, t.prefix)
      Hits(t) ==
        CASE t.kind = "all"    -> TRUE
          [] t.kind \in {"ip4", "ip6"} ->
               /\ t.target # None /\ t.prefix # Junk
               /\ Spans(t.target, IF t.prefix = None THEN Default[t.kind] ELSE t.prefix)
          [] t.kind = "a"      -> Reaches(t, {Names(t)})
          [] t.kind = "mx"     -> Reaches(t, ToSet(z.exchanges[Names(t)]))
          [] t.kind = "exists" -> z.a[Names(t)] # {}

      \* The first mechanism that matches decides, an error in one as well.
      Try(so, t) ==
        LET n == IF t.kind \in RequiresLookup THEN so.used + 1 ELSE so.used
            inner == Check(z, t.target, n)
        IN CASE so.code # "open" -> so
             [] n > MaxLookups -> Verdict("PermError", None, so.used)
             [] t.kind \in {"ptr", "unknown"} -> Verdict("PermError", None, n)
             [] t.kind = "include" ->
                  IF t.target = None THEN Verdict("PermError", None, n)
                  ELSE IF inner.code = "Pass"
                  THEN Verdict(QualifierToResult(t.qualifier), "include", inner.used)
                  ELSE IF inner.code \in {"None", "PermError"}
                  THEN Verdict("PermError", None, inner.used)
                  ELSE [so EXCEPT !.used = inner.used]
             [] OTHER -> IF Hits(t) THEN Verdict(QualifierToResult(t.qualifier), t.kind, n)
                         ELSE [so EXCEPT !.used = n]

      Redirected(so) ==
        IF so.used = MaxLookups THEN Verdict("PermError", None, so.used)
        ELSE LET inner == Check(z, Last(redirects).target, so.used + 1)
             IN IF inner.code = "None" THEN Verdict("PermError", inner.mechanism, inner.used)
                ELSE inner
  IN IF z.txt[d] = <<>> THEN Verdict("None", None, used)
     ELSE IF Len(z.txt[d]) > 1 THEN Verdict("PermError", None, used)
     ELSE LET so == FoldLeft(Try, open, mechanisms)
          IN IF so.code # "open" THEN so
             ELSE IF redirects # <<>> THEN Redirected(so)
             ELSE Verdict("Neutral", None, so.used)

\* FR-SPF-2 to FR-SPF-5: over a DNS that neither errs nor changes, the evaluator
\* returns what the record comes to, with the mechanism that decided and the
\* number of lookups it took, however includes, redirects and modifiers nest and
\* wherever prefixes end: inside a byte, at its end, or out of range.
MatchesReference ==
  pc = "done" /\ faults = 0 =>
    Check(zone, Top.domain, 0) =
      [code |-> outcome.code, mechanism |-> outcome.mechanism, used |-> count]

-----------------------------------------------------------------------------
\* The record of d1 has up to three terms, that of d2 at most one of fewer; and
\* every network, prefix and host is tried on its own.
Records(terms, n) == {<<r>> : r \in BoundedSeq(terms, n)}
Ambiguous == <<<<>>, <<>>>>
Publish(first, second) ==
  [txt : {d1 :> a @@ d2 :> b : a \in first, b \in second},
   a : {A}, aaaa : {Aaaa}, exchanges : Exchanges]
ManyZones ==
  Publish(Records(AllTerms, 3), Records(InnerTerms, 1) \cup {<<>>, Ambiguous}) \cup
  Publish(Records(LoneTerms, 1), {<<>>})

\* Every circle of includes and redirects between two records, and no record.
CircleTerms == {Plain("include", "+", d1, None), Plain("include", "-", d2, None),
                Plain("redirect", "+", d1, None), Plain("mx", "?", None, None)}
CircleZones == Publish(Records(CircleTerms, 2), Records(CircleTerms, 1) \cup {<<>>})

SomeZones == ManyZones \cup CircleZones

\* The reference definition is what the rules of SpfRules give, and all they give:
\* they derive a verdict from its graph exactly if it is in the graph.
RulesAgreeOn(zones) ==
  \A z \in zones :
    LET graph == {<<d, n, Check(z, d, n)>> : d \in Domains, n \in Spendings}
    IN  \A d \in Domains, n \in Spendings, v \in Verdicts :
          Comes(z, graph, d, n, v) <=> <<d, n, v>> \in graph

\* So the rules that the proofs speak of and the reference of the run are the same,
\* for every term, for every verdict that an include or a redirect may meet, and for
\* circles.
Calls == {t \in AllTerms : t.kind \in {"include", "redirect"}}
ASSUME RulesAgree ==
  RulesAgreeOn(
    Publish(Records(AllTerms \cup OddTerms, 1), {<<>>}) \cup
    Publish(Records(Calls, 1), Records(InnerTerms, 1) \cup {<<>>, Ambiguous}) \cup
    Publish(Records(CircleTerms, 2), Records({Plain("redirect", "+", d1, None)}, 1)))
==============================================================================
