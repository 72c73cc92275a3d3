------------------------------ MODULE SpfRules ------------------------------
(***************************************************************************)
(* What the record of a domain comes to, by rules: RFC 7208 (4.6, 5.2 and  *)
(* 6.1) as FR-SPF-2 to FR-SPF-5 narrow it.                                 *)
(*                                                                         *)
(* The rules refer to the verdicts on other records, which may refer back. *)
(* A verdict holds when it follows from the rules in finitely many steps,  *)
(* that is, when it is in every set of verdicts that is closed under them. *)
(***************************************************************************)
EXTENDS SpfEvaluation

\* A verdict names the mechanism that decided and the lookups spent by then.  It
\* spends no more than MaxLookups: a rule that takes another one does not apply.
Verdict(code, by, n) == [code |-> code, mechanism |-> by, used |-> n]
Spendings == 0 .. MaxLookups
Verdicts == [code : Codes, mechanism : Mechanisms \cup {None}, used : Spendings]

\* The record of d, if it has just one.
RecordOf(z, d) == z.txt[d][1]

-----------------------------------------------------------------------------
Named(d, t) == IF t.target = None THEN d ELSE t.target

\* The checked address is one of those that the mechanism t of d's record means.
Meant(z, d, t) ==
  \/ t.kind = "all"
  \/ t.kind \in {"ip4", "ip6"} /\ MatchesIpMechanism(t.kind, t.target, t.prefix)
  \/ t.kind = "a" /\ MatchesHost(Addresses(z, Named(d, t)), t.prefix)
  \/ t.kind = "exists" /\ z.a[Named(d, t)] # {}
  \/ /\ t.kind = "mx"
     /\ LET hosts == z.exchanges[Named(d, t)]
        IN  \E i \in DOMAIN hosts : MatchesHost(Addresses(z, hosts[i]), t.prefix)

\* The lookups spent when t has been tried, n before.
Spent(t, n) == IF t.kind \in RequiresLookup THEN n + 1 ELSE n

\* The term t, met when n lookups are spent, does not decide and leaves m spent.
Passed(z, known, d, t, n, m) ==
  \/ t.kind \in Modifiers /\ m = n
  \/ /\ t.kind \in {"all", "ip4", "ip6", "a", "exists", "mx"}
     /\ ~Meant(z, d, t)
     /\ m = Spent(t, n)
  \/ /\ t.kind = "include" /\ t.target # None
     /\ n < MaxLookups
     /\ \E w \in Verdicts : /\ <<t.target, n + 1, w>> \in known
                            /\ w.code \in {"Fail", "SoftFail", "Neutral"}
                            /\ m = w.used

\* The term t, met when n lookups are spent, decides on v.
Decided(z, known, d, t, n, v) ==
  \/ /\ t.kind \in {"all", "ip4", "ip6", "a", "exists", "mx"}
     /\ Meant(z, d, t)
     /\ v = Verdict(QualifierToResult(t.qualifier), t.kind, Spent(t, n))
  \/ /\ t.kind \in RequiresLookup
     /\ n = MaxLookups
     /\ v = Verdict("PermError", None, n)
  \/ /\ t.kind \in {"ptr", "unknown"} \/ (t.kind = "include" /\ t.target = None)
     /\ v = Verdict("PermError", None, Spent(t, n))
  \/ /\ t.kind = "include" /\ t.target # None
     /\ n < MaxLookups
     /\ \E w \in Verdicts :
          /\ <<t.target, n + 1, w>> \in known
          /\ \/ w.code = "Pass"
                /\ v = Verdict(QualifierToResult(t.qualifier), "include", w.used)
             \/ w.code \in {"None", "PermError"} /\ v = Verdict("PermError", None, w.used)
             \/ w.code = "TempError" /\ v = Verdict("TempError", None, w.used)

\* The last redirect among the first n terms of record names d.
Redirects(record, n, d) ==
  \E j \in 1 .. n : /\ record[j].kind = "redirect" /\ record[j].target = d
                    /\ \A k \in j + 1 .. n : record[k].kind # "redirect"
NoRedirect(record, n) == \A j \in 1 .. n : record[j].kind # "redirect"

\* No term of the record has decided; the verdict is v.
Ended(known, record, n, v) ==
  \/ NoRedirect(record, Len(record)) /\ v = Verdict("Neutral", None, n)
  \/ \E d \in Domains :
       /\ Redirects(record, Len(record), d)
       /\ \/ n = MaxLookups /\ v = Verdict("PermError", None, n)
          \/ /\ n < MaxLookups
             /\ \E w \in Verdicts :
                  /\ <<d, n + 1, w>> \in known
                  /\ v = Verdict(IF w.code = "None" THEN "PermError" ELSE w.code,
                                 w.mechanism, w.used)

-----------------------------------------------------------------------------
\* The terms of d's record before the k-th decide nothing, the first met when n
\* lookups are spent; at the k-th, m are.
PassedTo(z, known, d, n, k, m) ==
  \E spent \in [1 .. k -> Spendings] :
    /\ spent[1] = n
    /\ spent[k] = m
    /\ \A i \in 1 .. k - 1 : Passed(z, known, d, RecordOf(z, d)[i], spent[i], spent[i + 1])

\* From the verdicts known, the rules give v for d's record, met with n lookups spent.
Comes(z, known, d, n, v) ==
  \/ z.txt[d] = <<>> /\ v = Verdict("None", None, n)
  \/ Len(z.txt[d]) > 1 /\ v = Verdict("PermError", None, n)
  \/ /\ Len(z.txt[d]) = 1
     /\ \E k \in 1 .. Len(RecordOf(z, d)) + 1, m \in Spendings :
          /\ PassedTo(z, known, d, n, k, m)
          /\ IF k <= Len(RecordOf(z, d))
             THEN Decided(z, known, d, RecordOf(z, d)[k], m, v)
             ELSE Ended(known, RecordOf(z, d), m, v)

Closed(z, known) ==
  \A d \in Domains, n \in Spendings, v \in Verdicts :
    Comes(z, known, d, n, v) => <<d, n, v>> \in known

\* The rules give v for an evaluation of d.
Follows(z, d, v) ==
  \A known \in SUBSET (Domains \X Spendings \X Verdicts) :
    Closed(z, known) => <<d, 0, v>> \in known

\* FR-SPF-2 to FR-SPF-5: over a DNS that neither errs nor changes, the verdict of
\* the evaluator, its mechanism and its lookup count follow from the rules, and
\* nothing else does.
VerdictFollows ==
  pc = "done" /\ faults = 0 =>
    {v \in Verdicts : Follows(zone, Top.domain, v)} =
      {Verdict(outcome.code, outcome.mechanism, count)}
=============================================================================
