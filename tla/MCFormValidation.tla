-------------------------- MODULE MCFormValidation --------------------------
(***************************************************************************)
(* Pages for TLC.                                                          *)
(***************************************************************************)
EXTENDS FormValidation, TLC

CONSTANTS password, again, other, mail, tick,    \* fields
          account, order, pw,                     \* prefixes and leaves of names
          blank, one, n1, n2, n5, n10, word, odd, \* texts
          letters,                                \* a pattern
          lengths, numbers, passwords, remotes, late, twice, lower, served  \* pages

MCName ==
  password :> [prefix |-> account, leaf |-> pw] @@ other :> [prefix |-> order, leaf |-> pw] @@
  again :> [prefix |-> account, leaf |-> again] @@ mail :> [prefix |-> account, leaf |-> mail] @@
  tick :> [prefix |-> account, leaf |-> tick]
MCKind == [f \in Fields |-> IF f = tick THEN "checkbox" ELSE "text"]

\* n10 is "10": as a string it comes before "2".  odd has one character that is
\* neither letter nor digit.
MCLength == blank :> 0 @@ one :> 1 @@ n1 :> 1 @@ n2 :> 1 @@ n5 :> 1 @@ n10 :> 2 @@ word :> 4 @@ odd :> 4
MCNumber == [x \in {blank, one, word, odd} |-> NaN] @@ n1 :> 1 @@ n2 :> 2 @@ n5 :> 5 @@ n10 :> 10
MCRank == blank :> 0 @@ n1 :> 1 @@ n10 :> 2 @@ n2 :> 3 @@ n5 :> 4 @@ odd :> 5 @@ one :> 6 @@ word :> 7
MCNonWord == [x \in Texts |-> IF x = odd THEN 1 ELSE 0]
MCPlace == password :> 1 @@ again :> 2 @@ other :> 3 @@ mail :> 4 @@ tick :> 5
MCWhole == letters :> {one, word}
MCFormat == [m \in Formats |-> IF m \in {"number", "digits"} THEN {n1, n2, n5, n10}
                               ELSE IF m = "email" THEN {odd} ELSE {}]

NoParams == [p \in {} |-> NoParam]
Sibling(leaf) == [relative |-> TRUE, prefix |-> None, leaf |-> leaf]
First == [relative |-> FALSE, prefix |-> account, leaf |-> pw]

PageWith(fields, added, attributes, typed, accepted, refused, summary) ==
  [fields |-> fields, late |-> added,
   attributes |-> [f \in Fields |-> IF f \in DOMAIN attributes THEN attributes[f] ELSE NoParams],
   rendered |-> [f \in Fields |-> blank],
   typed |-> typed,
   accepted |-> [f \in Fields |-> IF f \in DOMAIN accepted THEN accepted[f] ELSE {}],
   refused |-> refused, summary |-> summary]

Simple(attributes, typed, refused, summary) ==
  PageWith(DOMAIN attributes, {}, attributes, typed, NoParams, refused, summary)

\* Bounds of lengths, one field with a minimum, one with a maximum, one with both.
LengthsPage ==
  Simple(password :> [required |-> NoParams, minlength |-> [min |-> n2]] @@
         again :> [length |-> [max |-> n2]] @@
         mail :> [length |-> [min |-> n2, max |-> n5], email |-> NoParams],
         password :> {blank, one, word} @@ again :> {blank, n10, word} @@ mail :> {blank, one, odd},
         {password}, TRUE)

\* A range, formats, two inputs without attributes, one of which is added by a script,
\* and a checkbox, at which the server has put a message that a check takes away.
NumbersPage ==
  PageWith({password, again, tick, mail}, {other},
         password :> [range |-> [min |-> n2, max |-> n10], number |-> NoParams] @@
         again :> [maxlength |-> [max |-> n1], digits |-> NoParams, required |-> NoParams] @@
         tick :> [required |-> NoParams] @@ mail :> NoParams,
         password :> {blank, n1, n10, word} @@ again :> {n1, n10} @@ tick :> {blank, one} @@ mail :> {one} @@ other :> {one},
         NoParams, {tick}, TRUE)

\* A password typed twice, beside another form's part, whose password is to be the
\* same: leaving the first one checks just one of the others.
PasswordPage ==
  Simple(password :> [password |-> [min |-> n2, nonalphamin |-> n1]] @@
         again :> [equalto |-> [other |-> Sibling(pw)]] @@
         other :> [regex |-> [pattern |-> letters], equalto |-> [other |-> First]],
         password :> {odd, word} @@ again :> {odd, word} @@ other :> {blank, odd, word},
         {again}, FALSE)

\* Two fields the server is asked about, one of them together with the other.
RemotePage ==
  PageWith({password, mail}, {},
       password :> [required |-> NoParams, remote |-> [additionalfields |-> {Sibling(mail)}]] @@
       mail :> [remote |-> NoParams],
       password :> {blank, one, word} @@ mail :> {blank, one, odd},
       password :> {password :> one @@ mail :> one, password :> word @@ mail :> blank,
                    password :> word @@ mail :> odd} @@
       mail :> {mail :> one, mail :> odd},
       {}, TRUE)

\* Not among the pages of the run.  The first three are not Ordinary, and with any of
\* them OnlyValidFormsAreSent is refuted: the rules of a field that a script adds are
\* parsed but never reach the validator; of two attributes that make one rule the later
\* one wins; a lower bound alone is compared as a string.  On the last one the server
\* has put a message at a field without attributes, which no script checks: it stays,
\* and the summary of a refusal does not name it (RefusalIsExplained is refuted).
LatePage ==
  PageWith({password}, {again}, password :> [regex |-> [pattern |-> letters]] @@ again :> [required |-> NoParams],
       password :> {one} @@ again :> {word}, NoParams, {}, TRUE)
TwicePage ==
  Simple(password :> [length |-> [max |-> n1], maxlength |-> [max |-> n2]], password :> {n10, word}, {}, TRUE)
LowerPage ==
  Simple(password :> [range |-> [min |-> n2]], password :> {n1, n5, n10, word}, {}, TRUE)
ServedPage ==
  Simple(mail :> NoParams @@ again :> [required |-> NoParams],
         mail :> {one} @@ again :> {blank, one}, {mail}, TRUE)

MCContent ==
  lengths :> LengthsPage @@ numbers :> NumbersPage @@ passwords :> PasswordPage @@
  remotes :> RemotePage @@ late :> LatePage @@ twice :> TwicePage @@ lower :> LowerPage @@
  served :> ServedPage

ASSUME PagesOfTheRun ==
  /\ \A p \in Pages : Ordinary(Content[p]) /\ RefusedAreParsed(Content[p])
  /\ \A p \in {late, twice, lower} : ~Ordinary(Content[p])
  /\ ~RefusedAreParsed(Content[served])
=============================================================================
