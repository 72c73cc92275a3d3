------------------------ MODULE FormValidation_proofs ------------------------
(***************************************************************************)
(* Proofs about FormValidation.                                            *)
(*                                                                         *)
(* An event changes the form in one or two moves: a value is changed, some *)
(* fields are checked, an answer is taken in, ...  Moves are relations of  *)
(* two forms, and every step of the page is one or two of them             *)
(* (StepIsMoves); each part of the invariant is preserved by every move.   *)
(*                                                                         *)
(* TypeCorrect          any pages: the fields of the form, and the count   *)
(*                      of the pending checks (TypeInv)                    *)
(* RefusalsAreExplained the server refuses fields with attributes: the     *)
(*                      summary lists what the messages mark (RefusalInv)  *)
(* OnlyValidFormsGo     ordinary pages: what is sent was checked with the  *)
(*                      values it has (SentInv), and rules that are met    *)
(*                      are attributes that are obeyed (AdapterMeans)      *)
(* MessagesTellTheTruth ordinary pages: a message stands where a value is  *)
(*                      wrong (Truth)                                      *)
(* WaitsForAnAnswer     any pages: a form that waits has something to wait *)
(*                      for, and only an answer ends the wait (WaitInv)    *)
(***************************************************************************)
EXTENDS FormValidation, FiniteSetTheorems, TLAPS

FormNames ==
  {"value", "present", "options", "settings", "invalid", "submitted", "errorMap",
   "successList", "shown", "summary", "previous", "pending", "pendingRequest",
   "request", "formSubmitted", "watched", "checked", "sent"}

\* t differs from s in these fields at most.
Only(s, t, names) ==
  /\ DOMAIN t = FormNames
  /\ \A n \in FormNames \ names : t[n] = s[n]

Flags == {"formSubmitted", "sent", "summary"}

Wrong(s, S) == {f \in S : Result(s, f) = "error"}
Right(s, S) == {f \in S : Result(s, f) = "ok"}
Asking(s, S) == {f \in S : Result(s, f) = "pending"}

\* The remote checks of a form once the fields of S have asked.
PreviousNow(s, S) ==
  [f \in Fields |-> IF f \in Asking(s, S)
                    THEN [old |-> Key(s, f), valid |-> s.previous[f].valid]
                    ELSE s.previous[f]]
RequestNow(s, S) ==
  [f \in Fields |-> IF f \in Asking(s, S)
                    THEN [key |-> Key(s, f), linked |-> TRUE]
                    ELSE s.request[f]]

-----------------------------------------------------------------------------
(***************************************************************************)
(* The moves                                                               *)
(***************************************************************************)

\* The fields of S are checked.
After(s, S, t) ==
  /\ Only(s, t, Flags \cup {"pendingRequest", "pending", "errorMap", "successList",
                            "submitted", "previous", "request", "watched", "checked",
                            "shown", "invalid"})
  /\ t.pendingRequest = s.pendingRequest + Cardinality(Asking(s, S) \ s.pending)
  /\ t.pending = s.pending \cup Asking(s, S)
  /\ t.errorMap \subseteq Wrong(s, S)
  /\ t.successList \subseteq Right(s, S)
  /\ t.submitted = s.submitted \cup Wrong(s, S)
  /\ t.previous = PreviousNow(s, S)
  /\ t.request = RequestNow(s, S)
  /\ t.watched \subseteq s.watched \cup S
  /\ t.checked = s.checked \cup S
  /\ t.shown = (s.shown \cup Wrong(s, S)) \ Right(s, S)
  /\ DOMAIN t.invalid \subseteq DOMAIN s.invalid \cup S

\* The fields of s whose rules read f.
ReadersIn(s, f) ==
  {g \in DOMAIN s.settings :
     LET rules == Rules(s, g)
     IN  \/ g = f
         \/ "equalTo" \in DOMAIN rules /\ rules["equalTo"] = f
         \/ "remote" \in DOMAIN rules /\ f \in rules["remote"]}

\* The value of f becomes v.
Changed(s, f, v, t) ==
  /\ Only(s, t, {"value", "checked"})
  /\ t.value = [s.value EXCEPT ![f] = v]
  /\ t.checked = s.checked \ ReadersIn(s, f)

\* The form is reset.
Forgotten(p, s, t) ==
  /\ Only(s, t, Flags \cup {"value", "invalid", "submitted", "errorMap", "successList",
                            "previous", "request", "shown", "checked"})
  /\ t.sent = s.sent
  /\ t.value = [f \in DOMAIN s.value |-> p.rendered[f]]
  /\ t.invalid = [f \in {} |-> TRUE]
  /\ t.submitted = {} /\ t.errorMap = {} /\ t.successList = {}
  /\ t.shown = {} /\ t.checked = {}
  /\ t.previous = [f \in Fields |-> NothingAsked]
  /\ t.request = [f \in Fields |->
                    IF s.request[f] = None THEN None
                    ELSE [s.request[f] EXCEPT !.linked = FALSE]]

\* The field f is added, and parsed.
Added(p, s, f, t) ==
  LET marked == {g \in t.present : DOMAIN p.attributes[g] # {}}
  IN  /\ Only(s, t, {"present", "options", "settings"})
      /\ t.present = s.present \cup {f}
      /\ IF marked = {}
         THEN t.options = s.options /\ t.settings = s.settings
         ELSE /\ t.options = [g \in marked |-> ParseElement(g, p.attributes[g])]
              /\ t.settings = IF s.settings = NoRules THEN t.options ELSE s.settings

\* The answer about f is taken in, shown, and no longer waited for.
Told(p, s, f, t) ==
  LET r == s.request[f]
      valid == r.key \in p.accepted[f]
  IN  /\ r # None
      /\ Only(s, t, Flags \cup {"request", "previous", "invalid", "errorMap", "successList",
                                "checked", "shown", "pending", "pendingRequest"})
      /\ t.request = [s.request EXCEPT ![f] = None]
      /\ t.previous = [s.previous EXCEPT ![f].valid = IF r.linked THEN valid ELSE @]
      /\ DOMAIN t.invalid = DOMAIN s.invalid \cup {f}
      /\ t.errorMap = IF valid THEN {} ELSE s.errorMap \cup {f}
      /\ t.successList = IF valid THEN {f} ELSE s.successList \ {f}
      /\ t.checked = IF r.key = Key(s, f) /\ Failing(s, f) = {}
                     THEN s.checked ELSE s.checked \ {f}
      /\ t.shown = (s.shown \cup t.errorMap) \ t.successList
      /\ t.pending = s.pending \ {f}
      /\ t.pendingRequest = IF s.pendingRequest = 0 THEN 0 ELSE s.pendingRequest - 1

\* The request of f is lost.
Lose(s, f, t) ==
  /\ Only(s, t, {"request"})
  /\ t.request = [s.request EXCEPT ![f] = None]

Move(p, s, t) ==
  \/ Only(s, t, Flags)
  \/ \E S \in SUBSET s.present : After(s, S, t)
  \/ \E f \in s.present : \E v \in p.typed[f] : Changed(s, f, v, t)
  \/ Forgotten(p, s, t)
  \/ \E f \in p.late : Added(p, s, f, t)
  \/ \E f \in s.present : Told(p, s, f, t)
  \/ \E f \in s.present : Lose(s, f, t)

-----------------------------------------------------------------------------
(***************************************************************************)
(* The operators of the validator as moves                                 *)
(***************************************************************************)

\* What Checked makes of the fields of a form.
ChecksTo(s, S, t) ==
  /\ DOMAIN t = FormNames
  /\ \A n \in FormNames \ {"pendingRequest", "pending", "errorMap", "successList",
                           "submitted", "previous", "request", "watched", "checked"} :
       t[n] = s[n]
  /\ t.pendingRequest = s.pendingRequest + Cardinality(Asking(s, S) \ s.pending)
  /\ t.pending = s.pending \cup Asking(s, S)
  /\ t.errorMap = Wrong(s, S)
  /\ t.successList = Right(s, S)
  /\ t.submitted = s.submitted \cup Wrong(s, S)
  /\ t.previous = PreviousNow(s, S)
  /\ t.request = RequestNow(s, S)
  /\ t.watched \subseteq s.watched \cup S
  /\ t.checked = s.checked \cup S

LEMMA CheckedFields ==
  ASSUME NEW s, DOMAIN s = FormNames, NEW S
  PROVE  ChecksTo(s, S, Checked(s, S))
<1> DEFINE count == s.pendingRequest + Cardinality(Asking(s, S) \ s.pending)
           waited == s.pending \cup Asking(s, S)
           errors == Wrong(s, S)
           successes == Right(s, S)
           bad == s.submitted \cup Wrong(s, S)
           previous == PreviousNow(s, S)
           request == RequestNow(s, S)
           watched == s.watched \cup NewlyWatched(s, S)
           checked == s.checked \cup S
           started == [s EXCEPT !.pendingRequest = count, !.pending = waited]
<1>1. started = StartRequest(s, Asking(s, S))
  BY DEF StartRequest
<1>2. /\ DOMAIN started = FormNames
      /\ started.pendingRequest = count /\ started.pending = waited
      /\ \A n \in FormNames \ {"pendingRequest", "pending"} : started[n] = s[n]
  <2> HIDE DEF count, waited
  <2> QED
    BY DEF FormNames
<1>3. Checked(s, S)
      = [started EXCEPT !.errorMap = errors, !.successList = successes, !.submitted = bad,
                        !.previous = previous, !.request = request, !.watched = watched,
                        !.checked = checked]
  <2>1. /\ started.submitted = s.submitted /\ started.previous = s.previous
        /\ started.request = s.request /\ started.watched = s.watched
        /\ started.checked = s.checked
    BY <1>2 DEF FormNames
  <2> HIDE DEF started
  <2> QED
    BY <1>1, <2>1 DEF Checked, Asking, Wrong, Right, PreviousNow, RequestNow
<1> HIDE DEF count, waited, errors, successes, bad, previous, request, watched, checked, started
<1>4. LET t == [started EXCEPT !.errorMap = errors, !.successList = successes, !.submitted = bad,
                        !.previous = previous, !.request = request, !.watched = watched,
                        !.checked = checked]
      IN  /\ DOMAIN t = FormNames
          /\ t.errorMap = errors /\ t.successList = successes /\ t.submitted = bad
          /\ t.previous = previous /\ t.request = request /\ t.watched = watched
          /\ t.checked = checked
          /\ \A n \in FormNames \ {"errorMap", "successList", "submitted", "previous",
                                   "request", "watched", "checked"} : t[n] = started[n]
  BY <1>2 DEF FormNames
<1>5. /\ Checked(s, S).pendingRequest = count /\ Checked(s, S).pending = waited
      /\ \A n \in FormNames \ {"pendingRequest", "pending", "errorMap", "successList",
                               "submitted", "previous", "request", "watched", "checked"} :
           Checked(s, S)[n] = s[n]
  BY <1>2, <1>3, <1>4 DEF FormNames
<1>6. watched \subseteq s.watched \cup S
  BY DEF watched, NewlyWatched
<1> QED
  BY <1>3, <1>4, <1>5, <1>6
     DEF ChecksTo, count, waited, errors, successes, bad, previous, request, watched, checked

\* Showing errors changes the marks of the fields and nothing else.
LEMMA ShowErrorsFields ==
  ASSUME NEW s, DOMAIN s = FormNames
  PROVE  /\ Only(s, ShowErrors(s), {"shown"})
         /\ ShowErrors(s).shown = (s.shown \cup s.errorMap) \ s.successList
<1> DEFINE u == [s EXCEPT !.shown = @ \cup s.errorMap]
<1>1. /\ DOMAIN u = FormNames
      /\ u.shown = s.shown \cup s.errorMap
      /\ u.successList = s.successList
      /\ \A n \in FormNames \ {"shown"} : u[n] = s[n]
  BY DEF FormNames
<1>2. ShowErrors(s) = [u EXCEPT !.shown = @ \ u.successList]
  BY DEF ShowErrors, OnSuccess, OnError
<1> HIDE DEF u
<1> QED
  BY <1>1, <1>2 DEF FormNames, Only

LEMMA ElementAfter ==
  ASSUME NEW s, DOMAIN s = FormNames, NEW f
  PROVE  /\ After(s, {f}, Element(s, f))
         /\ Element(s, f).sent = s.sent /\ Element(s, f).formSubmitted = s.formSubmitted
<1> DEFINE c == Checked(s, {f})
           t == ShowErrors(c)
           invalid == [g \in DOMAIN t.invalid \cup {f} |->
                         IF g = f THEN f \in t.errorMap ELSE t.invalid[g]]
           e == [t EXCEPT !.invalid = invalid]
<1>1. ChecksTo(s, {f}, c)
  BY CheckedFields
<1>2. Only(c, t, {"shown"}) /\ t.shown = (c.shown \cup c.errorMap) \ c.successList
  <2> HIDE DEF c
  <2> QED
    BY <1>1, ShowErrorsFields DEF ChecksTo
<1>3. e = Element(s, f)
  BY DEF Element
<1>4. DOMAIN invalid = DOMAIN t.invalid \cup {f}
  <2> HIDE DEF t
  <2> QED
    OBVIOUS
<1> HIDE DEF invalid, t, c
<1>5. /\ DOMAIN e = FormNames
      /\ e.invalid = invalid
      /\ \A n \in FormNames \ {"invalid"} : e[n] = t[n]
  BY <1>2 DEF FormNames, Only
<1> HIDE DEF e
<1>6. /\ e.pendingRequest = c.pendingRequest /\ e.pending = c.pending
      /\ e.submitted = c.submitted /\ e.previous = c.previous /\ e.request = c.request
      /\ e.checked = c.checked /\ e.watched = c.watched /\ e.shown = t.shown
      /\ e.errorMap = c.errorMap /\ e.successList = c.successList
      /\ t.invalid = c.invalid
  BY <1>2, <1>5 DEF FormNames, Only
<1>7. c.shown = s.shown /\ c.invalid = s.invalid
  BY <1>1 DEF ChecksTo, FormNames
<1>8. /\ e.shown = (s.shown \cup Wrong(s, {f})) \ Right(s, {f})
      /\ e.errorMap \subseteq Wrong(s, {f}) /\ e.successList \subseteq Right(s, {f})
      /\ DOMAIN e.invalid = DOMAIN s.invalid \cup {f}
  BY <1>1, <1>2, <1>4, <1>5, <1>6, <1>7 DEF ChecksTo
<1>9. Only(s, e, Flags \cup {"pendingRequest", "pending", "errorMap", "successList",
                            "submitted", "previous", "request", "watched", "checked",
                            "shown", "invalid"})
  BY <1>1, <1>2, <1>5 DEF FormNames, Only, ChecksTo
<1>10. After(s, {f}, e) /\ e.sent = s.sent /\ e.formSubmitted = s.formSubmitted
  <2>1. e.sent = s.sent /\ e.formSubmitted = s.formSubmitted
    BY <1>1, <1>2, <1>5 DEF FormNames, Only, ChecksTo
  <2> QED
    BY <1>1, <1>6, <1>8, <1>9, <2>1 DEF After, ChecksTo
<1> QED
  BY <1>3, <1>10

\* What OnErrors does to each field of a form.
LEMMA OnErrorsFields ==
  ASSUME NEW s, DOMAIN s = FormNames
  PROVE  /\ Only(s, OnErrors(s), {"summary"})
         /\ This.summary /\ s.errorMap # {}
            => OnErrors(s).summary = [on |-> TRUE, list |-> s.errorMap]
BY DEF OnErrors, FormNames, Only

\* All fields with rules are checked; the summary lists what is wrong.
LEMMA FormAfter ==
  ASSUME NEW s, DOMAIN s = FormNames
  PROVE  /\ After(s, DOMAIN s.settings, Form(s))
         /\ Form(s).errorMap = Wrong(s, DOMAIN s.settings)
         /\ Form(s).successList = Right(s, DOMAIN s.settings)
         /\ Form(s).sent = s.sent /\ Form(s).formSubmitted = s.formSubmitted
         /\ This.summary /\ Form(s).errorMap # {}
            => Form(s).summary = [on |-> TRUE, list |-> Form(s).errorMap]
<1> DEFINE F == DOMAIN s.settings
           c == Checked(s, F)
           invalid == [f \in c.errorMap |-> TRUE]
           u == [c EXCEPT !.invalid = invalid]
           w == IF u.errorMap # {} THEN OnErrors(u) ELSE u
           e == ShowErrors(w)
<1>1. e = Form(s)
  BY DEF Form
<1>2. ChecksTo(s, F, c)
  BY CheckedFields
<1>5. DOMAIN invalid = c.errorMap
  <2> HIDE DEF c
  <2> QED
    OBVIOUS
<1> HIDE DEF c, invalid
<1>6. /\ DOMAIN u = FormNames /\ u.invalid = invalid
      /\ \A n \in FormNames \ {"invalid"} : u[n] = c[n]
  BY <1>2 DEF FormNames, ChecksTo
<1> HIDE DEF u
<1>7. /\ Only(u, w, {"summary"})
      /\ This.summary /\ u.errorMap # {} => w.summary = [on |-> TRUE, list |-> u.errorMap]
  BY <1>6, OnErrorsFields DEF Only
<1> HIDE DEF w
<1>8. Only(w, e, {"shown"}) /\ e.shown = (w.shown \cup w.errorMap) \ w.successList
  BY <1>7, ShowErrorsFields DEF Only
<1> HIDE DEF e, F
<1>9. /\ e.pendingRequest = c.pendingRequest /\ e.pending = c.pending
      /\ e.submitted = c.submitted /\ e.previous = c.previous /\ e.request = c.request
      /\ e.checked = c.checked /\ e.watched = c.watched
      /\ e.errorMap = c.errorMap /\ e.successList = c.successList
      /\ e.sent = c.sent /\ e.formSubmitted = c.formSubmitted /\ e.summary = w.summary
      /\ e.invalid = invalid
      /\ u.errorMap = c.errorMap
  BY <1>6, <1>7, <1>8 DEF FormNames, Only
<1>10. w.shown = c.shown /\ w.errorMap = c.errorMap /\ w.successList = c.successList
  BY <1>6, <1>7 DEF FormNames, Only
<1>11. c.shown = s.shown /\ c.sent = s.sent /\ c.formSubmitted = s.formSubmitted
  BY <1>2 DEF FormNames, ChecksTo
<1>12. Only(s, e, Flags \cup {"pendingRequest", "pending", "errorMap", "successList",
                            "submitted", "previous", "request", "watched", "checked",
                            "shown", "invalid"})
  BY <1>2, <1>6, <1>7, <1>8 DEF FormNames, Only, Flags, ChecksTo
<1>13. Wrong(s, F) \subseteq F /\ DOMAIN e.invalid \subseteq F
  BY <1>2, <1>5, <1>9 DEF Wrong, ChecksTo
<1>14. After(s, F, e)
  BY <1>2, <1>8, <1>9, <1>10, <1>11, <1>12, <1>13 DEF After, ChecksTo
<1> QED
  BY <1>1, <1>2, <1>7, <1>9, <1>11, <1>14 DEF F, ChecksTo

-----------------------------------------------------------------------------
(***************************************************************************)
(* The types                                                               *)
(***************************************************************************)
Shape(p, s) ==
  /\ DOMAIN s = FormNames
  /\ s.value \in [Fields -> Texts]
  /\ p.fields \subseteq s.present
  /\ s.present \subseteq p.fields \cup p.late
  /\ DOMAIN s.request = Fields
  /\ DOMAIN s.previous = Fields
  /\ \A f \in Fields : DOMAIN s.previous[f] = {"old", "valid"}
  /\ \A f \in Fields : s.request[f] # None => DOMAIN s.request[f] = {"key", "linked"}

\* The validator counts the requests it waits for, the ones under way among them.
Waits(s) ==
  /\ IsFiniteSet(s.pending)
  /\ s.pendingRequest = Cardinality(s.pending)
  /\ \A f \in Fields : s.request[f] # None => f \in s.pending

Lists(p, s) ==
  /\ DOMAIN s.settings \subseteq DOMAIN s.options
  /\ DOMAIN s.options \subseteq {f \in s.present : DOMAIN p.attributes[f] # {}}
  /\ DOMAIN s.invalid \subseteq s.present
  /\ s.submitted \cup s.checked \cup s.watched \subseteq s.present
  /\ s.errorMap \cap s.successList = {}

LEMMA PageOK ==
  ASSUME page \in Pages
  PROVE  ContentOK(This)
BY ConstantsAssumption DEF This

\* A field is not asked about and refused at once.
LEMMA ResultsDiffer ==
  ASSUME NEW s, NEW S
  PROVE  /\ Wrong(s, S) \subseteq S /\ Right(s, S) \subseteq S /\ Asking(s, S) \subseteq S
         /\ Wrong(s, S) \cap Right(s, S) = {}
         /\ Wrong(s, S) \cap Asking(s, S) = {}
         /\ Right(s, S) \cap Asking(s, S) = {}
BY DEF Wrong, Right, Asking

LEMMA MoveShape ==
  ASSUME NEW p, ContentOK(p), NEW s, Shape(p, s), NEW t, Move(p, s, t)
  PROVE  Shape(p, t)
<1>1. CASE Only(s, t, Flags)
  BY <1>1 DEF Only, Flags, FormNames, Shape
<1>2. ASSUME NEW S \in SUBSET s.present, After(s, S, t) PROVE Shape(p, t)
  <2>1. /\ DOMAIN t = FormNames /\ t.value = s.value /\ t.present = s.present
        /\ t.request = RequestNow(s, S) /\ t.previous = PreviousNow(s, S)
    BY <1>2 DEF After, Only, Flags, FormNames
  <2>2. DOMAIN t.request = Fields /\ DOMAIN t.previous = Fields
    BY <2>1 DEF RequestNow, PreviousNow
  <2>3. \A f \in Fields : DOMAIN t.previous[f] = {"old", "valid"}
    BY <2>1 DEF PreviousNow, Shape
  <2>4. \A f \in Fields : t.request[f] # None => DOMAIN t.request[f] = {"key", "linked"}
    BY <2>1 DEF RequestNow, Shape
  <2> QED
    BY <2>1, <2>2, <2>3, <2>4 DEF Shape
<1>3. ASSUME NEW f \in s.present, NEW v \in p.typed[f], Changed(s, f, v, t)
      PROVE  Shape(p, t)
  <2>1. v \in Texts
    BY DEF Shape, ContentOK
  <2> QED
    BY ZenonT(30), <1>3, <2>1 DEF Changed, Only, FormNames, Shape
<1>4. CASE Forgotten(p, s, t)
  <2>1. /\ DOMAIN t = FormNames /\ t.present = s.present
        /\ t.value = [f \in DOMAIN s.value |-> p.rendered[f]]
        /\ t.previous = [f \in Fields |-> NothingAsked]
        /\ t.request = [f \in Fields |->
                          IF s.request[f] = None THEN None
                          ELSE [s.request[f] EXCEPT !.linked = FALSE]]
    BY <1>4 DEF Forgotten, Only, Flags, FormNames
  <2>2. t.value \in [Fields -> Texts]
    BY <2>1 DEF Shape, ContentOK
  <2>3. \A f \in Fields : DOMAIN t.previous[f] = {"old", "valid"}
    BY <2>1 DEF NothingAsked
  <2>4. \A f \in Fields : t.request[f] # None => DOMAIN t.request[f] = {"key", "linked"}
    BY <2>1 DEF Shape
  <2>5. DOMAIN t.previous = Fields /\ DOMAIN t.request = Fields
    BY <2>1
  <2> QED
    BY <2>1, <2>2, <2>3, <2>4, <2>5 DEF Shape
<1>5. ASSUME NEW f \in p.late, Added(p, s, f, t) PROVE Shape(p, t)
  BY <1>5 DEF Added, Only, FormNames, Shape
<1>6. ASSUME NEW f \in s.present, Told(p, s, f, t) PROVE Shape(p, t)
  <2>1. /\ DOMAIN t = FormNames /\ t.present = s.present /\ t.value = s.value
    BY <1>6 DEF Told, Only, Flags, FormNames
  <2>2. /\ t.request = [s.request EXCEPT ![f] = None]
        /\ DOMAIN t.previous = DOMAIN s.previous
        /\ \A g \in DOMAIN s.previous : DOMAIN t.previous[g] = DOMAIN s.previous[g]
    BY <1>6 DEF Told
  <2> QED
    BY <2>1, <2>2 DEF Shape
<1>7. ASSUME NEW f \in s.present, Lose(s, f, t) PROVE Shape(p, t)
  BY <1>7 DEF Lose, Only, FormNames, Shape
<1> QED
  BY <1>1, <1>2, <1>3, <1>4, <1>5, <1>6, <1>7 DEF Move

LEMMA DisjointUnion ==
  ASSUME NEW S, NEW T, IsFiniteSet(S), IsFiniteSet(T), S \cap T = {}
  PROVE  /\ IsFiniteSet(S \cup T)
         /\ Cardinality(S \cup T) = Cardinality(S) + Cardinality(T)
<1>1. Cardinality(S) \in Nat /\ Cardinality(T) \in Nat
  BY FS_CardinalityType
<1> QED
  BY <1>1, FS_Union, FS_EmptySet

LEMMA MoveWaits ==
  ASSUME NEW p, ContentOK(p), NEW s, Shape(p, s), Waits(s), NEW t, Move(p, s, t)
  PROVE  Waits(t)
<1>1. CASE Only(s, t, Flags)
  BY <1>1 DEF Only, Flags, FormNames, Waits
<1>2. ASSUME NEW S \in SUBSET s.present, After(s, S, t) PROVE Waits(t)
  <2> DEFINE new == Asking(s, S) \ s.pending
  <2>1. IsFiniteSet(new)
    <3>1. new \in SUBSET Fields
      BY ResultsDiffer DEF Shape, ContentOK
    <3> QED
      BY <3>1, FS_Subset, ConstantsAssumption
  <2>2. s.pending \cap new = {} /\ s.pending \cup new = s.pending \cup Asking(s, S)
    OBVIOUS
  <2>3. /\ IsFiniteSet(s.pending \cup new)
        /\ Cardinality(s.pending \cup new) = Cardinality(s.pending) + Cardinality(new)
    <3> HIDE DEF new
    <3> QED
      BY <2>1, <2>2, DisjointUnion DEF Waits
  <2>4. t.pending = s.pending \cup new /\ t.pendingRequest = s.pendingRequest + Cardinality(new)
    BY <1>2, <2>2 DEF After
  <2>5. t.request = RequestNow(s, S)
    BY <1>2 DEF After
  <2>6. \A f \in Fields : t.request[f] # None => f \in s.pending \/ f \in Asking(s, S)
    BY <2>5 DEF RequestNow, Waits
  <2> QED
    BY <2>2, <2>3, <2>4, <2>6 DEF Waits
<1>3. ASSUME NEW f \in s.present, NEW v \in p.typed[f], Changed(s, f, v, t) PROVE Waits(t)
  BY <1>3 DEF Changed, Only, FormNames, Waits
<1>4. CASE Forgotten(p, s, t)
  <2>1. t.pending = s.pending /\ t.pendingRequest = s.pendingRequest
    BY <1>4 DEF Forgotten, Only, Flags, FormNames
  <2>2. \A f \in Fields : t.request[f] # None => s.request[f] # None
    BY <1>4 DEF Forgotten
  <2> QED
    BY <2>1, <2>2 DEF Waits
<1>5. ASSUME NEW f \in p.late, Added(p, s, f, t) PROVE Waits(t)
  BY <1>5 DEF Added, Only, FormNames, Waits
<1>6. ASSUME NEW f \in s.present, Told(p, s, f, t) PROVE Waits(t)
  <2>1. /\ t.request = [s.request EXCEPT ![f] = None]
        /\ t.pending = s.pending \ {f}
        /\ t.pendingRequest = IF s.pendingRequest = 0 THEN 0 ELSE s.pendingRequest - 1
        /\ s.request[f] # None
    BY <1>6 DEF Told
  <2>2. f \in Fields /\ f \in s.pending
    BY <2>1 DEF Shape, ContentOK, Waits
  <2>3. /\ IsFiniteSet(t.pending)
        /\ Cardinality(t.pending) = Cardinality(s.pending) - 1
    BY <2>1, <2>2, FS_RemoveElement DEF Waits
  <2>4. Cardinality(t.pending) \in Nat /\ Cardinality(s.pending) \in Nat
    BY <2>3, FS_CardinalityType DEF Waits
  <2>5. \A g \in Fields : t.request[g] # None => g # f /\ s.request[g] # None
    BY <2>1, <2>2 DEF Shape
  <2> QED
    BY <2>1, <2>3, <2>4, <2>5 DEF Waits
<1>7. ASSUME NEW f \in s.present, Lose(s, f, t) PROVE Waits(t)
  <2>1. t.pending = s.pending /\ t.pendingRequest = s.pendingRequest
    BY <1>7 DEF Lose, Only, FormNames
  <2>2. \A g \in Fields : t.request[g] # None => s.request[g] # None
    BY <1>7 DEF Lose, Shape
  <2> QED
    BY <2>1, <2>2 DEF Waits
<1> QED
  BY <1>1, <1>2, <1>3, <1>4, <1>5, <1>6, <1>7 DEF Move

LEMMA MoveLists ==
  ASSUME NEW p, ContentOK(p), NEW s, Shape(p, s), Lists(p, s), NEW t, Move(p, s, t)
  PROVE  Lists(p, t)
<1>1. CASE Only(s, t, Flags)
  BY <1>1 DEF Only, Flags, FormNames, Lists
<1>2. ASSUME NEW S \in SUBSET s.present, After(s, S, t) PROVE Lists(p, t)
  <2>1. t.settings = s.settings /\ t.options = s.options /\ t.present = s.present
    BY <1>2 DEF After, Only, Flags, FormNames
  <2>2. /\ DOMAIN t.invalid \subseteq DOMAIN s.invalid \cup S
        /\ t.submitted = s.submitted \cup Wrong(s, S)
        /\ t.checked = s.checked \cup S /\ t.watched \subseteq s.watched \cup S
        /\ t.errorMap \subseteq Wrong(s, S) /\ t.successList \subseteq Right(s, S)
    BY <1>2 DEF After
  <2>3. Wrong(s, S) \subseteq S /\ Wrong(s, S) \cap Right(s, S) = {}
    BY ResultsDiffer
  <2> QED
    BY <2>1, <2>2, <2>3 DEF Lists
<1>3. ASSUME NEW f \in s.present, NEW v \in p.typed[f], Changed(s, f, v, t) PROVE Lists(p, t)
  <2>1. t.checked \subseteq s.checked
    BY <1>3 DEF Changed
  <2> QED
    BY <1>3, <2>1 DEF Changed, Only, FormNames, Lists
<1>4. CASE Forgotten(p, s, t)
  <2>1. DOMAIN t.invalid = {}
    BY <1>4 DEF Forgotten
  <2> QED
    BY <1>4, <2>1 DEF Forgotten, Only, Flags, FormNames, Lists
<1>5. ASSUME NEW f \in p.late, Added(p, s, f, t) PROVE Lists(p, t)
  <2> DEFINE marked == {g \in t.present : DOMAIN p.attributes[g] # {}}
  <2>1. /\ t.present = s.present \cup {f} /\ t.invalid = s.invalid
        /\ t.submitted = s.submitted /\ t.checked = s.checked /\ t.watched = s.watched
        /\ t.errorMap = s.errorMap /\ t.successList = s.successList
    BY <1>5 DEF Added, Only, FormNames
  <2>2. IF marked = {}
        THEN t.options = s.options /\ t.settings = s.settings
        ELSE /\ t.options = [g \in marked |-> ParseElement(g, p.attributes[g])]
             /\ t.settings = IF s.settings = NoRules THEN t.options ELSE s.settings
    BY <1>5 DEF Added
  <2>3. DOMAIN s.options \subseteq marked
    BY <2>1 DEF Lists
  <2>4. marked # {} => DOMAIN t.options = marked
    BY <2>2
  <2>5. DOMAIN t.settings \subseteq DOMAIN t.options /\ DOMAIN t.options \subseteq marked
    <3> HIDE DEF marked
    <3> QED
      BY <2>2, <2>3, <2>4 DEF Lists
  <2> QED
    BY <2>1, <2>5 DEF Lists
<1>6. ASSUME NEW f \in s.present, Told(p, s, f, t) PROVE Lists(p, t)
  <2>1. /\ t.present = s.present /\ t.submitted = s.submitted /\ t.watched = s.watched
        /\ t.settings = s.settings /\ t.options = s.options
    BY <1>6 DEF Told, Only, Flags, FormNames
  <2>2. /\ DOMAIN t.invalid = DOMAIN s.invalid \cup {f}
        /\ t.checked \subseteq s.checked
        /\ \/ t.errorMap = {}
           \/ t.errorMap = s.errorMap \cup {f} /\ t.successList = s.successList \ {f}
    BY <1>6 DEF Told
  <2> QED
    BY <2>1, <2>2 DEF Lists
<1>7. ASSUME NEW f \in s.present, Lose(s, f, t) PROVE Lists(p, t)
  BY <1>7 DEF Lose, Only, FormNames, Lists
<1> QED
  BY <1>1, <1>2, <1>3, <1>4, <1>5, <1>6, <1>7 DEF Move

-----------------------------------------------------------------------------
(***************************************************************************)
(* Every step of the page is one or two moves                              *)
(***************************************************************************)

\* What the last move of a step, from w to t, has to do with the user's wish to
\* submit.
Outcome(p, w, t, l) ==
  /\ l \in {"none", "sent", "waits", "refused", "refusedLate"}
  /\ t.sent => /\ After(w, DOMAIN w.settings, t)
               /\ Wrong(w, DOMAIN w.settings) = {}
               /\ ~(t.pendingRequest > 0)
  /\ l = "refused" => /\ After(w, DOMAIN w.settings, t)
                      /\ t.errorMap = Wrong(w, DOMAIN w.settings)
  /\ l = "refusedLate" => t.errorMap \subseteq t.shown
  /\ l \in {"refused", "refusedLate"} =>
       /\ t.errorMap # {}
       /\ p.summary => t.summary = [on |-> TRUE, list |-> t.errorMap]

TwoMoves ==
  \E w : /\ Move(This, form, w)
         /\ Move(This, w, form')
         /\ Outcome(This, w, form', last')

LEMMA OnlyItself ==
  ASSUME NEW s, DOMAIN s = FormNames, NEW names
  PROVE  Only(s, s, names)
BY DEF Only

\* The flags do not matter to a check.
LEMMA AfterFlags ==
  ASSUME NEW s, NEW S, NEW t, After(s, S, t), NEW u, Only(t, u, Flags)
  PROVE  After(s, S, u)
<1>1. /\ u.pendingRequest = t.pendingRequest /\ u.pending = t.pending
      /\ u.errorMap = t.errorMap /\ u.successList = t.successList
      /\ u.submitted = t.submitted /\ u.previous = t.previous /\ u.request = t.request
      /\ u.watched = t.watched /\ u.checked = t.checked /\ u.shown = t.shown
      /\ u.invalid = t.invalid
  BY DEF Only, Flags, FormNames
<1>2. Only(s, u, Flags \cup {"pendingRequest", "pending", "errorMap", "successList",
                            "submitted", "previous", "request", "watched", "checked",
                            "shown", "invalid"})
  BY DEF After, Only, Flags, FormNames
<1> QED
  BY <1>1, <1>2 DEF After

LEMMA EditMoves ==
  ASSUME Shape(This, form), ~form.sent,
         NEW f \in form.present, NEW v \in This.typed[f], Edit(f, v)
  PROVE  TwoMoves
<1> DEFINE w == [form EXCEPT !.value[f] = v, !.checked = @ \ Readers(f)]
<1>1. /\ DOMAIN w = FormNames /\ w.present = form.present /\ w.sent = form.sent
      /\ Changed(form, f, v, w)
  <2>1. Readers(f) = ReadersIn(form, f)
    BY DEF Readers, ReadersIn
  <2> DEFINE value == [form.value EXCEPT ![f] = v]
             checked == form.checked \ Readers(f)
  <2>2. w = [form EXCEPT !.value = value, !.checked = checked]
    BY DEF Shape, FormNames
  <2> HIDE DEF w, value, checked
  <2>3. Only(form, w, {"value", "checked"}) /\ w.value = value /\ w.checked = checked
    BY <2>2 DEF Shape, FormNames, Only
  <2>4. DOMAIN w = FormNames /\ w.present = form.present /\ w.sent = form.sent
    BY <2>3 DEF Only, FormNames
  <2> QED
    BY <2>1, <2>3, <2>4 DEF Changed, value, checked
<1>2. /\ form' = Element(w, f) \/ form' = w
      /\ last' = "none"
  BY DEF Edit
<1>3. Move(This, form, w)
  BY <1>1 DEF Move
<1> HIDE DEF w
<1>4. Move(This, w, form') /\ ~form'.sent
  <2>1. CASE form' = w
    BY <1>1, <2>1, OnlyItself DEF Move
  <2>2. CASE form' = Element(w, f)
    <3>1. After(w, {f}, form') /\ form'.sent = w.sent
      BY <1>1, <2>2, ElementAfter
    <3> QED
      BY <1>1, <3>1 DEF Move
  <2> QED
    BY <1>2, <2>1, <2>2
<1>5. Outcome(This, w, form', last')
  BY <1>2, <1>4 DEF Outcome
<1> QED
  BY <1>3, <1>4, <1>5 DEF TwoMoves

LEMMA BlurMoves ==
  ASSUME Shape(This, form), Lists(This, form), ~form.sent,
         NEW f \in form.present, Blur(f)
  PROVE  TwoMoves
<1> DEFINE repeating == {g \in form.watched : Rules(form, g)["equalTo"] = f}
           outcomes == IF repeating = {} THEN {form}
                       ELSE {Element(form, g) : g \in repeating}
<1>1. PICK w \in outcomes : form' = IF Kind[f] # "checkbox" /\ (f \in w.submitted \/ ~Empty(w, f))
                                    THEN Element(w, f) ELSE w
  BY DEF Blur
<1>2. last' = "none"
  BY DEF Blur
<1>3. repeating \in SUBSET form.present
  BY DEF Lists
<1> HIDE DEF repeating
<1>4. \/ w = form
      \/ \E g \in repeating : After(form, {g}, w) /\ w.sent = form.sent
  <2>1. CASE repeating = {}
    BY <2>1
  <2>2. CASE repeating # {}
    <3>1. PICK g \in repeating : w = Element(form, g)
      BY <2>2
    <3> QED
      BY <3>1, ElementAfter DEF Shape
  <2> QED
    BY <2>1, <2>2
<1>5. /\ Move(This, form, w)
      /\ DOMAIN w = FormNames /\ w.present = form.present /\ ~w.sent
  <2>1. CASE w = form
    BY <2>1, OnlyItself DEF Move, Shape
  <2>2. ASSUME NEW g \in repeating, After(form, {g}, w), w.sent = form.sent
        PROVE  /\ Move(This, form, w)
               /\ DOMAIN w = FormNames /\ w.present = form.present /\ ~w.sent
    <3>1. DOMAIN w = FormNames /\ w.present = form.present
      BY <2>2 DEF After, Only, Flags, FormNames
    <3> QED
      BY <1>3, <2>2, <3>1 DEF Move
  <2> QED
    BY <1>4, <2>1, <2>2
<1>6. Move(This, w, form') /\ ~form'.sent
  <2>1. CASE form' = w
    BY <1>5, <2>1, OnlyItself DEF Move
  <2>2. CASE form' = Element(w, f)
    <3>1. After(w, {f}, form') /\ form'.sent = w.sent
      BY <1>5, <2>2, ElementAfter
    <3> QED
      BY <1>5, <3>1 DEF Move
  <2> QED
    BY <1>1, <2>1, <2>2
<1>7. Outcome(This, w, form', last')
  BY <1>2, <1>6 DEF Outcome
<1> QED
  BY <1>5, <1>6, <1>7 DEF TwoMoves

LEMMA SubmitMoves ==
  ASSUME Shape(This, form), Lists(This, form), ~form.sent, Submit
  PROVE  TwoMoves
<1> DEFINE F == DOMAIN form.settings
           s == Form(form)
           waits == s.errorMap = {} /\ s.pendingRequest > 0
<1>1. /\ After(form, F, s) /\ s.errorMap = Wrong(form, F)
      /\ ~s.sent /\ DOMAIN s = FormNames
      /\ This.summary /\ s.errorMap # {} => s.summary = [on |-> TRUE, list |-> s.errorMap]
  <2>1. /\ After(form, F, s) /\ s.errorMap = Wrong(form, F) /\ s.sent = form.sent
        /\ This.summary /\ s.errorMap # {} => s.summary = [on |-> TRUE, list |-> s.errorMap]
    BY FormAfter DEF Shape
  <2>2. DOMAIN s = FormNames
    BY <2>1 DEF After, Only
  <2> QED
    BY <2>1, <2>2
<1>2. /\ form' = IF s.errorMap # {} THEN s
                 ELSE IF waits THEN [s EXCEPT !.formSubmitted = TRUE]
                 ELSE [s EXCEPT !.sent = TRUE]
      /\ last' = IF s.errorMap # {} THEN "refused" ELSE IF waits THEN "waits" ELSE "sent"
  BY DEF Submit
<1> HIDE DEF s
<1>3. /\ Only(s, form', Flags)
      /\ form'.sent => s.errorMap = {} /\ ~waits /\ form'.pendingRequest = s.pendingRequest
  BY <1>1, <1>2 DEF Only, Flags, FormNames
<1>4. After(form, F, form')
  BY <1>1, <1>3, AfterFlags
<1>5. Move(This, form, form) /\ Move(This, form, form')
  <2>1. Only(form, form, Flags)
    BY OnlyItself DEF Shape
  <2>2. F \in SUBSET form.present
    BY DEF Lists
  <2> QED
    BY <1>4, <2>1, <2>2 DEF Move
<1>6. Outcome(This, form, form', last')
  <2>1. last' = "refused" => form' = s /\ s.errorMap # {}
    BY <1>2
  <2>2. last' \in {"sent", "waits", "refused"}
    BY <1>2
  <2> QED
    BY <1>1, <1>3, <1>4, <2>1, <2>2 DEF Outcome
<1> QED
  BY <1>5, <1>6 DEF TwoMoves

LEMMA ResetMoves ==
  ASSUME Shape(This, form), ~form.sent, OnReset
  PROVE  TwoMoves
<1> DEFINE value == [f \in DOMAIN form.value |-> This.rendered[f]]
           nothing == [f \in {} |-> TRUE]
           previous == [f \in Fields |-> NothingAsked]
           request == [f \in Fields |->
                         IF form.request[f] = None THEN None
                         ELSE [form.request[f] EXCEPT !.linked = FALSE]]
           summary == [form.summary EXCEPT !.on = FALSE]
<1>1. /\ form' = [form EXCEPT !.value = value, !.invalid = nothing, !.submitted = {},
                              !.errorMap = {}, !.successList = {}, !.previous = previous,
                              !.request = request, !.summary = summary, !.shown = {},
                              !.checked = {}]
      /\ last' = "none"
  BY DEF OnReset, Shape, FormNames
<1> HIDE DEF value, nothing, previous, request, summary
<1>2. /\ DOMAIN form' = FormNames
      /\ form'.value = value /\ form'.invalid = nothing /\ form'.submitted = {}
      /\ form'.errorMap = {} /\ form'.successList = {} /\ form'.previous = previous
      /\ form'.request = request /\ form'.shown = {} /\ form'.checked = {}
      /\ \A n \in FormNames \ {"value", "invalid", "submitted", "errorMap", "successList",
                               "previous", "request", "summary", "shown", "checked"} :
           form'[n] = form[n]
  BY <1>1 DEF Shape, FormNames
<1>3. form'.sent = form.sent
  BY <1>2 DEF FormNames
<1>4. Only(form, form', Flags \cup {"value", "invalid", "submitted", "errorMap", "successList",
                            "previous", "request", "shown", "checked"})
  BY <1>2 DEF Only, Flags
<1>5. Forgotten(This, form, form')
  BY <1>2, <1>3, <1>4 DEF Forgotten, value, nothing, previous, request
<1>6. Move(This, form, form')
  BY <1>5 DEF Move
<1>7. Move(This, form', form')
  BY <1>2, OnlyItself DEF Move
<1>8. Outcome(This, form', form', last')
  BY <1>1, <1>3 DEF Outcome
<1> QED
  BY <1>6, <1>7, <1>8 DEF TwoMoves

LEMMA AddMoves ==
  ASSUME Shape(This, form), ~form.sent, NEW f \in This.late, AddField(f)
  PROVE  TwoMoves
<1> DEFINE s == [form EXCEPT !.present = @ \cup {f}]
           marked == {g \in s.present : DOMAIN This.attributes[g] # {}}
           options == [g \in marked |-> ParseElement(g, This.attributes[g])]
           u == [s EXCEPT !.options = options]
<1>1. /\ form' = IF marked = {} THEN s
                 ELSE IF u.settings = NoRules THEN [u EXCEPT !.settings = u.options] ELSE u
      /\ last' = "none"
  BY DEF AddField, Parse, AttachValidation, Parsed
<1>2. Only(form, s, {"present"}) /\ s.present = form.present \cup {f}
  BY DEF Only, Shape, FormNames
<1> HIDE DEF s, options
<1>3. Only(s, u, {"options"}) /\ u.options = options
  BY <1>2 DEF Only, FormNames
<1> HIDE DEF u, marked
<1>4. /\ Only(form, form', {"present", "options", "settings"})
      /\ form'.present = s.present
      /\ IF marked = {} THEN form'.options = form.options /\ form'.settings = form.settings
         ELSE /\ form'.options = options
              /\ form'.settings = IF form.settings = NoRules THEN form'.options ELSE form.settings
  BY <1>1, <1>2, <1>3 DEF Only, FormNames
<1>5. Added(This, form, f, form')
  <2>1. marked = {g \in form'.present : DOMAIN This.attributes[g] # {}}
    BY <1>4 DEF marked
  <2>2. options = [g \in marked |-> ParseElement(g, This.attributes[g])]
    BY DEF options, marked
  <2> HIDE DEF marked, options
  <2> QED
    BY <1>2, <1>4, <2>1, <2>2 DEF Added
<1>6. form'.sent = form.sent /\ DOMAIN form' = FormNames
  BY <1>4 DEF Only, FormNames
<1>7. Move(This, form, form') /\ Move(This, form', form')
  BY <1>5, <1>6, OnlyItself DEF Move
<1>8. Outcome(This, form', form', last')
  BY <1>1, <1>6 DEF Outcome
<1> QED
  BY <1>7, <1>8 DEF TwoMoves

LEMMA LoseMoves ==
  ASSUME Shape(This, form), ~form.sent, NEW f \in form.present, RequestFails(f)
  PROVE  TwoMoves
<1> DEFINE request == [form.request EXCEPT ![f] = None]
<1>1. form' = [form EXCEPT !.request = request] /\ last' = "none"
  BY DEF RequestFails, Shape, FormNames
<1> HIDE DEF request
<1>2. Only(form, form', {"request"}) /\ form'.request = request
  BY <1>1 DEF Only, Shape, FormNames
<1>3. form'.sent = form.sent /\ DOMAIN form' = FormNames
  BY <1>2 DEF Only, FormNames
<1>4. Move(This, form, form') /\ Move(This, form', form')
  BY <1>2, <1>3, OnlyItself DEF Move, Lose, request
<1>5. Outcome(This, form', form', last')
  BY <1>1, <1>3 DEF Outcome
<1> QED
  BY <1>4, <1>5 DEF TwoMoves

\* The answer itself, up to the point where the form may be submitted for it.
TakenIn(f) ==
  LET r == form.request[f]
      valid == r.key \in This.accepted[f]
  IN  [form EXCEPT !.request[f] = None,
                   !.previous[f].valid = IF r.linked THEN valid ELSE @,
                   !.invalid = [g \in DOMAIN @ \cup {f} |-> IF g = f THEN ~valid ELSE @[g]],
                   !.errorMap = IF valid THEN {} ELSE @ \cup {f},
                   !.successList = IF valid THEN {f} ELSE @ \ {f},
                   !.checked = IF r.key = Key(form, f) /\ Failing(form, f) = {}
                               THEN @ ELSE @ \ {f}]

Stopped(s, f) ==
  [s EXCEPT !.pending = @ \ {f}, !.pendingRequest = IF @ = 0 THEN 0 ELSE @ - 1]

LEMMA AnswerIsTold ==
  ASSUME Shape(This, form), NEW f \in Fields, form.request[f] # None
  PROVE  /\ Told(This, form, f, Stopped(ShowErrors(TakenIn(f)), f))
         /\ Stopped(ShowErrors(TakenIn(f)), f).sent = form.sent
         /\ Stopped(ShowErrors(TakenIn(f)), f).formSubmitted = form.formSubmitted
<1> DEFINE r == form.request[f]
           valid == r.key \in This.accepted[f]
           request == [form.request EXCEPT ![f] = None]
           previous == [form.previous EXCEPT ![f].valid = IF r.linked THEN valid ELSE @]
           invalid == [g \in DOMAIN form.invalid \cup {f} |->
                         IF g = f THEN ~valid ELSE form.invalid[g]]
           errors == IF valid THEN {} ELSE form.errorMap \cup {f}
           successes == IF valid THEN {f} ELSE form.successList \ {f}
           checked == IF r.key = Key(form, f) /\ Failing(form, f) = {}
                      THEN form.checked ELSE form.checked \ {f}
           told == [form EXCEPT !.request = request, !.previous = previous,
                                !.invalid = invalid, !.errorMap = errors,
                                !.successList = successes, !.checked = checked]
           u == ShowErrors(told)
           pending == u.pending \ {f}
           count == IF u.pendingRequest = 0 THEN 0 ELSE u.pendingRequest - 1
           t == [u EXCEPT !.pending = pending, !.pendingRequest = count]
<1>1. told = TakenIn(f)
  <2> HIDE DEF valid
  <2> QED
    BY DEF TakenIn, Shape, FormNames, valid
<1>2. DOMAIN invalid = DOMAIN form.invalid \cup {f}
  <2> HIDE DEF valid
  <2> QED
    OBVIOUS
<1> HIDE DEF request, previous, invalid, errors, successes, checked
<1>3. /\ DOMAIN told = FormNames
      /\ told.request = request /\ told.previous = previous /\ told.invalid = invalid
      /\ told.errorMap = errors /\ told.successList = successes /\ told.checked = checked
      /\ \A n \in FormNames \ {"request", "previous", "invalid", "errorMap", "successList",
                               "checked"} : told[n] = form[n]
  BY DEF Shape, FormNames
<1> HIDE DEF told
<1>4. Only(told, u, {"shown"}) /\ u.shown = (told.shown \cup told.errorMap) \ told.successList
  BY <1>3, ShowErrorsFields
<1> HIDE DEF u
<1> HIDE DEF pending, count
<1>5. /\ DOMAIN t = FormNames /\ t.pending = pending /\ t.pendingRequest = count
      /\ \A n \in FormNames \ {"pending", "pendingRequest"} : t[n] = u[n]
  BY <1>4 DEF Only, FormNames
<1> HIDE DEF t
<1>6. /\ t.request = request /\ t.previous = previous /\ t.invalid = invalid
      /\ t.errorMap = errors /\ t.successList = successes /\ t.checked = checked
      /\ t.shown = (form.shown \cup t.errorMap) \ t.successList
      /\ t.sent = form.sent /\ t.formSubmitted = form.formSubmitted
  BY <1>3, <1>4, <1>5 DEF Only, FormNames
<1>7. u.pending = form.pending /\ u.pendingRequest = form.pendingRequest
  BY <1>3, <1>4 DEF Only, FormNames
<1>8. Only(form, t, Flags \cup {"request", "previous", "invalid", "errorMap", "successList",
                                "checked", "shown", "pending", "pendingRequest"})
  BY <1>3, <1>4, <1>5 DEF Only, FormNames
<1>9. Told(This, form, f, t) /\ t.sent = form.sent /\ t.formSubmitted = form.formSubmitted
  BY <1>2, <1>5, <1>6, <1>7, <1>8
     DEF Told, request, previous, errors, successes, checked, pending, count
<1>10. t = Stopped(u, f)
  BY <1>4 DEF t, pending, count, Only, FormNames, Stopped
<1> QED
  BY <1>1, <1>9, <1>10 DEF u

LEMMA AnswerMoves ==
  ASSUME page \in Pages, Shape(This, form), Lists(This, form), ~form.sent,
         NEW f \in form.present, Answer(f)
  PROVE  TwoMoves
<1> DEFINE r == form.request[f]
           valid == r.key \in This.accepted[f]
           u == ShowErrors(TakenIn(f))
           t == Stopped(u, f)
           outcome == IF t.pendingRequest > 0 \/ ~t.formSubmitted THEN <<t, "none">>
                      ELSE IF valid THEN SubmitAtLast(t) ELSE RefuseAtLast(t)
<1>1. form.request[f] # None
  BY DEF Answer
<1>2. form' = outcome[1] /\ last' = outcome[2]
  <2>1. /\ form' = StopRequest(ShowErrors(TakenIn(f)), f, valid)[1]
        /\ last' = StopRequest(ShowErrors(TakenIn(f)), f, valid)[2]
    BY DEF Answer, TakenIn
  <2> QED
    BY <2>1 DEF StopRequest, Stopped
<1>3. f \in Fields
  BY PageOK DEF Shape, ContentOK
<1>4. Told(This, form, f, t) /\ t.sent = form.sent
  BY <1>1, <1>3, AnswerIsTold
<1> HIDE DEF u, t
<1>5. Move(This, form, t)
  BY <1>4 DEF Move
<1>6. DOMAIN t = FormNames /\ ~t.sent /\ DOMAIN t.settings \in SUBSET t.present
  <2>1. Lists(This, t)
    BY <1>5, PageOK, MoveLists
  <2> QED
    BY <1>4, <2>1 DEF Told, Only, Lists
<1>7. Move(This, t, form') /\ Outcome(This, t, form', last')
  <2>1. CASE t.pendingRequest > 0 \/ ~t.formSubmitted
    <3>1. form' = t /\ last' = "none"
      BY <1>2, <2>1
    <3> QED
      BY <1>6, <3>1, OnlyItself DEF Move, Outcome
  <2>2. CASE ~(t.pendingRequest > 0 \/ ~t.formSubmitted) /\ valid
    <3> DEFINE S == DOMAIN t.settings
               w == Form(t)
    <3>1. /\ form' = SubmitAtLast(t)[1] /\ last' = SubmitAtLast(t)[2]
      BY <1>2, <2>2
    <3>2. /\ After(t, S, w) /\ w.errorMap = Wrong(t, S) /\ w.sent = t.sent
          /\ This.summary /\ w.errorMap # {} => w.summary = [on |-> TRUE, list |-> w.errorMap]
      BY <1>6, FormAfter
    <3>3. DOMAIN w = FormNames
      BY <3>2 DEF After, Only
    <3>4. \/ w.errorMap # {} /\ form' = w /\ last' = "refused"
          \/ w.errorMap = {} /\ form' = w /\ last' = "waits"
          \/ /\ w.errorMap = {} /\ ~(w.pendingRequest > 0) /\ last' = "sent"
             /\ form' = [w EXCEPT !.sent = TRUE, !.formSubmitted = FALSE]
      BY <3>1 DEF SubmitAtLast
    <3> HIDE DEF w
    <3>5. /\ Only(w, form', Flags)
          /\ form'.sent => w.errorMap = {} /\ ~(form'.pendingRequest > 0)
      BY <1>6, <3>2, <3>3, <3>4 DEF Only, Flags, FormNames
    <3>6. After(t, S, form')
      BY <3>2, <3>5, AfterFlags
    <3>7. Move(This, t, form')
      BY <1>6, <3>6 DEF Move
    <3> HIDE DEF S
    <3>8. Outcome(This, t, form', last')
      BY <3>2, <3>4, <3>5, <3>6 DEF Outcome, S
    <3> QED
      BY <3>7, <3>8
  <2>3. CASE ~(t.pendingRequest > 0 \/ ~t.formSubmitted) /\ ~valid
    <3> DEFINE w == OnErrors(t)
    <3>1. form' = [w EXCEPT !.formSubmitted = FALSE] /\ last' = "refusedLate"
      BY <1>2, <2>3 DEF RefuseAtLast
    <3>2. /\ Only(t, w, {"summary"})
          /\ This.summary /\ t.errorMap # {} => w.summary = [on |-> TRUE, list |-> t.errorMap]
      BY <1>6, OnErrorsFields
    <3> HIDE DEF w
    <3>3. /\ Only(t, form', Flags) /\ ~form'.sent /\ form'.summary = w.summary
          /\ form'.errorMap = t.errorMap /\ form'.shown = t.shown
      BY <1>6, <3>1, <3>2 DEF Only, Flags, FormNames
    <3>4. /\ t.errorMap = form.errorMap \cup {f}
          /\ t.successList = form.successList \ {f}
          /\ t.shown = (form.shown \cup t.errorMap) \ t.successList
      BY <1>4, <2>3 DEF Told
    <3>5. t.errorMap # {} /\ t.errorMap \subseteq t.shown
      BY <3>4 DEF Lists
    <3>6. Move(This, t, form')
      BY <3>3 DEF Move
    <3>7. Outcome(This, t, form', last')
      BY <3>1, <3>2, <3>3, <3>5 DEF Outcome
    <3> QED
      BY <3>6, <3>7
  <2> QED
    BY <2>1, <2>2, <2>3
<1> QED
  BY <1>5, <1>7 DEF TwoMoves

LEMMA StepIsMoves ==
  ASSUME page \in Pages, Shape(This, form), Lists(This, form), Next
  PROVE  TwoMoves /\ page' = page
<1>1. page' = page
  BY DEF Next, Edit, Blur, Submit, OnReset, AddField, Answer, RequestFails
<1>2. ~form.sent
  BY DEF Next
<1>3. TwoMoves
  BY <1>2, EditMoves, BlurMoves, SubmitMoves, ResetMoves, AddMoves, AnswerMoves, LoseMoves
     DEF Next
<1> QED
  BY <1>1, <1>3

-----------------------------------------------------------------------------
(***************************************************************************)
(* The page when it is loaded                                              *)
(***************************************************************************)
Loaded(p, s) ==
  LET marked == {f \in p.fields : DOMAIN p.attributes[f] # {}}
  IN  /\ DOMAIN s = FormNames
      /\ s.value = p.rendered /\ s.present = p.fields
      /\ s.invalid = [f \in {} |-> TRUE]
      /\ s.submitted = {} /\ s.errorMap = {} /\ s.successList = {}
      /\ s.shown = p.refused
      /\ s.previous = [f \in Fields |-> NothingAsked]
      /\ s.pending = {} /\ s.pendingRequest = 0
      /\ s.request = [f \in Fields |-> None]
      /\ s.watched = {} /\ s.checked = {} /\ s.sent = FALSE
      /\ s.settings = s.options
      /\ IF marked = {} THEN s.options = NoRules
         ELSE s.options = [f \in marked |-> ParseElement(f, p.attributes[f])]

LEMMA InitLoaded == Init => Loaded(This, form)
<1> SUFFICES ASSUME Init PROVE Loaded(This, form)
  OBVIOUS
<1> DEFINE nothing == [f \in {} |-> TRUE]
           summary == [on |-> This.summary /\ This.refused # {},
                       list |-> IF This.summary THEN This.refused ELSE {}]
           previous == [f \in Fields |-> NothingAsked]
           request == [f \in Fields |-> None]
           s == [value |-> This.rendered, present |-> This.fields, options |-> NoRules,
                 settings |-> NoRules, invalid |-> nothing, submitted |-> {},
                 errorMap |-> {}, successList |-> {}, shown |-> This.refused,
                 summary |-> summary, previous |-> previous, pending |-> {},
                 pendingRequest |-> 0, request |-> request, formSubmitted |-> FALSE,
                 watched |-> {}, checked |-> {}, sent |-> FALSE]
           marked == {f \in s.present : DOMAIN This.attributes[f] # {}}
           options == [f \in marked |-> ParseElement(f, This.attributes[f])]
           u == [s EXCEPT !.options = options]
<1>1. form = Parse(s)
  BY DEF Init
<1>2. form = IF marked = {} THEN s
             ELSE IF u.settings = NoRules THEN [u EXCEPT !.settings = u.options] ELSE u
  BY <1>1 DEF Parse, AttachValidation, Parsed
<1>3. marked = {f \in This.fields : DOMAIN This.attributes[f] # {}}
  OBVIOUS
<1> HIDE DEF nothing, summary, previous, request, options
<1>4. /\ DOMAIN s = FormNames
      /\ s.value = This.rendered /\ s.present = This.fields /\ s.options = NoRules
      /\ s.settings = NoRules /\ s.invalid = nothing /\ s.submitted = {}
      /\ s.errorMap = {} /\ s.successList = {} /\ s.shown = This.refused
      /\ s.previous = previous /\ s.pending = {} /\ s.pendingRequest = 0
      /\ s.request = request /\ s.watched = {} /\ s.checked = {} /\ s.sent = FALSE
  BY DEF FormNames
<1> HIDE DEF s, marked
<1>5. /\ DOMAIN u = FormNames /\ u.options = options
      /\ \A n \in FormNames \ {"options"} : u[n] = s[n]
  BY <1>4 DEF FormNames
<1> HIDE DEF u
<1>6. /\ Only(s, form, {"options", "settings"})
      /\ IF marked = {} THEN form.options = NoRules /\ form.settings = NoRules
         ELSE form.options = options /\ form.settings = options
  BY <1>2, <1>4, <1>5 DEF Only, FormNames
<1>7. /\ form.value = s.value /\ form.present = s.present
      /\ form.invalid = s.invalid /\ form.submitted = s.submitted
      /\ form.errorMap = s.errorMap /\ form.successList = s.successList
      /\ form.shown = s.shown /\ form.previous = s.previous /\ form.pending = s.pending
      /\ form.pendingRequest = s.pendingRequest /\ form.request = s.request
      /\ form.watched = s.watched /\ form.checked = s.checked /\ form.sent = s.sent
  BY <1>6 DEF Only, FormNames
<1> QED
  BY <1>3, <1>4, <1>6, <1>7 DEF Loaded, Only, nothing, previous, request, options

LEMMA LoadedTypes ==
  ASSUME NEW p, ContentOK(p), NEW s, Loaded(p, s)
  PROVE  Shape(p, s) /\ Waits(s) /\ Lists(p, s)
<1>1. Shape(p, s)
  BY DEF Loaded, Shape, ContentOK, NothingAsked
<1>2. Waits(s)
  BY FS_EmptySet DEF Loaded, Waits
<1>3. Lists(p, s)
  <2>1. s.settings = s.options /\ DOMAIN s.options \subseteq {f \in p.fields : DOMAIN p.attributes[f] # {}}
    BY DEF Loaded, NoRules
  <2> QED
    BY <2>1 DEF Loaded, Lists
<1> QED
  BY <1>1, <1>2, <1>3

-----------------------------------------------------------------------------
(***************************************************************************)
(* The type invariant                                                      *)
(***************************************************************************)
Outcomes == {"none", "sent", "waits", "refused", "refusedLate"}

TypeInv ==
  /\ page \in Pages
  /\ Shape(This, form)
  /\ Waits(form)
  /\ Lists(This, form)
  /\ last \in Outcomes

LEMMA InitTypeInv == Init => TypeInv
<1> SUFFICES ASSUME Init PROVE TypeInv
  OBVIOUS
<1>1. page \in Pages /\ last \in Outcomes
  BY DEF Init, Outcomes
<1>2. Shape(This, form) /\ Waits(form) /\ Lists(This, form)
  BY <1>1, PageOK, InitLoaded, LoadedTypes
<1> QED
  BY <1>1, <1>2 DEF TypeInv

LEMMA NextTypeInv == TypeInv /\ [Next]_vars => TypeInv'
<1> SUFFICES ASSUME TypeInv, [Next]_vars PROVE TypeInv'
  OBVIOUS
<1>1. CASE UNCHANGED vars
  BY <1>1 DEF vars, TypeInv, This, Shape, Waits, Lists
<1>2. CASE Next
  <2> DEFINE p == This
  <2>1. TwoMoves /\ page' = page /\ ContentOK(p)
    BY <1>2, StepIsMoves, PageOK DEF TypeInv
  <2>2. PICK w : Move(p, form, w) /\ Move(p, w, form') /\ Outcome(p, w, form', last')
    BY <2>1 DEF TwoMoves
  <2>3. Shape(p, w) /\ Waits(w) /\ Lists(p, w)
    BY <2>1, <2>2, MoveShape, MoveWaits, MoveLists DEF TypeInv
  <2>4. Shape(p, form') /\ Waits(form') /\ Lists(p, form')
    BY <2>1, <2>2, <2>3, MoveShape, MoveWaits, MoveLists
  <2>5. last' \in Outcomes
    BY <2>2 DEF Outcome, Outcomes
  <2> QED
    BY <2>1, <2>4, <2>5 DEF TypeInv, This, Shape, Waits, Lists
<1> QED
  BY <1>1, <1>2

LEMMA TypeInvOK == TypeInv => TypeOK
BY DEF TypeInv, TypeOK, Shape, Waits, Lists, Outcomes

LEMMA TypeInvariant == Spec => []TypeInv
<1>1. Init => TypeInv
  BY InitTypeInv
<1>2. TypeInv /\ [Next]_vars => TypeInv'
  BY NextTypeInv
<1> QED
  BY <1>1, <1>2, PTL DEF Spec

\* On any page, whatever its attributes: the types, and the validator counts just
\* the requests it waits for, every request under way among them.
THEOREM TypeCorrect == Spec => []TypeOK
<1>1. TypeInv => TypeOK
  BY TypeInvOK
<1> QED
  BY <1>1, TypeInvariant, PTL

-----------------------------------------------------------------------------
(***************************************************************************)
(* The rules of a field                                                    *)
(***************************************************************************)
LEMMA MethodList ==
  Methods = {"required", "regex", "date", "digits", "email", "number", "url",
             "rangelength", "minlength", "maxlength", "range", "min", "max",
             "equalTo", "nonalphamin", "__dummy__", "remote"}
BY DEF Methods, Formats

\* The rules that an adapter makes, by its name.
LEMMA AdaptedRules ==
  ASSUME NEW f, NEW params
  PROVE  /\ \A x \in Formats : Adapted(x, f, params) = Rule(x, NoParam)
         /\ Adapted("regex", f, params) = Rule("regex", params["pattern"])
         /\ Adapted("length", f, params) = AddMinMax(params, "minlength", "maxlength", "rangelength")
         /\ Adapted("range", f, params) = AddMinMax(params, "min", "max", "range")
         /\ Adapted("minlength", f, params) = AddMinMax(params, "minlength", NoParam, NoParam)
         /\ Adapted("maxlength", f, params) = AddMinMax(params, "minlength", "maxlength", NoParam)
         /\ Adapted("equalto", f, params) = Rule("equalTo", Other(f, params.other))
         /\ Adapted("required", f, params)
              = IF Kind[f] = "checkbox" THEN NoRules ELSE Rule("required", NoParam)
         /\ Adapted("remote", f, params) = Remote(f, params)
         /\ Adapted("password", f, params) = Password(params)
BY DEF Adapted, Formats, AddBool, AddSingleVal, EqualTo, Required

\* A rule that is made has a maker: an attribute whose adapter makes it.
LEMMA RuleHasMaker ==
  ASSUME NEW f, NEW a
  PROVE  /\ DOMAIN MadeRules(f, a) \subseteq Methods
         /\ \A m \in DOMAIN MadeRules(f, a) :
              \E x \in DOMAIN a : m \in DOMAIN Adapted(x, f, a[x])
<1> DEFINE Made(i) == Adapted(AdapterNames[i], f, a[AdapterNames[i]])
           Makers(m) == {i \in DOMAIN AdapterNames :
                           AdapterNames[i] \in DOMAIN a /\ m \in DOMAIN Made(i)}
<1>1. DOMAIN MadeRules(f, a)
      = {m \in Methods : Makers(m) # {}}
  BY DEF MadeRules
<1> QED
  BY <1>1

Adapters == Formats \cup {"regex", "length", "range", "minlength", "maxlength", "equalto",
                         "required", "remote", "password"}

LEMMA AdaptersAreNamed == {AdapterNames[i] : i \in DOMAIN AdapterNames} = Adapters
<1>1. DOMAIN AdapterNames = 1 .. 14
  BY DEF AdapterNames
<1>2. \A i \in 1 .. 14 : AdapterNames[i] \in Adapters
  BY DEF AdapterNames, Adapters, Formats
<1>3. \A x \in Adapters : \E i \in 1 .. 14 : AdapterNames[i] = x
  BY DEF AdapterNames, Adapters, Formats
<1> QED
  BY <1>1, <1>2, <1>3

\* No adapter makes the rule __dummy__; remote and equalTo have one that makes them.
LEMMA AdapterMakes ==
  ASSUME NEW f, NEW params, NEW x \in Adapters
  PROVE  /\ DOMAIN Adapted(x, f, params) \subseteq Methods \cup {NoParam}
         /\ "__dummy__" \notin DOMAIN Adapted(x, f, params)
         /\ "remote" \in DOMAIN Adapted(x, f, params) => x = "remote"
         /\ "equalTo" \in DOMAIN Adapted(x, f, params) => x = "equalto"
         /\ NoParam \in DOMAIN Adapted(x, f, params) => x \in {"minlength", "maxlength"}
<1> DEFINE bounds == {"minlength", "maxlength", "rangelength", "min", "max", "range"}
           rule == [min |-> "minlength", nonalphamin |-> "nonalphamin", regex |-> "regex"]
<1>1. x \in Formats \cup {"regex", "length", "range", "minlength", "maxlength", "equalto",
                          "required", "remote", "password"}
  BY DEF Adapters
<1>2. NoParam # "__dummy__" /\ NoParam # "remote"
  BY NoParamAssumption DEF Methods
<1>3. \A m, v : DOMAIN Rule(m, v) = {m}
  BY DEF Rule
<1>4. DOMAIN NoRules = {}
  BY DEF NoRules
<1>5. \A a, b, c : DOMAIN AddMinMax(params, a, b, c) \subseteq {a, b, c}
  <2> SUFFICES ASSUME NEW a, NEW b, NEW c
               PROVE  DOMAIN AddMinMax(params, a, b, c) \subseteq {a, b, c}
    OBVIOUS
  <2>1. DOMAIN AddMinMax(params, a, b, c) \in {{}, {a}, {b}, {c}}
    <3>1. CASE {"min", "max"} \subseteq DOMAIN params
      BY <1>3, <3>1 DEF AddMinMax
    <3>2. CASE "min" \in DOMAIN params /\ "max" \notin DOMAIN params
      BY <1>3, <3>2 DEF AddMinMax
    <3>3. CASE "max" \in DOMAIN params /\ "min" \notin DOMAIN params
      BY <1>3, <3>3 DEF AddMinMax
    <3>4. CASE "max" \notin DOMAIN params /\ "min" \notin DOMAIN params
      BY <1>4, <3>4 DEF AddMinMax
    <3> QED
      BY <3>1, <3>2, <3>3, <3>4
  <2> QED
    BY <2>1
<1>6. DOMAIN Adapted("password", f, params) \subseteq {"minlength", "nonalphamin", "regex"}
  <2>1. DOMAIN Password(params) = {rule[q] : q \in DOMAIN params \cap DOMAIN rule}
    BY DEF Password
  <2>2. DOMAIN Password(params) \subseteq {"minlength", "nonalphamin", "regex"}
    BY <2>1
  <2>3. Adapted("password", f, params) = Password(params)
    BY AdaptedRules
  <2> QED
    BY <2>2, <2>3
<1>7. x \in Formats => DOMAIN Adapted(x, f, params) = {x}
  <2>1. /\ Adapted("date", f, params) = Rule("date", NoParam)
        /\ Adapted("digits", f, params) = Rule("digits", NoParam)
        /\ Adapted("email", f, params) = Rule("email", NoParam)
        /\ Adapted("number", f, params) = Rule("number", NoParam)
        /\ Adapted("url", f, params) = Rule("url", NoParam)
    BY DEF Adapted, AddBool, Formats
  <2> QED
    BY <1>3, <2>1 DEF Formats
<1>8. /\ DOMAIN Adapted("regex", f, params) = {"regex"}
      /\ DOMAIN Adapted("equalto", f, params) = {"equalTo"}
      /\ DOMAIN Adapted("required", f, params) \subseteq {"required"}
      /\ DOMAIN Adapted("remote", f, params) = {"remote"}
  <2>1. DOMAIN Adapted("regex", f, params) = {"regex"}
    BY <1>3 DEF Adapted, AddSingleVal, Formats
  <2>2. DOMAIN Adapted("equalto", f, params) = {"equalTo"}
    BY <1>3 DEF Adapted, EqualTo, Formats
  <2>3. DOMAIN Adapted("required", f, params) \in {{}, {"required"}}
    BY <1>3, <1>4 DEF Adapted, Required, AddBool, Formats
  <2>4. DOMAIN Adapted("remote", f, params) = {"remote"}
    BY <1>3 DEF Adapted, Remote, Formats
  <2> QED
    BY <2>1, <2>2, <2>3, <2>4
<1>9. /\ DOMAIN Adapted("length", f, params) \subseteq bounds
      /\ DOMAIN Adapted("range", f, params) \subseteq bounds
      /\ DOMAIN Adapted("minlength", f, params) \subseteq bounds \cup {NoParam}
      /\ DOMAIN Adapted("maxlength", f, params) \subseteq bounds \cup {NoParam}
  <2>1. /\ DOMAIN Adapted("length", f, params)
             = DOMAIN AddMinMax(params, "minlength", "maxlength", "rangelength")
        /\ DOMAIN Adapted("range", f, params) = DOMAIN AddMinMax(params, "min", "max", "range")
        /\ DOMAIN Adapted("minlength", f, params)
             = DOMAIN AddMinMax(params, "minlength", NoParam, NoParam)
        /\ DOMAIN Adapted("maxlength", f, params)
             = DOMAIN AddMinMax(params, "minlength", "maxlength", NoParam)
    BY AdaptedRules
  <2> QED
    BY <1>5, <2>1
<1>10. Methods = {"required", "regex", "date", "digits", "email", "number", "url",
                  "rangelength", "minlength", "maxlength", "range", "min", "max",
                  "equalTo", "nonalphamin", "__dummy__", "remote"}
  BY MethodList
<1> DEFINE others == {"regex", "required", "minlength", "nonalphamin"} \cup bounds \cup Formats
<1>11. others \subseteq Methods \ {"__dummy__", "remote", "equalTo"}
  BY <1>10 DEF Formats
<1>12. \/ x = "remote" /\ DOMAIN Adapted(x, f, params) = {"remote"}
       \/ x = "equalto" /\ DOMAIN Adapted(x, f, params) = {"equalTo"}
       \/ DOMAIN Adapted(x, f, params) \subseteq others
       \/ /\ x \in {"minlength", "maxlength"}
          /\ DOMAIN Adapted(x, f, params) \subseteq others \cup {NoParam}
  <2> HIDE DEF bounds
  <2>1. CASE x \in Formats
    BY <1>7, <2>1
  <2>2. CASE x = "regex" \/ x = "equalto" \/ x = "required" \/ x = "remote"
    BY <1>8, <2>2
  <2>3. CASE x = "length" \/ x = "range" \/ x = "minlength" \/ x = "maxlength"
    BY <1>9, <2>3
  <2>4. CASE x = "password"
    BY <1>6, <2>4
  <2> QED
    BY <1>1, <2>1, <2>2, <2>3, <2>4
<1> HIDE DEF others
<1>13. {"remote", "equalTo"} \subseteq Methods /\ NoParam \notin Methods
  BY <1>10, NoParamAssumption
<1> QED
  BY <1>2, <1>11, <1>12, <1>13

\* The attributes of a field are some of those that have an adapter.
Attributes(a) == DOMAIN a \subseteq {AdapterNames[i] : i \in DOMAIN AdapterNames}

LEMMA ParsedRules ==
  ASSUME NEW f, NEW a
  PROVE  /\ DOMAIN ParseElement(f, a) = DOMAIN MadeRules(f, a) \cup {"__dummy__"}
         /\ \A m \in DOMAIN MadeRules(f, a) \ {"__dummy__"} :
              ParseElement(f, a)[m] = MadeRules(f, a)[m]
         /\ Attributes(a) => "__dummy__" \notin DOMAIN MadeRules(f, a)
<1> DEFINE made == MadeRules(f, a)
<1>1. ParseElement(f, a) = [m \in DOMAIN made \cup {"__dummy__"} |->
                              IF m = "__dummy__" THEN NoParam ELSE made[m]]
  BY DEF ParseElement
<1>2. Attributes(a) => "__dummy__" \notin DOMAIN made
  BY RuleHasMaker, AdapterMakes, AdaptersAreNamed DEF Attributes
<1> HIDE DEF made
<1> QED
  BY <1>1, <1>2 DEF made

-----------------------------------------------------------------------------
(***************************************************************************)
(* What a check finds, by the rules of the field                           *)
(***************************************************************************)

\* Every rule that is parsed, or checked by, is read from the attributes.
Read(p, s) ==
  /\ \A f \in DOMAIN s.options : s.options[f] = ParseElement(f, p.attributes[f])
  /\ \A f \in DOMAIN s.settings : s.settings[f] = ParseElement(f, p.attributes[f])

LEMMA NoRulesNoErrors ==
  ASSUME NEW s, NEW f, f \notin DOMAIN s.settings
  PROVE  Result(s, f) = "passedOver"
<1>1. Rules(s, f) = NoRules /\ DOMAIN NoRules = {}
  BY DEF Rules, NoRules
<1>2. Failing(s, f) = {}
  BY <1>1 DEF Failing
<1> QED
  BY <1>1, <1>2 DEF Result

\* A field that was parsed is never passed over: __dummy__ is one of its rules.
LEMMA ParsedIsChecked ==
  ASSUME NEW p, NEW s, Read(p, s), NEW f \in DOMAIN s.settings
  PROVE  Result(s, f) \in {"error", "ok", "pending"}
<1>1. Rules(s, f) = ParseElement(f, p.attributes[f])
  BY DEF Rules, Read
<1>2. "__dummy__" \in DOMAIN Rules(s, f)
  <2> DEFINE a == p.attributes[f]
  <2> HIDE DEF a
  <2>1. "__dummy__" \in DOMAIN ParseElement(f, a)
    BY Zenon, ParsedRules
  <2> QED
    BY <1>1, <2>1 DEF a
<1>3. Rules(s, f) # NoRules
  BY <1>2 DEF NoRules
<1>4. \A m \in MayBeEmpty : DOMAIN Rules(s, f) # {m}
  BY <1>2 DEF MayBeEmpty, Formats
<1>5. Result(s, f) = IF Failing(s, f) # {} THEN "error" ELSE RemoteResult(s, f)
  BY <1>3, <1>4 DEF Result
<1>6. RemoteResult(s, f) \in {"ok", "pending", "error"}
  BY DEF RemoteResult
<1> QED
  BY <1>5, <1>6

-----------------------------------------------------------------------------
(***************************************************************************)
(* Refusals are explained                                                  *)
(***************************************************************************)

\* Whatever has a message, is in error or has a request has rules.
Marked(s) ==
  /\ s.shown \cup s.errorMap \subseteq DOMAIN s.settings
  /\ \A f \in Fields : s.request[f] # None => f \in DOMAIN s.settings

LEMMA MoveReads ==
  ASSUME NEW p, NEW s, Read(p, s), NEW t, Move(p, s, t)
  PROVE  Read(p, t) /\ DOMAIN s.settings \subseteq DOMAIN t.settings
<1>1. CASE t.options = s.options /\ t.settings = s.settings
  BY <1>1 DEF Read
<1>2. ASSUME NEW f \in p.late, Added(p, s, f, t)
      PROVE  Read(p, t) /\ DOMAIN s.settings \subseteq DOMAIN t.settings
  <2> DEFINE marked == {g \in t.present : DOMAIN p.attributes[g] # {}}
             options == [g \in marked |-> ParseElement(g, p.attributes[g])]
  <2>1. IF marked = {}
        THEN t.options = s.options /\ t.settings = s.settings
        ELSE /\ t.options = options
             /\ t.settings = IF s.settings = NoRules THEN t.options ELSE s.settings
    BY <1>2 DEF Added
  <2>2. /\ DOMAIN options = marked
        /\ \A g \in marked : options[g] = ParseElement(g, p.attributes[g])
    OBVIOUS
  <2>3. DOMAIN NoRules = {}
    BY DEF NoRules
  <2> HIDE DEF marked, options
  <2> QED
    BY <2>1, <2>2, <2>3 DEF Read
<1>3. \/ t.options = s.options /\ t.settings = s.settings
      \/ \E f \in p.late : Added(p, s, f, t)
  BY DEF Move, Only, Flags, FormNames, After, Changed, Forgotten, Told, Lose
<1> QED
  BY <1>1, <1>2, <1>3

LEMMA MoveMarks ==
  ASSUME NEW p, ContentOK(p), NEW s, Shape(p, s), Read(p, s), Marked(s),
         NEW t, Move(p, s, t)
  PROVE  Marked(t)
<1> SUFFICES /\ \A f \in t.shown \cup t.errorMap : f \in DOMAIN s.settings
             /\ \A f \in Fields : t.request[f] # None => f \in DOMAIN s.settings
  BY MoveReads DEF Marked
<1>2. CASE t.shown = s.shown /\ t.errorMap = s.errorMap /\ t.request = s.request
  BY <1>2 DEF Marked
<1>3. ASSUME NEW S \in SUBSET s.present, After(s, S, t)
      PROVE  /\ \A f \in t.shown \cup t.errorMap : f \in DOMAIN s.settings
             /\ \A f \in Fields : t.request[f] # None => f \in DOMAIN s.settings
  <2>1. \A f \in Wrong(s, S) \cup Asking(s, S) : f \in DOMAIN s.settings
    BY NoRulesNoErrors DEF Wrong, Asking
  <2>2. /\ t.shown \subseteq s.shown \cup Wrong(s, S)
        /\ t.errorMap \subseteq Wrong(s, S)
        /\ t.request = RequestNow(s, S)
    BY <1>3 DEF After
  <2>3. \A f \in Fields : t.request[f] # None => f \in Asking(s, S) \/ s.request[f] # None
    BY <2>2 DEF RequestNow
  <2> QED
    BY <2>1, <2>2, <2>3 DEF Marked
<1>4. CASE Forgotten(p, s, t)
  <2>1. /\ t.shown = {} /\ t.errorMap = {}
        /\ \A f \in Fields : t.request[f] # None => s.request[f] # None
    BY <1>4 DEF Forgotten
  <2> QED
    BY <2>1 DEF Marked
<1>5. ASSUME NEW f \in s.present, Told(p, s, f, t)
      PROVE  /\ \A g \in t.shown \cup t.errorMap : g \in DOMAIN s.settings
             /\ \A g \in Fields : t.request[g] # None => g \in DOMAIN s.settings
  <2>1. /\ s.request[f] # None
        /\ t.request = [s.request EXCEPT ![f] = None]
        /\ t.errorMap \subseteq s.errorMap \cup {f}
        /\ t.shown \subseteq s.shown \cup t.errorMap
    BY <1>5 DEF Told
  <2>2. f \in Fields
    BY DEF Shape, ContentOK
  <2>3. \A g \in Fields : t.request[g] # None => s.request[g] # None
    BY <2>1 DEF Shape
  <2> QED
    BY <2>1, <2>2, <2>3 DEF Marked
<1>6. ASSUME NEW f \in s.present, Lose(s, f, t)
      PROVE  /\ \A g \in t.shown \cup t.errorMap : g \in DOMAIN s.settings
             /\ \A g \in Fields : t.request[g] # None => g \in DOMAIN s.settings
  <2>1. /\ t.shown = s.shown /\ t.errorMap = s.errorMap
        /\ t.request = [s.request EXCEPT ![f] = None]
    BY <1>6 DEF Lose, Only, FormNames
  <2>2. \A g \in Fields : t.request[g] # None => s.request[g] # None
    BY <2>1 DEF Shape
  <2> QED
    BY <2>1, <2>2 DEF Marked
<1>7. \/ t.shown = s.shown /\ t.errorMap = s.errorMap /\ t.request = s.request
      \/ \E S \in SUBSET s.present : After(s, S, t)
      \/ Forgotten(p, s, t)
      \/ \E f \in s.present : Told(p, s, f, t)
      \/ \E f \in s.present : Lose(s, f, t)
  BY DEF Move, Only, Flags, FormNames, Changed, Added
<1> QED
  BY <1>2, <1>3, <1>4, <1>5, <1>6, <1>7

LEMMA LoadedMarks ==
  ASSUME NEW p, ContentOK(p), RefusedAreParsed(p), NEW s, Loaded(p, s)
  PROVE  Read(p, s) /\ Marked(s)
<1> DEFINE marked == {f \in p.fields : DOMAIN p.attributes[f] # {}}
           options == [f \in marked |-> ParseElement(f, p.attributes[f])]
<1>1. /\ s.settings = s.options
      /\ IF marked = {} THEN s.options = NoRules ELSE s.options = options
      /\ s.shown = p.refused /\ s.errorMap = {} /\ s.request = [f \in Fields |-> None]
  BY DEF Loaded
<1>2. /\ DOMAIN options = marked
      /\ \A f \in marked : options[f] = ParseElement(f, p.attributes[f])
  OBVIOUS
<1>3. DOMAIN NoRules = {}
  BY DEF NoRules
<1>4. p.refused \subseteq marked
  BY DEF RefusedAreParsed, ContentOK
<1> HIDE DEF marked, options
<1>5. Read(p, s)
  BY <1>1, <1>2, <1>3 DEF Read
<1>6. Marked(s)
  BY <1>1, <1>2, <1>3, <1>4 DEF Marked
<1> QED
  BY <1>5, <1>6

RefusalInv ==
  /\ Read(This, form)
  /\ Marked(form)
  /\ RefusalIsExplained

LEMMA InitRefusalInv ==
  ASSUME Init, RefusedAreParsed(This)
  PROVE  RefusalInv
<1>1. ContentOK(This)
  BY PageOK DEF Init
<1>2. Read(This, form) /\ Marked(form)
  BY <1>1, InitLoaded, LoadedMarks
<1>3. RefusalIsExplained
  BY DEF Init, RefusalIsExplained
<1> QED
  BY <1>2, <1>3 DEF RefusalInv

LEMMA NextRefusalInv ==
  ASSUME TypeInv, RefusalInv, [Next]_vars
  PROVE  RefusalInv'
<1>1. CASE UNCHANGED vars
  BY <1>1 DEF vars, RefusalInv, This, RefusalIsExplained
<1>2. CASE Next
  <2> DEFINE p == This
  <2>1. TwoMoves /\ page' = page /\ ContentOK(p)
    BY <1>2, StepIsMoves, PageOK DEF TypeInv
  <2>2. PICK w : Move(p, form, w) /\ Move(p, w, form') /\ Outcome(p, w, form', last')
    BY <2>1 DEF TwoMoves
  <2>3. Shape(p, w) /\ Lists(p, w) /\ Read(p, w) /\ Marked(w)
    BY <2>1, <2>2, MoveShape, MoveLists, MoveReads, MoveMarks DEF TypeInv, RefusalInv
  <2>4. Read(p, form') /\ Marked(form')
    BY <2>1, <2>2, <2>3, MoveReads, MoveMarks
  <2>5. ASSUME last' = "refused"
        PROVE  form'.errorMap \subseteq form'.shown /\ form'.shown \ form'.pending \subseteq form'.errorMap
    <3> DEFINE S == DOMAIN w.settings
    <3>1. /\ form'.errorMap = Wrong(w, S)
          /\ form'.shown = (w.shown \cup Wrong(w, S)) \ Right(w, S)
          /\ form'.pending = w.pending \cup Asking(w, S)
      BY <2>2, <2>5 DEF Outcome, After
    <3>2. w.shown \subseteq S
      BY <2>3 DEF Marked
    <3>3. \A f \in w.shown : f \in Wrong(w, S) \cup Right(w, S) \cup Asking(w, S)
      BY <2>3, <3>2, ParsedIsChecked DEF Wrong, Right, Asking
    <3> QED
      BY <3>1, <3>3, ResultsDiffer
  <2>6. ASSUME last' = "refusedLate" PROVE form'.errorMap \subseteq form'.shown
    BY <2>2, <2>6 DEF Outcome
  <2>7. ASSUME last' \in {"refused", "refusedLate"}, p.summary
        PROVE  form'.errorMap # {} /\ form'.summary.on /\ form'.summary.list = form'.errorMap
    BY <2>2, <2>7 DEF Outcome
  <2>8. This' = p
    BY <2>1 DEF This
  <2> HIDE DEF p
  <2>9. RefusalIsExplained'
    BY <2>5, <2>6, <2>7, <2>8 DEF RefusalIsExplained
  <2> QED
    BY <2>4, <2>8, <2>9 DEF RefusalInv
<1> QED
  BY <1>1, <1>2

\* On pages where the server refuses only fields that have data-val attributes, a
\* refusal is explained: the summary lists the fields that have a message.
THEOREM RefusalsAreExplained ==
  ASSUME \A p \in Pages : RefusedAreParsed(Content[p])
  PROVE  Spec => []RefusalIsExplained
<1>1. Init => RefusalInv
  BY InitRefusalInv DEF Init, This
<1>2. TypeInv /\ RefusalInv /\ [Next]_vars => RefusalInv'
  BY NextRefusalInv
<1>3. RefusalInv => RefusalIsExplained
  BY DEF RefusalInv
<1> QED
  BY <1>1, <1>2, <1>3, TypeInvariant, PTL DEF Spec

-----------------------------------------------------------------------------
(***************************************************************************)
(* Messages are true of the rules                                          *)
(***************************************************************************)

\* A rule of f is met; remote, if the server accepts what stands in the form.
Holds(p, s, f, m, param) ==
  IF m = "remote"
  THEN Empty(s, f) \/ [g \in {f} \cup param |-> s.value[g]] \in p.accepted[f]
  ELSE Meets(s, f, m, param)

Bad(p, s, f) == \E m \in DOMAIN Rules(s, f) : ~Holds(p, s, f, m, Rules(s, f)[m])

\* The validator checks by the rules of all fields that have attributes.
Full(p, s) ==
  /\ DOMAIN s.options = {f \in p.fields : DOMAIN p.attributes[f] # {}}
  /\ DOMAIN s.settings = {f \in p.fields : DOMAIN p.attributes[f] # {}}

LateArePlain(p) == \A f \in p.late : DOMAIN p.attributes[f] = {}

\* The other values that a rule reads are those of fields.
ReadsFields(s) ==
  \A f \in DOMAIN s.settings :
    /\ "equalTo" \in DOMAIN Rules(s, f) => Rules(s, f)["equalTo"] \in Fields
    /\ "remote" \in DOMAIN Rules(s, f) => Rules(s, f)["remote"] \subseteq Fields

\* A request that will be heard is the one remembered; an answer that is remembered
\* is the server's.
Requests(p, s) ==
  \A f \in Fields :
    /\ s.request[f] # None =>
         /\ f \in DOMAIN s.settings /\ "remote" \in DOMAIN Rules(s, f)
         /\ s.request[f].key \in [{f} \cup Rules(s, f)["remote"] -> Texts]
         /\ Length[s.request[f].key[f]] > 0
         /\ s.previous[f].old = IF s.request[f].linked THEN s.request[f].key ELSE None
    /\ f \notin s.pending /\ s.previous[f].old # None =>
         (s.previous[f].valid <=> s.previous[f].old \in p.accepted[f])

\* The marks, and the lists of the last check, for fields whose values were checked.
Truth(p, s) ==
  \A f \in s.checked \cap DOMAIN s.settings :
    f \notin s.pending => /\ f \in s.shown <=> Bad(p, s, f)
                          /\ f \in s.errorMap => Bad(p, s, f)
                          /\ f \in s.successList => ~Bad(p, s, f)

LEMMA MoveFull ==
  ASSUME NEW p, ContentOK(p), LateArePlain(p), NEW s, Shape(p, s), Full(p, s),
         NEW t, Move(p, s, t)
  PROVE  Full(p, t) /\ t.settings = s.settings
<1>1. CASE t.options = s.options /\ t.settings = s.settings
  BY <1>1 DEF Full
<1>2. ASSUME NEW f \in p.late, Added(p, s, f, t) PROVE Full(p, t) /\ t.settings = s.settings
  <2> DEFINE marked == {g \in t.present : DOMAIN p.attributes[g] # {}}
             options == [g \in marked |-> ParseElement(g, p.attributes[g])]
  <2>1. IF marked = {}
        THEN t.options = s.options /\ t.settings = s.settings
        ELSE /\ t.options = options
             /\ t.settings = IF s.settings = NoRules THEN t.options ELSE s.settings
    BY <1>2 DEF Added
  <2>2. DOMAIN options = marked /\ DOMAIN NoRules = {}
    BY DEF NoRules
  <2>3. t.present = s.present \cup {f}
    BY <1>2 DEF Added
  <2>4. marked = {g \in p.fields : DOMAIN p.attributes[g] # {}}
    BY <2>3 DEF Shape, LateArePlain
  <2> HIDE DEF marked, options
  <2> QED
    BY <2>1, <2>2, <2>4 DEF Full
<1>3. \/ t.options = s.options /\ t.settings = s.settings
      \/ \E f \in p.late : Added(p, s, f, t)
  BY DEF Move, Only, Flags, FormNames, After, Changed, Forgotten, Told, Lose
<1> QED
  BY <1>1, <1>2, <1>3

\* As long as the values of the form stay, so does what the rules say of them.
LEMMA SameValues ==
  ASSUME NEW p, NEW s, NEW t, t.value = s.value, t.settings = s.settings, NEW f
  PROVE  (Bad(p, t, f) <=> Bad(p, s, f)) /\ Rules(t, f) = Rules(s, f)
<1>1. Rules(t, f) = Rules(s, f)
  BY DEF Rules
<1>2. \A m, param : Holds(p, t, f, m, param) <=> Holds(p, s, f, m, param)
  BY DEF Holds, Meets, Empty
<1> QED
  BY <1>1, <1>2 DEF Bad

\* What is bad about a field.
LEMMA BadOrNot ==
  ASSUME NEW p, NEW s, NEW f
  PROVE  Bad(p, s, f) <=> \/ Failing(s, f) # {}
                          \/ /\ "remote" \in DOMAIN Rules(s, f)
                             /\ ~Empty(s, f)
                             /\ Key(s, f) \notin p.accepted[f]
BY DEF Bad, Holds, Failing, Key

\* A check finds what is true, unless it waits for an answer.
LEMMA CheckTells ==
  ASSUME NEW p, NEW s, Shape(p, s), ReadsFields(s), Requests(p, s),
         NEW f \in Fields, f \notin s.pending
  PROVE  /\ Result(s, f) = "error" => Bad(p, s, f)
         /\ Result(s, f) \in {"ok", "passedOver"} => ~Bad(p, s, f)
<1>1. CASE Failing(s, f) # {}
  BY <1>1, BadOrNot DEF Result
<1>2. CASE Failing(s, f) = {} /\ ("remote" \notin DOMAIN Rules(s, f) \/ Empty(s, f))
  <2>1. RemoteResult(s, f) = "ok"
    BY <1>2 DEF RemoteResult
  <2> QED
    BY <1>2, <2>1, BadOrNot DEF Result
<1>3. CASE Failing(s, f) = {} /\ "remote" \in DOMAIN Rules(s, f) /\ ~Empty(s, f)
  <2>1. f \in DOMAIN s.settings
    BY <1>3 DEF Rules, NoRules
  <2>2. Rules(s, f)["remote"] \subseteq Fields
    BY <1>3, <2>1 DEF ReadsFields
  <2>3. Key(s, f) # None
    <3> DEFINE F == {f} \cup Rules(s, f)["remote"]
    <3>1. F \in SUBSET Fields
      BY <2>2
    <3>2. Key(s, f) \in [F -> Texts]
      BY <3>1 DEF Key, Shape
    <3> HIDE DEF F
    <3> QED
      BY <3>1, <3>2, ConstantsAssumption
  <2>4. Result(s, f) = RemoteResult(s, f)
    BY <1>3 DEF Result, NoRules
  <2>5. RemoteResult(s, f) = IF s.previous[f].old # Key(s, f) THEN "pending"
                             ELSE IF s.previous[f].valid THEN "ok" ELSE "error"
    BY <1>3 DEF RemoteResult
  <2>6. s.previous[f].old # None =>
          (s.previous[f].valid <=> s.previous[f].old \in p.accepted[f])
    BY DEF Requests
  <2> QED
    BY <1>3, <2>3, <2>4, <2>5, <2>6, BadOrNot
<1> QED
  BY <1>1, <1>2, <1>3

LEMMA MoveRequests ==
  ASSUME NEW p, ContentOK(p), LateArePlain(p), NEW s, Shape(p, s), Full(p, s),
         ReadsFields(s), Waits(s), Requests(p, s), NEW t, Move(p, s, t)
  PROVE  Requests(p, t)
<1>1. t.settings = s.settings /\ \A f : Rules(t, f) = Rules(s, f)
  BY MoveFull DEF Rules
<1>2. CASE t.request = s.request /\ t.previous = s.previous /\ t.pending = s.pending
  BY <1>1, <1>2 DEF Requests
<1>3. ASSUME NEW S \in SUBSET s.present, After(s, S, t) PROVE Requests(p, t)
  <2>1. /\ t.pending = s.pending \cup Asking(s, S)
        /\ t.previous = PreviousNow(s, S) /\ t.request = RequestNow(s, S)
    BY <1>3 DEF After
  <2>2. ASSUME NEW f \in Fields, f \notin Asking(s, S)
        PROVE  t.previous[f] = s.previous[f] /\ t.request[f] = s.request[f]
    BY <2>1, <2>2 DEF PreviousNow, RequestNow
  <2>3. ASSUME NEW f \in Fields, f \in Asking(s, S)
        PROVE  /\ f \in t.pending /\ t.request[f].linked
               /\ t.request[f].key = Key(s, f) /\ t.previous[f].old = Key(s, f)
    BY <2>1, <2>3 DEF PreviousNow, RequestNow
  <2>4. ASSUME NEW f \in Fields, f \in Asking(s, S)
        PROVE  /\ f \in DOMAIN s.settings /\ "remote" \in DOMAIN Rules(s, f)
               /\ Key(s, f) \in [{f} \cup Rules(s, f)["remote"] -> Texts]
               /\ Length[Key(s, f)[f]] > 0
    <3>1. Result(s, f) = "pending"
      BY <2>4 DEF Asking
    <3>2. "remote" \in DOMAIN Rules(s, f) /\ ~Empty(s, f)
      BY <3>1 DEF Result, RemoteResult
    <3>3. f \in DOMAIN s.settings
      BY <3>2 DEF Rules, NoRules
    <3>4. {f} \cup Rules(s, f)["remote"] \subseteq Fields
      BY <3>2, <3>3 DEF ReadsFields
    <3>5. s.value[f] \in Texts /\ Length[s.value[f]] \in Nat
      BY ConstantsAssumption DEF Shape
    <3> QED
      BY <3>2, <3>3, <3>4, <3>5 DEF Key, Shape, Empty
  <2>5. ASSUME NEW f \in Fields, f \in Asking(s, S)
        PROVE  /\ t.request[f] # None =>
                    /\ f \in DOMAIN t.settings /\ "remote" \in DOMAIN Rules(t, f)
                    /\ t.request[f].key \in [{f} \cup Rules(t, f)["remote"] -> Texts]
                    /\ Length[t.request[f].key[f]] > 0
                    /\ t.previous[f].old = IF t.request[f].linked THEN t.request[f].key ELSE None
               /\ f \in t.pending
    BY <1>1, <2>3, <2>4, <2>5
  <2>6. ASSUME NEW f \in Fields, f \notin Asking(s, S)
        PROVE  /\ t.previous[f] = s.previous[f] /\ t.request[f] = s.request[f]
               /\ f \notin t.pending => f \notin s.pending
    BY <2>1, <2>2, <2>6
  <2> QED
    BY <1>1, <2>5, <2>6 DEF Requests
<1>4. CASE Forgotten(p, s, t)
  <2>1. /\ t.previous = [f \in Fields |-> NothingAsked]
        /\ t.request = [f \in Fields |->
                          IF s.request[f] = None THEN None
                          ELSE [s.request[f] EXCEPT !.linked = FALSE]]
    BY <1>4 DEF Forgotten
  <2>2. \A f \in Fields : t.previous[f].old = None
    BY <2>1 DEF NothingAsked
  <2>3. \A f \in Fields : t.request[f] # None =>
          s.request[f] # None /\ t.request[f].key = s.request[f].key /\ ~t.request[f].linked
    BY <2>1 DEF Shape
  <2> QED
    BY <1>1, <2>2, <2>3 DEF Requests
<1>5. ASSUME NEW f \in s.present, Told(p, s, f, t) PROVE Requests(p, t)
  <2> DEFINE r == s.request[f]
             valid == r.key \in p.accepted[f]
  <2>1. /\ r # None /\ f \in Fields
        /\ t.request = [s.request EXCEPT ![f] = None]
        /\ t.previous = [s.previous EXCEPT ![f].valid = IF r.linked THEN valid ELSE @]
        /\ t.pending = s.pending \ {f}
    BY <1>5 DEF Told, Shape, ContentOK
  <2>2. r.linked => s.previous[f].old = r.key
    BY <2>1 DEF Requests
  <2>3. ~r.linked => s.previous[f].old = None
    BY <2>1 DEF Requests
  <2>4. /\ t.request[f] = None
        /\ t.previous[f].old = s.previous[f].old
        /\ r.linked => (t.previous[f].valid <=> valid)
    <3>1. DOMAIN s.previous = Fields /\ DOMAIN s.request = Fields
      BY DEF Shape
    <3>2. DOMAIN s.previous[f] = {"old", "valid"}
      BY <2>1 DEF Shape
    <3> HIDE DEF valid, r
    <3>3. t.previous[f] = [s.previous[f] EXCEPT !.valid = IF r.linked THEN valid
                                                          ELSE s.previous[f].valid]
      BY <2>1, <3>1
    <3>4. t.request[f] = None
      BY <2>1, <3>1
    <3> QED
      BY <3>2, <3>3, <3>4
  <2>5. \A g \in Fields \ {f} : t.request[g] = s.request[g] /\ t.previous[g] = s.previous[g]
    BY <2>1 DEF Shape
  <2> QED
    BY SMTT(30), <1>1, <2>1, <2>2, <2>3, <2>4, <2>5 DEF Requests
<1>6. ASSUME NEW f \in s.present, Lose(s, f, t) PROVE Requests(p, t)
  <2>1. /\ t.pending = s.pending /\ t.previous = s.previous
        /\ t.request = [s.request EXCEPT ![f] = None]
    BY <1>6 DEF Lose, Only, FormNames
  <2>2. \A g \in Fields : t.request[g] # None => t.request[g] = s.request[g]
    BY <2>1 DEF Shape
  <2> QED
    BY <1>1, <2>1, <2>2 DEF Requests
<1>7. \/ t.request = s.request /\ t.previous = s.previous /\ t.pending = s.pending
      \/ \E S \in SUBSET s.present : After(s, S, t)
      \/ Forgotten(p, s, t)
      \/ \E f \in s.present : Told(p, s, f, t)
      \/ \E f \in s.present : Lose(s, f, t)
  BY DEF Move, Only, Flags, FormNames, Changed, Added
<1> QED
  BY <1>2, <1>3, <1>4, <1>5, <1>6, <1>7

\* A change of f says nothing new of a field whose rules do not read it.
LEMMA UnreadChange ==
  ASSUME NEW p, NEW s, Shape(p, s), ReadsFields(s), NEW f, NEW v, NEW t,
         Changed(s, f, v, t), NEW g \in Fields, g \in DOMAIN s.settings, g \notin ReadersIn(s, f)
  PROVE  Bad(p, t, g) <=> Bad(p, s, g)
<1>1. /\ t.settings = s.settings
      /\ t.value = [s.value EXCEPT ![f] = v]
      /\ DOMAIN s.value = Fields
  BY DEF Changed, Only, FormNames, Shape
<1>2. Rules(t, g) = Rules(s, g)
  BY <1>1 DEF Rules
<1>3. /\ g # f
      /\ "equalTo" \in DOMAIN Rules(s, g) => Rules(s, g)["equalTo"] # f
      /\ "remote" \in DOMAIN Rules(s, g) => f \notin Rules(s, g)["remote"]
  BY DEF ReadersIn
<1>4. \A h \in Fields : h # f => t.value[h] = s.value[h]
  BY <1>1
<1>5. t.value[g] = s.value[g]
  BY <1>3, <1>4
<1>6. ASSUME NEW m \in DOMAIN Rules(s, g)
      PROVE  Holds(p, t, g, m, Rules(s, g)[m]) <=> Holds(p, s, g, m, Rules(s, g)[m])
  <2> DEFINE param == Rules(s, g)[m]
  <2>1. CASE m = "remote"
    <3>1. \A h \in {g} \cup param : t.value[h] = s.value[h]
      BY <1>3, <1>4, <1>5, <2>1 DEF ReadsFields
    <3> HIDE DEF param
    <3>2. [h \in {g} \cup param |-> t.value[h]] = [h \in {g} \cup param |-> s.value[h]]
      BY <3>1
    <3> QED
      BY <1>5, <2>1, <3>2 DEF Holds, Empty, param
  <2>2. CASE m = "equalTo"
    <3>1. t.value[param] = s.value[param]
      BY <1>3, <1>4, <2>2 DEF ReadsFields
    <3> QED
      BY <1>5, <2>2, <3>1 DEF Holds, Meets
  <2>3. CASE m # "remote" /\ m # "equalTo"
    <3> HIDE DEF param
    <3>1. Empty(t, g) <=> Empty(s, g)
      BY <1>5 DEF Empty
    <3>2. Meets(t, g, m, param) <=> Meets(s, g, m, param)
      BY <1>5, <2>3, <3>1 DEF Meets
    <3> QED
      BY <2>3, <3>2 DEF Holds, param
  <2> QED
    BY <2>1, <2>2, <2>3
<1> QED
  BY <1>2, <1>6 DEF Bad

LEMMA CheckTruth ==
  ASSUME NEW p, ContentOK(p), NEW s, Shape(p, s), ReadsFields(s), Requests(p, s),
         Read(p, s), Lists(p, s), Truth(p, s),
         NEW S \in SUBSET s.present, NEW t, After(s, S, t)
  PROVE  Truth(p, t)
<1>1. t.value = s.value /\ t.settings = s.settings
  BY DEF After, Only, Flags, FormNames
<1>2. /\ t.pending = s.pending \cup Asking(s, S)
      /\ t.checked = s.checked \cup S
      /\ t.shown = (s.shown \cup Wrong(s, S)) \ Right(s, S)
      /\ t.errorMap \subseteq Wrong(s, S) /\ t.successList \subseteq Right(s, S)
  BY DEF After
<1>3. SUFFICES ASSUME NEW f \in t.checked \cap DOMAIN t.settings, f \notin t.pending
               PROVE  /\ f \in t.shown <=> Bad(p, s, f)
                      /\ f \in t.errorMap => Bad(p, s, f)
                      /\ f \in t.successList => ~Bad(p, s, f)
  BY <1>1, SameValues DEF Truth
<1>4. f \notin s.pending /\ f \notin Asking(s, S) /\ f \in DOMAIN s.settings
  BY <1>1, <1>2, <1>3
<1>5. f \in Fields
  BY <1>4 DEF Lists, Shape, ContentOK
<1>6. /\ Result(s, f) = "error" => Bad(p, s, f)
      /\ Result(s, f) \in {"ok", "passedOver"} => ~Bad(p, s, f)
  BY <1>4, <1>5, CheckTells
<1>7. CASE f \notin S
  BY <1>2, <1>4, <1>7, ResultsDiffer DEF Truth
<1>8. CASE f \in S /\ Result(s, f) = "error"
  BY <1>2, <1>6, <1>8 DEF Wrong, Right
<1>9. CASE f \in S /\ Result(s, f) = "ok"
  BY <1>2, <1>6, <1>9 DEF Wrong, Right
<1>10. Result(s, f) \in {"error", "ok", "pending"}
  BY <1>4, ParsedIsChecked
<1> QED
  BY <1>4, <1>7, <1>8, <1>9, <1>10 DEF Asking

LEMMA ToldTruth ==
  ASSUME NEW p, ContentOK(p), NEW s, Shape(p, s), ReadsFields(s), Requests(p, s),
         Truth(p, s), NEW f \in s.present, NEW t, Told(p, s, f, t)
  PROVE  Truth(p, t)
<1> DEFINE r == s.request[f]
           valid == r.key \in p.accepted[f]
<1>1. t.value = s.value /\ t.settings = s.settings
  BY DEF Told, Only, Flags, FormNames
<1>2. /\ r # None /\ f \in Fields
      /\ t.errorMap = IF valid THEN {} ELSE s.errorMap \cup {f}
      /\ t.successList = IF valid THEN {f} ELSE s.successList \ {f}
      /\ t.checked = IF r.key = Key(s, f) /\ Failing(s, f) = {}
                     THEN s.checked ELSE s.checked \ {f}
      /\ t.shown = (s.shown \cup t.errorMap) \ t.successList
      /\ t.pending = s.pending \ {f}
  BY DEF Told, Shape, ContentOK
<1>3. /\ "remote" \in DOMAIN Rules(s, f)
      /\ Length[r.key[f]] > 0
  BY <1>2 DEF Requests
<1>4. SUFFICES ASSUME NEW g \in t.checked \cap DOMAIN t.settings, g \notin t.pending
               PROVE  /\ g \in t.shown <=> Bad(p, s, g)
                      /\ g \in t.errorMap => Bad(p, s, g)
                      /\ g \in t.successList => ~Bad(p, s, g)
  BY <1>1, SameValues DEF Truth
<1>5. CASE g = f
  <2>1. r.key = Key(s, f) /\ Failing(s, f) = {}
    BY <1>2, <1>4, <1>5
  <2>2. ~Empty(s, f)
    BY <1>3, <2>1 DEF Empty, Key
  <2>3. Bad(p, s, f) <=> ~valid
    BY <1>3, <2>1, <2>2, BadOrNot
  <2> HIDE DEF valid, r
  <2> QED
    BY <1>2, <1>5, <2>3
<1>6. CASE g # f
  <2>1. /\ g \in s.shown <=> Bad(p, s, g)
        /\ g \in s.errorMap => Bad(p, s, g)
        /\ g \in s.successList => ~Bad(p, s, g)
    BY <1>1, <1>2, <1>4, <1>6 DEF Truth
  <2> HIDE DEF valid, r
  <2> QED
    BY <1>2, <1>6, <2>1
<1> QED
  BY <1>5, <1>6

LEMMA MoveTruth ==
  ASSUME NEW p, ContentOK(p), NEW s, Shape(p, s), ReadsFields(s), Requests(p, s),
         Read(p, s), Lists(p, s), Truth(p, s), LateArePlain(p), Full(p, s),
         NEW t, Move(p, s, t)
  PROVE  Truth(p, t)
<1>1. t.settings = s.settings
  BY MoveFull
<1>2. CASE /\ t.value = s.value /\ t.checked = s.checked /\ t.pending = s.pending
           /\ t.shown = s.shown /\ t.errorMap = s.errorMap /\ t.successList = s.successList
  BY <1>1, <1>2, SameValues DEF Truth
<1>3. ASSUME NEW f \in s.present, NEW v \in p.typed[f], Changed(s, f, v, t)
      PROVE  Truth(p, t)
  <2>1. /\ t.pending = s.pending /\ t.shown = s.shown /\ t.errorMap = s.errorMap
        /\ t.successList = s.successList
        /\ t.checked = s.checked \ ReadersIn(s, f)
    BY <1>3 DEF Changed, Only, FormNames
  <2>2. \A g \in t.checked \cap DOMAIN t.settings : Bad(p, t, g) <=> Bad(p, s, g)
    <3>1. \A g \in s.checked : g \in Fields
      BY DEF Lists, Shape, ContentOK
    <3> QED
      BY <1>1, <1>3, <2>1, <3>1, UnreadChange
  <2> QED
    BY <1>1, <2>1, <2>2 DEF Truth
<1>4. CASE Forgotten(p, s, t)
  BY <1>4 DEF Forgotten, Truth
<1>5. \/ /\ t.value = s.value /\ t.checked = s.checked /\ t.pending = s.pending
         /\ t.shown = s.shown /\ t.errorMap = s.errorMap /\ t.successList = s.successList
      \/ \E S \in SUBSET s.present : After(s, S, t)
      \/ \E f \in s.present : \E v \in p.typed[f] : Changed(s, f, v, t)
      \/ Forgotten(p, s, t)
      \/ \E f \in s.present : Told(p, s, f, t)
  BY DEF Move, Only, Flags, FormNames, Added, Lose
<1> QED
  BY <1>2, <1>3, <1>4, <1>5, CheckTruth, ToldTruth

-----------------------------------------------------------------------------
(***************************************************************************)
(* The rules mean what the attributes mean                                 *)
(***************************************************************************)
LEMMA AdaptersDiffer ==
  \A i, j \in DOMAIN AdapterNames : AdapterNames[i] = AdapterNames[j] => i = j
BY DEF AdapterNames

Disjoint(f, a) ==
  \A x, y \in DOMAIN a :
    x # y => DOMAIN Adapted(x, f, a[x]) \cap DOMAIN Adapted(y, f, a[y]) = {}

\* If no two adapters make the same rule, it is that of the one that makes it.
LEMMA MadeByOne ==
  ASSUME NEW f, NEW a, Attributes(a), Disjoint(f, a),
         NEW x \in DOMAIN a, NEW m \in DOMAIN Adapted(x, f, a[x]), m \in Methods
  PROVE  m \in DOMAIN MadeRules(f, a) /\ MadeRules(f, a)[m] = Adapted(x, f, a[x])[m]
<1> DEFINE Made(i) == Adapted(AdapterNames[i], f, a[AdapterNames[i]])
           Makers(n) == {i \in DOMAIN AdapterNames :
                           AdapterNames[i] \in DOMAIN a /\ n \in DOMAIN Made(i)}
           Latest(n) == CHOOSE i \in Makers(n) : \A j \in Makers(n) : j <= i
<1>1. MadeRules(f, a)
      = [n \in {k \in Methods : Makers(k) # {}} |-> Made(Latest(n))[n]]
  BY DEF MadeRules
<1>2. PICK k \in DOMAIN AdapterNames : AdapterNames[k] = x
  BY DEF Attributes
<1>3. k \in Int
  BY <1>2 DEF AdapterNames
<1>4. Makers(m) = {k}
  <2>1. k \in Makers(m)
    BY <1>2
  <2>2. ASSUME NEW i \in Makers(m) PROVE i = k
    <3>1. AdapterNames[i] = x
      BY <2>2 DEF Disjoint
    <3> QED
      BY <1>2, <3>1, AdaptersDiffer
  <2> QED
    BY <2>1, <2>2
<1>5. Latest(m) = k
  <2> HIDE DEF Makers
  <2>1. k \in Makers(m) /\ \A j \in Makers(m) : j <= k
    BY <1>3, <1>4
  <2> QED
    BY <1>4, <2>1
<1>6. m \in {n \in Methods : Makers(n) # {}}
  <2> HIDE DEF Makers
  <2> QED
    BY <1>4
<1>7. Made(k) = Adapted(x, f, a[x])
  BY <1>2
<1> HIDE DEF Made, Makers, Latest
<1> QED
  BY <1>1, <1>5, <1>6, <1>7

\* A name that refers to a field refers to just one.
LEMMA OtherIsField ==
  ASSUME NEW f \in Fields, NEW other, Refers(f, other)
  PROVE  /\ Other(f, other) \in Fields
         /\ Name[Other(f, other)] = AppendModelPrefix(other, GetModelPrefix(f))
         /\ \A g \in Fields : Name[g] = AppendModelPrefix(other, GetModelPrefix(f))
                              => g = Other(f, other)
<1> DEFINE name == AppendModelPrefix(other, GetModelPrefix(f))
<1>1. Other(f, other) = CHOOSE g \in Fields : Name[g] = name
  BY DEF Other, FieldNamed
<1>2. \E g \in Fields : Name[g] = name
  BY DEF Refers
<1> HIDE DEF name
<1>3. Other(f, other) \in Fields /\ Name[Other(f, other)] = name
  BY <1>1, <1>2
<1>4. \A g \in Fields : Name[g] = name => g = Other(f, other)
  BY <1>3, ConstantsAssumption
<1> QED
  BY <1>3, <1>4 DEF name

LEMMA RemoteRule ==
  ASSUME NEW f, NEW params
  PROVE  Adapted("remote", f, params)["remote"]
         = IF "additionalfields" \in DOMAIN params
           THEN {Other(f, name) : name \in params.additionalfields} ELSE {f}
<1> DEFINE others == IF "additionalfields" \in DOMAIN params
                     THEN {Other(f, name) : name \in params.additionalfields} ELSE {f}
<1>1. Adapted("remote", f, params) = Rule("remote", others)
  <2>1. Remote(f, params) = Rule("remote", others)
    BY DEF Remote
  <2> HIDE DEF others
  <2> QED
    BY <2>1, AdaptedRules
<1> HIDE DEF others
<1>2. Adapted("remote", f, params)["remote"] = others
  BY <1>1 DEF Rule
<1> QED
  BY <1>2 DEF others

\* The other values that the rule of an adapter reads are those of fields.
LEMMA AdapterReadsFields ==
  ASSUME NEW p, NEW f \in Fields, NEW x \in Adapters, NEW params, WellFormed(p, f, x, params)
  PROVE  /\ "equalTo" \in DOMAIN Adapted(x, f, params) => Adapted(x, f, params)["equalTo"] \in Fields
         /\ "remote" \in DOMAIN Adapted(x, f, params) => Adapted(x, f, params)["remote"] \subseteq Fields
<1>1. "equalTo" \in DOMAIN Adapted(x, f, params) => Adapted(x, f, params)["equalTo"] \in Fields
  <2> SUFFICES ASSUME x = "equalto" PROVE Adapted("equalto", f, params)["equalTo"] \in Fields
    BY AdapterMakes
  <2>1. Adapted("equalto", f, params) = Rule("equalTo", Other(f, params.other))
    BY AdaptedRules
  <2>2. Adapted("equalto", f, params)["equalTo"] = Other(f, params.other)
    BY <2>1 DEF Rule
  <2>3. Refers(f, params.other)
    BY DEF WellFormed
  <2> QED
    BY <2>2, <2>3, OtherIsField
<1>2. "remote" \in DOMAIN Adapted(x, f, params) => Adapted(x, f, params)["remote"] \subseteq Fields
  <2> SUFFICES ASSUME x = "remote" PROVE Adapted("remote", f, params)["remote"] \subseteq Fields
    BY AdapterMakes
  <2> DEFINE others == IF "additionalfields" \in DOMAIN params
                       THEN {Other(f, name) : name \in params.additionalfields} ELSE {f}
  <2>1. Adapted("remote", f, params)["remote"] = others
    BY RemoteRule
  <2>2. "additionalfields" \in DOMAIN params =>
          \A name \in params.additionalfields : Other(f, name) \in Fields
    BY OtherIsField DEF WellFormed
  <2> QED
    BY <2>1, <2>2
<1> QED
  BY <1>1, <1>2

\* What each rule asks of a value.
LEMMA MeetsByName ==
  ASSUME NEW s, NEW f, NEW param
  PROVE  /\ Meets(s, f, "required", param) <=> ~Empty(s, f)
         /\ Meets(s, f, "equalTo", param) <=> s.value[f] = s.value[param]
         /\ Meets(s, f, "nonalphamin", param) <=>
              NonWord[s.value[f]] > 0 /\ NonWord[s.value[f]] >= Number[param]
         /\ Meets(s, f, "date", param) <=> Empty(s, f) \/ s.value[f] \in Format["date"]
         /\ Meets(s, f, "digits", param) <=> Empty(s, f) \/ s.value[f] \in Format["digits"]
         /\ Meets(s, f, "email", param) <=> Empty(s, f) \/ s.value[f] \in Format["email"]
         /\ Meets(s, f, "number", param) <=> Empty(s, f) \/ s.value[f] \in Format["number"]
         /\ Meets(s, f, "url", param) <=> Empty(s, f) \/ s.value[f] \in Format["url"]
         /\ Meets(s, f, "regex", param) <=> Empty(s, f) \/ s.value[f] \in Whole[param]
         /\ Meets(s, f, "minlength", param) <=>
              Empty(s, f) \/ Length[s.value[f]] >= Number[param]
         /\ Meets(s, f, "maxlength", param) <=>
              Empty(s, f) \/ Length[s.value[f]] <= Number[param]
         /\ Meets(s, f, "rangelength", param) <=>
              Empty(s, f) \/ Length[s.value[f]] \in Number[param[1]] .. Number[param[2]]
         /\ Meets(s, f, "range", param) <=>
              \/ Empty(s, f)
              \/ /\ Number[s.value[f]] # NaN
                 /\ Number[s.value[f]] \in Number[param[1]] .. Number[param[2]]
BY DEF Meets, Formats

\* What each attribute asks of a value; Within is what its bounds allow.
Within(n, params) ==
  /\ "min" \in DOMAIN params => n >= Number[params.min]
  /\ "max" \in DOMAIN params => n <= Number[params.max]

LEMMA ObeysByName ==
  ASSUME NEW f, NEW params
  PROVE  /\ \A x \in Formats :
              Obeys(f, x, params) <=> Length[form.value[f]] = 0 \/ form.value[f] \in Format[x]
         /\ Obeys(f, "regex", params) <=>
              Length[form.value[f]] = 0 \/ form.value[f] \in Whole[params.pattern]
         /\ Obeys(f, "length", params) <=>
              Length[form.value[f]] = 0 \/ Within(Length[form.value[f]], params)
         /\ Obeys(f, "minlength", params) <=>
              Length[form.value[f]] = 0 \/ Within(Length[form.value[f]], params)
         /\ Obeys(f, "maxlength", params) <=>
              Length[form.value[f]] = 0 \/ Within(Length[form.value[f]], params)
         /\ Obeys(f, "range", params) <=>
              \/ Length[form.value[f]] = 0
              \/ Number[form.value[f]] # NaN /\ Within(Number[form.value[f]], params)
         /\ Obeys(f, "required", params) <=> Kind[f] = "checkbox" \/ Length[form.value[f]] > 0
         /\ Obeys(f, "equalto", params) <=>
              \E g \in Fields : /\ Name[g].leaf = params.other.leaf
                                /\ Name[g].prefix = IF params.other.relative
                                                    THEN Name[f].prefix ELSE params.other.prefix
                                /\ form.value[f] = form.value[g]
         /\ Obeys(f, "remote", params) <=>
              \/ Length[form.value[f]] = 0
              \/ \E key \in This.accepted[f] : \A g \in DOMAIN key : key[g] = form.value[g]
         /\ Obeys(f, "password", params) <=>
              /\ "nonalphamin" \in DOMAIN params =>
                   NonWord[form.value[f]] >= Number[params.nonalphamin]
              /\ Length[form.value[f]] > 0 /\ "min" \in DOMAIN params =>
                   Length[form.value[f]] >= Number[params.min]
              /\ Length[form.value[f]] > 0 /\ "regex" \in DOMAIN params =>
                   form.value[f] \in Whole[params.regex]
BY DEF Obeys, Formats, Within

\* All rules of r are met.
All(f, r) == \A m \in DOMAIN r : Holds(This, form, f, m, r[m])

LEMMA AllOfRule ==
  ASSUME NEW f
  PROVE  /\ \A n, value : All(f, Rule(n, value)) <=> Holds(This, form, f, n, value)
         /\ All(f, NoRules)
BY DEF All, Rule, NoRules

LEMMA AllOfMinMax ==
  ASSUME NEW f, NEW params, NEW a, NEW b, NEW c
  PROVE  LET r == AddMinMax(params, a, b, c)
             min == "min" \in DOMAIN params
             max == "max" \in DOMAIN params
         IN  /\ min /\ max => (All(f, r) <=> Holds(This, form, f, c, <<params.min, params.max>>))
             /\ min /\ ~max => (All(f, r) <=> Holds(This, form, f, a, params.min))
             /\ ~min /\ max => (All(f, r) <=> Holds(This, form, f, b, params.max))
             /\ ~min /\ ~max => All(f, r)
<1> DEFINE r == AddMinMax(params, a, b, c)
           min == "min" \in DOMAIN params
           max == "max" \in DOMAIN params
<1>1. CASE min /\ max
  <2>1. r = Rule(c, <<params.min, params.max>>)
    BY <1>1 DEF AddMinMax
  <2> QED
    BY <1>1, <2>1, AllOfRule
<1>2. CASE min /\ ~max
  <2>1. r = Rule(a, params.min)
    BY <1>2 DEF AddMinMax
  <2> QED
    BY <1>2, <2>1, AllOfRule
<1>3. CASE ~min /\ max
  <2>1. r = Rule(b, params.max)
    BY <1>3 DEF AddMinMax
  <2> QED
    BY <1>3, <2>1, AllOfRule
<1>4. CASE ~min /\ ~max
  <2>1. r = NoRules
    BY <1>4 DEF AddMinMax
  <2> QED
    BY <1>4, <2>1, AllOfRule
<1> QED
  BY <1>1, <1>2, <1>3, <1>4

LEMMA ValueTypes ==
  ASSUME form.value \in [Fields -> Texts], NEW f \in Fields
  PROVE  /\ Length[form.value[f]] \in Nat
         /\ Number[form.value[f]] \in Int \cup {NaN}
         /\ NonWord[form.value[f]] \in Nat
         /\ Empty(form, f) <=> Length[form.value[f]] = 0
BY ConstantsAssumption DEF Empty

LEMMA FormatMeans ==
  ASSUME NEW f, NEW x \in Formats, NEW params
  PROVE  All(f, Adapted(x, f, params)) <=> Obeys(f, x, params)
<1>1. /\ Adapted("date", f, params) = Rule("date", NoParam)
      /\ Adapted("digits", f, params) = Rule("digits", NoParam)
      /\ Adapted("email", f, params) = Rule("email", NoParam)
      /\ Adapted("number", f, params) = Rule("number", NoParam)
      /\ Adapted("url", f, params) = Rule("url", NoParam)
  BY DEF Adapted, AddBool, Formats
<1>2. Adapted(x, f, params) = Rule(x, NoParam)
  BY <1>1 DEF Formats
<1>3. All(f, Adapted(x, f, params)) <=> Holds(This, form, f, x, NoParam)
  BY <1>2, AllOfRule
<1>4. Holds(This, form, f, x, NoParam) <=> Meets(form, f, x, NoParam)
  BY DEF Holds, Formats
<1>5. Meets(form, f, x, NoParam) <=> Empty(form, f) \/ form.value[f] \in Format[x]
  BY MeetsByName DEF Formats
<1> QED
  BY <1>3, <1>4, <1>5, ObeysByName DEF Empty

LEMMA SimpleMeans ==
  ASSUME form.value \in [Fields -> Texts], NEW f \in Fields, NEW params
  PROVE  /\ All(f, Adapted("regex", f, params)) <=> Obeys(f, "regex", params)
         /\ All(f, Adapted("required", f, params)) <=> Obeys(f, "required", params)
<1>1. All(f, Adapted("regex", f, params)) <=> Obeys(f, "regex", params)
  <2>1. All(f, Adapted("regex", f, params)) <=> Holds(This, form, f, "regex", params["pattern"])
    BY AdaptedRules, AllOfRule
  <2>2. Holds(This, form, f, "regex", params["pattern"])
        <=> Empty(form, f) \/ form.value[f] \in Whole[params["pattern"]]
    BY MeetsByName DEF Holds
  <2> QED
    BY <2>1, <2>2, ObeysByName DEF Empty
<1>2. All(f, Adapted("required", f, params)) <=> Obeys(f, "required", params)
  <2>1. CASE Kind[f] = "checkbox"
    BY <2>1, AdaptedRules, AllOfRule, ObeysByName
  <2>2. CASE Kind[f] # "checkbox"
    <3>1. All(f, Adapted("required", f, params)) <=> Holds(This, form, f, "required", NoParam)
      BY <2>2, AdaptedRules, AllOfRule
    <3>2. Holds(This, form, f, "required", NoParam) <=> ~Empty(form, f)
      BY MeetsByName DEF Holds
    <3> QED
      BY <2>2, <3>1, <3>2, ObeysByName, ValueTypes
  <2> QED
    BY <2>1, <2>2
<1> QED
  BY <1>1, <1>2

LEMMA BoundsMean ==
  ASSUME form.value \in [Fields -> Texts], NEW p, NEW f \in Fields, NEW params
  PROVE  /\ WellFormed(p, f, "length", params) =>
              (All(f, Adapted("length", f, params)) <=> Obeys(f, "length", params))
         /\ WellFormed(p, f, "minlength", params) =>
              (All(f, Adapted("minlength", f, params)) <=> Obeys(f, "minlength", params))
         /\ WellFormed(p, f, "maxlength", params) =>
              (All(f, Adapted("maxlength", f, params)) <=> Obeys(f, "maxlength", params))
         /\ WellFormed(p, f, "range", params) =>
              (All(f, Adapted("range", f, params)) <=> Obeys(f, "range", params))
<1> DEFINE v == form.value[f]
           min == "min" \in DOMAIN params
           max == "max" \in DOMAIN params
           empty == Length[v] = 0
           both == <<params.min, params.max>>
<1>1. both[1] = params.min /\ both[2] = params.max
  OBVIOUS
<1>2. /\ Holds(This, form, f, "minlength", params.min) <=> empty \/ Length[v] >= Number[params.min]
      /\ Holds(This, form, f, "maxlength", params.max) <=> empty \/ Length[v] <= Number[params.max]
      /\ Holds(This, form, f, "rangelength", both)
           <=> empty \/ Length[v] \in Number[params.min] .. Number[params.max]
      /\ Holds(This, form, f, "range", both)
           <=> \/ empty
               \/ Number[v] # NaN /\ Number[v] \in Number[params.min] .. Number[params.max]
  <2> HIDE DEF both
  <2> QED
    BY <1>1, MeetsByName DEF Holds, Empty
<1>3. Length[v] \in Nat /\ Number[v] \in Int \cup {NaN}
  BY ValueTypes
<1>4. /\ min => Within(Length[v], params) <=> /\ Length[v] >= Number[params.min]
                                              /\ max => Length[v] <= Number[params.max]
      /\ ~min => Within(Length[v], params) <=> (max => Length[v] <= Number[params.max])
      /\ min /\ max => Within(Number[v], params) <=> /\ Number[v] >= Number[params.min]
                                                     /\ Number[v] <= Number[params.max]
  BY DEF Within
<1>5. ASSUME WellFormed(p, f, "length", params)
      PROVE  All(f, Adapted("length", f, params)) <=> Obeys(f, "length", params)
  <2>1. Adapted("length", f, params) = AddMinMax(params, "minlength", "maxlength", "rangelength")
    BY AdaptedRules
  <2>2. /\ min => Number[params.min] \in Int
        /\ max => Number[params.max] \in Int
    BY <1>5 DEF WellFormed
  <2>3. Obeys(f, "length", params) <=> empty \/ Within(Length[v], params)
    BY ObeysByName
  <2>4. min /\ max => (Length[v] \in Number[params.min] .. Number[params.max]
                       <=> Within(Length[v], params))
    <3> HIDE DEF v
    <3> QED
      BY <1>3, <1>4, <2>2
  <2> HIDE DEF v, both
  <2> QED
    BY <1>2, <1>4, <2>1, <2>3, <2>4, AllOfMinMax DEF both
<1>6. ASSUME WellFormed(p, f, "minlength", params)
      PROVE  All(f, Adapted("minlength", f, params)) <=> Obeys(f, "minlength", params)
  <2>1. Adapted("minlength", f, params) = AddMinMax(params, "minlength", NoParam, NoParam)
    BY AdaptedRules
  <2>2. ~max
    BY <1>6 DEF WellFormed
  <2>3. Obeys(f, "minlength", params) <=> empty \/ Within(Length[v], params)
    BY ObeysByName
  <2> HIDE DEF v
  <2> QED
    BY <1>2, <1>4, <2>1, <2>2, <2>3, AllOfMinMax
<1>7. ASSUME WellFormed(p, f, "maxlength", params)
      PROVE  All(f, Adapted("maxlength", f, params)) <=> Obeys(f, "maxlength", params)
  <2>1. Adapted("maxlength", f, params) = AddMinMax(params, "minlength", "maxlength", NoParam)
    BY AdaptedRules
  <2>2. ~min
    BY <1>7 DEF WellFormed
  <2>3. Obeys(f, "maxlength", params) <=> empty \/ Within(Length[v], params)
    BY ObeysByName
  <2> HIDE DEF v
  <2> QED
    BY SMTT(30), <1>2, <1>4, <2>1, <2>2, <2>3, AllOfMinMax
<1>8. ASSUME WellFormed(p, f, "range", params)
      PROVE  All(f, Adapted("range", f, params)) <=> Obeys(f, "range", params)
  <2>1. Adapted("range", f, params) = AddMinMax(params, "min", "max", "range")
    BY AdaptedRules
  <2>2. min /\ max /\ Number[params.min] \in Int /\ Number[params.max] \in Int
    BY <1>8 DEF WellFormed
  <2>3. Obeys(f, "range", params) <=> empty \/ (Number[v] # NaN /\ Within(Number[v], params))
    BY ObeysByName
  <2>4. Number[v] # NaN => (Number[v] \in Number[params.min] .. Number[params.max]
                            <=> Within(Number[v], params))
    <3> SUFFICES ASSUME Number[v] # NaN
                 PROVE  Number[v] \in Number[params.min] .. Number[params.max]
                        <=> Within(Number[v], params)
      OBVIOUS
    <3>1. Number[v] \in Int
      BY <1>3
    <3>2. Within(Number[v], params) <=> /\ Number[v] >= Number[params.min]
                                        /\ Number[v] <= Number[params.max]
      BY <1>4, <2>2
    <3> HIDE DEF v
    <3> QED
      BY <2>2, <3>1, <3>2
  <2>5. All(f, AddMinMax(params, "min", "max", "range")) <=> Holds(This, form, f, "range", both)
    BY <2>2, AllOfMinMax
  <2> HIDE DEF v, both
  <2> QED
    BY <1>2, <2>1, <2>3, <2>4, <2>5
<1> QED
  BY <1>5, <1>6, <1>7, <1>8

LEMMA EqualToMeans ==
  ASSUME NEW p, NEW f \in Fields, NEW params, WellFormed(p, f, "equalto", params)
  PROVE  All(f, Adapted("equalto", f, params)) <=> Obeys(f, "equalto", params)
<1> DEFINE other == params.other
           g == Other(f, other)
           name == AppendModelPrefix(other, GetModelPrefix(f))
<1>1. Adapted("equalto", f, params) = Rule("equalTo", g)
  BY AdaptedRules
<1>2. All(f, Adapted("equalto", f, params)) <=> form.value[f] = form.value[g]
  <2> HIDE DEF g
  <2>1. Holds(This, form, f, "equalTo", g) <=> form.value[f] = form.value[g]
    BY MeetsByName DEF Holds
  <2> QED
    BY <1>1, <2>1, AllOfRule
<1>3. /\ g \in Fields /\ Name[g] = name
      /\ \A h \in Fields : Name[h] = name => h = g
  <2>1. Refers(f, other)
    BY DEF WellFormed
  <2> QED
    BY <2>1, OtherIsField
<1>4. name = [prefix |-> IF other.relative THEN Name[f].prefix ELSE other.prefix,
              leaf |-> other.leaf]
  BY DEF AppendModelPrefix, GetModelPrefix
<1> HIDE DEF g, other, name
<1>5. \A h \in Fields :
        Name[h] = name <=> /\ Name[h].leaf = other.leaf
                           /\ Name[h].prefix = IF other.relative THEN Name[f].prefix
                                               ELSE other.prefix
  <2> SUFFICES ASSUME NEW h \in Fields
               PROVE  Name[h] = name
                      <=> /\ Name[h].leaf = other.leaf
                          /\ Name[h].prefix = IF other.relative THEN Name[f].prefix
                                              ELSE other.prefix
    OBVIOUS
  <2>1. Name[h] = [prefix |-> Name[h].prefix, leaf |-> Name[h].leaf]
    BY ConstantsAssumption
  <2> QED
    BY <1>4, <2>1
<1>6. Obeys(f, "equalto", params) <=> \E h \in Fields : Name[h] = name /\ form.value[f] = form.value[h]
  <2>1. Obeys(f, "equalto", params) <=>
          \E h \in Fields : /\ Name[h].leaf = other.leaf
                            /\ Name[h].prefix = IF other.relative
                                                THEN Name[f].prefix ELSE other.prefix
                            /\ form.value[f] = form.value[h]
    BY ObeysByName DEF other
  <2> QED
    BY <1>5, <2>1
<1> QED
  BY <1>2, <1>3, <1>6

LEMMA RemoteMeans ==
  ASSUME form.value \in [Fields -> Texts], NEW f \in Fields, NEW params,
         WellFormed(This, f, "remote", params)
  PROVE  All(f, Adapted("remote", f, params)) <=> Obeys(f, "remote", params)
<1> DEFINE others == Adapted("remote", f, params)["remote"]
           F == {f} \cup others
           key == [g \in F |-> form.value[g]]
<1>1. Adapted("remote", f, params) = Remote(f, params)
  BY AdaptedRules
<1>2. This.accepted[f] \subseteq [F -> Texts]
  BY <1>1 DEF WellFormed
<1>3. All(f, Adapted("remote", f, params)) <=> Holds(This, form, f, "remote", others)
  <2> DEFINE r == Adapted("remote", f, params)
  <2>1. DOMAIN r = {"remote"}
    BY <1>1 DEF Remote, Rule
  <2> HIDE DEF r
  <2>2. All(f, r) <=> Holds(This, form, f, "remote", r["remote"])
    BY <2>1 DEF All
  <2> QED
    BY <2>2 DEF r
<1>4. Holds(This, form, f, "remote", others) <=> Empty(form, f) \/ key \in This.accepted[f]
  BY DEF Holds
<1>5. Obeys(f, "remote", params) <=>
        \/ Empty(form, f)
        \/ \E k \in This.accepted[f] : \A g \in DOMAIN k : k[g] = form.value[g]
  BY ObeysByName DEF Empty
<1>6. (\E k \in This.accepted[f] : \A g \in DOMAIN k : k[g] = form.value[g])
      <=> key \in This.accepted[f]
  <2> HIDE DEF F
  <2>1. DOMAIN key = F /\ \A g \in F : key[g] = form.value[g]
    OBVIOUS
  <2>2. ASSUME NEW k \in This.accepted[f], \A g \in DOMAIN k : k[g] = form.value[g]
        PROVE  k = key
    <3>1. k = [g \in F |-> k[g]] /\ DOMAIN k = F
      BY <1>2
    <3> QED
      BY <2>2, <3>1
  <2> HIDE DEF key
  <2> QED
    BY <2>1, <2>2
<1> QED
  BY <1>3, <1>4, <1>5, <1>6

LEMMA PasswordMeans ==
  ASSUME form.value \in [Fields -> Texts], NEW f \in Fields, NEW params,
         "nonalphamin" \in DOMAIN params => Number[params.nonalphamin] \in Nat \ {0}
  PROVE  All(f, Adapted("password", f, params)) <=> Obeys(f, "password", params)
<1> DEFINE rule == [min |-> "minlength", nonalphamin |-> "nonalphamin", regex |-> "regex"]
           r == Password(params)
<1>1. r = [m \in {rule[q] : q \in DOMAIN params \cap DOMAIN rule} |->
             params[CHOOSE q \in DOMAIN rule : rule[q] = m]]
  BY DEF Password
<1>2. DOMAIN rule = {"min", "nonalphamin", "regex"}
  OBVIOUS
<1>3. /\ (CHOOSE q \in DOMAIN rule : rule[q] = "minlength") = "min"
      /\ (CHOOSE q \in DOMAIN rule : rule[q] = "nonalphamin") = "nonalphamin"
      /\ (CHOOSE q \in DOMAIN rule : rule[q] = "regex") = "regex"
  BY <1>2
<1>4. /\ DOMAIN r \subseteq {"minlength", "nonalphamin", "regex"}
      /\ "minlength" \in DOMAIN r <=> "min" \in DOMAIN params
      /\ "nonalphamin" \in DOMAIN r <=> "nonalphamin" \in DOMAIN params
      /\ "regex" \in DOMAIN r <=> "regex" \in DOMAIN params
  BY <1>1, <1>2
<1>5. /\ "min" \in DOMAIN params => r["minlength"] = params["min"]
      /\ "nonalphamin" \in DOMAIN params => r["nonalphamin"] = params["nonalphamin"]
      /\ "regex" \in DOMAIN params => r["regex"] = params["regex"]
  <2> HIDE DEF rule, r
  <2> QED
    BY <1>1, <1>3, <1>4
<1> HIDE DEF rule, r
<1>6. All(f, r) <=>
        /\ "min" \in DOMAIN params => Holds(This, form, f, "minlength", params["min"])
        /\ "nonalphamin" \in DOMAIN params =>
             Holds(This, form, f, "nonalphamin", params["nonalphamin"])
        /\ "regex" \in DOMAIN params => Holds(This, form, f, "regex", params["regex"])
  BY <1>4, <1>5 DEF All
<1>7. \A param :
        /\ Holds(This, form, f, "minlength", param)
             <=> Empty(form, f) \/ Length[form.value[f]] >= Number[param]
        /\ Number[param] \in Nat \ {0} =>
             (Holds(This, form, f, "nonalphamin", param) <=> NonWord[form.value[f]] >= Number[param])
        /\ Holds(This, form, f, "regex", param) <=> Empty(form, f) \/ form.value[f] \in Whole[param]
  <2>1. \A m, n \in Nat : n # 0 => (m > 0 /\ m >= n <=> m >= n)
    OBVIOUS
  <2>2. NonWord[form.value[f]] \in Nat
    BY ValueTypes
  <2> QED
    BY <2>1, <2>2, MeetsByName DEF Holds
<1>8. Empty(form, f) <=> ~(Length[form.value[f]] > 0)
  BY ValueTypes
<1>9. Adapted("password", f, params) = r
  BY AdaptedRules DEF r
<1> QED
  BY <1>6, <1>7, <1>8, <1>9, ObeysByName

\* Every adapter: its rules are met exactly if the attribute is obeyed.
LEMMA AdapterMeans ==
  ASSUME form.value \in [Fields -> Texts], NEW f \in Fields, NEW x \in Adapters, NEW params,
         WellFormed(This, f, x, params)
  PROVE  /\ DOMAIN Adapted(x, f, params) \subseteq Methods
         /\ All(f, Adapted(x, f, params)) <=> Obeys(f, x, params)
<1>1. NoParam \notin DOMAIN Adapted(x, f, params)
  <2>1. CASE x \in {"minlength", "maxlength"}
    <3>1. NoParam \notin {"minlength", "maxlength"}
      BY NoParamAssumption, MethodList DEF Methods
    <3>2. /\ x = "minlength" => "max" \notin DOMAIN params
          /\ x = "maxlength" => "min" \notin DOMAIN params
      BY DEF WellFormed
    <3>3. /\ Adapted("minlength", f, params) = AddMinMax(params, "minlength", NoParam, NoParam)
          /\ Adapted("maxlength", f, params) = AddMinMax(params, "minlength", "maxlength", NoParam)
      BY AdaptedRules
    <3>4. Adapted(x, f, params) \in {Rule("minlength", params.min), Rule("maxlength", params.max),
                                     NoRules}
      BY <2>1, <3>2, <3>3 DEF AddMinMax
    <3> QED
      BY <3>1, <3>4 DEF Rule, NoRules
  <2>2. CASE x \notin {"minlength", "maxlength"}
    BY <2>2, AdapterMakes
  <2> QED
    BY <2>1, <2>2
<1>2. DOMAIN Adapted(x, f, params) \subseteq Methods
  BY <1>1, AdapterMakes
<1>3. All(f, Adapted(x, f, params)) <=> Obeys(f, x, params)
  <2>1. CASE x \in Formats
    BY <2>1, FormatMeans
  <2>2. CASE x = "regex" \/ x = "required"
    BY <2>2, SimpleMeans
  <2>3. CASE x = "length" \/ x = "minlength" \/ x = "maxlength" \/ x = "range"
    BY <2>3, BoundsMean
  <2>4. CASE x = "equalto"
    BY <2>4, EqualToMeans
  <2>5. CASE x = "remote"
    BY <2>5, RemoteMeans
  <2>6. CASE x = "password"
    BY <2>6, PasswordMeans DEF WellFormed
  <2> QED
    BY <2>1, <2>2, <2>3, <2>4, <2>5, <2>6 DEF Adapters
<1> QED
  BY <1>2, <1>3

\* What Ordinary says of one field.
LEMMA OrdinaryField ==
  ASSUME NEW p, ContentOK(p), Ordinary(p), NEW f \in p.fields \cup p.late
  PROVE  /\ f \in Fields
         /\ Attributes(p.attributes[f])
         /\ Disjoint(f, p.attributes[f])
         /\ \A x \in DOMAIN p.attributes[f] :
              x \in Adapters /\ WellFormed(p, f, x, p.attributes[f][x])
<1>1. f \in Fields /\ Attributes(p.attributes[f])
  BY DEF ContentOK, Attributes
<1>2. Disjoint(f, p.attributes[f])
  BY DEF Ordinary, Disjoint
<1>3. \A x \in DOMAIN p.attributes[f] : WellFormed(p, f, x, p.attributes[f][x])
  BY DEF Ordinary
<1>4. \A x \in DOMAIN p.attributes[f] : x \in Adapters
  BY <1>1, AdaptersAreNamed DEF Attributes
<1> QED
  BY <1>1, <1>2, <1>3, <1>4

LEMMA ReadsOnlyFields ==
  ASSUME NEW p, ContentOK(p), Ordinary(p), NEW s, Read(p, s), Full(p, s)
  PROVE  ReadsFields(s)
<1> SUFFICES ASSUME NEW f \in DOMAIN s.settings
             PROVE  /\ "equalTo" \in DOMAIN Rules(s, f) => Rules(s, f)["equalTo"] \in Fields
                    /\ "remote" \in DOMAIN Rules(s, f) => Rules(s, f)["remote"] \subseteq Fields
  BY DEF ReadsFields
<1> DEFINE a == p.attributes[f]
<1>1. f \in p.fields
  BY DEF Full
<1>2. /\ f \in Fields /\ Attributes(a) /\ Disjoint(f, a)
      /\ \A x \in DOMAIN a : x \in Adapters /\ WellFormed(p, f, x, a[x])
  BY <1>1, OrdinaryField
<1>3. Rules(s, f) = ParseElement(f, a)
  BY DEF Rules, Read
<1> HIDE DEF a
<1>4. ASSUME NEW m \in {"equalTo", "remote"}, m \in DOMAIN Rules(s, f)
      PROVE  \E x \in DOMAIN a : /\ m \in DOMAIN Adapted(x, f, a[x])
                                 /\ Rules(s, f)[m] = Adapted(x, f, a[x])[m]
  <2>1. m \in DOMAIN MadeRules(f, a) /\ Rules(s, f)[m] = MadeRules(f, a)[m]
    <3>1. m # "__dummy__" /\ m \in DOMAIN ParseElement(f, a)
      BY <1>3, <1>4
    <3>2. /\ DOMAIN ParseElement(f, a) = DOMAIN MadeRules(f, a) \cup {"__dummy__"}
          /\ \A n \in DOMAIN MadeRules(f, a) \ {"__dummy__"} :
               ParseElement(f, a)[n] = MadeRules(f, a)[n]
      BY ParsedRules
    <3> QED
      BY <1>3, <3>1, <3>2
  <2>2. PICK x \in DOMAIN a : m \in DOMAIN Adapted(x, f, a[x])
    BY <2>1, RuleHasMaker
  <2>3. m \in Methods
    BY MethodList
  <2>4. MadeRules(f, a)[m] = Adapted(x, f, a[x])[m]
    BY <1>2, <2>2, <2>3, MadeByOne
  <2> QED
    BY <2>1, <2>2, <2>4
<1> QED
  BY <1>2, <1>4, AdapterReadsFields

\* On an ordinary page a value is bad by the rules exactly if it is by the attributes.
LEMMA BadIsInvalid ==
  ASSUME ContentOK(This), Ordinary(This), Shape(This, form), Read(This, form),
         Full(This, form), NEW f \in DOMAIN form.settings
  PROVE  Bad(This, form, f) <=> ~IsValid(f)
<1> DEFINE a == This.attributes[f]
           rules == Rules(form, f)
           made == MadeRules(f, a)
<1>1. f \in This.fields
  BY DEF Full
<1>2. /\ f \in Fields /\ Attributes(a) /\ Disjoint(f, a)
      /\ \A x \in DOMAIN a : x \in Adapters /\ WellFormed(This, f, x, a[x])
  BY <1>1, OrdinaryField
<1>3. rules = ParseElement(f, a)
  BY DEF Rules, Read
<1>4. IsValid(f) <=> \A x \in DOMAIN a : Obeys(f, x, a[x])
  BY DEF IsValid
<1>5. Bad(This, form, f) <=> ~All(f, rules)
  BY DEF Bad, All
<1> HIDE DEF a, rules
<1>6. \A x \in DOMAIN a : /\ DOMAIN Adapted(x, f, a[x]) \subseteq Methods
                          /\ All(f, Adapted(x, f, a[x])) <=> Obeys(f, x, a[x])
  BY <1>2, AdapterMeans DEF Shape
<1>7. /\ DOMAIN rules = DOMAIN made \cup {"__dummy__"}
      /\ \A m \in DOMAIN made : m # "__dummy__" /\ rules[m] = made[m]
  BY <1>2, <1>3, ParsedRules
<1>8. \A param : Holds(This, form, f, "__dummy__", param)
  BY DEF Holds, Meets
<1>9. All(f, rules) <=> All(f, made)
  <2> HIDE DEF made
  <2> QED
    BY <1>7, <1>8 DEF All
<1>10. All(f, made) <=> \A x \in DOMAIN a : All(f, Adapted(x, f, a[x]))
  <2>1. ASSUME NEW x \in DOMAIN a, NEW m \in DOMAIN Adapted(x, f, a[x])
        PROVE  m \in DOMAIN made /\ made[m] = Adapted(x, f, a[x])[m]
    BY <1>2, <1>6, <2>1, MadeByOne
  <2>2. \A m \in DOMAIN made : \E x \in DOMAIN a : m \in DOMAIN Adapted(x, f, a[x])
    BY RuleHasMaker
  <2> HIDE DEF made
  <2> QED
    BY <2>1, <2>2 DEF All
<1> QED
  BY <1>4, <1>5, <1>6, <1>9, <1>10

-----------------------------------------------------------------------------
(***************************************************************************)
(* Only valid forms are sent                                               *)
(***************************************************************************)

\* A check that refuses nothing and leaves nothing to wait for finds all as it
\* should be.
LEMMA NothingBad ==
  ASSUME NEW p, ContentOK(p), NEW s, Shape(p, s), Lists(p, s), ReadsFields(s), Requests(p, s),
         NEW t, After(s, DOMAIN s.settings, t), Waits(t),
         Wrong(s, DOMAIN s.settings) = {}, ~(t.pendingRequest > 0)
  PROVE  \A f \in DOMAIN t.settings : ~Bad(p, t, f)
<1>1. t.value = s.value /\ t.settings = s.settings
  BY DEF After, Only, Flags, FormNames
<1>2. t.pending = {}
  <2>1. Cardinality(t.pending) = 0
    BY FS_CardinalityType DEF Waits
  <2> QED
    BY <2>1, FS_EmptySet DEF Waits
<1>3. s.pending = {} /\ Asking(s, DOMAIN s.settings) = {}
  BY <1>2 DEF After
<1>4. ASSUME NEW f \in DOMAIN s.settings PROVE ~Bad(p, s, f)
  <2>1. f \in Fields
    BY DEF Lists, Shape, ContentOK
  <2>2. Result(s, f) \notin {"error", "pending"}
    BY <1>3 DEF Wrong, Asking
  <2>3. Result(s, f) \in {"ok", "passedOver"}
    BY <2>2 DEF Result, RemoteResult
  <2> QED
    BY <1>3, <2>1, <2>3, CheckTells
<1> QED
  BY <1>1, <1>4, SameValues

Sent(p, s) == s.sent => \A f \in DOMAIN s.settings : ~Bad(p, s, f)

SentInv ==
  /\ Read(This, form)
  /\ Full(This, form)
  /\ Requests(This, form)
  /\ Sent(This, form)

LEMMA OrdinaryIsPlain ==
  ASSUME NEW p, Ordinary(p)
  PROVE  LateArePlain(p)
BY DEF Ordinary, LateArePlain

LEMMA LoadedSent ==
  ASSUME NEW p, NEW s, Loaded(p, s)
  PROVE  Read(p, s) /\ Full(p, s) /\ Requests(p, s) /\ Sent(p, s) /\ Truth(p, s)
<1> DEFINE marked == {f \in p.fields : DOMAIN p.attributes[f] # {}}
           options == [f \in marked |-> ParseElement(f, p.attributes[f])]
<1>1. /\ s.settings = s.options
      /\ IF marked = {} THEN s.options = NoRules ELSE s.options = options
      /\ s.request = [f \in Fields |-> None]
      /\ s.previous = [f \in Fields |-> NothingAsked]
      /\ s.checked = {} /\ s.sent = FALSE
  BY DEF Loaded
<1>2. /\ DOMAIN options = marked
      /\ \A f \in marked : options[f] = ParseElement(f, p.attributes[f])
  OBVIOUS
<1>3. DOMAIN NoRules = {}
  BY DEF NoRules
<1>4. Read(p, s) /\ Full(p, s)
  <2> HIDE DEF options
  <2>1. DOMAIN s.options = marked
    BY <1>1, <1>2, <1>3
  <2> HIDE DEF marked
  <2>2. Read(p, s)
    BY <1>1, <1>2, <2>1, <1>3 DEF Read
  <2> QED
    BY <1>1, <2>1, <2>2 DEF Full, marked
<1>5. Requests(p, s)
  BY <1>1 DEF Requests, NothingAsked
<1>6. Sent(p, s) /\ Truth(p, s)
  BY <1>1 DEF Sent, Truth
<1> QED
  BY <1>4, <1>5, <1>6

LEMMA NextSentInv ==
  ASSUME Ordinary(This), TypeInv, SentInv, [Next]_vars
  PROVE  SentInv'
<1>1. CASE UNCHANGED vars
  BY <1>1 DEF vars, SentInv, This
<1>2. CASE Next
  <2> DEFINE p == This
  <2>1. TwoMoves /\ page' = page /\ ContentOK(p) /\ LateArePlain(p)
    BY <1>2, StepIsMoves, PageOK, OrdinaryIsPlain DEF TypeInv
  <2>2. PICK w : Move(p, form, w) /\ Move(p, w, form') /\ Outcome(p, w, form', last')
    BY <2>1 DEF TwoMoves
  <2>3. Shape(p, w) /\ Waits(w) /\ Lists(p, w) /\ Read(p, w) /\ Full(p, w)
    BY <2>1, <2>2, MoveShape, MoveWaits, MoveLists, MoveReads, MoveFull DEF TypeInv, SentInv
  <2>4. ReadsFields(form) /\ ReadsFields(w)
    BY <2>1, <2>3, ReadsOnlyFields DEF SentInv
  <2>5. Requests(p, w)
    BY <2>1, <2>2, <2>4, MoveRequests DEF TypeInv, SentInv
  <2>6. Read(p, form') /\ Full(p, form') /\ Waits(form')
    BY <2>1, <2>2, <2>3, MoveReads, MoveFull, MoveWaits
  <2>7. Requests(p, form')
    BY <2>1, <2>2, <2>3, <2>4, <2>5, MoveRequests
  <2>8. Sent(p, form')
    BY <2>1, <2>2, <2>3, <2>4, <2>5, <2>6, NothingBad DEF Outcome, Sent
  <2>9. This' = p
    BY <2>1 DEF This
  <2> HIDE DEF p
  <2> QED
    BY <2>6, <2>7, <2>8, <2>9 DEF SentInv
<1> QED
  BY <1>1, <1>2

LEMMA SentIsValid ==
  ASSUME TypeInv, Ordinary(This), SentInv
  PROVE  OnlyValidFormsAreSent
<1> SUFFICES ASSUME form.sent, NEW f \in DOMAIN form.options PROVE IsValid(f)
  BY DEF OnlyValidFormsAreSent
<1>1. f \in DOMAIN form.settings
  BY DEF SentInv, Full
<1>2. ~Bad(This, form, f)
  BY <1>1 DEF SentInv, Sent
<1>3. ContentOK(This) /\ Shape(This, form) /\ Read(This, form) /\ Full(This, form)
  BY PageOK DEF TypeInv, SentInv
<1> HIDE DEF TypeInv, SentInv
<1> QED
  BY <1>1, <1>2, <1>3, BadIsInvalid

LEMMA SentInvariant ==
  ASSUME \A p \in Pages : Ordinary(Content[p])
  PROVE  Spec => [](TypeInv /\ Ordinary(This) /\ SentInv)
<1>1. Init => TypeInv /\ Ordinary(This) /\ SentInv
  BY InitTypeInv, InitLoaded, LoadedSent DEF Init, This, SentInv
<1>2. TypeInv /\ Ordinary(This) /\ SentInv /\ [Next]_vars
      => TypeInv' /\ Ordinary(This)' /\ SentInv'
  <2> SUFFICES ASSUME TypeInv, Ordinary(This), SentInv, [Next]_vars
               PROVE  TypeInv' /\ Ordinary(This)' /\ SentInv'
    OBVIOUS
  <2>1. TypeInv' /\ SentInv'
    BY NextTypeInv, NextSentInv
  <2>2. page' \in Pages
    BY <2>1 DEF TypeInv
  <2>3. Ordinary(This)'
    BY <2>2 DEF This
  <2> QED
    BY <2>1, <2>3
<1> QED
  BY <1>1, <1>2, PTL DEF Spec

\* On ordinary pages, a form that is sent obeys all the attributes of its fields,
\* whatever was typed while a remote check was under way, answered, reset or lost.
THEOREM OnlyValidFormsGo ==
  ASSUME \A p \in Pages : Ordinary(Content[p])
  PROVE  Spec => []OnlyValidFormsAreSent
<1>1. TypeInv /\ Ordinary(This) /\ SentInv => OnlyValidFormsAreSent
  BY SentIsValid
<1> QED
  BY <1>1, SentInvariant, PTL

-----------------------------------------------------------------------------
(***************************************************************************)
(* Messages are true                                                       *)
(***************************************************************************)
LEMMA NextTruth ==
  ASSUME Ordinary(This), TypeInv, SentInv, Truth(This, form), [Next]_vars
  PROVE  Truth(This, form)'
<1>1. CASE UNCHANGED vars
  BY <1>1 DEF vars, This
<1>2. CASE Next
  <2> DEFINE p == This
  <2>1. TwoMoves /\ page' = page /\ ContentOK(p) /\ LateArePlain(p)
    BY <1>2, StepIsMoves, PageOK, OrdinaryIsPlain DEF TypeInv
  <2>2. PICK w : Move(p, form, w) /\ Move(p, w, form')
    BY <2>1 DEF TwoMoves
  <2>3. Shape(p, w) /\ Lists(p, w) /\ Read(p, w) /\ Full(p, w)
    BY <2>1, <2>2, MoveShape, MoveLists, MoveReads, MoveFull DEF TypeInv, SentInv
  <2>4. ReadsFields(form) /\ ReadsFields(w)
    BY <2>1, <2>3, ReadsOnlyFields DEF SentInv
  <2>5. Requests(p, w)
    BY <2>1, <2>2, <2>4, MoveRequests DEF TypeInv, SentInv
  <2>6. Truth(p, w)
    BY <2>1, <2>2, <2>4, MoveTruth DEF TypeInv, SentInv
  <2>7. Truth(p, form')
    BY <2>1, <2>2, <2>3, <2>4, <2>5, <2>6, MoveTruth
  <2>8. This' = p
    BY <2>1 DEF This
  <2> HIDE DEF p
  <2> QED
    BY <2>7, <2>8
<1> QED
  BY <1>1, <1>2

LEMMA MessageIsTrue ==
  ASSUME TypeInv, Ordinary(This), SentInv, Truth(This, form)
  PROVE  MessagesAreTrue
<1> SUFFICES ASSUME NEW f \in form.checked \cap DOMAIN form.options, f \notin form.pending
             PROVE  f \in form.shown <=> ~IsValid(f)
  BY DEF MessagesAreTrue
<1>1. f \in DOMAIN form.settings
  BY DEF SentInv, Full
<1>2. f \in form.shown <=> Bad(This, form, f)
  BY <1>1 DEF Truth
<1>3. ContentOK(This) /\ Shape(This, form) /\ Read(This, form) /\ Full(This, form)
  BY PageOK DEF TypeInv, SentInv
<1> QED
  BY <1>1, <1>2, <1>3, BadIsInvalid

\* On ordinary pages a message stands at a field that was checked exactly if its value
\* is wrong, also where the server had put one.
THEOREM MessagesTellTheTruth ==
  ASSUME \A p \in Pages : Ordinary(Content[p])
  PROVE  Spec => []MessagesAreTrue
<1>1. Init => Truth(This, form)
  BY InitLoaded, LoadedSent
<1>2. (TypeInv /\ Ordinary(This) /\ SentInv) /\ Truth(This, form) /\ [Next]_vars
      => Truth(This, form)'
  BY NextTruth
<1>3. (TypeInv /\ Ordinary(This) /\ SentInv) /\ Truth(This, form) => MessagesAreTrue
  BY MessageIsTrue
<1>4. Spec => [](TypeInv /\ Ordinary(This) /\ SentInv)
  BY SentInvariant
<1> QED
  BY <1>1, <1>2, <1>3, <1>4, PTL DEF Spec
-----------------------------------------------------------------------------
(***************************************************************************)
(* A form that waits                                                       *)
(***************************************************************************)

\* The user has submitted the form, and there are remote checks to wait for.
Waiting == form.formSubmitted /\ form.pending # {}

\* The count of the validator, which its code asks, says whether there are any.
LEMMA CountTells ==
  ASSUME NEW s, Waits(s)
  PROVE  s.pendingRequest > 0 <=> s.pending # {}
<1>1. s.pendingRequest \in Nat /\ (s.pendingRequest = 0 <=> s.pending = {})
  BY FS_CardinalityType, FS_EmptySet DEF Waits
<1> QED
  BY <1>1

\* A check of fields that leaves the wish alone leaves a form that waits waiting.
LEMMA CheckWaits ==
  ASSUME NEW s, NEW S, NEW t, After(s, S, t), t.formSubmitted = s.formSubmitted,
         s.formSubmitted, s.pending # {}
  PROVE  t.formSubmitted /\ t.pending # {}
BY DEF After

LEMMA EditWaits ==
  ASSUME TypeInv, Waiting, NEW f \in form.present, NEW v, Edit(f, v)
  PROVE  Waiting'
<1> DEFINE w == [form EXCEPT !.value[f] = v, !.checked = @ \ Readers(f)]
<1>1. form' = Element(w, f) \/ form' = w
  BY DEF Edit
<1>2. /\ DOMAIN w = FormNames
      /\ w.formSubmitted = form.formSubmitted /\ w.pending = form.pending
  BY DEF TypeInv, Shape, FormNames
<1> HIDE DEF w
<1>3. CASE form' = Element(w, f)
  <2>1. After(w, {f}, form') /\ form'.formSubmitted = w.formSubmitted
    BY <1>2, <1>3, ElementAfter
  <2> QED
    BY <1>2, <2>1, CheckWaits DEF Waiting
<1> QED
  BY <1>1, <1>2, <1>3 DEF Waiting

LEMMA BlurWaits ==
  ASSUME TypeInv, Waiting, NEW f \in form.present, Blur(f)
  PROVE  Waiting'
<1> DEFINE repeating == {g \in form.watched : Rules(form, g)["equalTo"] = f}
           outcomes == IF repeating = {} THEN {form}
                       ELSE {Element(form, g) : g \in repeating}
<1>1. PICK w \in outcomes : form' = IF Kind[f] # "checkbox" /\ (f \in w.submitted \/ ~Empty(w, f))
                                    THEN Element(w, f) ELSE w
  BY DEF Blur
<1> HIDE DEF repeating
<1>2. w = form \/ \E g \in repeating : w = Element(form, g)
  BY <1>1
<1>3. DOMAIN w = FormNames /\ w.formSubmitted /\ w.pending # {}
  <2>1. DOMAIN form = FormNames
    BY DEF TypeInv, Shape
  <2>2. CASE w = form
    BY <2>1, <2>2 DEF Waiting
  <2>3. ASSUME NEW g \in repeating, w = Element(form, g)
        PROVE  DOMAIN w = FormNames /\ w.formSubmitted /\ w.pending # {}
    <3>1. After(form, {g}, w) /\ w.formSubmitted = form.formSubmitted
      BY <2>1, <2>3, ElementAfter
    <3> QED
      BY <3>1, CheckWaits DEF Waiting, After, Only
  <2> QED
    BY <1>2, <2>2, <2>3
<1>4. CASE form' = Element(w, f)
  <2>1. After(w, {f}, form') /\ form'.formSubmitted = w.formSubmitted
    BY <1>3, <1>4, ElementAfter
  <2> QED
    BY <1>3, <2>1, CheckWaits DEF Waiting
<1> QED
  BY <1>1, <1>3, <1>4 DEF Waiting

\* Submitted once more, the form is refused or goes on waiting.
LEMMA SubmitWaits ==
  ASSUME TypeInv, TypeInv', Submit
  PROVE  /\ Waiting => Waiting'
         /\ last' = "waits" => Waiting'
<1> DEFINE s == Form(form)
           waits == s.errorMap = {} /\ s.pendingRequest > 0
<1>1. After(form, DOMAIN form.settings, s) /\ s.formSubmitted = form.formSubmitted
  BY FormAfter DEF TypeInv, Shape
<1>2. /\ form' = IF s.errorMap # {} THEN s
                 ELSE IF waits THEN [s EXCEPT !.formSubmitted = TRUE]
                 ELSE [s EXCEPT !.sent = TRUE]
      /\ last' = IF s.errorMap # {} THEN "refused" ELSE IF waits THEN "waits" ELSE "sent"
  BY DEF Submit
<1> HIDE DEF s
<1>3. DOMAIN s = FormNames
  BY <1>1 DEF After, Only
<1>4. form'.pending = s.pending /\ form'.pendingRequest = s.pendingRequest
  BY <1>2, <1>3 DEF FormNames
<1>5. form'.formSubmitted = s.formSubmitted \/ form'.formSubmitted = TRUE
  BY <1>2, <1>3 DEF FormNames
<1>6. Waiting => Waiting'
  BY <1>1, <1>4, <1>5, CheckWaits DEF Waiting
<1>7. last' = "waits" => Waiting'
  <2> SUFFICES ASSUME last' = "waits" PROVE Waiting'
    OBVIOUS
  <2>1. s.pendingRequest > 0 /\ form' = [s EXCEPT !.formSubmitted = TRUE]
    BY <1>2
  <2>2. form'.formSubmitted
    BY <1>3, <2>1 DEF FormNames
  <2>3. form'.pending # {}
    BY <1>4, <2>1, CountTells DEF TypeInv
  <2> QED
    BY <2>2, <2>3 DEF Waiting
<1> QED
  BY <1>6, <1>7

\* An answer ends the wait only with a verdict about the form.
LEMMA AnswerWaits ==
  ASSUME TypeInv, TypeInv', NEW f \in form.present, Answer(f)
  PROVE  /\ Waiting => Waiting' \/ last' \in {"sent", "refused", "refusedLate"}
         /\ last' = "waits" => Waiting'
<1> DEFINE r == form.request[f]
           valid == r.key \in This.accepted[f]
           u == ShowErrors(TakenIn(f))
           t == Stopped(u, f)
           outcome == IF t.pendingRequest > 0 \/ ~t.formSubmitted THEN <<t, "none">>
                      ELSE IF valid THEN SubmitAtLast(t) ELSE RefuseAtLast(t)
<1>1. form.request[f] # None
  BY DEF Answer
<1>2. form' = outcome[1] /\ last' = outcome[2]
  <2>1. /\ form' = StopRequest(ShowErrors(TakenIn(f)), f, valid)[1]
        /\ last' = StopRequest(ShowErrors(TakenIn(f)), f, valid)[2]
    BY DEF Answer, TakenIn
  <2> QED
    BY <2>1 DEF StopRequest, Stopped
<1>3. f \in Fields
  BY PageOK DEF TypeInv, Shape, ContentOK
<1>4. Told(This, form, f, t) /\ t.formSubmitted = form.formSubmitted
  BY <1>1, <1>3, AnswerIsTold DEF TypeInv
<1> HIDE DEF u, t
<1>5. DOMAIN t = FormNames
  BY <1>4 DEF Told, Only
<1>6. CASE t.pendingRequest > 0 \/ ~t.formSubmitted
  <2>1. form' = t /\ last' = "none"
    BY <1>2, <1>6
  <2>2. form'.pendingRequest > 0 => form'.pending # {}
    BY CountTells DEF TypeInv
  <2> QED
    BY <1>4, <1>6, <2>1, <2>2 DEF Waiting
<1>7. CASE ~(t.pendingRequest > 0 \/ ~t.formSubmitted) /\ valid
  <2> DEFINE w == Form(t)
  <2>1. form' = SubmitAtLast(t)[1] /\ last' = SubmitAtLast(t)[2]
    BY <1>2, <1>7
  <2>2. w.formSubmitted = t.formSubmitted
    BY <1>5, FormAfter
  <2>3. \/ last' \in {"sent", "refused"}
        \/ w.pendingRequest > 0 /\ form' = w /\ last' = "waits"
    BY <2>1 DEF SubmitAtLast
  <2> HIDE DEF w
  <2>4. last' = "waits" => Waiting'
    <3> SUFFICES ASSUME last' = "waits" PROVE Waiting'
      OBVIOUS
    <3>1. form'.pendingRequest > 0 /\ form' = w
      BY <2>3
    <3>2. form'.pending # {}
      BY <3>1, CountTells DEF TypeInv
    <3> QED
      BY <1>7, <2>2, <3>1, <3>2 DEF Waiting
  <2> QED
    BY <2>3, <2>4
<1>8. CASE ~(t.pendingRequest > 0 \/ ~t.formSubmitted) /\ ~valid
  <2>1. last' = "refusedLate"
    BY <1>2, <1>8 DEF RefuseAtLast
  <2> QED
    BY <2>1
<1> QED
  BY <1>6, <1>7, <1>8

\* The other events leave the wish and the remote checks alone: a reset forgets the
\* verdicts and not the wish.
LEMMA OthersWait ==
  ASSUME TypeInv, Waiting,
         \/ OnReset
         \/ \E f \in This.late : AddField(f)
         \/ \E f \in form.present : RequestFails(f)
  PROVE  Waiting'
<1>1. DOMAIN form = FormNames
  BY DEF TypeInv, Shape
<1>2. CASE OnReset
  BY <1>1, <1>2 DEF OnReset, Waiting, FormNames
<1>3. ASSUME NEW f \in This.late, AddField(f) PROVE Waiting'
  <2> DEFINE s == [form EXCEPT !.present = @ \cup {f}]
             marked == {g \in s.present : Parsed(g)}
             options == [g \in marked |-> ParseElement(g, This.attributes[g])]
             v == [s EXCEPT !.options = options]
  <2>1. \/ form' = s
        \/ form' = v
        \/ form' = [v EXCEPT !.settings = v.options]
    BY <1>3 DEF AddField, Parse, AttachValidation
  <2> HIDE DEF options
  <2>2. DOMAIN v = FormNames /\ v.formSubmitted = s.formSubmitted /\ v.pending = s.pending
    BY <1>1 DEF FormNames
  <2>3. s.formSubmitted = form.formSubmitted /\ s.pending = form.pending
    BY <1>1 DEF FormNames
  <2> HIDE DEF v, s
  <2> QED
    BY <2>1, <2>2, <2>3 DEF FormNames, Waiting
<1>4. ASSUME NEW f \in form.present, RequestFails(f) PROVE Waiting'
  BY <1>1, <1>4 DEF RequestFails, Waiting, FormNames
<1> QED
  BY <1>2, <1>3, <1>4

\* An answer is taken in that decides about the form.
Decides ==
  \E f \in form.present : Answer(f) /\ last' \in {"sent", "refused", "refusedLate"}

LEMMA StepWaits ==
  ASSUME TypeInv, [Next]_vars
  PROVE  /\ Waiting => Waiting' \/ Decides
         /\ (last = "waits" => Waiting) => (last' = "waits" => Waiting')
<1>1. TypeInv'
  BY NextTypeInv
<1>2. CASE UNCHANGED vars
  BY <1>2 DEF vars, Waiting
<1>3. CASE Submit
  BY <1>1, <1>3, SubmitWaits
<1>4. ASSUME NEW f \in form.present, Answer(f)
      PROVE  /\ Waiting => Waiting' \/ Decides
             /\ last' = "waits" => Waiting'
  BY <1>1, <1>4, AnswerWaits DEF Decides
<1>5. ASSUME NEW f \in form.present, NEW v \in This.typed[f], Edit(f, v)
      PROVE  last' = "none" /\ (Waiting => Waiting')
  BY <1>5, EditWaits DEF Edit
<1>6. ASSUME NEW f \in form.present, Blur(f)
      PROVE  last' = "none" /\ (Waiting => Waiting')
  BY <1>6, BlurWaits DEF Blur
<1>7. ASSUME \/ OnReset
             \/ \E f \in This.late : AddField(f)
             \/ \E f \in form.present : RequestFails(f)
      PROVE  last' = "none" /\ (Waiting => Waiting')
  BY <1>7, OthersWait DEF OnReset, AddField, RequestFails
<1> QED
  BY <1>2, <1>3, <1>4, <1>5, <1>6, <1>7 DEF Next

\* What is waited for is a field of the form, so that its answer can be taken in.
LEMMA MovePending ==
  ASSUME NEW p, NEW s, NEW t, Move(p, s, t), s.pending \subseteq s.present
  PROVE  t.pending \subseteq t.present
<1>1. ASSUME NEW S \in SUBSET s.present, After(s, S, t) PROVE t.pending \subseteq t.present
  <2>1. t.present = s.present
    BY <1>1 DEF After, Only, Flags, FormNames
  <2> QED
    BY <1>1, <2>1 DEF After, Asking
<1>2. ASSUME NEW f \in p.late, Added(p, s, f, t) PROVE t.pending \subseteq t.present
  BY <1>2 DEF Added, Only, FormNames
<1>3. ASSUME NEW f \in s.present, Told(p, s, f, t) PROVE t.pending \subseteq t.present
  <2>1. t.present = s.present
    BY <1>3 DEF Told, Only, Flags, FormNames
  <2> QED
    BY <1>3, <2>1 DEF Told
<1>4. CASE Only(s, t, Flags)
  BY <1>4 DEF Only, Flags, FormNames
<1>5. ASSUME NEW f \in s.present, NEW v \in p.typed[f], Changed(s, f, v, t)
      PROVE  t.pending \subseteq t.present
  BY <1>5 DEF Changed, Only, FormNames
<1>6. CASE Forgotten(p, s, t)
  <2>1. t.pending = s.pending /\ t.present = s.present
    BY <1>6 DEF Forgotten, Only, Flags, FormNames
  <2> QED
    BY <2>1
<1>7. ASSUME NEW f \in s.present, Lose(s, f, t)
      PROVE  t.pending \subseteq t.present
  BY <1>7 DEF Lose, Only, FormNames
<1> QED
  BY <1>1, <1>2, <1>3, <1>4, <1>5, <1>6, <1>7 DEF Move

\* A form that waits is not forgotten.
WaitInv ==
  /\ form.pending \subseteq form.present
  /\ last = "waits" => Waiting

LEMMA NextWaitInv == TypeInv /\ WaitInv /\ [Next]_vars => WaitInv'
<1> SUFFICES ASSUME TypeInv, WaitInv, [Next]_vars PROVE WaitInv'
  OBVIOUS
<1>1. last' = "waits" => Waiting'
  BY StepWaits DEF WaitInv
<1>2. CASE UNCHANGED vars
  BY <1>1, <1>2 DEF vars, WaitInv
<1>3. CASE Next
  <2>1. TwoMoves
    BY <1>3, StepIsMoves DEF TypeInv
  <2>2. PICK w : Move(This, form, w) /\ Move(This, w, form')
    BY <2>1 DEF TwoMoves
  <2>3. w.pending \subseteq w.present
    BY <2>2, MovePending DEF WaitInv
  <2>4. form'.pending \subseteq form'.present
    BY <2>2, <2>3, MovePending
  <2> QED
    BY <1>1, <2>4 DEF WaitInv
<1> QED
  BY <1>2, <1>3

\* Once a form waits for remote checks, one of them is lost or its answer is still to
\* come ...
AnswerIsToCome ==
  last = "waits" => /\ Waiting
                    /\ Lost # {} \/ \E f \in form.present : form.request[f] # None

\* ... and whatever the user does meanwhile, the wait ends with a verdict.
WaitEndsInVerdict == [][Waiting => Waiting' \/ Decides]_vars

\* On any pages, the part of SubmitIsAnswered that needs no fairness: a form that waits
\* for remote checks never gets stuck with nothing to wait for, and typing, leaving a
\* field, submitting again, a reset, a field that is added and a request that fails all
\* leave it waiting; only the last answer ends the wait, and it sends the form or refuses
\* it.  (A form that is refused while it waits is not out of it: formSubmitted stays.)
THEOREM WaitsForAnAnswer == Spec => []AnswerIsToCome /\ WaitEndsInVerdict
<1>1. Init => WaitInv
  <2> SUFFICES ASSUME Init PROVE WaitInv
    OBVIOUS
  <2>1. Loaded(This, form) /\ last = "none"
    BY PageOK, InitLoaded DEF Init
  <2> QED
    BY <2>1 DEF Loaded, WaitInv
<1>2. WaitInv => AnswerIsToCome
  BY DEF WaitInv, AnswerIsToCome, Waiting, Lost
<1>3. TypeInv /\ [Next]_vars => [Waiting => Waiting' \/ Decides]_vars
  BY StepWaits
<1> QED
  BY <1>1, <1>2, <1>3, NextWaitInv, TypeInvariant, PTL DEF Spec, WaitEndsInVerdict
=============================================================================
