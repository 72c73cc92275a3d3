--------------------------- MODULE FormValidation ---------------------------
(***************************************************************************)
(* A form of a page with the scripts of client-side validation: the rules  *)
(* that jquery.validate.unobtrusive.js takes from the fields' attributes,  *)
(* the messages it shows and takes back, and as much of jquery.validate.js *)
(* as it drives.                                                           *)
(*                                                                         *)
(* Every event of the page runs to its end before the next one: a change   *)
(* of a field, leaving a field, submitting, resetting, a field added and   *)
(* parsed, the answer to a remote check.  Fields are visible and enabled,  *)
(* have a single element, and no validation attributes but data-val ones.  *)
(* Of a message it matters only whether it is shown: what it says, and     *)
(* data-valmsg-replace, which decides where that stands, are left out.     *)
(***************************************************************************)
EXTENDS UnobtrusiveAdapters

CONSTANTS
  Pages,        \* the pages that may be shown
  Content,      \* what a page has, see ContentOK
  Texts,        \* the values of fields and of the parameters of attributes
  Length,       \* the length of a text
  Number,       \* the number a text stands for, or NaN
  Rank,         \* where a text stands among the others in the order of strings
  NonWord,      \* how many characters of a text are neither letter nor digit
  Place,        \* where a field stands in the document
  Whole,        \* the texts that a pattern matches from end to end
  Format,       \* the texts that each of Formats accepts
  MaxEdits,     \* bound: changes, resets and additions of fields
  MaxFailures,  \* bound: requests that fail
  NaN, None

\* fields: those of the form when the page is loaded; late: those that a script
\* adds to it; attributes: the data-val attributes of each, none for a field
\* without data-val; rendered: the values the server rendered; typed: what users
\* may enter; accepted: the requests of a remote check that the server answers
\* with true; refused: the fields whose message the server rendered; summary:
\* the form has a validation summary with a list.
ContentOK(p) ==
  /\ p.fields \cup p.late \subseteq Fields /\ p.fields \cap p.late = {}
  /\ p.rendered \in [Fields -> Texts]
  /\ \A f \in p.fields \cup p.late :
       /\ p.typed[f] \subseteq Texts
       /\ DOMAIN p.attributes[f] \subseteq {AdapterNames[i] : i \in DOMAIN AdapterNames}
  /\ p.refused \subseteq p.fields
  /\ p.summary \in BOOLEAN

ASSUME ConstantsAssumption ==
  /\ \A p \in Pages : ContentOK(Content[p])
  /\ IsFiniteSet(Fields)
  /\ \A f \in Fields : Name[f] = [prefix |-> Name[f].prefix, leaf |-> Name[f].leaf]
  /\ \A f, g \in Fields : Name[f] = Name[g] => f = g
  /\ Place \in [Fields -> Nat]
  /\ \A f, g \in Fields : Place[f] = Place[g] => f = g
  /\ Length \in [Texts -> Nat]
  /\ Number \in [Texts -> Int \cup {NaN}]
  /\ Rank \in [Texts -> Nat]
  /\ NonWord \in [Texts -> Nat]
  /\ Format \in [Formats -> SUBSET Texts]
  /\ MaxEdits \in Nat /\ MaxFailures \in Nat
  /\ NaN \notin Int
  /\ \A F \in SUBSET Fields : None \notin [F -> Texts]

VARIABLES
  page,     \* the page, one of Pages
  form,     \* the form and its validator
  last,     \* history: what the last event did to the user's wish to submit
  edits,    \* how much of MaxEdits is spent
  failures  \* how much of MaxFailures is spent

vars == <<page, form, last, edits, failures>>

This == Content[page]

-----------------------------------------------------------------------------
(***************************************************************************)
(* The validator.  form has the fields                                     *)
(*   value           what stands in each input                             *)
(*   present         the inputs of the form                                *)
(*   options         the rules of the fields that were parsed              *)
(*   settings        the copy of these that the validator checks by        *)
(*   invalid         verdicts by field, for the fields it has one of       *)
(*   submitted       the fields that had an error since the last reset     *)
(*   errorMap, successList   the results of the last check                 *)
(*   shown           the fields whose container has field-validation-error *)
(*   summary         whether the summary is shown, and its entries         *)
(*   previous        the last remote check of a field, and its result      *)
(*   pending, pendingRequest   remote checks that are waited for           *)
(*   request         what is asked of the server; linked: previous will    *)
(*                   hear the answer                                       *)
(*   formSubmitted   the form is to be submitted once they are answered    *)
(*   watched         equalTo fields checked when the other one is left     *)
(*   checked         history: fields checked since a value they depend on  *)
(*                   was changed, and not answered for another value since *)
(*   sent            the browser submits the form                          *)
(***************************************************************************)

Parsed(f) == DOMAIN This.attributes[f] # {}

Rules(s, f) == IF f \in DOMAIN s.settings THEN s.settings[f] ELSE NoRules

Empty(s, f) == Length[s.value[f]] = 0

\* A rule other than remote is met.  All but required, equalTo and nonalphamin are
\* met by an empty field; a bound alone is compared as a string.  nonalphamin asks
\* for one character at least, because a search that finds none has no result.
Meets(s, f, m, param) ==
  LET v == s.value[f]
  IN  CASE m = "required" -> ~Empty(s, f)
        [] m = "equalTo" -> v = s.value[param]
        [] m = "nonalphamin" -> NonWord[v] > 0 /\ NonWord[v] >= Number[param]
        [] m = "__dummy__" -> TRUE
        [] OTHER ->
             \/ Empty(s, f)
             \/ CASE m \in Formats -> v \in Format[m]
                  [] m = "regex" -> v \in Whole[param]
                  [] m = "minlength" -> Length[v] >= Number[param]
                  [] m = "maxlength" -> Length[v] <= Number[param]
                  [] m = "rangelength" -> Length[v] \in Number[param[1]] .. Number[param[2]]
                  [] m = "min" -> Rank[v] >= Rank[param]
                  [] m = "max" -> Rank[v] <= Rank[param]
                  [] m = "range" -> /\ Number[v] # NaN
                                    /\ Number[v] \in Number[param[1]] .. Number[param[2]]

Failing(s, f) ==
  {m \in DOMAIN Rules(s, f) \ {"remote"} : ~Meets(s, f, m, Rules(s, f)[m])}

\* What a remote check sends.
Key(s, f) == [g \in {f} \cup Rules(s, f)["remote"] |-> s.value[g]]

NothingAsked == [old |-> None, valid |-> TRUE]

\* The rule for the remote check of f is reached, and its result.
RemoteResult(s, f) ==
  CASE "remote" \notin DOMAIN Rules(s, f) \/ Empty(s, f) -> "ok"
    [] OTHER -> IF s.previous[f].old # Key(s, f) THEN "pending"
                ELSE IF s.previous[f].valid THEN "ok" ELSE "error"

\* The methods that answer "dependency-mismatch" for an empty field.
MayBeEmpty ==
  Formats \cup {"rangelength", "minlength", "maxlength", "range", "min", "max", "remote"}

\* The result of checking f.  A field without rules is passed over, and an empty one
\* whose only rule is met just because it may be empty.
Result(s, f) ==
  IF Failing(s, f) # {} THEN "error"
  ELSE IF \/ Rules(s, f) = NoRules
          \/ Empty(s, f) /\ \E m \in MayBeEmpty : DOMAIN Rules(s, f) = {m}
  THEN "passedOver"
  ELSE RemoteResult(s, f)

\* The rule equalTo of f is reached, which refers to target.
ReachesEqualTo(s, f, target) ==
  /\ "equalTo" \in DOMAIN Rules(s, f) /\ Rules(s, f)["equalTo"] = target
  /\ Failing(s, f) \cap TriedBeforeEqualTo(f, This.attributes[f]) = {}

\* Of the fields of S that repeat another one, those that give it the handler which
\* checks them when it is left: a target has one such handler, of the first field that
\* was ever checked against it.
NewlyWatched(s, S) ==
  {f \in S : \E target \in Fields :
     /\ ReachesEqualTo(s, f, target)
     /\ \A g \in s.watched : Rules(s, g)["equalTo"] # target
     /\ \A g \in S : ReachesEqualTo(s, g, target) => Place[f] <= Place[g]}

\* Variant with a mistake: every request counts, the one it replaces too.
StartRequest_CountsTwice(s, F) ==
  [s EXCEPT !.pendingRequest = @ + Cardinality(F), !.pending = @ \cup F]

\* The validator waits for the fields of F, each of them once.
StartRequest(s, F) ==
  [s EXCEPT !.pendingRequest = @ + Cardinality(F \ s.pending), !.pending = @ \cup F]

\* The lists are reset and every field of S is checked.  A field that asks the
\* server aborts the request it had, and waits for the new one in its place.
Checked(s, S) ==
  LET Having(r) == {f \in S : Result(s, f) = r}
      asking == Having("pending")
  IN  [StartRequest(s, asking) EXCEPT
         !.errorMap = Having("error"),
         !.successList = Having("ok"),
         !.submitted = @ \cup Having("error"),
         !.previous = [f \in Fields |->
            IF f \in asking THEN [old |-> Key(s, f), valid |-> @[f].valid] ELSE @[f]],
         !.request = [f \in Fields |->
            IF f \in asking THEN [key |-> Key(s, f), linked |-> TRUE] ELSE @[f]],
         !.watched = @ \cup NewlyWatched(s, S),
         !.checked = @ \cup S]

\* Every error is placed, whatever the order they are found in: the container of the
\* field is marked.
OnError(s) == [s EXCEPT !.shown = @ \cup s.errorMap]

\* A field that was checked to the end and met its rules: its mark goes.
OnSuccess(s) == [s EXCEPT !.shown = @ \ s.successList]

ShowErrors(s) == OnSuccess(OnError(s))

\* Variant with a mistake: the entries of the last refusal stay in the list.
OnErrors_Appends(s) ==
  IF This.summary /\ s.errorMap # {}
  THEN [s EXCEPT !.summary = [on |-> TRUE, list |-> @.list \cup s.errorMap]]
  ELSE s

\* The summary lists the errors.
OnErrors(s) ==
  IF This.summary /\ s.errorMap # {}
  THEN [s EXCEPT !.summary = [on |-> TRUE, list |-> s.errorMap]]
  ELSE s

\* validator.element(f): one field is checked.
Element(s, f) ==
  LET t == ShowErrors(Checked(s, {f}))
  IN  [t EXCEPT !.invalid = [g \in DOMAIN @ \cup {f} |->
                               IF g = f THEN f \in t.errorMap ELSE @[g]]]

\* validator.form(): all fields with rules are checked.
Form(s) ==
  LET t == Checked(s, DOMAIN s.settings)
      u == [t EXCEPT !.invalid = [f \in t.errorMap |-> TRUE]]
  IN  ShowErrors(IF u.errorMap # {} THEN OnErrors(u) ELSE u)

\* validate(): a form that has a validator keeps it, and the rules it copied.
AttachValidation(s) ==
  IF s.settings = NoRules THEN [s EXCEPT !.settings = s.options] ELSE s

\* unobtrusive.parse: the attributes of all fields of the form are read.
Parse(s) ==
  LET marked == {f \in s.present : Parsed(f)}
  IN  IF marked = {} THEN s
      ELSE AttachValidation([s EXCEPT !.options =
             [f \in marked |-> ParseElement(f, This.attributes[f])]])

-----------------------------------------------------------------------------
(***************************************************************************)
(* The events                                                              *)
(***************************************************************************)

\* The page is loaded, and its document parsed once it is ready.
Init ==
  /\ page \in Pages
  /\ form = Parse([value |-> This.rendered,
                   present |-> This.fields,
                   options |-> NoRules,
                   settings |-> NoRules,
                   invalid |-> [f \in {} |-> TRUE],
                   submitted |-> {},
                   errorMap |-> {},
                   successList |-> {},
                   shown |-> This.refused,
                   summary |-> [on |-> This.summary /\ This.refused # {},
                                list |-> IF This.summary THEN This.refused ELSE {}],
                   previous |-> [f \in Fields |-> NothingAsked],
                   pending |-> {},
                   pendingRequest |-> 0,
                   request |-> [f \in Fields |-> None],
                   formSubmitted |-> FALSE,
                   watched |-> {},
                   checked |-> {},
                   sent |-> FALSE])
  /\ last = "none"
  /\ edits = 0
  /\ failures = 0

\* The fields whose rules read f.
Readers(f) ==
  {g \in DOMAIN form.settings :
     LET rules == Rules(form, g)
     IN  \/ g = f
         \/ "equalTo" \in DOMAIN rules /\ rules["equalTo"] = f
         \/ "remote" \in DOMAIN rules /\ f \in rules["remote"]}

\* A field is changed by a key, or a checkbox by a click.  onkeyup: a field is
\* checked once there is a verdict on it; onclick: once it had an error.
Edit(f, v) ==
  LET s == [form EXCEPT !.value[f] = v, !.checked = @ \ Readers(f)]
      known == IF Kind[f] = "checkbox" THEN s.submitted ELSE s.submitted \cup DOMAIN s.invalid
  IN  /\ edits < MaxEdits
      /\ v # form.value[f]
      /\ form' = IF f \in known THEN Element(s, f) ELSE s
      /\ last' = "none"
      /\ edits' = edits + 1
      /\ UNCHANGED <<page, failures>>

\* A field loses the focus: the one whose check gave it a handler is checked; it is
\* itself if it has a value or had an error.
Blur(f) ==
  LET repeating == {g \in form.watched : Rules(form, g)["equalTo"] = f}
      outcomes == IF repeating = {} THEN {form} ELSE {Element(form, g) : g \in repeating}
  IN  /\ \E s \in outcomes :
           form' = IF Kind[f] # "checkbox" /\ (f \in s.submitted \/ ~Empty(s, f))
                   THEN Element(s, f) ELSE s
      /\ last' = "none"
      /\ UNCHANGED <<page, edits, failures>>

\* The user submits the form.
Submit ==
  LET s == Form(form)
      waits == s.errorMap = {} /\ s.pendingRequest > 0
  IN  /\ form' = IF s.errorMap # {} THEN s
                 ELSE IF waits THEN [s EXCEPT !.formSubmitted = TRUE]
                 ELSE [s EXCEPT !.sent = TRUE]
      /\ last' = IF s.errorMap # {} THEN "refused" ELSE IF waits THEN "waits" ELSE "sent"
      /\ UNCHANGED <<page, edits, failures>>

\* The user resets the form: the validator forgets its verdicts, the messages go,
\* and the browser puts the rendered values back.
OnReset ==
  /\ edits < MaxEdits
  /\ form' = [form EXCEPT !.value = [f \in DOMAIN @ |-> This.rendered[f]],
                          !.invalid = [f \in {} |-> TRUE],
                          !.submitted = {},
                          !.errorMap = {},
                          !.successList = {},
                          !.previous = [f \in Fields |-> NothingAsked],
                          !.request = [f \in Fields |->
                             IF @[f] = None THEN None ELSE [@[f] EXCEPT !.linked = FALSE]],
                          !.summary.on = FALSE,
                          !.shown = {},
                          !.checked = {}]
  /\ last' = "none"
  /\ edits' = edits + 1
  /\ UNCHANGED <<page, failures>>

\* A script adds a field to the form and has it parsed.
AddField(f) ==
  /\ edits < MaxEdits
  /\ f \notin form.present
  /\ form' = Parse([form EXCEPT !.present = @ \cup {f}])
  /\ last' = "none"
  /\ edits' = edits + 1
  /\ UNCHANGED <<page, failures>>

\* Variant with a mistake: the form is not checked again before it is submitted.
SubmitAtLast_Unchecked(s) == <<[s EXCEPT !.sent = TRUE, !.formSubmitted = FALSE], "sent">>

\* All answers are there, the last of them a good one: the form is checked again,
\* and submitted unless it fails or asks the server anew.
SubmitAtLast(s) ==
  LET t == Form(s)
  IN  IF t.errorMap # {} THEN <<t, "refused">>
      ELSE IF t.pendingRequest > 0 THEN <<t, "waits">>
      ELSE <<[t EXCEPT !.sent = TRUE, !.formSubmitted = FALSE], "sent">>

\* Variant with a mistake: the user is told nothing.
RefuseAtLast_Silent(s) == <<[s EXCEPT !.formSubmitted = FALSE], "none">>

\* The last answer is a bad one.
RefuseAtLast(s) == <<[OnErrors(s) EXCEPT !.formSubmitted = FALSE], "refusedLate">>

\* An answer has come: the last one that is waited for decides about a form that
\* is to be submitted.  The result, and what it means to the user.
StopRequest(s, f, valid) ==
  LET t == [s EXCEPT !.pending = @ \ {f},
                     !.pendingRequest = IF @ = 0 THEN 0 ELSE @ - 1]
  IN  IF t.pendingRequest > 0 \/ ~t.formSubmitted THEN <<t, "none">>
      ELSE IF valid THEN SubmitAtLast(t) ELSE RefuseAtLast(t)

\* The server answers the remote check of f.
Answer(f) ==
  LET r == form.request[f]
      valid == r.key \in This.accepted[f]
      told == [form EXCEPT !.request[f] = None,
                           !.previous[f].valid = IF r.linked THEN valid ELSE @,
                           !.invalid = [g \in DOMAIN @ \cup {f} |-> IF g = f THEN ~valid ELSE @[g]],
                           !.errorMap = IF valid THEN {} ELSE @ \cup {f},
                           !.successList = IF valid THEN {f} ELSE @ \ {f},
                           !.checked = IF r.key = Key(form, f) /\ Failing(form, f) = {}
                                       THEN @ ELSE @ \ {f}]
      outcome == StopRequest(ShowErrors(told), f, valid)
  IN  /\ r # None
      /\ form' = outcome[1]
      /\ last' = outcome[2]
      /\ UNCHANGED <<page, edits, failures>>

\* The request of f fails: no handler is called.
RequestFails(f) ==
  /\ form.request[f] # None
  /\ failures < MaxFailures
  /\ form' = [form EXCEPT !.request[f] = None]
  /\ last' = "none"
  /\ failures' = failures + 1
  /\ UNCHANGED <<page, edits>>

Next ==
  /\ ~form.sent
  /\ \/ \E f \in form.present : \E v \in This.typed[f] : Edit(f, v)
     \/ \E f \in form.present : Blur(f)
     \/ Submit
     \/ OnReset
     \/ \E f \in This.late : AddField(f)
     \/ \E f \in form.present : Answer(f)
     \/ \E f \in form.present : RequestFails(f)

Spec == Init /\ [][Next]_vars

\* No request is under way for ever: it is answered, or fails, or makes way for
\* another one, which MaxEdits lets happen a few times only.  Answer is enabled as
\* long as there is a request, so this asks no more of the program than weak fairness
\* of Answer; TLC evaluates it far sooner.
FairSpec == Spec /\ \A f \in Fields : []<>(form.request[f] = None \/ form.sent)

-----------------------------------------------------------------------------
\* The types; the validator counts the requests it waits for, and every request
\* under way is one of them.
TypeOK ==
  /\ page \in Pages
  /\ form.present \subseteq This.fields \cup This.late
  /\ DOMAIN form.settings \subseteq DOMAIN form.options /\ DOMAIN form.options \subseteq form.present
  /\ DOMAIN form.invalid \subseteq form.present
  /\ form.submitted \cup form.checked \cup form.watched \subseteq form.present
  /\ form.errorMap \cap form.successList = {}
  /\ form.pendingRequest = Cardinality(form.pending)
  /\ {f \in Fields : form.request[f] # None} \subseteq form.pending
  /\ last \in {"none", "sent", "waits", "refused", "refusedLate"}

\* A name in an attribute of f is that of a field.
Refers(f, other) == \E g \in Fields : Name[g] = AppendModelPrefix(other, GetModelPrefix(f))

\* The parameters of an attribute are such as ASP.NET renders: bounds are numbers, a
\* range has two of them, a minimum of characters is not zero, names are those of
\* fields; and the server accepts requests that have the fields it was given.
WellFormed(p, f, adapter, params) ==
  /\ adapter \in {"length", "range"} =>
       \A b \in DOMAIN params \cap {"min", "max"} : Number[params[b]] \in Int
  /\ adapter = "range" => {"min", "max"} \subseteq DOMAIN params
  /\ adapter = "minlength" => "max" \notin DOMAIN params
  /\ adapter = "maxlength" => "min" \notin DOMAIN params
  /\ adapter = "password" /\ "nonalphamin" \in DOMAIN params =>
       Number[params.nonalphamin] \in Nat \ {0}
  /\ adapter = "equalto" => Refers(f, params.other)
  /\ adapter = "remote" =>
       /\ "additionalfields" \in DOMAIN params =>
            \A name \in params.additionalfields : Refers(f, name)
       /\ p.accepted[f] \subseteq [{f} \cup Remote(f, params)["remote"] -> Texts]

\* A page on which what the scripts do is what the attributes mean: no two attributes
\* of a field make the same rule, and no field comes with attributes later.
Ordinary(p) ==
  /\ \A f \in p.fields \cup p.late : \A x, y \in DOMAIN p.attributes[f] :
       /\ WellFormed(p, f, x, p.attributes[f][x])
       /\ x # y => DOMAIN Adapted(x, f, p.attributes[f][x])
                     \cap DOMAIN Adapted(y, f, p.attributes[f][y]) = {}
  /\ \A f \in p.late : DOMAIN p.attributes[f] = {}

\* The server has an error message only at fields that have data-val attributes: no
\* script takes back that of another field.
RefusedAreParsed(p) ==
  \A f \in p.refused : DOMAIN p.attributes[f] # {}

\* An attribute of f, as ASP.NET means it, holds for what stands in the form.
Obeys(f, adapter, params) ==
  LET v == form.value[f]
      Within(x) == /\ "min" \in DOMAIN params => x >= Number[params.min]
                   /\ "max" \in DOMAIN params => x <= Number[params.max]
  IN  CASE adapter = "required" -> Kind[f] = "checkbox" \/ Length[v] > 0
        [] adapter = "equalto" ->
             \E g \in Fields : /\ Name[g].leaf = params.other.leaf
                               /\ Name[g].prefix = IF params.other.relative
                                                   THEN Name[f].prefix ELSE params.other.prefix
                               /\ v = form.value[g]
        [] adapter = "password" ->
             /\ "nonalphamin" \in DOMAIN params => NonWord[v] >= Number[params.nonalphamin]
             /\ Length[v] > 0 /\ "min" \in DOMAIN params => Length[v] >= Number[params.min]
             /\ Length[v] > 0 /\ "regex" \in DOMAIN params => v \in Whole[params.regex]
        [] OTHER ->
             \/ Length[v] = 0
             \/ CASE adapter \in Formats -> v \in Format[adapter]
                  [] adapter = "regex" -> v \in Whole[params.pattern]
                  [] adapter \in {"length", "minlength", "maxlength"} -> Within(Length[v])
                  [] adapter = "range" -> Number[v] # NaN /\ Within(Number[v])
                  [] adapter = "remote" ->
                       \E key \in This.accepted[f] : \A g \in DOMAIN key : key[g] = form.value[g]

IsValid(f) ==
  \A adapter \in DOMAIN This.attributes[f] : Obeys(f, adapter, This.attributes[f][adapter])

\* A form is submitted only when all its fields obey their attributes, the answers
\* of the server included: whatever was typed while a remote check was under way,
\* answered for another value, reset or lost.  (The submit handler and stopRequest,
\* which check the form again; parseElement, for the meaning of the attributes.)
OnlyValidFormsAreSent == form.sent => \A f \in DOMAIN form.options : IsValid(f)

\* A message stands at a field exactly if its value is wrong: for every field that
\* was checked since a value it depends on was changed, and that waits for no
\* answer.  (onError and onSuccess, called for what check finds; a field that is
\* emptied again loses its message because of __dummy__.)
MessagesAreTrue ==
  \A f \in form.checked \cap DOMAIN form.options :
    f \notin form.pending => (f \in form.shown <=> ~IsValid(f))

\* A form that is refused says why: the summary is shown and its entries are fields
\* with a message; all of these, unless a late answer refused the form.  (onErrors,
\* called by form() before the messages are shown and by stopRequest after.)
RefusalIsExplained ==
  last \in {"refused", "refusedLate"} /\ This.summary =>
    /\ form.summary.on
    /\ form.summary.list # {}
    /\ form.summary.list \subseteq form.shown
    /\ last = "refused" => form.shown \ form.pending \subseteq form.summary.list

Lost == {f \in form.pending : form.request[f] = None}

\* A form that waits for remote checks is submitted or refused in the end, or one
\* of the requests failed.
SubmitIsAnswered ==
  last = "waits" ~> last \in {"sent", "refused", "refusedLate"} \/ Lost # {}
=============================================================================
