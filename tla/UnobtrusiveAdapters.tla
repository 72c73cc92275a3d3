------------------------- MODULE UnobtrusiveAdapters -------------------------
(***************************************************************************)
(* From the data-val attributes that ASP.NET renders on the fields of a    *)
(* form to the rules of jQuery Validate: the adapters of                   *)
(* jquery.validate.unobtrusive.js.                                         *)
(*                                                                         *)
(* The attributes of a field are a function from adapter names to          *)
(* parameters, a parameter not rendered being outside its domain.  Left    *)
(* out are creditcard, extension, accept and fileextensions: they need     *)
(* methods that jQuery Validate keeps in a file the project does not have. *)
(***************************************************************************)
EXTENDS Integers, Sequences, FiniteSets

CONSTANTS
  Fields,   \* the named inputs of the form
  Name,     \* the name of a field: its model prefix, up to the last dot, and its leaf
  Kind,     \* "text" or "checkbox"
  NoParam   \* the parameter of a rule that has none

Formats == {"date", "digits", "email", "number", "url"}

\* The adapters in the order in which they are registered.
AdapterNames ==
  <<"regex", "date", "digits", "email", "number", "url", "length", "range",
    "minlength", "maxlength", "equalto", "required", "remote", "password">>

Methods ==
  Formats \cup {"required", "regex", "rangelength", "minlength", "maxlength", "range",
                "min", "max", "equalTo", "nonalphamin", "__dummy__", "remote"}

NoRules == [m \in {} |-> NoParam]

ASSUME NoParamAssumption == NoParam \notin Methods

\* setValidationValues; the messages are left out.
Rule(method, value) == [m \in {method} |-> value]

-----------------------------------------------------------------------------
AddBool(rule) == Rule(rule, NoParam)

AddSingleVal(params, attribute, rule) == Rule(rule, params[attribute])

\* One bound or both; nothing renders the bound for which no rule is given.
AddMinMax(params, minRule, maxRule, minMaxRule) ==
  CASE {"min", "max"} \subseteq DOMAIN params -> Rule(minMaxRule, <<params.min, params.max>>)
    [] "min" \in DOMAIN params /\ "max" \notin DOMAIN params -> Rule(minRule, params.min)
    [] "max" \in DOMAIN params /\ "min" \notin DOMAIN params -> Rule(maxRule, params.max)
    [] OTHER -> NoRules

GetModelPrefix(f) == Name[f].prefix

\* other: a name as an attribute refers to it; relative if it begins with "*.".
AppendModelPrefix(other, prefix) ==
  IF other.relative
  THEN [prefix |-> prefix, leaf |-> other.leaf]
  ELSE [prefix |-> other.prefix, leaf |-> other.leaf]

\* The field that has the name, escaped for use in a selector.
FieldNamed(name) == CHOOSE f \in Fields : Name[f] = name

\* The field that another one refers to.
Other(f, other) == FieldNamed(AppendModelPrefix(other, GetModelPrefix(f)))

EqualTo(f, params) == Rule("equalTo", Other(f, params.other))

\* For jQuery Validate a required checkbox is one that must be ticked.
Required(f) == IF Kind[f] = "checkbox" THEN NoRules ELSE AddBool("required")

\* The fields whose values go to the server beside the field's own; the address
\* and the verb are left out.
Remote(f, params) ==
  Rule("remote", IF "additionalfields" \in DOMAIN params
                 THEN {Other(f, name) : name \in params.additionalfields}
                 ELSE {f})

\* min, nonalphamin and regex, each if it is rendered.
Password(params) ==
  LET rule == [min |-> "minlength", nonalphamin |-> "nonalphamin", regex |-> "regex"]
  IN  [m \in {rule[p] : p \in DOMAIN params \cap DOMAIN rule} |->
         params[CHOOSE p \in DOMAIN rule : rule[p] = m]]

\* What the adapter of that name makes of its parameters.
Adapted(adapter, f, params) ==
  CASE adapter \in Formats -> AddBool(adapter)
    [] adapter = "regex" -> AddSingleVal(params, "pattern", "regex")
    [] adapter = "length" -> AddMinMax(params, "minlength", "maxlength", "rangelength")
    [] adapter = "range" -> AddMinMax(params, "min", "max", "range")
    [] adapter = "minlength" -> AddMinMax(params, "minlength", NoParam, NoParam)
    [] adapter = "maxlength" -> AddMinMax(params, "minlength", "maxlength", NoParam)
    [] adapter = "equalto" -> EqualTo(f, params)
    [] adapter = "required" -> Required(f)
    [] adapter = "remote" -> Remote(f, params)
    [] adapter = "password" -> Password(params)

\* What the adapters make of a field: a rule that two of them make is that of
\* the later one.
MadeRules(f, attributes) ==
  LET Made(i) == Adapted(AdapterNames[i], f, attributes[AdapterNames[i]])
      Makers(m) == {i \in DOMAIN AdapterNames :
                      AdapterNames[i] \in DOMAIN attributes /\ m \in DOMAIN Made(i)}
      Latest(m) == CHOOSE i \in Makers(m) : \A j \in Makers(m) : j <= i
  IN  [m \in {n \in Methods : Makers(n) # {}} |-> Made(Latest(m))[m]]

\* The rules of a field that are tried before equalTo.  Rules are tried in the order in
\* which they were first made, but for required, which is moved to the front, and
\* remote, which is moved to the back.
TriedBeforeEqualTo(f, attributes) ==
  LET earlier == {i \in DOMAIN AdapterNames :
                    /\ \E j \in DOMAIN AdapterNames : i < j /\ AdapterNames[j] = "equalto"
                    /\ AdapterNames[i] \in DOMAIN attributes}
  IN  {"required"} \cup
      UNION {DOMAIN Adapted(AdapterNames[i], f, attributes[AdapterNames[i]]) : i \in earlier}

\* Variant with a mistake: without the rule that is always met.
ParseElement_NoDummy(f, attributes) == MadeRules(f, attributes)

\* The rules of a field.  __dummy__ is always met, and never for the reason that the
\* field is empty: with it no field is passed over by jQuery Validate.
ParseElement(f, attributes) ==
  LET made == MadeRules(f, attributes)
  IN  [m \in DOMAIN made \cup {"__dummy__"} |->
         IF m = "__dummy__" THEN NoParam ELSE made[m]]
=============================================================================
