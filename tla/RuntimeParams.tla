--------------------------- MODULE RuntimeParams ---------------------------
(***************************************************************************)
(* The runtime parameters of an RPA flow: shared/runtime-params.ts, which  *)
(* the form uses before it asks for an execution and the executor uses     *)
(* again before it starts one, and the controls of RuntimeParamsForm.tsx.  *)
(*                                                                         *)
(* A value is its JSON type and its text.  Nothing but validateRpaDsl has  *)
(* looked at a definition, and that reads neither default nor required: a  *)
(* default may be of any type, whatever the control of the parameter can   *)
(* show.                                                                   *)
(***************************************************************************)
Value(type, text) == [type |-> type, text |-> text]

Undefined  == Value("undefined", "")
Null       == Value("null", "")
Str(text)  == Value("string", text)
Num(text)  == Value("number", text)
Bool(text) == Value("boolean", text)

\* Bound: the texts "", "7", "true", "false", "red" and a day tell the types apart.
Day == "2026-06-06"

ReadsAsNumber(raw)  == raw.type \in {"number", "string"} /\ raw.text = "7"
ReadsAsBoolean(raw) == raw.type \in {"boolean", "string"} /\ raw.text \in {"true", "false"}

IsUnset(value) == value \in {Undefined, Null, Str("")}

Accept(value) == [ok |-> TRUE,  value |-> value,     code |-> "none"]
Reject(code)  == [ok |-> FALSE, value |-> Undefined, code |-> code]

\* undefined as the value of an accepted parameter: it is left out.
NormalizeOneParam(definition, raw) ==
  CASE IsUnset(raw) ->
         IF definition.required THEN Reject("PARAM_REQUIRED")
         ELSE Accept(IF raw = Null THEN Null ELSE Undefined)
    [] ~IsUnset(raw) /\ definition.type \in {"string", "secret", "date"} ->
         IF raw.type = "string" THEN Accept(raw) ELSE Reject("PARAM_TYPE_INVALID")
    [] ~IsUnset(raw) /\ definition.type = "number" ->
         IF ReadsAsNumber(raw) THEN Accept(Num(raw.text)) ELSE Reject("PARAM_TYPE_INVALID")
    [] ~IsUnset(raw) /\ definition.type = "boolean" ->
         IF ReadsAsBoolean(raw) THEN Accept(Bool(raw.text)) ELSE Reject("PARAM_TYPE_INVALID")
    [] ~IsUnset(raw) /\ definition.type = "select" ->
         IF raw.type # "string" THEN Reject("PARAM_TYPE_INVALID")
         ELSE IF raw.text \in definition.options THEN Accept(raw)
         ELSE Reject("PARAM_OPTION_INVALID")
    [] OTHER -> Reject("PARAM_UNSUPPORTED")

\* Mutant: the default stands for whatever JavaScript takes for false.
NormalizeFalsyParams(definitions, input) ==
  [p \in DOMAIN definitions |-> NormalizeOneParam(definitions[p],
     IF input[p] \in {Undefined, Null, Str(""), Bool("false")} THEN definitions[p].default
     ELSE input[p])]

\* The default stands for what is absent or null, not for what is empty or false.
NormalizeRuntimeParams(definitions, input) ==
  [p \in DOMAIN definitions |-> NormalizeOneParam(definitions[p],
     IF input[p] \in {Undefined, Null} THEN definitions[p].default ELSE input[p])]

Accepted(results) == \A p \in DOMAIN results : results[p].ok
Normalized(results) == [p \in DOMAIN results |-> results[p].value]

\* What is sent is JSON: a key without a value is not there.
NoParams(definitions) == [p \in DOMAIN definitions |-> Undefined]

\* What the user may enter in the control of a parameter.
Control(definition) ==
  CASE definition.type = "boolean" -> {Bool("true"), Bool("false")}
    [] definition.type = "select"  -> {Str("")} \cup {Str(text) : text \in definition.options}
    [] definition.type = "number"  -> {Str(""), Str("7")}
    [] definition.type = "date"    -> {Str(""), Str(Day)}
    [] OTHER -> {Str(""), Str("red")}

\* The text the control of a parameter shows for a value; a checked box is "true", a
\* box without its mark and a field without text are "".  A box is checked for the
\* boolean alone, a list shows one of its options or none, and a number or date field
\* shows no text that is not of its kind.
Shows(definition, value) ==
  CASE definition.type = "boolean" -> IF value = Bool("true") THEN "true" ELSE ""
    [] definition.type = "select"  ->
         IF value.type = "string" /\ value.text \in definition.options THEN value.text ELSE ""
    [] definition.type = "number"  -> IF value.text = "7" THEN value.text ELSE ""
    [] definition.type = "date"    -> IF value.text = Day THEN value.text ELSE ""
    [] OTHER -> value.text

\* The form begins with the defaults.
DefaultValues(definitions) == [p \in DOMAIN definitions |-> definitions[p].default]
=============================================================================
