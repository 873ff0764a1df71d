----------------------------- MODULE RuleEngine -----------------------------
(***************************************************************************)
(* internal/rules/engine.go: the evaluation of business rules against the  *)
(* snapshot of an opportunity, and the values it compares.                 *)
(*                                                                         *)
(* The module has no state.  A Go value is a record with its dynamic type: *)
(*   - a scalar has a number n and a text s, of which its type says what   *)
(*     they mean; Money has both, json.Number is a text that spells n;     *)
(*   - a list ([]any) has items, a map or struct has fields by name.       *)
(* Types "nil *Money" and "nil *Time" are nil pointers, which as values    *)
(* of an interface are not nil; "nil" is the nil interface, JSON's null;   *)
(* "invalid" is reflect's zero Value, the field that was not found.        *)
(* Texts are tokens: Substrings says which text contains which.            *)
(*                                                                         *)
(* Evaluating a condition gives "yes", "no" or "panic": the call of a      *)
(* method through a nil pointer panics, and no handler recovers.           *)
(***************************************************************************)
EXTENDS Money, Sequences

CONSTANT Substrings     \* pairs <<text, text it contains, letter case aside>>

Scalar(type, n, s) == [type |-> type, n |-> n, s |-> s]
ListOf(items)      == [type |-> "list", items |-> items]
MapOf(fields)      == [type |-> "map", fields |-> fields]
Invalid            == Scalar("invalid", 0, "")
NilPointers        == {"nil *Money", "nil *Time"}

Verdict(b) == IF b THEN "yes" ELSE "no"

-----------------------------------------------------------------------------
(* Fields.                                                                 *)

\* What reflect finds in a value one level down, by the field's JSON name.
FieldsOf(v) ==
    CASE v.type \in {"map", "struct"} -> v.fields
      [] v.type \in {"Money", "*Money"} ->
            [amount |-> Scalar("int64", v.n, ""), currency |-> Scalar("Currency", 0, v.s)]
      [] OTHER -> << >>

fieldByExternalName(v, name) ==
    IF name \in DOMAIN FieldsOf(v) THEN FieldsOf(v)[name] ELSE Invalid

\* A fault the properties must notice: a path goes on through a nil pointer.
ThroughNil(entity, path) ==
    LET at[i \in 0 .. Len(path)] ==
            IF i = 0 THEN entity
            ELSE IF at[i - 1].type \in NilPointers THEN at[i - 1]
            ELSE fieldByExternalName(at[i - 1], path[i])
        v == at[Len(path)]
    IN  IF v.type \in {"invalid", "nil"} THEN Invalid ELSE v

\* Down from the entity, by one name of the path after the other.
Along(entity, path) ==
    LET at[i \in 0 .. Len(path)] ==
            IF i = 0 THEN entity ELSE fieldByExternalName(at[i - 1], path[i])
    IN  at[Len(path)]

\* The value at the end of a path, "invalid" standing for the nil that the
\* caller takes for a missing field.  A nil pointer in the middle of a path
\* is a missing field; at its end it is a value.
getFieldValue(entity, path) ==
    LET v == Along(entity, path)
    IN  IF v.type \in {"invalid", "nil"} THEN Invalid ELSE v

-----------------------------------------------------------------------------
(* Comparisons.                                                            *)

\* A fault the properties must notice: numbers read from a request body are
\* not taken for numbers.
NoJSONNumbers(v) ==
    IF v.type \in {"int", "int64", "float64", "Money", "*Money"} THEN {Float(v.n)} ELSE {}

\* {} when the value is no number, or the one float64 it is.
toFloat64(v) ==
    IF v.type \in {"int", "int64", "float64", "json.Number", "Money", "*Money"}
    THEN {Float(v.n)} ELSE {}

\* {} when the value has no text, or its one text.  The String method of
\* Money writes the currency and the amount, that of time.Time a layout of
\* its own, which is no text that JSON has for a time.
toString(v) ==
    CASE v.type \in {"string", "Currency", "json.Number"} -> {<<v.s>>}
      [] v.type \in {"Money", "*Money"} -> {<<v.s, v.n>>}
      [] v.type \in {"Time", "*Time"} -> {<<v.s, "time">>}
      [] OTHER -> {}

\* A fault the properties must notice: only a string has a text, so that a
\* currency equals no JSON string.
StringsOnly(a, b) ==
    IF a = b THEN "yes"
    ELSE IF toFloat64(a) # {} /\ toFloat64(b) # {} THEN Verdict(toFloat64(a) = toFloat64(b))
    ELSE IF a.type \in NilPointers THEN "panic"
    ELSE Verdict(a.type = "string" /\ toString(a) = toString(b))

\* reflect.DeepEqual, or equal as numbers, or equal as texts.
valuesEqual(a, b) ==
    IF a = b THEN "yes"
    ELSE IF toFloat64(a) # {} /\ toFloat64(b) # {} THEN Verdict(toFloat64(a) = toFloat64(b))
    ELSE IF a.type \in NilPointers THEN "panic"
    ELSE Verdict(toString(a) # {} /\ toString(a) = toString(b))

\* A fault the properties must notice: gt and lt are taken for gte and lte.
CompareLoosely(a, b, op) ==
    Verdict(\E x \in toFloat64(a), y \in toFloat64(b) :
               IF op \in {"gt", "gte"} THEN x >= y ELSE x <= y)

compareNumbers(a, b, op) ==
    Verdict(\E x \in toFloat64(a), y \in toFloat64(b) :
               CASE op = "gt"  -> x > y
                 [] op = "gte" -> x >= y
                 [] op = "lt"  -> x < y
                 [] op = "lte" -> x <= y)

contains(container, needle) ==
    Verdict(\/ /\ container.type = "string" /\ needle.type = "string"
               /\ \/ needle.s = container.s
                  \/ <<container.s, needle.s>> \in Substrings
            \/ /\ container.type = "list"
               /\ \E i \in DOMAIN container.items : container.items[i] = needle)

\* The first item that settles it decides.
inList(v, list) ==
    LET settling == {i \in DOMAIN list.items : valuesEqual(v, list.items[i]) # "no"}
    IN  IF list.type # "list" \/ settling = {} THEN "no"
        ELSE valuesEqual(v, list.items[Min(settling)])

evaluateCondition(c, entity) ==
    LET v == getFieldValue(entity, c.field)
    IN  CASE v = Invalid -> "no"
          [] v # Invalid /\ c.operator = "eq"  -> valuesEqual(v, c.value)
          [] v # Invalid /\ c.operator = "neq" ->
                CASE valuesEqual(v, c.value) = "yes" -> "no"
                  [] valuesEqual(v, c.value) = "no"  -> "yes"
                  [] OTHER -> "panic"
          [] v # Invalid /\ c.operator \in {"gt", "gte", "lt", "lte"} ->
                compareNumbers(v, c.value, c.operator)
          [] v # Invalid /\ c.operator = "contains" -> contains(v, c.value)
          [] v # Invalid /\ c.operator = "in" -> inList(v, c.value)
          [] OTHER -> "no"

-----------------------------------------------------------------------------
(* Rules.  A rule is [entityType, isActive, conditions, actions]; of its   *)
(* actions only the type matters.                                          *)

\* All conditions, in order, up to the first that does not hold.
matches(r, entity) ==
    LET failing == {j \in DOMAIN r.conditions : evaluateCondition(r.conditions[j], entity) # "yes"}
    IN  IF failing = {} THEN "yes"
        ELSE evaluateCondition(r.conditions[Min(failing)], entity)

Count(actions, types) == Cardinality({k \in DOMAIN actions : actions[k] \in types})

\* The result of one rule: how many errors, warnings and suggestions its
\* actions leave when it matches.
applyActions(r, matched) ==
    LET acts == IF matched THEN r.actions ELSE <<>>
    IN  [matched     |-> matched,
         errors      |-> Count(acts, {"block"}),
         warnings    |-> Count(acts, {"warn", "require_field"}),
         suggestions |-> Count(acts, {"set_field"})]

Considered(r, entityType) == r.isActive /\ r.entityType \in {"", entityType}

\* One result for each rule considered, at the rule's place; a panic loses them
\* all.  rules is a list of which some places may have been left out.
Evaluate(rules, entityType, entity) ==
    LET some    == {i \in DOMAIN rules : Considered(rules[i], entityType)}
        verdict == [i \in some |-> matches(rules[i], entity)]
        panics  == \E i \in some : verdict[i] = "panic"
    IN  [panicked |-> panics,
         results  |-> IF panics THEN <<>>
                      ELSE [i \in some |-> applyActions(rules[i], verdict[i] = "yes")]]
=============================================================================
