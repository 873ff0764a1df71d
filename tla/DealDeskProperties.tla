------------------------- MODULE DealDeskProperties -------------------------
(***************************************************************************)
(* What the author of a rule may rely on, stated from the JSON document a  *)
(* client posts and not from the Go values it becomes.                     *)
(***************************************************************************)
EXTENDS DealDesk

-----------------------------------------------------------------------------
(* The snapshot as its JSON document: field names and plain values.  A     *)
(* field that is left out or null reads as Absent, but for the amount, the *)
(* currency and the custom_fields themselves: Go gives every opportunity   *)
(* those, 0, "" and an empty map when the document has none, and a rule    *)
(* such as amount lt n matches by them.                                    *)

Absent    == [kind |-> "absent"]
Number(n) == [kind |-> "number", n |-> n]
Text(s)   == [kind |-> "text", s |-> s]
Composite == [kind |-> "composite"]
Other     == [kind |-> "other"]

Plain(v) ==
    CASE v.type = "json.Number" -> Number(v.n)
      [] v.type = "string"      -> Text(v.s)
      [] v.type = "nil"         -> Absent
      [] v.type \in {"list", "map"} -> Composite
      [] OTHER                  -> Other

\* Money reads as its amount: rules compare on minor units (engine.go:263).
OfMoney(path, name, n, c) ==
    CASE path = <<name>>             -> Number(n)
      [] path = <<name, "amount">>   -> Number(n)
      [] path = <<name, "currency">> -> Text(c)
      [] OTHER                       -> Absent

\* What is in a JSON value under a name, null when nothing is.
Below(v, name) ==
    IF v.type = "map" /\ name \in DOMAIN v.fields THEN v.fields[name] ELSE None

\* What a path that starts in custom_fields leads to.
Inside(path) ==
    LET at[i \in 1 .. Len(path)] ==
            IF i = 1 THEN MapOf(rest.custom_fields) ELSE Below(at[i - 1], path[i])
    IN  at[Len(path)]

Reads(path) ==
    CASE path[1] = "amount" -> OfMoney(path, "amount", money.amount, money.currency)
      [] path[1] = "currency" /\ Len(path) = 1 -> Text(rest.currency)
      [] path[1] = "expected_revenue" /\ rest.expected_revenue # None ->
            OfMoney(path, "expected_revenue",
                    rest.expected_revenue.n, rest.expected_revenue.s)
      [] path[1] = "close_date" /\ Len(path) = 1 /\ rest.close_date # None -> Other
      [] path[1] = "custom_fields" -> Plain(Inside(path))
      [] OTHER -> Absent

Holds(c) ==
    LET v == Reads(c.field)
        w == Plain(c.value)
    IN  /\ v # Absent
        /\ CASE c.operator = "eq"  -> v = w
             [] c.operator = "neq" -> v # w
             [] c.operator = "gt"  -> v.n > w.n
             [] c.operator = "gte" -> v.n >= w.n
             [] c.operator = "lt"  -> v.n < w.n
             [] c.operator = "lte" -> v.n <= w.n
             [] c.operator = "contains" -> v = w \/ <<v.s, w.s>> \in Substrings
             [] c.operator = "in"  -> /\ c.value.type = "list"
                                      /\ \E i \in DOMAIN c.value.items :
                                            v = Plain(c.value.items[i])
             [] OTHER -> FALSE

Exact(v) == v.kind = "number" => v.n \in -Mantissa .. Mantissa

\* A currency is a text in JSON and no string in Go: contains, the one operator
\* that looks for a string only, finds nothing in it (engine.go:274).
IsCurrency(path) ==
    path \in {<<"currency">>, <<"amount", "currency">>, <<"expected_revenue", "currency">>}

\* A condition that asks a number about numbers that are exact as float64, or
\* a text about texts.  The others have no reading that JSON would give them.
Plainly(c) ==
    LET v  == Reads(c.field)
        ws == IF c.operator = "in" /\ c.value.type = "list"
              THEN {Plain(c.value.items[i]) : i \in DOMAIN c.value.items}
              ELSE {Plain(c.value)}
    IN  \/ v = Absent
        \/ /\ v.kind \in {"number", "text"}
           /\ \A w \in ws : w.kind = v.kind /\ Exact(w)
           /\ Exact(v)
           /\ c.operator \in {"gt", "gte", "lt", "lte"} => v.kind = "number"
           /\ c.operator = "contains" => v.kind = "text" /\ ~IsCurrency(c.field)

-----------------------------------------------------------------------------

Asked == answer # NoAnswer

\* The places of the tenant's rules the answer is about.
Asking == {i \in DOMAIN rules : rules[i].isActive /\ rules[i].entityType = "opportunity"}

ConditionsOf(r) == {r.conditions[j] : j \in DOMAIN r.conditions}

\* backend-foundation.md:69, SKILL.md:50: a rule is written against the JSON
\* names and values of the opportunity.  When its conditions are plain, it
\* matches exactly when the document says so, over either store, although the
\* engine compares ints, currencies, pointers to Money and json.Numbers.
RulesReadTheDocument ==
    Asked => \A store \in StoreKinds, i \in Asking :
        /\ ~answer[store].panicked
        /\ \A c \in ConditionsOf(rules[i]) : Plainly(c)
        => (answer[store].results[i].matched <=>
               \A c \in ConditionsOf(rules[i]) : Holds(c))

\* The comment at engine.go:69: a missing field never matches, for safety.  A
\* rule that asks for a field the snapshot has not is answered as unmatched.
MissingFieldNeverMatches ==
    Asked => \A store \in StoreKinds, i \in Asking :
        (\E c \in ConditionsOf(rules[i]) : Reads(c.field) = Absent) =>
            /\ ~answer[store].panicked
            /\ ~answer[store].results[i].matched

\* What remains of it: a missing field never makes a rule match, and the
\* evaluation is lost only when a rule compares a missing expected_revenue or
\* close_date itself; one that looks inside of them is answered.
MissingFieldNeverPassesAGate ==
    Asked => \A store \in StoreKinds :
        IF answer[store].panicked
        THEN \E i \in Asking : \E c \in ConditionsOf(rules[i]) :
                /\ c.field \in {<<"expected_revenue">>, <<"close_date">>}
                /\ Reads(c.field) = Absent
                /\ c.operator \in {"eq", "neq", "in"}
        ELSE \A i \in Asking :
                (\E c \in ConditionsOf(rules[i]) : Reads(c.field) = Absent) =>
                    ~answer[store].results[i].matched

\* Beyond 2^53 a float64 may take two amounts for equal, but never reverses
\* their order: a strict comparison that holds is true of the amounts, and
\* one that is not strict and fails is false of them.
OrderNeverReversed ==
    Asked => \A store \in StoreKinds, i \in Asking :
        LET c == rules[i].conditions[1]
            v == Reads(c.field)
            w == Plain(c.value)
            matched == answer[store].results[i].matched
        IN  /\ ~answer[store].panicked /\ Len(rules[i].conditions) = 1
            /\ v.kind = "number" /\ w.kind = "number"
            => /\ c.operator = "gt"  /\ matched  => v.n > w.n
               /\ c.operator = "gte" /\ ~matched => v.n < w.n
               /\ c.operator = "lt"  /\ matched  => v.n < w.n
               /\ c.operator = "lte" /\ ~matched => v.n > w.n

\* backend-foundation.md:56: the stores behave alike.  One snapshot gets the
\* same answer over both, although one hands out json.Numbers and the other
\* float64s, unless a rule sets a text against a number, looks for a number
\* among the members of a list or sets the list against one with a number.
Mixed(c) ==
    LET v  == Reads(c.field)
        ws == IF c.value.type = "list"
              THEN {Plain(c.value.items[i]) : i \in DOMAIN c.value.items}
              ELSE {Plain(c.value)}
    IN  \/ v.kind = "text" /\ \E w \in ws : w.kind = "number"
        \/ /\ v = Composite /\ \E w \in ws : w.kind = "number"
           /\ \/ c.operator = "contains"
              \/ c.operator \in {"eq", "neq"} /\ c.value.type = "list"

StoresAnswerAlike ==
    /\ Asked
    /\ \A i \in Asking : \A c \in ConditionsOf(rules[i]) : ~Mixed(c)
    => answer["memory"] = answer["postgres"]

\* README.md:187: the gate on large deals, which blocks an amount above its
\* limit in its currency; the limit is below 2^53.
IsGate(r) ==
    /\ Len(r.conditions) = 2
    /\ r.conditions[1].field = <<"amount">> /\ r.conditions[1].operator = "gt"
    /\ r.conditions[1].value.type = "json.Number"
    /\ r.conditions[1].value.n \in 0 .. Mantissa - 1
    /\ r.conditions[2].field = <<"currency">> /\ r.conditions[2].operator = "eq"
    /\ r.conditions[2].value.type = "string"
    /\ r.actions = <<"block">>

\* A deal passes or is stopped by what it is worth and by the snapshot's own
\* currency, which need not be that of the amount (opportunity.go:25): as long as the amount fits an int64 and was not rounded when
\* priced, neither the arithmetic that led to it nor the comparison as float64
\* lets a large deal through or stops a small one.
LargeDealsAreStopped ==
    /\ Asked /\ worth \in Int64 /\ ~rounded
    /\ \A i \in Asking :
          IsGate(rules[i]) \/ \A j \in DOMAIN rules[i].actions : rules[i].actions[j] # "block"
    => \A store \in StoreKinds : ~answer[store].panicked =>
          (answer[store].has_blocking <=>
             \E i \in Asking :
                /\ IsGate(rules[i])
                /\ worth > rules[i].conditions[1].value.n
                /\ rest.currency = rules[i].conditions[2].value.s)

\* money.go:27: amounts are integers "to avoid floating point errors".  An
\* amount that fits is exact after any sequence of operations, one that began
\* with a price in whole minor units and wrapped around on the way included.
AmountsExactWhenTheyFit ==
    worth \in Int64 /\ ~rounded => money.amount = worth
=============================================================================
