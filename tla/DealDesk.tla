------------------------------ MODULE DealDesk ------------------------------
(***************************************************************************)
(* An opportunity on its way to the rules: an amount is built with the     *)
(* operations of Money, the opportunity is posted as a snapshot to         *)
(* /rules/evaluate/opportunity, and the handler has RuleEngine evaluate    *)
(* the tenant's rules and sums up the results.                             *)
(*                                                                         *)
(* The same request is put to the API over each of the two stores.  They   *)
(* hold the same rules but not the same Go values: the memory store keeps  *)
(* the json.Number a rule was created with, Postgres reads a float64 back  *)
(* from its JSONB column.                                                  *)
(***************************************************************************)
EXTENDS RuleEngine

CONSTANTS
    RuleSets,       \* the lists of rules a tenant may have, values as in JSON
    JSONValues,     \* the values a custom field may have, and what is inside of them
    Rest,           \* the other fields of a snapshot
    Parts,          \* prices, 2 * Cents of which make a major unit
    Amounts,        \* the amounts of posted snapshots
    Lines,          \* amounts that are added
    Multipliers,    \* what Multiply is called with
    MaxWorth        \* bound on the exact amount

\* JSON values and the rules made of them: the value of a condition is a scalar
\* or a list of scalars.
JSONScalars == [type : {"json.Number", "string", "bool", "nil"}, n : Int, s : STRING]
Conditions  == [field    : Seq(STRING) \ {<<>>},
                operator : STRING,
                value    : JSONScalars \cup [type : {"list"}, items : Seq(JSONScalars)]]
Rules       == [entityType : STRING, isActive : BOOLEAN,
                conditions : Seq(Conditions), actions : Seq(STRING)]

None == Scalar("nil", 0, "")
IsObject(fields) == \A name \in DOMAIN fields : fields[name] \in JSONValues

ASSUME DealDeskAssumption ==
    /\ RuleSets \subseteq Seq(Rules)
    /\ \A v \in JSONValues :
          \/ v \in JSONScalars
          \/ v.type = "list" /\ v = ListOf(v.items)
          \/ v.type = "map" /\ v = MapOf(v.fields) /\ IsObject(v.fields)
    /\ \A r \in Rest :
          /\ r.currency \in Currencies
          /\ r.expected_revenue \in {None} \cup [type : {"*Money"}, n : Int64, s : STRING]
          /\ r.close_date \in {None} \cup [type : {"*Time"}, n : Int, s : STRING]
          /\ IsObject(r.custom_fields)
    /\ Parts \subseteq Nat /\ Amounts \subseteq Int64 /\ Lines \subseteq Int64 /\ Multipliers \subseteq Int64

VARIABLES
    rules,          \* the tenant's rules, values as in JSON
    money,          \* the amount, as the program holds it
    worth,          \* what it would be without the limits of int64 and float64
    rounded,        \* whether a float64 has already rounded it
    rest,           \* the other fields of the snapshot
    answer          \* [store -> the answer], or NoAnswer

vars == <<rules, money, worth, rounded, rest, answer>>

StoreKinds == {"memory", "postgres"}

-----------------------------------------------------------------------------
(* The snapshot and the rules as Go values.                                *)

\* A rule's value as the engine gets it: readJSON decodes with UseNumber, the
\* getJSON and listJSON of Postgres do not.
ScalarAsRead(v, store) ==
    IF v.type = "json.Number" /\ store = "postgres"
    THEN Scalar("float64", Float(v.n), "") ELSE v
AsRead(v, store) ==
    IF v.type = "list"
    THEN ListOf([i \in DOMAIN v.items |-> ScalarAsRead(v.items[i], store)])
    ELSE ScalarAsRead(v, store)

ConditionAsRead(c, store) == [c EXCEPT !.value = AsRead(c.value, store)]
RuleAsRead(r, store) ==
    [r EXCEPT !.conditions =
        [j \in DOMAIN r.conditions |-> ConditionAsRead(r.conditions[j], store)]]

\* The decoded domain.Opportunity.  rest has expected_revenue and close_date,
\* None or a pointer, and the map custom_fields.  Its currency is a field of
\* its own, which nothing compares with that of the amount.
Opportunity ==
    [type |-> "struct",
     fields |-> [amount           |-> Scalar("Money", money.amount, money.currency),
                 currency         |-> Scalar("Currency", 0, rest.currency),
                 expected_revenue |-> IF rest.expected_revenue = None
                                      THEN Scalar("nil *Money", 0, "")
                                      ELSE rest.expected_revenue,
                 close_date       |-> IF rest.close_date = None
                                      THEN Scalar("nil *Time", 0, "")
                                      ELSE rest.close_date,
                 custom_fields    |-> MapOf(rest.custom_fields)]]

\* The store's ListActive(tenant, "opportunity"), by their places in the list.
\* The order, a map's order in memory and that of the ids in Postgres, decides
\* only which of several results comes first.
Active(store) ==
    LET places == {i \in DOMAIN rules : rules[i].isActive /\ rules[i].entityType = "opportunity"}
    IN  [i \in places |-> RuleAsRead(rules[i], store)]

Total(counts) == FoldFunction(+, 0, counts)

Summary(store, e, blocking) ==
    [panicked      |-> e.panicked,
     results       |-> e.results,
     has_blocking  |-> blocking,
     error_count   |-> Total([i \in DOMAIN e.results |-> e.results[i].errors]),
     warning_count |-> Total([i \in DOMAIN e.results |-> e.results[i].warnings]),
     total_rules   |-> Cardinality(DOMAIN Active(store))]

\* A fault the properties must notice: the last rule alone says whether the
\* deal is blocked.
LastRuleDecides(store) ==
    LET e == Evaluate(Active(store), "opportunity", Opportunity)
    IN  Summary(store, e, /\ DOMAIN e.results # {}
                          /\ e.results[Max(DOMAIN e.results)].errors > 0)

handleEvaluateOpportunityRules(store) ==
    LET e == Evaluate(Active(store), "opportunity", Opportunity)
    IN  Summary(store, e, \E i \in DOMAIN e.results : e.results[i].errors > 0)

-----------------------------------------------------------------------------

NoAnswer == << >>
NoMoney == [amount |-> 0, currency |-> ""]

Init ==
    /\ rules \in RuleSets /\ rest \in Rest
    /\ money = NoMoney /\ worth = 0 /\ rounded = FALSE
    /\ answer = NoAnswer

\* A decimal price reaches FromMajor as the float64 nearest to it.
Prices ==
    [parts \in Parts |-> [c \in Currencies |->
        UNION {FromMajor(major, c) : major \in Nearest(parts * Fraction, 2 * Cents)}]]

\* A deal is priced once: the amount is given in major units.  The price is one
\* in whole minor units or falls between two of them; only the first, while
\* float64 tells quarters of a minor unit apart, is not rounded.
Price(parts, c) ==
    /\ money = NoMoney
    /\ \E m \in Prices[parts][c] :
          /\ m # Refusal
          /\ money' = m
    /\ worth' = (parts * MinorUnitsPerUnit(c) + Cents) \div (2 * Cents)
    /\ rounded' = ~ (/\ (parts * MinorUnitsPerUnit(c)) % (2 * Cents) = 0
                     /\ 4 * worth' < Mantissa)
    /\ answer' = NoAnswer
    /\ UNCHANGED <<rules, rest>>

\* Or the snapshot is decoded from JSON, which checks neither sign nor
\* currency.
Decode(a, c) ==
    /\ money = NoMoney
    /\ money' = [amount |-> a, currency |-> c]
    /\ worth' = a /\ rounded' = FALSE /\ answer' = NoAnswer
    /\ UNCHANGED <<rules, rest>>

\* Another amount, which NewMoney accepts, is added.
AddLine(a, c) ==
    LET m == Add(money, NewMoney(a, c))
    IN  /\ NewMoney(a, c) # Refusal /\ m # Refusal
        /\ worth + a <= MaxWorth
        /\ money' = m /\ worth' = worth + a
        /\ answer' = NoAnswer
        /\ UNCHANGED <<rules, rest, rounded>>

Scale(k) ==
    /\ Multiply(money, k) # Refusal
    /\ worth * k \in -MaxWorth .. MaxWorth
    /\ money' = Multiply(money, k) /\ worth' = worth * k
    /\ answer' = NoAnswer
    /\ UNCHANGED <<rules, rest, rounded>>

Ask ==
    /\ answer = NoAnswer
    /\ answer' = [store \in StoreKinds |-> handleEvaluateOpportunityRules(store)]
    /\ UNCHANGED <<rules, money, worth, rounded, rest>>

Next ==
    \/ \E parts \in Parts, c \in Currencies : Price(parts, c)
    \/ \E a \in Amounts, c \in Currencies : Decode(a, c)
    \/ \E a \in Lines, c \in Currencies : AddLine(a, c)
    \/ \E k \in Multipliers : Scale(k)
    \/ Ask

Spec == Init /\ [][Next]_vars
=============================================================================
