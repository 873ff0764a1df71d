----------------------------- MODULE DealDeskMC -----------------------------
(***************************************************************************)
(* Instances of DealDesk for TLC: an int64 of seven bits, a float64 that   *)
(* is exact up to 32, eleven cents to the dollar, which no float64 divides *)
(* evenly, the rules of the README and every operator on every kind of     *)
(* field.                                                                  *)
(***************************************************************************)
EXTENDS DealDeskProperties

\* JSON values.  The text of a number is a token.
Num(n)  == Scalar("json.Number", n, CASE n = 3 -> "3" [] OTHER -> "num")
Str(s)  == Scalar("string", 0, s)
Yes     == Scalar("bool", 1, "")

MCSubstrings == {<<"EMEA", "EM">>}

Cond(field, op, v) == [field |-> field, operator |-> op, value |-> v]
Rule(conditions, actions) ==
    [entityType |-> "opportunity", isActive |-> TRUE,
     conditions |-> conditions, actions |-> actions]
Warn(conditions) == Rule(conditions, <<"warn", "set_field">>)

Amount   == <<"amount">>
Currency == <<"currency">>
Expected == <<"expected_revenue">>
Closes   == <<"close_date">>
Region   == <<"custom_fields", "region">>
Area     == <<"custom_fields", "region", "area">>

LargeDealGate == Rule(<<Cond(Amount, "gt", Num(3)), Cond(Currency, "eq", Str("USD"))>>,
                      <<"block">>)
RegionReview  == Warn(<<Cond(Amount, "gte", Num(3)),
                        Cond(Region, "in", ListOf(<<Str("EMEA"), Str("EU")>>))>>)

\* Each operator on each kind of field, one condition to a rule.
Singles ==
    {Cond(f, op, Num(n)) : f \in {Amount, Expected}, n \in {3, 35},
                           op \in {"eq", "neq", "gt", "gte", "lt", "lte"}}
      \cup {Cond(f, op, Num(3)) : f \in {<<"expected_revenue", "amount">>, Region, Closes},
                                  op \in {"eq", "neq", "gt", "contains"}}
      \cup {Cond(f, op, Str("EMEA")) : f \in {Region, <<"custom_fields", "size">>, Closes},
                                       op \in {"eq", "neq", "contains"}}
      \cup {Cond(Area, op, Str("EMEA")) : op \in {"eq", "neq"}}
      \cup {Cond(<<"custom_fields", "size">>, "eq", Yes),
            Cond(Region, "eq", ListOf(<<Num(3), Str("EMEA")>>))}
      \cup {Cond(f, op, Str("USD")) : f \in {Currency, <<"amount", "currency">>},
                                      op \in {"eq", "neq", "contains"}}
      \cup {Cond(f, "in", ListOf(<<Str("EU"), Str("EMEA")>>)) : f \in {Region, Currency, Expected}}
      \cup {Cond(f, "in", ListOf(<<Num(35), Num(3)>>)) : f \in {Amount, Expected}}
      \cup {Cond(Region, "contains", Str("EM")), Cond(Amount, "in", Num(3)),
            Cond(Amount, "like", Num(3))}

Inactive == [LargeDealGate EXCEPT !.isActive = FALSE]
OfAccounts == [LargeDealGate EXCEPT !.entityType = "account"]

MCRuleSets ==
    {<<Warn(<<c>>)>> : c \in Singles}
      \cup {<<LargeDealGate>>, <<Inactive, LargeDealGate, OfAccounts, RegionReview>>,
            <<Rule(<<>>, <<"require_field">>),
              Warn(<<Cond(Region, "eq", Str("EMEA")), Cond(Closes, "neq", Str("EMEA"))>>)>>}

Snapshot(currency, expected, closes, custom) ==
    [currency |-> currency, expected_revenue |-> expected, close_date |-> closes,
     custom_fields |-> custom]
MCJSONValues ==
    {Str("EMEA"), Num(3), Yes, None, ListOf(<<Num(3), Str("EMEA")>>),
     MapOf([area |-> Str("EMEA")])}
MCRest ==
    {Snapshot("USD", None, None, << >>),
     Snapshot("", None, None, << >>),
     Snapshot("USD", Scalar("*Money", 3, "EUR"), Scalar("*Time", 0, "EMEA"),
              [region |-> Str("EMEA")]),
     Snapshot("JPY", Scalar("*Money", 36, "EUR"), None, [region |-> Num(3)]),
     Snapshot("USD", None, Scalar("*Time", 0, "day"),
              [region |-> ListOf(<<Num(3), Str("EMEA")>>)]),
     Snapshot("USD", None, None, [region |-> MapOf([area |-> Str("EMEA")]), size |-> Yes]),
     Snapshot("", None, None, [region |-> None])}

\* A float64 of five bits and a fraction, from 1/1024 to 32 * 2.
MCPowers == {1, 2, 4, 8, 16, 32, 64, 128, 256, 512, 1024, 2048}

\* A small and a large amount to add, and one that NewMoney refuses.
MCLines == {30, 33, -1}

\* Amounts on both sides of 3 and of 35, those a float64 takes for their
\* neighbour and the two ends of int64.
MCAmounts == {-64, -3, 3, 4, 35, 37, 63}
=============================================================================
