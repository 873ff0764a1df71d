-------------------------- MODULE MemoryStoreProofs --------------------------
(***************************************************************************)
(* Theorems about MemoryStore for any keys, callers and values: no cell is *)
(* shared, and the store is the store of values that ValueStore promises.  *)
(*                                                                         *)
(* A record that was decoded or cloned lives in one region: each of its    *)
(* fields leads there or is nil, and so does every reference in its cells  *)
(* (Sound).  As the clone functions copy the whole tree, a step that gives *)
(* an owner a record gives it one in a region no other record uses, which  *)
(* is what Layout says.                                                    *)
(***************************************************************************)
EXTENDS MemoryStoreProperties, FiniteSetTheorems, TLAPS

\* The field of the record a place is reached from.
Top == [p \in Places |-> IF Parent[p] = "" THEN p
                         ELSE IF Parent[Parent[p]] = "" THEN Parent[p]
                         ELSE Parent[Parent[p]]]

\* The places of a record that have a cell.
Has(r) == {p \in Tree[kind] : r[Top[p]] # Nil}

Sound(h, r) ==
    /\ r \in [Fields[kind] -> Regions \cup {Nil}]
    /\ \A f, g \in Fields[kind] : r[f] # Nil /\ r[g] # Nil => r[f] = r[g]
    /\ \A p \in Has(r) :
          /\ <<r[Top[p]], p>> \in DOMAIN h
          /\ h[<<r[Top[p]], p>>] \in [contents : Values, refs : {[q \in Kids(p) |-> r[Top[p]]]}]

\* Two records in different regions.
Apart(r, q) == \A f, g \in Fields[kind] : r[f] # Nil => r[f] # q[g]

Owners == Keys \cup Clients
Rec(s, o, u) == IF u \in Keys THEN s[u] ELSE o[u]

Maps(s, o) == s = [k \in Keys |-> s[k]] /\ o = [c \in Clients |-> o[c]]

Layout(h, s, o) ==
    /\ Maps(s, o)
    /\ \A u \in Owners : Rec(s, o, u) # Nothing => Sound(h, Rec(s, o, u))
    /\ \A u, v \in Owners : u # v /\ Rec(s, o, u) # Nothing /\ Rec(s, o, v) # Nothing
                              => Apart(Rec(s, o, u), Rec(s, o, v))

MemInv == kind \in DOMAIN Fields /\ Layout(heap, stored, held)

-----------------------------------------------------------------------------
(* The tree of cells.                                                      *)

LEMMA ParentIs ==
    /\ Places = {"custom_fields", "nested", "items", "annual_revenue", "close_date",
                 "expected_revenue", "conditions", "value", "members", "actions", "params", "param"}
    /\ Parent["custom_fields"] = "" /\ Parent["nested"] = "custom_fields"
    /\ Parent["items"] = "nested" /\ Parent["annual_revenue"] = ""
    /\ Parent["close_date"] = "" /\ Parent["expected_revenue"] = ""
    /\ Parent["conditions"] = "" /\ Parent["value"] = "conditions"
    /\ Parent["members"] = "value" /\ Parent["actions"] = ""
    /\ Parent["params"] = "actions" /\ Parent["param"] = "params"
BY DEF Places, Parent

LEMMA TopIs ==
    /\ Top["custom_fields"] = "custom_fields" /\ Top["nested"] = "custom_fields"
    /\ Top["items"] = "custom_fields" /\ Top["annual_revenue"] = "annual_revenue"
    /\ Top["close_date"] = "close_date" /\ Top["expected_revenue"] = "expected_revenue"
    /\ Top["conditions"] = "conditions" /\ Top["value"] = "conditions"
    /\ Top["members"] = "conditions" /\ Top["actions"] = "actions"
    /\ Top["params"] = "actions" /\ Top["param"] = "actions"
BY ParentIs DEF Top

LEMMA KidsAre ==
    /\ Kids("custom_fields") = {"nested"} /\ Kids("nested") = {"items"} /\ Kids("items") = {}
    /\ Kids("annual_revenue") = {} /\ Kids("close_date") = {} /\ Kids("expected_revenue") = {}
    /\ Kids("conditions") = {"value"} /\ Kids("value") = {"members"} /\ Kids("members") = {}
    /\ Kids("actions") = {"params"} /\ Kids("params") = {"param"} /\ Kids("param") = {}
BY ParentIs DEF Kids

LEMMA NoKid ==
    ASSUME NEW f, NEW p, Kids(p) = {}
    PROVE  UNION {f[q] : q \in Kids(p)} = {}
OBVIOUS

LEMMA OneKid ==
    ASSUME NEW f, NEW p, NEW kid, Kids(p) = {kid}
    PROVE  UNION {f[q] : q \in Kids(p)} = f[kid]
OBVIOUS

\* Below is the function its recursive definition describes: there is one.
LEMMA BelowUnfold == Below = [p \in Places |-> {p} \cup UNION {Below[q] : q \in Kids(p)}]
<1> DEFINE B == [p \in Places |->
                   CASE p = "custom_fields" -> {"custom_fields", "nested", "items"}
                     [] p = "nested"     -> {"nested", "items"}
                     [] p = "conditions" -> {"conditions", "value", "members"}
                     [] p = "value"      -> {"value", "members"}
                     [] p = "actions"    -> {"actions", "params", "param"}
                     [] p = "params"     -> {"params", "param"}
                     [] OTHER            -> {p}]
<1>1. /\ B["items"] = {"items"} /\ B["nested"] = {"nested", "items"}
      /\ B["custom_fields"] = {"custom_fields", "nested", "items"}
      /\ B["members"] = {"members"} /\ B["value"] = {"value", "members"}
      /\ B["conditions"] = {"conditions", "value", "members"}
      /\ B["param"] = {"param"} /\ B["params"] = {"params", "param"}
      /\ B["actions"] = {"actions", "params", "param"}
      /\ \A p \in {"annual_revenue", "close_date", "expected_revenue"} : B[p] = {p}
  BY ParentIs
<1>2. B = [p \in Places |-> B[p]]
  OBVIOUS
<1> HIDE DEF B
<1>3. \A p \in Places : B[p] = {p} \cup UNION {B[q] : q \in Kids(p)}
  <2> TAKE p \in Places
  <2>1. CASE p \in {"items", "members", "param", "annual_revenue", "close_date", "expected_revenue"}
    <3>1. Kids(p) = {} /\ B[p] = {p}
      BY <1>1, <2>1, KidsAre
    <3> QED  BY <3>1, NoKid
  <2>2. CASE p \in {"nested", "value", "params", "custom_fields", "conditions", "actions"}
    <3>1. \A kid : Kids(p) = {kid} => UNION {B[q] : q \in Kids(p)} = B[kid]
      BY OneKid
    <3> QED  BY <1>1, <2>2, <3>1, KidsAre
  <2> QED  BY <2>1, <2>2, ParentIs
<1>4. B = [p \in Places |-> {p} \cup UNION {B[q] : q \in Kids(p)}]
  BY <1>2, <1>3
<1> QED  BY <1>4 DEF Below

LEMMA BelowIs ==
    /\ Below["items"] = {"items"} /\ Below["nested"] = {"nested", "items"}
    /\ Below["custom_fields"] = {"custom_fields", "nested", "items"}
    /\ Below["members"] = {"members"} /\ Below["value"] = {"value", "members"}
    /\ Below["conditions"] = {"conditions", "value", "members"}
    /\ Below["param"] = {"param"} /\ Below["params"] = {"params", "param"}
    /\ Below["actions"] = {"actions", "params", "param"}
    /\ Below["annual_revenue"] = {"annual_revenue"} /\ Below["close_date"] = {"close_date"}
    /\ Below["expected_revenue"] = {"expected_revenue"}
<1>1. \A p \in Places : Below[p] = {p} \cup UNION {Below[q] : q \in Kids(p)}
  BY BelowUnfold
<1>2. /\ Below["items"] = {"items"} /\ Below["members"] = {"members"}
      /\ Below["param"] = {"param"} /\ Below["annual_revenue"] = {"annual_revenue"}
      /\ Below["close_date"] = {"close_date"} /\ Below["expected_revenue"] = {"expected_revenue"}
  <2>1. \A p \in Places : Kids(p) = {} => Below[p] = {p}
    BY <1>1, NoKid
  <2> QED  BY <2>1, ParentIs, KidsAre
<1>3. /\ Below["nested"] = {"nested"} \cup Below["items"]
      /\ Below["value"] = {"value"} \cup Below["members"]
      /\ Below["params"] = {"params"} \cup Below["param"]
      /\ Below["custom_fields"] = {"custom_fields"} \cup Below["nested"]
      /\ Below["conditions"] = {"conditions"} \cup Below["value"]
      /\ Below["actions"] = {"actions"} \cup Below["params"]
  <2>1. \A p \in Places : \A kid : Kids(p) = {kid} => Below[p] = {p} \cup Below[kid]
    BY <1>1, OneKid
  <2> QED  BY <2>1, ParentIs, KidsAre
<1> QED  BY <1>2, <1>3

LEMMA PlaceShape ==
    ASSUME NEW p \in Places
    PROVE  /\ Top[p] \in Places /\ Parent[Top[p]] = "" /\ Top[Top[p]] = Top[p]
           /\ Parent[p] = "" => Top[p] = p
           /\ Parent[p] # "" => Parent[p] \in Places /\ Top[Parent[p]] = Top[p]
<1>1. CASE p \in {"custom_fields", "annual_revenue", "close_date", "expected_revenue",
                  "conditions", "actions"}
  BY <1>1, ParentIs, TopIs
<1>2. CASE p \in {"nested", "value", "params"}
  BY <1>2, ParentIs, TopIs
<1>3. CASE p \in {"items", "members", "param"}
  BY <1>3, ParentIs, TopIs
<1> QED  BY <1>1, <1>2, <1>3, ParentIs

LEMMA KidsShape ==
    ASSUME NEW p \in Places, NEW q \in Kids(p)
    PROVE  q \in Places /\ Parent[q] = p /\ Top[q] = Top[p]
<1>1. q \in Places /\ Parent[q] = p /\ p # ""
  BY ParentIs DEF Kids
<1> QED  BY <1>1, PlaceShape

LEMMA FieldsAre ==
    /\ DOMAIN Fields = {"accounts", "contacts", "opportunities", "products", "rules"}
    /\ DOMAIN Tree = DOMAIN Fields
    /\ Fields["accounts"] = {"custom_fields", "annual_revenue"}
    /\ Fields["contacts"] = {"custom_fields"}
    /\ Fields["opportunities"] = {"custom_fields", "close_date", "expected_revenue"}
    /\ Fields["products"] = {"custom_fields"}
    /\ Fields["rules"] = {"conditions", "actions"}
BY DEF Fields, Tree

LEMMA FieldShape ==
    ASSUME NEW k \in DOMAIN Fields, NEW f \in Fields[k]
    PROVE  f \in Places /\ Parent[f] = "" /\ Top[f] = f
<1>1. f \in {"custom_fields", "annual_revenue", "close_date", "expected_revenue",
             "conditions", "actions"}
  BY FieldsAre
<1> QED  BY <1>1, ParentIs, TopIs

\* The cells of a field are those with the field on top.
LEMMA BelowTop ==
    ASSUME NEW f \in Places, Parent[f] = ""
    PROVE  Below[f] = {p \in Places : Top[p] = f}
<1>1. f \in {"custom_fields", "annual_revenue", "close_date", "expected_revenue",
             "conditions", "actions"}
  BY ParentIs
<1>2. CASE f = "custom_fields"
  <2>1. Below[f] = {"custom_fields", "nested", "items"}
    BY <1>2, BelowIs
  <2>2. \A p \in {"custom_fields", "nested", "items"} : p \in Places /\ Top[p] = f
    BY <1>2, ParentIs, TopIs
  <2>3. \A p \in Places : Top[p] = f => p \in {"custom_fields", "nested", "items"}
    BY <1>2, ParentIs, TopIs
  <2> QED  BY <2>1, <2>2, <2>3
<1>3. CASE f = "conditions"
  <2>1. Below[f] = {"conditions", "value", "members"}
    BY <1>3, BelowIs
  <2>2. \A p \in {"conditions", "value", "members"} : p \in Places /\ Top[p] = f
    BY <1>3, ParentIs, TopIs
  <2>3. \A p \in Places : Top[p] = f => p \in {"conditions", "value", "members"}
    BY <1>3, ParentIs, TopIs
  <2> QED  BY <2>1, <2>2, <2>3
<1>4. CASE f = "actions"
  <2>1. Below[f] = {"actions", "params", "param"}
    BY <1>4, BelowIs
  <2>2. \A p \in {"actions", "params", "param"} : p \in Places /\ Top[p] = f
    BY <1>4, ParentIs, TopIs
  <2>3. \A p \in Places : Top[p] = f => p \in {"actions", "params", "param"}
    BY <1>4, ParentIs, TopIs
  <2> QED  BY <2>1, <2>2, <2>3
<1>5. CASE f \in {"annual_revenue", "close_date", "expected_revenue"}
  <2>1. Below[f] = {f}
    BY <1>5, BelowIs
  <2>2. \A p \in Places : Top[p] = f <=> p = f
    BY <1>5, ParentIs, TopIs
  <2> QED  BY <2>1, <2>2
<1> QED  BY <1>1, <1>2, <1>3, <1>4, <1>5

LEMMA BelowFields ==
    ASSUME NEW k \in DOMAIN Fields, NEW F \in SUBSET Fields[k]
    PROVE  UNION {Below[f] : f \in F} = {p \in Places : Top[p] \in F}
<1>1. \A f \in F : Below[f] = {p \in Places : Top[p] = f}
  BY FieldShape, BelowTop
<1> QED  BY <1>1

LEMMA TreeIs ==
    ASSUME NEW k \in DOMAIN Fields
    PROVE  Tree[k] = {p \in Places : Top[p] \in Fields[k]}
<1>1. Tree[k] = UNION {Below[f] : f \in Fields[k]}
  BY DEF Tree
<1> QED  BY <1>1, BelowFields

\* What the proofs need of the tree of a kind of record.
LEMMA TreeShape ==
    ASSUME NEW k \in DOMAIN Fields
    PROVE  /\ Fields[k] \subseteq Tree[k] /\ Tree[k] \subseteq Places
           /\ \A p \in Tree[k] : /\ Top[p] \in Fields[k]
                                 /\ Parent[p] = "" => Top[p] = p /\ p \in Fields[k]
                                 /\ Parent[p] # "" => /\ Parent[p] \in Tree[k]
                                                      /\ Top[Parent[p]] = Top[p]
                                                      /\ p \in Kids(Parent[p])
                                 /\ \A q \in Kids(p) : q \in Tree[k] /\ Top[q] = Top[p]
           /\ \A f \in Fields[k] : Parent[f] = "" /\ Top[f] = f
<1>1. /\ Fields[k] \subseteq Tree[k] /\ Tree[k] \subseteq Places
      /\ \A f \in Fields[k] : Parent[f] = "" /\ Top[f] = f
  BY TreeIs, FieldShape
<1>2. ASSUME NEW p \in Tree[k]
      PROVE  /\ Top[p] \in Fields[k]
             /\ Parent[p] = "" => Top[p] = p /\ p \in Fields[k]
             /\ Parent[p] # "" => Parent[p] \in Tree[k] /\ Top[Parent[p]] = Top[p]
  <2>1. p \in Places /\ Top[p] \in Fields[k]
    BY TreeIs
  <2>2. Parent[p] # "" => Parent[p] \in Places /\ Top[Parent[p]] = Top[p]
    BY <2>1, PlaceShape
  <2>3. Parent[p] = "" => Top[p] = p
    BY <2>1, PlaceShape
  <2> QED  BY <2>1, <2>2, <2>3, TreeIs
<1>3. ASSUME NEW p \in Tree[k]
      PROVE  p \in Kids(Parent[p])
  BY TreeIs DEF Kids
<1>4. ASSUME NEW p \in Tree[k], NEW q \in Kids(p)
      PROVE  q \in Tree[k] /\ Top[q] = Top[p]
  BY TreeIs, KidsShape
<1> QED  BY <1>1, <1>2, <1>3, <1>4

\* A set that has the fields and, with a place, the places it refers to, has
\* the whole tree.
LEMMA TreeInduction ==
    ASSUME NEW k \in DOMAIN Fields, NEW S,
           \A p \in Tree[k] : Parent[p] = "" => p \in S,
           \A p \in Tree[k] : Parent[p] # "" /\ Parent[p] \in S => p \in S
    PROVE  Tree[k] \subseteq S
<1>1. \A p \in Tree[k] : Parent[p] # "" => Parent[p] \in Tree[k]
  BY TreeShape
<1>2. \A p \in Tree[k] : p \in {"custom_fields", "annual_revenue", "close_date", "expected_revenue",
                                "conditions", "actions"} => p \in S
  BY ParentIs
<1>3. ASSUME NEW p \in Tree[k], p \in {"nested", "value", "params"}
      PROVE  p \in S
  <2>1. Parent[p] # "" /\ Parent[p] \in {"custom_fields", "conditions", "actions"}
    BY <1>3, ParentIs
  <2> QED  BY <1>1, <1>2, <2>1
<1>4. ASSUME NEW p \in Tree[k], p \in {"items", "members", "param"}
      PROVE  p \in S
  <2>1. Parent[p] # "" /\ Parent[p] \in {"nested", "value", "params"}
    BY <1>4, ParentIs
  <2> QED  BY <1>1, <1>3, <2>1
<1>5. Tree[k] \subseteq Places
  BY TreeShape
<1> QED  BY <1>2, <1>3, <1>4, <1>5, ParentIs

\* The clone functions copy the whole record.
LEMMA CopiedAll == kind \in DOMAIN Fields => Copied = Tree[kind]
<1> SUFFICES ASSUME kind \in DOMAIN Fields PROVE Copied = Tree[kind]
  OBVIOUS
<1>0. /\ "custom_fields" \in Places /\ "nested" \in Places /\ "params" \in Places
      /\ Below["custom_fields"] = {"custom_fields"} \cup Below["nested"]
      /\ Below["conditions"] = {"conditions"} \cup Below["value"]
      /\ Below["actions"] = {"actions"} \cup Below["params"]
      /\ Below["params"] = {"params"} \cup Below["param"]
  BY BelowIs, ParentIs
<1>1. cloneMap("custom_fields") = Below["custom_fields"]
  BY <1>0, KidsAre, OneKid DEF cloneMap, cloneAny
<1>2. cloneMap("params") = Below["params"]
  BY <1>0, KidsAre, OneKid DEF cloneMap, cloneAny
<1>3. cloneConditions = Below["conditions"] /\ cloneActions = Below["actions"]
  BY <1>0, <1>2 DEF cloneConditions, cloneActions, cloneAny
<1>4. /\ Below["annual_revenue"] = {"annual_revenue"} /\ Below["close_date"] = {"close_date"}
      /\ Below["expected_revenue"] = {"expected_revenue"}
  BY BelowIs
<1>5. Tree[kind] = UNION {Below[f] : f \in Fields[kind]}
  BY DEF Tree
<1>6. CASE kind = "accounts"
  <2>1. Copied = Below["custom_fields"] \cup Below["annual_revenue"]
    BY <1>1, <1>4, <1>6 DEF Copied, cloneAccount
  <2> QED  BY <1>5, <1>6, <2>1, FieldsAre
<1>7. CASE kind = "contacts" \/ kind = "products"
  <2>1. Copied = Below["custom_fields"] /\ Fields[kind] = {"custom_fields"}
    BY <1>1, <1>7, FieldsAre DEF Copied, cloneContact, cloneProduct
  <2> QED  BY <1>5, <2>1
<1>8. CASE kind = "opportunities"
  <2>1. Copied = Below["custom_fields"] \cup Below["close_date"] \cup Below["expected_revenue"]
    BY <1>1, <1>4, <1>8 DEF Copied, cloneOpportunity
  <2>2. Fields[kind] = {"custom_fields", "close_date", "expected_revenue"}
    BY <1>8, FieldsAre
  <2> HIDE DEF Copied
  <2> QED  BY <1>5, <2>1, <2>2
<1>9. CASE kind = "rules"
  <2>1. Copied = Below["conditions"] \cup Below["actions"]
    BY <1>3, <1>9 DEF Copied, cloneRule
  <2> QED  BY <1>5, <1>9, <2>1, FieldsAre
<1> QED  BY <1>6, <1>7, <1>8, <1>9, FieldsAre

-----------------------------------------------------------------------------
(* Sound records.                                                          *)

\* Where a record's cells are, by its fields alone.
Spread(r) == [p \in Tree[kind] |-> r[Top[p]]]

\* One step of RegionIn's recursion.
Follow(h, r, at, p) ==
    IF Parent[p] = "" THEN IF p \in DOMAIN r THEN r[p] ELSE Nil
    ELSE LET up == at[Parent[p]]
         IN  IF up = Nil THEN Nil ELSE h[<<up, Parent[p]>>].refs[p]

LEMMA RegionUnfold ==
    ASSUME NEW h, NEW r, NEW g, g = [p \in Tree[kind] |-> Follow(h, r, g, p)]
    PROVE  RegionIn(h, r) = [p \in Tree[kind] |-> Follow(h, r, RegionIn(h, r), p)]
BY DEF RegionIn, Follow

LEMMA SpreadFollows ==
    ASSUME kind \in DOMAIN Fields, NEW h, NEW r, Sound(h, r), NEW p \in Tree[kind]
    PROVE  Follow(h, r, Spread(r), p) = r[Top[p]]
<1>1. r \in [Fields[kind] -> Regions \cup {Nil}]
  BY DEF Sound
<1>2. CASE Parent[p] = ""
  <2>1. p \in Fields[kind] /\ Top[p] = p
    BY <1>2, TreeShape
  <2> QED  BY <1>1, <1>2, <2>1 DEF Follow
<1>3. CASE Parent[p] # ""
  <2>1. Parent[p] \in Tree[kind] /\ Top[Parent[p]] = Top[p] /\ p \in Kids(Parent[p])
    BY <1>3, TreeShape
  <2>2. Spread(r)[Parent[p]] = r[Top[p]]
    BY <2>1 DEF Spread
  <2>3. CASE r[Top[p]] = Nil
    BY <1>3, <2>2, <2>3 DEF Follow
  <2>4. CASE r[Top[p]] # Nil
    <3>1. Parent[p] \in Has(r)
      BY <2>1, <2>4 DEF Has
    <3>2. h[<<r[Top[p]], Parent[p]>>].refs = [q \in Kids(Parent[p]) |-> r[Top[p]]]
      BY <2>1, <3>1 DEF Sound
    <3>3. h[<<r[Top[p]], Parent[p]>>].refs[p] = r[Top[p]]
      BY <2>1, <3>2
    <3> QED  BY <1>3, <2>2, <2>4, <3>3 DEF Follow
  <2> QED  BY <2>3, <2>4
<1> QED  BY <1>2, <1>3

\* The cells of a sound record are where its fields lead.
LEMMA RegionOf ==
    ASSUME kind \in DOMAIN Fields, NEW h, NEW r, Sound(h, r)
    PROVE  RegionIn(h, r) = Spread(r)
<1> DEFINE at == RegionIn(h, r)
           S  == {p \in Tree[kind] : at[p] = r[Top[p]]}
<1>1. \A p \in Tree[kind] : Follow(h, r, Spread(r), p) = r[Top[p]]
  BY SpreadFollows
<1>2. Spread(r) = [p \in Tree[kind] |-> Follow(h, r, Spread(r), p)]
  BY <1>1 DEF Spread
<1>3. at = [p \in Tree[kind] |-> Follow(h, r, at, p)]
  BY <1>2, RegionUnfold
<1> HIDE DEF at
<1>4. \A p \in Tree[kind] : at[p] = Follow(h, r, at, p)
  BY <1>3
<1>5. ASSUME NEW p \in Tree[kind], Parent[p] = ""
      PROVE  p \in S
  BY <1>1, <1>4, <1>5 DEF Follow
<1>6. ASSUME NEW p \in Tree[kind], Parent[p] # "", Parent[p] \in S
      PROVE  p \in S
  <2>1. Parent[p] \in Tree[kind] /\ at[Parent[p]] = Spread(r)[Parent[p]]
    BY <1>6 DEF Spread
  <2>2. Follow(h, r, at, p) = Follow(h, r, Spread(r), p)
    BY <1>6, <2>1 DEF Follow
  <2> QED  BY <1>1, <1>4, <2>2
<1>7. \A p \in Tree[kind] : p \in S
  BY <1>5, <1>6, TreeInduction
<1>8. at = [p \in Tree[kind] |-> r[Top[p]]]
  BY <1>3, <1>7
<1> QED  BY <1>8 DEF at, Spread

\* Its cells, and its value.
LEMMA CellsOf ==
    ASSUME kind \in DOMAIN Fields, NEW h, NEW r, Sound(h, r)
    PROVE  /\ r # Nothing
           /\ Cells(h, r) = {<<r[Top[p]], p>> : p \in Has(r)}
           /\ Value(h, r) = [p \in Has(r) |-> h[<<r[Top[p]], p>>].contents]
           /\ Value(h, r) # Nothing
<1>1. Tree[kind] \subseteq Places /\ Fields[kind] \subseteq Places
  BY TreeShape
<1>2. r # Nothing
  <2>1. Nothing \notin [Fields[kind] -> Regions \cup {Nil}]
    BY <1>1, MemoryStoreAssumption
  <2> QED  BY <2>1 DEF Sound
<1>3. /\ DOMAIN Spread(r) = Tree[kind]
      /\ \A p \in Tree[kind] : Spread(r)[p] = r[Top[p]]
      /\ {q \in DOMAIN Spread(r) : Spread(r)[q] # Nil} = Has(r)
  BY DEF Spread, Has
<1>4. Has(r) \subseteq Tree[kind]
  BY DEF Has
<1>5. Cells(h, r) = {<<r[Top[p]], p>> : p \in Has(r)}
  <2>1. Cells(h, r) = {<<Spread(r)[p], p>> : p \in {q \in DOMAIN Spread(r) : Spread(r)[q] # Nil}}
    BY <1>2, RegionOf DEF Cells
  <2> QED  BY <1>3, <1>4, <2>1
<1>6. Value(h, r) = [p \in Has(r) |-> h[<<r[Top[p]], p>>].contents]
  <2>1. Value(h, r) = [p \in {q \in DOMAIN Spread(r) : Spread(r)[q] # Nil} |->
                         h[<<Spread(r)[p], p>>].contents]
    BY <1>2, RegionOf DEF Value
  <2> QED  BY <1>3, <1>4, <2>1
<1>7. Value(h, r) \in [Has(r) -> Values]
  <2>1. \A p \in Has(r) : h[<<r[Top[p]], p>>].contents \in Values
    BY DEF Sound
  <2> QED  BY <1>6, <2>1
<1>8. Has(r) \in SUBSET Places
  BY <1>1, <1>4
<1> QED  BY <1>2, <1>5, <1>6, <1>7, <1>8, MemoryStoreAssumption

\* A heap with the same cells at the places of a record is as good for it.
LEMMA SoundStays ==
    ASSUME kind \in DOMAIN Fields, NEW h, NEW h2, NEW r, Sound(h, r),
           \A p \in Has(r) : /\ <<r[Top[p]], p>> \in DOMAIN h2
                             /\ h2[<<r[Top[p]], p>>] = h[<<r[Top[p]], p>>]
    PROVE  Sound(h2, r) /\ Value(h2, r) = Value(h, r) /\ Cells(h2, r) = Cells(h, r)
<1>1. Sound(h2, r)
  BY DEF Sound
<1>2. /\ Value(h, r) = [p \in Has(r) |-> h[<<r[Top[p]], p>>].contents]
      /\ Cells(h, r) = {<<r[Top[p]], p>> : p \in Has(r)}
  BY CellsOf
<1>3. /\ Value(h2, r) = [p \in Has(r) |-> h2[<<r[Top[p]], p>>].contents]
      /\ Cells(h2, r) = {<<r[Top[p]], p>> : p \in Has(r)}
  BY <1>1, CellsOf
<1> QED  BY <1>1, <1>2, <1>3

-----------------------------------------------------------------------------
(* Fresh regions.                                                          *)

\* The regions a record uses.
Uses(r) == {r[f] : f \in Fields[kind]} \ {Nil}

LEMMA UsesOf ==
    ASSUME kind \in DOMAIN Fields, NEW h, NEW r, Sound(h, r)
    PROVE  /\ Uses(r) \subseteq Regions
           /\ \A m, n \in Uses(r) : m = n
           /\ {a[1] : a \in Cells(h, r)} = Uses(r)
<1>1. Uses(r) \subseteq Regions /\ \A m, n \in Uses(r) : m = n
  BY DEF Sound, Uses
<1>2. Cells(h, r) = {<<r[Top[p]], p>> : p \in Has(r)}
  BY CellsOf
<1>3. {a[1] : a \in Cells(h, r)} = {r[Top[p]] : p \in Has(r)}
  <2>1. ASSUME NEW a \in Cells(h, r) PROVE \E p \in Has(r) : a[1] = r[Top[p]]
    <3>1. PICK p \in Has(r) : a = <<r[Top[p]], p>>
      BY <1>2
    <3> QED  BY <3>1
  <2>2. ASSUME NEW p \in Has(r) PROVE \E a \in Cells(h, r) : a[1] = r[Top[p]]
    <3>1. <<r[Top[p]], p>> \in Cells(h, r)
      BY <1>2
    <3> QED  BY <3>1
  <2> QED  BY <2>1, <2>2
<1>4. {r[Top[p]] : p \in Has(r)} = Uses(r)
  <2>1. \A p \in Has(r) : r[Top[p]] \in Uses(r)
    BY TreeShape DEF Has, Uses
  <2>2. ASSUME NEW n \in Uses(r)
        PROVE  \E p \in Has(r) : n = r[Top[p]]
    <3>1. PICK f \in Fields[kind] : n = r[f] /\ r[f] # Nil
      BY DEF Uses
    <3>2. f \in Tree[kind] /\ Top[f] = f
      BY TreeShape
    <3> QED  BY <3>1, <3>2 DEF Has
  <2> QED  BY <2>1, <2>2
<1> QED  BY <1>1, <1>3, <1>4

\* The regions of every record but one's are in use.
LEMMA InUseIs ==
    ASSUME MemInv, NEW u \in Owners
    PROVE  InUse(u) = UNION {{a[1] : a \in Cells(heap, Rec(stored, held, v))} : v \in Owners \ {u}}
<1> DEFINE L == InUse(u)
           C(v) == Cells(heap, Rec(stored, held, v))
           R == UNION {{a[1] : a \in C(v)} : v \in Owners \ {u}}
<1>1. /\ \A k \in Keys : Rec(stored, held, k) = stored[k]
      /\ \A c \in Clients : Rec(stored, held, c) = held[c]
  BY MemoryStoreAssumption DEF Rec
<1>2. ASSUME NEW n \in L PROVE n \in R
  <2>1. PICK a \in UNION ({Cells(heap, stored[k]) : k \in Keys \ {u}}
                           \cup {Cells(heap, held[c]) : c \in Clients \ {u}}) : n = a[1]
    BY DEF InUse
  <2>2. \E v \in Owners \ {u} : a \in C(v)
    <3>1. CASE \E k \in Keys \ {u} : a \in Cells(heap, stored[k])
      BY <1>1, <3>1 DEF Owners
    <3>2. CASE \E c \in Clients \ {u} : a \in Cells(heap, held[c])
      BY <1>1, <3>2 DEF Owners
    <3> QED  BY <2>1, <3>1, <3>2
  <2> HIDE DEF C
  <2> QED  BY <2>1, <2>2
<1>3. ASSUME NEW n \in R PROVE n \in L
  <2>1. PICK v \in Owners \ {u} : n \in {a[1] : a \in C(v)}
    OBVIOUS
  <2>2. PICK a \in C(v) : n = a[1]
    BY <2>1
  <2>3. \/ v \in Keys \ {u} /\ C(v) = Cells(heap, stored[v])
        \/ v \in Clients \ {u} /\ C(v) = Cells(heap, held[v])
    BY <1>1 DEF Owners
  <2> HIDE DEF C
  <2> QED  BY <2>2, <2>3 DEF InUse
<1> QED  BY <1>2, <1>3

LEMMA SpareLeft ==
    ASSUME NEW used, NEW home \in [Spare -> Owners],
           \A m, n \in used \cap Spare : home[m] = home[n] => m = n
    PROVE  \E r \in Spare : r \notin used
<1> SUFFICES ASSUME Spare \subseteq used PROVE FALSE
  OBVIOUS
<1>1. IsFiniteSet(Spare) /\ IsFiniteSet(Owners)
  BY MemoryStoreAssumption, FS_Subset DEF Regions, Owners
<1>2. Cardinality(Owners) < Cardinality(Spare)
  <2>1. Cardinality(Owners) \in Nat /\ Cardinality(Spare) \in Nat
    BY <1>1, FS_CardinalityType
  <2> QED  BY <2>1, MemoryStoreAssumption DEF Owners
<1>3. \E m, n \in Spare : m # n /\ home[m] = home[n]
  BY <1>1, <1>2, FS_PigeonHole
<1> QED  BY <1>3

\* Fresh finds a region, and no other record uses it.
LEMMA FreshIs ==
    ASSUME MemInv, NEW u \in Owners
    PROVE  /\ Fresh(u) \in Regions /\ Fresh(u) # Nil
           /\ \A v \in Owners \ {u} : Rec(stored, held, v) # Nothing
                 => Fresh(u) \notin Uses(Rec(stored, held, v))
<1> DEFINE R(v) == Rec(stored, held, v)
           In(v) == {a[1] : a \in Cells(heap, R(v))}
<1>1. \A v \in Owners : R(v) # Nothing => Sound(heap, R(v))
  BY DEF MemInv, Layout
<1>2. \A v \in Owners : R(v) # Nothing =>
         In(v) = Uses(R(v)) /\ \A m, n \in In(v) : m = n
  <2> TAKE v \in Owners
  <2> SUFFICES ASSUME R(v) # Nothing
               PROVE  In(v) = Uses(R(v)) /\ \A m, n \in In(v) : m = n
    OBVIOUS
  <2> QED  BY <1>1, UsesOf DEF MemInv
<1>3. \A v \in Owners : R(v) = Nothing => In(v) = {}
  BY DEF Cells
<1>4. InUse(u) = UNION {In(v) : v \in Owners \ {u}}
  BY InUseIs
<1> HIDE DEF In, R
<1>5. Fresh(u) \in Regions /\ Fresh(u) \notin InUse(u)
  <2>1. CASE u \notin InUse(u)
    BY <2>1 DEF Fresh, Regions, Owners
  <2>2. CASE u \in InUse(u)
    <3> DEFINE home == [n \in Spare |-> IF n \in InUse(u)
                                        THEN CHOOSE v \in Owners \ {u} : n \in In(v) ELSE u]
    <3>1. \A n \in InUse(u) \cap Spare : home[n] \in Owners /\ n \in In(home[n])
      BY <1>4
    <3>2. home \in [Spare -> Owners]
      BY <3>1
    <3> HIDE DEF home
    <3>3. \A m, n \in InUse(u) \cap Spare : home[m] = home[n] => m = n
      BY <1>2, <1>3, <3>1
    <3>4. \E r \in Spare : r \notin InUse(u)
      BY <3>2, <3>3, SpareLeft
    <3>5. Fresh(u) = CHOOSE r \in Spare : r \notin InUse(u)
      BY <2>2 DEF Fresh
    <3> QED  BY <3>4, <3>5 DEF Regions
  <2> QED  BY <2>1, <2>2
<1>6. \A v \in Owners \ {u} : R(v) # Nothing => Fresh(u) \notin Uses(R(v))
  BY <1>2, <1>4, <1>5
<1> QED  BY <1>5, <1>6, MemoryStoreAssumption DEF R

-----------------------------------------------------------------------------
(* What a step does to the heap.                                           *)

\* The garbage collector takes no cell of a record.
LEMMA Collected ==
    ASSUME kind \in DOMAIN Fields, NEW h, NEW s, NEW o, Layout(h, s, o), NEW u \in Owners,
           Rec(s, o, u) # Nothing
    PROVE  /\ Sound(Reachable(h, s, o), Rec(s, o, u))
           /\ Value(Reachable(h, s, o), Rec(s, o, u)) = Value(h, Rec(s, o, u))
<1> DEFINE r == Rec(s, o, u)
<1>1. Sound(h, r)
  BY DEF Layout
<1>2. r \in Roots(s, o)
  BY DEF Roots, Rec, Owners
<1> HIDE DEF r
<1>3. \A p \in Has(r) : <<r[Top[p]], p>> \in Cells(h, r)
  BY <1>1, CellsOf
<1>4. \A a \in Cells(h, r) : a \in DOMAIN Reachable(h, s, o) /\ Reachable(h, s, o)[a] = h[a]
  BY <1>2 DEF Reachable
<1> QED  BY <1>1, <1>3, <1>4, SoundStays DEF r

\* A step that gives one owner another record, or none, in a region the others
\* do not use.
LEMMA Put ==
    ASSUME MemInv, NEW u \in Owners, NEW h, NEW s, NEW o, Maps(s, o),
           \A v \in Owners \ {u} :
              /\ Rec(s, o, v) = Rec(stored, held, v)
              /\ Rec(s, o, v) # Nothing =>
                    /\ Sound(h, Rec(s, o, v))
                    /\ Value(h, Rec(s, o, v)) = Value(heap, Rec(s, o, v)),
           Rec(s, o, u) # Nothing =>
              /\ Sound(h, Rec(s, o, u))
              /\ \A v \in Owners \ {u} : Rec(s, o, v) # Nothing =>
                    Uses(Rec(s, o, u)) \cap Uses(Rec(s, o, v)) = {}
    PROVE  /\ Layout(Reachable(h, s, o), s, o)
           /\ \A v \in Owners \ {u} : Value(Reachable(h, s, o), Rec(s, o, v))
                                         = Value(heap, Rec(stored, held, v))
           /\ Value(Reachable(h, s, o), Rec(s, o, u)) = Value(h, Rec(s, o, u))
<1> DEFINE R(v) == Rec(s, o, v)
           g == Reachable(h, s, o)
<1>1. \A v \in Owners : R(v) # Nothing => Sound(h, R(v))
  OBVIOUS
<1>2. ASSUME NEW v \in Owners, NEW w \in Owners, v # w, R(v) # Nothing, R(w) # Nothing
      PROVE  Apart(R(v), R(w))
  <2>1. CASE v = u \/ w = u
    <3>1. Uses(R(v)) \cap Uses(R(w)) = {}
      BY <1>2, <2>1
    <3> QED  BY <3>1 DEF Uses, Apart
  <2>2. CASE v # u /\ w # u
    BY <1>2, <2>2 DEF MemInv, Layout
  <2> QED  BY <2>1, <2>2
<1>3. Layout(h, s, o)
  BY <1>1, <1>2 DEF Layout
<1>4. ASSUME NEW v \in Owners, R(v) # Nothing
      PROVE  Sound(g, R(v)) /\ Value(g, R(v)) = Value(h, R(v))
  <2>1. kind \in DOMAIN Fields
    BY DEF MemInv
  <2> QED  BY <1>3, <1>4, <2>1, Collected
<1>5. \A v \in Owners : Value(g, R(v)) = Value(h, R(v))
  <2>1. \A v \in Owners : R(v) = Nothing => Value(g, R(v)) = Nothing /\ Value(h, R(v)) = Nothing
    BY DEF Value
  <2> QED  BY <1>4, <2>1
<1>6. ASSUME NEW v \in Owners \ {u}
      PROVE  Value(h, R(v)) = Value(heap, Rec(stored, held, v))
  <2>1. R(v) = Nothing => Value(h, R(v)) = Nothing /\ Value(heap, R(v)) = Nothing
    BY DEF Value
  <2> QED  BY <2>1
<1>7. Layout(g, s, o)
  BY <1>2, <1>4 DEF Layout
<1> QED  BY <1>5, <1>6, <1>7

\* New cells are laid in a region that the other owners do not use.
LEMMA OthersStay ==
    ASSUME MemInv, NEW u \in Owners, NEW new, \A a \in DOMAIN new : a[1] = Fresh(u),
           NEW v \in Owners \ {u}, Rec(stored, held, v) # Nothing
    PROVE  /\ Sound(With(new, heap), Rec(stored, held, v))
           /\ Value(With(new, heap), Rec(stored, held, v)) = Value(heap, Rec(stored, held, v))
<1> DEFINE r == Rec(stored, held, v)
<1>1. Sound(heap, r) /\ Fresh(u) \notin Uses(r)
  BY FreshIs DEF MemInv, Layout
<1> HIDE DEF r
<1>2. ASSUME NEW p \in Has(r)
      PROVE  /\ <<r[Top[p]], p>> \in DOMAIN With(new, heap)
             /\ With(new, heap)[<<r[Top[p]], p>>] = heap[<<r[Top[p]], p>>]
  <2>1. r[Top[p]] \in Uses(r)
    BY TreeShape DEF Has, Uses, MemInv
  <2>2. <<r[Top[p]], p>> \notin DOMAIN new
    BY <1>1, <2>1
  <2>3. <<r[Top[p]], p>> \in DOMAIN heap
    BY <1>1 DEF Sound
  <2> QED  BY <2>2, <2>3 DEF With
<1> QED  BY <1>1, <1>2, SoundStays DEF MemInv, r

\* So what is to be shown of such a step is that the new record is sound.
LEMMA Given ==
    ASSUME MemInv, NEW u \in Owners, NEW new, \A a \in DOMAIN new : a[1] = Fresh(u),
           NEW r, Sound(With(new, heap), r), Uses(r) \subseteq {Fresh(u)},
           NEW s, NEW o, Maps(s, o),
           Rec(s, o, u) = r, \A v \in Owners \ {u} : Rec(s, o, v) = Rec(stored, held, v)
    PROVE  LET g == Reachable(With(new, heap), s, o)
           IN  /\ Layout(g, s, o)
               /\ \A v \in Owners \ {u} : Value(g, Rec(s, o, v)) = Value(heap, Rec(stored, held, v))
               /\ Value(g, Rec(s, o, u)) = Value(With(new, heap), r)
<1>1. \A v \in Owners \ {u} : Rec(s, o, v) # Nothing =>
         Uses(Rec(s, o, u)) \cap Uses(Rec(s, o, v)) = {}
  BY FreshIs
<1>2. ASSUME NEW v \in Owners \ {u}, Rec(s, o, v) # Nothing
      PROVE  /\ Sound(With(new, heap), Rec(s, o, v))
             /\ Value(With(new, heap), Rec(s, o, v)) = Value(heap, Rec(s, o, v))
  <2>1. Rec(s, o, v) = Rec(stored, held, v)
    OBVIOUS
  <2> QED  BY <1>2, <2>1, OthersStay
<1> DEFINE h == With(new, heap)
<1>3. /\ \A v \in Owners \ {u} :
            /\ Rec(s, o, v) = Rec(stored, held, v)
            /\ Rec(s, o, v) # Nothing =>
                  Sound(h, Rec(s, o, v)) /\ Value(h, Rec(s, o, v)) = Value(heap, Rec(s, o, v))
      /\ Rec(s, o, u) # Nothing =>
            /\ Sound(h, Rec(s, o, u))
            /\ \A v \in Owners \ {u} : Rec(s, o, v) # Nothing =>
                  Uses(Rec(s, o, u)) \cap Uses(Rec(s, o, v)) = {}
  BY <1>1, <1>2
<1> HIDE DEF h
<1>4. /\ Layout(Reachable(h, s, o), s, o)
      /\ \A v \in Owners \ {u} : Value(Reachable(h, s, o), Rec(s, o, v))
                                    = Value(heap, Rec(stored, held, v))
      /\ Value(Reachable(h, s, o), Rec(s, o, u)) = Value(h, Rec(s, o, u))
  BY <1>3, Put
<1> QED  BY <1>4 DEF h

\* A clone is a sound record with the value of the original.
LEMMA CloneIs ==
    ASSUME kind \in DOMAIN Fields, NEW r, Sound(heap, r), NEW new \in Regions
    PROVE  LET h == With(CloneCells(r, new), heap)
           IN  /\ \A a \in DOMAIN CloneCells(r, new) : a[1] = new
               /\ Sound(h, CloneOf(r, new)) /\ Uses(CloneOf(r, new)) \subseteq {new}
               /\ Value(h, CloneOf(r, new)) = Value(heap, r)
<1> DEFINE q == CloneOf(r, new)
           N == CloneCells(r, new)
           h == With(N, heap)
<1>1. /\ Copied = Tree[kind] /\ Fields[kind] \subseteq Tree[kind]
      /\ r \in [Fields[kind] -> Regions \cup {Nil}]
      /\ new # Nil
  BY CopiedAll, TreeShape, MemoryStoreAssumption DEF Sound
<1>2. q = [f \in Fields[kind] |-> IF r[f] # Nil THEN new ELSE Nil]
  BY <1>1 DEF CloneOf, Redirect
<1>3. Has(q) = Has(r) /\ \A p \in Has(r) : q[Top[p]] = new
  <2>1. \A f \in Fields[kind] : q[f] = IF r[f] # Nil THEN new ELSE Nil
    BY <1>2
  <2> HIDE DEF q
  <2>2. \A p \in Tree[kind] : Top[p] \in Fields[kind]
    BY TreeShape
  <2> QED  BY <1>1, <2>1, <2>2 DEF Has
<1> DEFINE copy(p) == [heap[<<r[Top[p]], p>>] EXCEPT
                          !.refs = [i \in DOMAIN @ |-> Redirect(i, @[i], new)]]
<1>4. N = [a \in {<<new, p>> : p \in Has(r)} |-> copy(a[2])]
  <2>1. /\ RegionIn(heap, r) = Spread(r)
        /\ {p \in Copied : Spread(r)[p] # Nil} = Has(r)
        /\ \A p \in Has(r) : Spread(r)[p] = r[Top[p]]
    BY <1>1, RegionOf DEF Spread, Has
  <2>2. N = [a \in {<<new, p>> : p \in Has(r)} |->
               [heap[<<Spread(r)[a[2]], a[2]>>] EXCEPT
                   !.refs = [i \in DOMAIN @ |-> Redirect(i, @[i], new)]]]
    BY <2>1 DEF CloneCells
  <2>3. \A a \in {<<new, p>> : p \in Has(r)} : Spread(r)[a[2]] = r[Top[a[2]]]
    BY <2>1
  <2> HIDE DEF N
  <2> QED  BY <2>2, <2>3
<1>5. ASSUME NEW p \in Has(r)
      PROVE  /\ copy(p) \in [contents : Values, refs : {[i \in Kids(p) |-> new]}]
             /\ copy(p).contents = heap[<<r[Top[p]], p>>].contents
  <2>1. heap[<<r[Top[p]], p>>] \in [contents : Values, refs : {[i \in Kids(p) |-> r[Top[p]]]}]
    BY DEF Sound
  <2>2. r[Top[p]] # Nil /\ \A i \in Kids(p) : i \in Copied
    BY <1>1, TreeShape DEF Has
  <2>3. [i \in DOMAIN heap[<<r[Top[p]], p>>].refs |-> Redirect(i, heap[<<r[Top[p]], p>>].refs[i], new)]
           = [i \in Kids(p) |-> new]
    BY <2>1, <2>2 DEF Redirect
  <2> QED  BY <2>1, <2>3
<1>6. /\ \A a \in DOMAIN N : a[1] = new
      /\ \A p \in Has(r) : <<new, p>> \in DOMAIN N /\ N[<<new, p>>] = copy(p)
  <2> HIDE DEF copy, N
  <2> QED  BY <1>4
<1> HIDE DEF copy, N
<1>7. \A p \in Has(r) : <<new, p>> \in DOMAIN h /\ h[<<new, p>>] = copy(p)
  BY <1>6 DEF With
<1>8. Sound(h, q)
  <2>1. q \in [Fields[kind] -> Regions \cup {Nil}]
    BY <1>2
  <2>2. \A f, g \in Fields[kind] : q[f] # Nil /\ q[g] # Nil => q[f] = q[g]
    BY <1>2
  <2> HIDE DEF q, h
  <2>3. ASSUME NEW p \in Has(q)
        PROVE  /\ <<q[Top[p]], p>> \in DOMAIN h
               /\ h[<<q[Top[p]], p>>] \in [contents : Values, refs : {[i \in Kids(p) |-> q[Top[p]]]}]
    <3>1. p \in Has(r) /\ q[Top[p]] = new
      BY <1>3
    <3>2. <<new, p>> \in DOMAIN h /\ h[<<new, p>>] = copy(p)
      BY <1>7, <3>1
    <3>3. copy(p) \in [contents : Values, refs : {[i \in Kids(p) |-> new]}]
      BY <1>5, <3>1
    <3> QED  BY <3>1, <3>2, <3>3
  <2> QED  BY <2>1, <2>2, <2>3 DEF Sound
<1>9. Value(h, q) = Value(heap, r)
  <2>1. Value(h, q) = [p \in Has(q) |-> h[<<q[Top[p]], p>>].contents]
    BY <1>8, CellsOf
  <2>2. Value(heap, r) = [p \in Has(r) |-> heap[<<r[Top[p]], p>>].contents]
    BY CellsOf
  <2>3. \A p \in Has(r) : h[<<q[Top[p]], p>>].contents = heap[<<r[Top[p]], p>>].contents
    BY <1>3, <1>5, <1>7
  <2> HIDE DEF q, h
  <2> QED  BY <1>3, <2>1, <2>2, <2>3
<1>10. Uses(q) \subseteq {new}
  BY <1>2 DEF Uses
<1> QED  BY <1>6, <1>8, <1>9, <1>10 DEF N

-----------------------------------------------------------------------------
(* The actions.                                                            *)

Val(u) == Value(heap, Rec(stored, held, u))

\* The layout after a step, in which no owner but one has another value.
Changes(u) ==
    /\ kind' = kind /\ Layout(heap', stored', held')
    /\ \A v \in Owners \ {u} : Value(heap', Rec(stored', held', v)) = Val(v)

LEMMA RecIs ==
    ASSUME NEW s, NEW o
    PROVE  /\ \A k \in Keys : k \in Owners /\ Rec(s, o, k) = s[k]
           /\ \A c \in Clients : c \in Owners /\ Rec(s, o, c) = o[c]
BY MemoryStoreAssumption DEF Rec, Owners

\* What replacing one record leaves.
LEMMA StoredPut ==
    ASSUME MemInv, NEW k \in Keys, NEW r
    PROVE  LET s == [stored EXCEPT ![k] = r]
           IN  /\ Maps(s, held) /\ Rec(s, held, k) = r
               /\ \A v \in Owners \ {k} : Rec(s, held, v) = Rec(stored, held, v)
<1>1. stored = [l \in Keys |-> stored[l]] /\ held = [c \in Clients |-> held[c]]
  BY DEF MemInv, Layout, Maps
<1> QED  BY <1>1 DEF Maps, Rec

LEMMA HeldPut ==
    ASSUME MemInv, NEW c \in Clients, NEW r
    PROVE  LET o == [held EXCEPT ![c] = r]
           IN  /\ Maps(stored, o) /\ Rec(stored, o, c) = r
               /\ \A v \in Owners \ {c} : Rec(stored, o, v) = Rec(stored, held, v)
<1>1. stored = [l \in Keys |-> stored[l]] /\ held = [d \in Clients |-> held[d]]
  BY DEF MemInv, Layout, Maps
<1>2. c \notin Keys
  BY MemoryStoreAssumption
<1> QED  BY <1>1, <1>2 DEF Maps, Rec, Owners

\* Create and Update store a clone of what the caller holds.
LEMMA KeepChanges ==
    ASSUME MemInv, NEW c \in Clients, NEW k \in Keys, held[c] # Nothing, Keep(c, k), kind' = kind
    PROVE  Changes(k) /\ Value(heap', stored'[k]) = Value(heap, held[c])
<1> DEFINE new == Fresh(k)
           r == CloneOf(held[c], new)
           N == CloneCells(held[c], new)
           s == [stored EXCEPT ![k] = r]
<1>1. heap' = Reachable(With(N, heap), s, held) /\ stored' = s /\ held' = held
  BY DEF Keep, Settle
<1>2. k \in Owners /\ kind \in DOMAIN Fields
  BY RecIs DEF MemInv
<1>3. Sound(heap, held[c])
  BY RecIs DEF MemInv, Layout
<1>4. new \in Regions
  BY <1>2, FreshIs
<1>5. /\ \A a \in DOMAIN N : a[1] = new
      /\ Sound(With(N, heap), r) /\ Uses(r) \subseteq {new}
      /\ Value(With(N, heap), r) = Value(heap, held[c])
  BY <1>2, <1>3, <1>4, CloneIs
<1>6. /\ Maps(s, held) /\ Rec(s, held, k) = r
      /\ \A v \in Owners \ {k} : Rec(s, held, v) = Rec(stored, held, v)
  BY StoredPut
<1> HIDE DEF r, N, s
<1>7. /\ Layout(Reachable(With(N, heap), s, held), s, held)
      /\ \A v \in Owners \ {k} : Value(Reachable(With(N, heap), s, held), Rec(s, held, v))
                                    = Value(heap, Rec(stored, held, v))
      /\ Value(Reachable(With(N, heap), s, held), Rec(s, held, k)) = Value(With(N, heap), r)
  BY <1>2, <1>5, <1>6, Given
<1>8. Rec(s, held, k) = s[k]
  BY RecIs
<1> QED  BY <1>1, <1>5, <1>7, <1>8 DEF Changes, Val

\* Get hands out a clone of what is stored.
LEMMA GetChanges ==
    ASSUME MemInv, NEW c \in Clients, NEW k \in Keys, Get(c, k)
    PROVE  Changes(c) /\ Value(heap', held'[c]) = Value(heap, stored[k]) /\ stored' = stored
<1> DEFINE new == Fresh(c)
           r == CloneOf(stored[k], new)
           N == CloneCells(stored[k], new)
           o == [held EXCEPT ![c] = r]
<1>1. heap' = Reachable(With(N, heap), stored, o) /\ stored' = stored /\ held' = o /\ kind' = kind
  BY DEF Get, Settle
<1>2. c \in Owners /\ kind \in DOMAIN Fields
  BY RecIs DEF MemInv
<1>3. Sound(heap, stored[k])
  BY RecIs DEF Get, MemInv, Layout
<1>4. new \in Regions
  BY <1>2, FreshIs
<1>5. /\ \A a \in DOMAIN N : a[1] = new
      /\ Sound(With(N, heap), r) /\ Uses(r) \subseteq {new}
      /\ Value(With(N, heap), r) = Value(heap, stored[k])
  BY <1>2, <1>3, <1>4, CloneIs
<1>6. /\ Maps(stored, o) /\ Rec(stored, o, c) = r
      /\ \A v \in Owners \ {c} : Rec(stored, o, v) = Rec(stored, held, v)
  BY HeldPut
<1> HIDE DEF r, N, o
<1>7. /\ Layout(Reachable(With(N, heap), stored, o), stored, o)
      /\ \A v \in Owners \ {c} : Value(Reachable(With(N, heap), stored, o), Rec(stored, o, v))
                                    = Value(heap, Rec(stored, held, v))
      /\ Value(Reachable(With(N, heap), stored, o), Rec(stored, o, c)) = Value(With(N, heap), r)
  BY <1>2, <1>5, <1>6, Given
<1>8. Rec(stored, o, c) = o[c]
  BY RecIs
<1> QED  BY <1>1, <1>5, <1>7, <1>8 DEF Changes, Val

LEMMA DeleteChanges ==
    ASSUME MemInv, NEW k \in Keys, Delete(k)
    PROVE  Changes(k) /\ Value(heap', stored'[k]) = Nothing /\ held' = held
<1> DEFINE s == [stored EXCEPT ![k] = Nothing]
<1>1. heap' = Reachable(heap, s, held) /\ stored' = s /\ held' = held /\ kind' = kind
  BY DEF Delete, Settle
<1>2. k \in Owners
  BY RecIs
<1>3. /\ Maps(s, held) /\ Rec(s, held, k) = Nothing
      /\ \A v \in Owners \ {k} : Rec(s, held, v) = Rec(stored, held, v)
  BY StoredPut
<1>4. s[k] = Nothing
  BY DEF MemInv, Layout, Maps
<1> HIDE DEF s
<1>5. /\ Layout(Reachable(heap, s, held), s, held)
      /\ \A v \in Owners \ {k} : Value(Reachable(heap, s, held), Rec(s, held, v))
                                    = Value(heap, Rec(stored, held, v))
  <2>1. \A v \in Owners \ {k} : Rec(s, held, v) # Nothing => Sound(heap, Rec(s, held, v))
    BY <1>3 DEF MemInv, Layout
  <2> QED  BY <1>2, <1>3, <2>1, Put
<1> QED  BY <1>1, <1>4, <1>5 DEF Changes, Val, Value

LEMMA DropChanges ==
    ASSUME MemInv, NEW c \in Clients, Drop(c)
    PROVE  Changes(c) /\ stored' = stored
<1> DEFINE o == [held EXCEPT ![c] = Nothing]
<1>1. heap' = Reachable(heap, stored, o) /\ stored' = stored /\ held' = o /\ kind' = kind
  BY DEF Drop, Settle
<1>2. c \in Owners
  BY RecIs
<1>3. /\ Maps(stored, o) /\ Rec(stored, o, c) = Nothing
      /\ \A v \in Owners \ {c} : Rec(stored, o, v) = Rec(stored, held, v)
  BY HeldPut
<1> HIDE DEF o
<1>4. /\ Layout(Reachable(heap, stored, o), stored, o)
      /\ \A v \in Owners \ {c} : Value(Reachable(heap, stored, o), Rec(stored, o, v))
                                    = Value(heap, Rec(stored, held, v))
  <2>1. \A v \in Owners \ {c} : Rec(stored, o, v) # Nothing => Sound(heap, Rec(stored, o, v))
    BY <1>3 DEF MemInv, Layout
  <2> QED  BY <1>2, <1>3, <2>1, Put
<1> QED  BY <1>1, <1>4 DEF Changes, Val

\* The draft has the custom fields of the record that was read, in its region.
LEMMA KeepCustomFieldsChanges ==
    ASSUME MemInv, NEW c \in Clients, KeepCustomFields(c)
    PROVE  Changes(c) /\ stored' = stored
<1> DEFINE r == [f \in Fields[kind] |-> IF f = "custom_fields" THEN held[c][f] ELSE Nil]
           o == [held EXCEPT ![c] = r]
<1>1. heap' = Reachable(heap, stored, o) /\ stored' = stored /\ held' = o /\ kind' = kind
  <2>1. held = [d \in Clients |-> held[d]]
    BY DEF MemInv, Layout, Maps
  <2> QED  BY <2>1 DEF KeepCustomFields, Settle
<1>2. c \in Owners /\ kind \in DOMAIN Fields /\ Rec(stored, held, c) = held[c] /\ held[c] # Nothing
  BY RecIs DEF MemInv, KeepCustomFields
<1>3. /\ Maps(stored, o) /\ Rec(stored, o, c) = r
      /\ \A v \in Owners \ {c} : Rec(stored, o, v) = Rec(stored, held, v)
  BY HeldPut
<1>4. Sound(heap, held[c])
  BY <1>2 DEF MemInv, Layout
<1>5. Sound(heap, r) /\ Uses(r) \subseteq Uses(held[c])
  <2>1. r \in [Fields[kind] -> Regions \cup {Nil}]
    BY <1>4 DEF Sound
  <2>2. \A f \in Fields[kind] : r[f] # Nil => r[f] = held[c][f]
    OBVIOUS
  <2> HIDE DEF r
  <2>3. \A f, g \in Fields[kind] : r[f] # Nil /\ r[g] # Nil => r[f] = r[g]
    BY <1>4, <2>2 DEF Sound
  <2>4. \A p \in Has(r) : p \in Has(held[c]) /\ r[Top[p]] = held[c][Top[p]]
    <3>1. \A p \in Tree[kind] : Top[p] \in Fields[kind]
      BY <1>2, TreeShape
    <3> QED  BY <2>2, <3>1 DEF Has
  <2>5. Uses(r) \subseteq Uses(held[c])
    BY <2>2 DEF Uses
  <2> QED  BY <1>4, <2>1, <2>3, <2>4, <2>5 DEF Sound
<1> HIDE DEF r, o
<1>6. \A v \in Owners \ {c} : Rec(stored, o, v) # Nothing =>
         Sound(heap, Rec(stored, o, v)) /\ Uses(r) \cap Uses(Rec(stored, o, v)) = {}
  <2>1. \A v \in Owners \ {c} : Rec(stored, held, v) # Nothing =>
           Sound(heap, Rec(stored, held, v)) /\ Apart(held[c], Rec(stored, held, v))
    BY <1>2 DEF MemInv, Layout
  <2> QED  BY <1>3, <1>5, <2>1 DEF Apart, Uses
<1>7. /\ Layout(Reachable(heap, stored, o), stored, o)
      /\ \A v \in Owners \ {c} : Value(Reachable(heap, stored, o), Rec(stored, o, v))
                                    = Value(heap, Rec(stored, held, v))
  BY <1>2, <1>3, <1>5, <1>6, Put
<1> QED  BY <1>1, <1>7 DEF Changes, Val

\* A decoded record: the fields that the body has lead to new cells.
NewCells(some, new, v) ==
    [a \in {<<new, p>> : p \in UNION {Below[f] : f \in some}} |->
       [contents |-> v, refs |-> [q \in Kids(a[2]) |-> new]]]
NewRecord(some, new) == [f \in Fields[kind] |-> IF f \in some THEN new ELSE Nil]

LEMMA DecodedIs ==
    ASSUME kind \in DOMAIN Fields, NEW some \in SUBSET Fields[kind], NEW new \in Regions,
           NEW v \in Values
    PROVE  /\ \A a \in DOMAIN NewCells(some, new, v) : a[1] = new
           /\ Sound(With(NewCells(some, new, v), heap), NewRecord(some, new))
           /\ Uses(NewRecord(some, new)) \subseteq {new}
<1> DEFINE cell(p) == [contents |-> v, refs |-> [q \in Kids(p) |-> new]]
           N == NewCells(some, new, v)
           r == NewRecord(some, new)
<1>1. UNION {Below[f] : f \in some} = {p \in Places : Top[p] \in some}
  BY BelowFields
<1>2. N = [a \in {<<new, p>> : p \in {q \in Places : Top[q] \in some}} |-> cell(a[2])]
  BY <1>1 DEF NewCells
<1> HIDE DEF cell, N
<1>3. /\ \A a \in DOMAIN N : a[1] = new
      /\ \A p \in Places : Top[p] \in some => <<new, p>> \in DOMAIN N /\ N[<<new, p>>] = cell(p)
  BY <1>2
<1>4. new # Nil
  BY MemoryStoreAssumption
<1>5. /\ r \in [Fields[kind] -> Regions \cup {Nil}]
      /\ \A f \in Fields[kind] : r[f] # Nil => f \in some /\ r[f] = new
  BY <1>4 DEF NewRecord
<1> HIDE DEF r
<1>6. ASSUME NEW p \in Has(r)
      PROVE  /\ <<r[Top[p]], p>> \in DOMAIN With(N, heap)
             /\ With(N, heap)[<<r[Top[p]], p>>]
                   \in [contents : Values, refs : {[q \in Kids(p) |-> r[Top[p]]]}]
  <2>1. p \in Places /\ Top[p] \in Fields[kind] /\ r[Top[p]] # Nil
    BY TreeShape DEF Has
  <2>2. r[Top[p]] = new /\ <<new, p>> \in DOMAIN N /\ N[<<new, p>>] = cell(p)
    BY <1>3, <1>5, <2>1
  <2>3. <<new, p>> \in DOMAIN With(N, heap) /\ With(N, heap)[<<new, p>>] = cell(p)
    BY <2>2 DEF With
  <2> QED  BY <2>2, <2>3 DEF cell
<1>7. Uses(r) \subseteq {new}
  BY <1>5 DEF Uses
<1> QED  BY <1>3, <1>5, <1>6, <1>7 DEF Sound, N, r

LEMMA DecodeChanges ==
    ASSUME MemInv, NEW c \in Clients, NEW some \in SUBSET Fields[kind], Decode(c, some)
    PROVE  Changes(c) /\ stored' = stored
<1> DEFINE new == Fresh(c)
           first == CHOOSE v \in Values : TRUE
           N == NewCells(some, new, first)
           r == NewRecord(some, new)
           o == [held EXCEPT ![c] = r]
<1>1. heap' = Reachable(With(N, heap), stored, o) /\ stored' = stored /\ held' = o /\ kind' = kind
  BY DEF Decode, Settle, NewCells, NewRecord
<1>2. c \in Owners /\ kind \in DOMAIN Fields
  BY RecIs DEF MemInv
<1>3. new \in Regions
  BY <1>2, FreshIs
<1>4. first \in Values
  BY MemoryStoreAssumption
<1>5. /\ \A a \in DOMAIN N : a[1] = new
      /\ Sound(With(N, heap), r) /\ Uses(r) \subseteq {new}
  <2> HIDE DEF new, first
  <2> QED  BY <1>2, <1>3, <1>4, DecodedIs
<1>6. /\ Maps(stored, o) /\ Rec(stored, o, c) = r
      /\ \A v \in Owners \ {c} : Rec(stored, o, v) = Rec(stored, held, v)
  BY HeldPut
<1> HIDE DEF r, N, o
<1>7. /\ Layout(Reachable(With(N, heap), stored, o), stored, o)
      /\ \A v \in Owners \ {c} : Value(Reachable(With(N, heap), stored, o), Rec(stored, o, v))
                                    = Value(heap, Rec(stored, held, v))
  BY <1>2, <1>5, <1>6, Given
<1> QED  BY <1>1, <1>7 DEF Changes, Val

\* Writing into a cell of a record leaves every record what it is, and those
\* of the others unchanged.
LEMMA EditChanges ==
    ASSUME MemInv, NEW c \in Clients, NEW p \in Tree[kind], NEW v \in Values, Edit(c, p, v)
    PROVE  Changes(c) /\ stored' = stored /\ held' = held
<1> DEFINE R(u) == Rec(stored, held, u)
<1>1. /\ kind' = kind /\ stored' = stored /\ held' = held
      /\ c \in Owners /\ R(c) = held[c] /\ held[c] # Nothing /\ kind \in DOMAIN Fields
  BY RecIs DEF Edit, MemInv
<1>2. \A u \in Owners : R(u) # Nothing => Sound(heap, R(u))
  BY DEF MemInv, Layout
<1>3. \A u \in Owners \ {c} : R(u) # Nothing => Apart(R(u), R(c))
  BY <1>1 DEF MemInv, Layout
<1>4. RegionIn(heap, held[c]) = Spread(held[c]) /\ Spread(held[c])[p] = R(c)[Top[p]]
  BY <1>1, <1>2, RegionOf DEF Spread
<1> DEFINE a == <<R(c)[Top[p]], p>>
<1>5. heap' = [heap EXCEPT ![a].contents = v] /\ R(c)[Top[p]] # Nil
  BY <1>1, <1>4 DEF Edit
<1>6. DOMAIN heap' = DOMAIN heap /\ \A b \in DOMAIN heap : b # a => heap'[b] = heap[b]
  BY <1>5
<1>7. \A q \in Tree[kind] : Top[q] \in Fields[kind]
  BY <1>1, TreeShape
<1>8. ASSUME NEW u \in Owners \ {c}, R(u) # Nothing
      PROVE  Sound(heap', R(u)) /\ Value(heap', R(u)) = Value(heap, R(u))
  <2>1. \A q \in Has(R(u)) : <<R(u)[Top[q]], q>> \in DOMAIN heap
    BY <1>2, <1>8 DEF Sound
  <2>2. \A q \in Has(R(u)) : <<R(u)[Top[q]], q>> # a
    BY <1>3, <1>7, <1>8 DEF Apart, Has
  <2> HIDE DEF R, a
  <2>3. \A q \in Has(R(u)) : /\ <<R(u)[Top[q]], q>> \in DOMAIN heap'
                             /\ heap'[<<R(u)[Top[q]], q>>] = heap[<<R(u)[Top[q]], q>>]
    BY <1>6, <2>1, <2>2
  <2> QED  BY <1>1, <1>2, <1>8, <2>3, SoundStays
<1>9. Sound(heap', R(c))
  <2>1. Sound(heap, R(c)) /\ p \in Has(R(c))
    BY <1>1, <1>2, <1>5 DEF Has
  <2>2. /\ a \in DOMAIN heap
        /\ heap[a] \in [contents : Values, refs : {[q \in Kids(p) |-> R(c)[Top[p]]]}]
    BY <2>1 DEF Sound
  <2>3. heap'[a] = [heap[a] EXCEPT !.contents = v]
    BY <1>5, <2>2
  <2>4. heap'[a] \in [contents : Values, refs : {[q \in Kids(p) |-> R(c)[Top[p]]]}]
    BY <2>2, <2>3
  <2> HIDE DEF R
  <2>5. ASSUME NEW q \in Has(R(c))
        PROVE  /\ <<R(c)[Top[q]], q>> \in DOMAIN heap'
               /\ heap'[<<R(c)[Top[q]], q>>]
                     \in [contents : Values, refs : {[i \in Kids(q) |-> R(c)[Top[q]]]}]
    <3>1. CASE q = p
      BY <1>6, <2>2, <2>4, <3>1
    <3>2. CASE q # p
      BY <1>6, <2>1, <3>2 DEF Sound
    <3> QED  BY <3>1, <3>2
  <2> QED  BY <2>1, <2>5 DEF Sound
<1>10. \A u \in Owners \ {c} : Value(heap', R(u)) = Value(heap, R(u))
  <2>1. \A u \in Owners : R(u) = Nothing => Value(heap', R(u)) = Nothing /\ Value(heap, R(u)) = Nothing
    BY DEF Value
  <2> QED  BY <1>8, <2>1
<1>11. Layout(heap', stored, held)
  <2>1. \A u \in Owners : R(u) # Nothing => Sound(heap', R(u))
    BY <1>8, <1>9
  <2> QED  BY <2>1 DEF Layout, MemInv
<1> QED  BY <1>1, <1>10, <1>11 DEF Changes, Val

-----------------------------------------------------------------------------
(* The invariant, and what it says of the cells.                           *)

LEMMA MemInit == Init => MemInv
<1> SUFFICES ASSUME Init PROVE MemInv
  OBVIOUS
<1>1. kind \in DOMAIN Fields /\ Maps(stored, held)
  BY MemoryStoreAssumption DEF Init, Maps
<1>2. \A u \in Owners : Rec(stored, held, u) = Nothing
  BY DEF Init, Rec, Owners
<1> QED  BY <1>1, <1>2 DEF MemInv, Layout

\* What a step does to the records as values, in the words of ValueStore.
Stays(c) == Changes(c) /\ stored' = stored
Step ==
    \/ \E c \in Clients, k \in Keys :
          /\ Changes(k) /\ held' = held
          /\ held[c] # Nothing /\ Value(heap', stored'[k]) = Value(heap, held[c])
    \/ \E c \in Clients, k \in Keys :
          Stays(c) /\ stored[k] # Nothing /\ Value(heap', held'[c]) = Value(heap, stored[k])
    \/ \E k \in Keys : Changes(k) /\ held' = held /\ Value(heap', stored'[k]) = Nothing
    \/ \E c \in Clients : Stays(c)

LEMMA MethodsStep ==
    ASSUME MemInv, NEW c \in Clients, NEW k \in Keys, Methods(c, k)
    PROVE  Step
<1>1. CASE Create(c, k) \/ Update(c, k)
  <2>1. held[c] # Nothing /\ Keep(c, k) /\ kind' = kind
    BY <1>1 DEF Create, Update
  <2>2. held' = held
    BY <2>1 DEF Keep, Settle
  <2> QED  BY <2>1, <2>2, KeepChanges DEF Step
<1>2. CASE Get(c, k)
  <2>1. stored[k] # Nothing
    BY <1>2 DEF Get
  <2> QED  BY <1>2, <2>1, GetChanges DEF Step, Stays
<1>3. CASE Delete(k)
  BY <1>3, DeleteChanges DEF Step
<1> QED  BY <1>1, <1>2, <1>3 DEF Methods

LEMMA NextStep ==
    ASSUME MemInv, Next
    PROVE  Step
<1>1. ASSUME NEW c \in Clients, NEW k \in Keys,
             \/ accountStore(c, k) \/ contactStore(c, k) \/ opportunityStore(c, k)
             \/ productStore(c, k) \/ ruleStore(c, k)
      PROVE  Step
  BY <1>1, MethodsStep DEF accountStore, contactStore, opportunityStore, productStore, ruleStore
<1>2. ASSUME NEW c \in Clients, NEW some \in SUBSET Fields[kind], Decode(c, some)
      PROVE  Step
  BY <1>2, DecodeChanges DEF Step, Stays
<1>3. ASSUME NEW c \in Clients, KeepCustomFields(c) \/ Drop(c)
      PROVE  Step
  BY <1>3, KeepCustomFieldsChanges, DropChanges DEF Step, Stays
<1>4. ASSUME NEW c \in Clients, NEW p \in Tree[kind], NEW v \in Values, Edit(c, p, v)
      PROVE  Step
  BY <1>4, EditChanges DEF Step, Stays
<1> QED  BY <1>1, <1>2, <1>3, <1>4 DEF Next

\* The kind of record never changes, so that a formula means in the next state
\* what it says of the next state's heap and maps.
LEMMA LayoutNext ==
    ASSUME kind' = kind
    PROVE  Layout(heap, stored, held)' = Layout(heap', stored', held')
BY DEF Layout, Maps, Sound, Has, Rec, Apart

LEMMA MemStep == MemInv /\ [Next]_vars => MemInv'
<1> SUFFICES ASSUME MemInv, [Next]_vars PROVE MemInv'
  OBVIOUS
<1>1. CASE Next
  <2>1. kind' = kind /\ Layout(heap', stored', held')
    BY <1>1, NextStep DEF Step, Stays, Changes
  <2> QED  BY <2>1, LayoutNext DEF MemInv
<1>2. CASE UNCHANGED vars
  <2>1. kind' = kind /\ heap' = heap /\ stored' = stored /\ held' = held
    BY <1>2 DEF vars
  <2>2. Layout(heap', stored', held')
    BY <2>1 DEF MemInv
  <2> QED  BY <2>1, <2>2, LayoutNext DEF MemInv
<1> QED  BY <1>1, <1>2

\* Every record lives in one region, which no other record uses.
THEOREM RecordsApart == Spec => []MemInv
BY MemInit, MemStep, PTL DEF Spec

LEMMA ApartCells ==
    ASSUME MemInv, NEW u \in Owners, NEW v \in Owners, u # v
    PROVE  Cells(heap, Rec(stored, held, u)) \cap Cells(heap, Rec(stored, held, v)) = {}
<1> DEFINE r == Rec(stored, held, u)
           q == Rec(stored, held, v)
<1>1. CASE r = Nothing \/ q = Nothing
  BY <1>1 DEF Cells
<1>2. CASE r # Nothing /\ q # Nothing
  <2>1. Sound(heap, r) /\ Sound(heap, q) /\ Apart(r, q) /\ kind \in DOMAIN Fields
    BY <1>2 DEF MemInv, Layout
  <2> HIDE DEF r, q
  <2>2. /\ Cells(heap, r) = {<<r[Top[p]], p>> : p \in Has(r)}
        /\ Cells(heap, q) = {<<q[Top[p]], p>> : p \in Has(q)}
    BY <2>1, CellsOf
  <2>3. ASSUME NEW m \in Has(r), NEW n \in Has(q)
        PROVE  r[Top[m]] # q[Top[n]]
    <3>1. \A p \in Tree[kind] : Top[p] \in Fields[kind]
      BY <2>1, TreeShape
    <3> QED  BY <2>1, <3>1 DEF Has, Apart
  <2>4. Cells(heap, r) \cap Cells(heap, q) = {}
    BY <2>2, <2>3
  <2> QED  BY <2>4 DEF r, q
<1> QED  BY <1>1, <1>2

\* No cell of a stored record belongs to another record, stored or in a
\* caller's hands, and no two callers share one.
THEOREM NoCellShared == Spec => []NothingShared
<1>1. MemInv => NothingShared
  <2> SUFFICES ASSUME MemInv PROVE NothingShared
    OBVIOUS
  <2>1. ASSUME NEW k \in Keys, NEW l \in Keys, k # l
        PROVE  Cells(heap, stored[k]) \cap Cells(heap, stored[l]) = {}
    BY <2>1, RecIs, ApartCells
  <2>2. ASSUME NEW k \in Keys, NEW c \in Clients
        PROVE  Cells(heap, stored[k]) \cap Cells(heap, held[c]) = {}
    <3>1. k # c
      BY MemoryStoreAssumption
    <3> QED  BY <3>1, RecIs, ApartCells
  <2>3. ASSUME NEW c \in Clients, NEW d \in Clients, c # d
        PROVE  Cells(heap, held[c]) \cap Cells(heap, held[d]) = {}
    BY <2>3, RecIs, ApartCells
  <2> QED  BY <2>1, <2>2, <2>3 DEF NothingShared
<1> QED  BY <1>1, RecordsApart, PTL

-----------------------------------------------------------------------------
(* The memory store is a store of values.                                  *)

LEMMA ValueNext ==
    ASSUME kind' = kind
    PROVE  /\ ValuesStored' = [k \in Keys |-> Value(heap', stored'[k])]
           /\ ValuesHeld' = [c \in Clients |-> Value(heap', held'[c])]
BY DEF ValuesStored, ValuesHeld, Value, RegionIn

\* Which values a step that changes one owner's record leaves.
LEMMA ValuesStay ==
    ASSUME NEW u \in Owners, Changes(u)
    PROVE  /\ \A k \in Keys : k # u => ValuesStored'[k] = ValuesStored[k]
           /\ \A c \in Clients : c # u => ValuesHeld'[c] = ValuesHeld[c]
<1>1. \A v \in Owners \ {u} : Value(heap', Rec(stored', held', v)) = Value(heap, Rec(stored, held, v))
  BY DEF Changes, Val
<1>2. kind' = kind
  BY DEF Changes
<1>3. ASSUME NEW k \in Keys, k # u PROVE ValuesStored'[k] = ValuesStored[k]
  <2>1. Value(heap', stored'[k]) = Value(heap, stored[k])
    BY <1>1, <1>3, RecIs
  <2> QED  BY <1>2, <2>1, ValueNext DEF ValuesStored
<1>4. ASSUME NEW c \in Clients, c # u PROVE ValuesHeld'[c] = ValuesHeld[c]
  <2>1. Value(heap', held'[c]) = Value(heap, held[c])
    BY <1>1, <1>4, RecIs
  <2> QED  BY <1>2, <2>1, ValueNext DEF ValuesHeld
<1> QED  BY <1>3, <1>4

LEMMA KeyChanges ==
    ASSUME NEW k \in Keys, Changes(k), NEW v, Value(heap', stored'[k]) = v
    PROVE  ValuesStored' = [ValuesStored EXCEPT ![k] = v] /\ ValuesHeld' = ValuesHeld
<1>1. k \in Owners /\ \A c \in Clients : c # k
  BY RecIs, MemoryStoreAssumption
<1>2. /\ \A l \in Keys : l # k => ValuesStored'[l] = ValuesStored[l]
      /\ \A c \in Clients : ValuesHeld'[c] = ValuesHeld[c]
  BY <1>1, ValuesStay
<1>3. /\ ValuesStored' = [l \in Keys |-> Value(heap', stored'[l])]
      /\ ValuesHeld' = [c \in Clients |-> Value(heap', held'[c])]
  BY ValueNext DEF Changes
<1>4. ValuesStored'[k] = v
  BY <1>3
<1>5. /\ ValuesStored' = [l \in Keys |-> ValuesStored'[l]]
      /\ ValuesHeld' = [c \in Clients |-> ValuesHeld'[c]]
  BY <1>3
<1> QED  BY <1>2, <1>4, <1>5 DEF ValuesStored, ValuesHeld

LEMMA ClientChanges ==
    ASSUME NEW c \in Clients, Stays(c)
    PROVE  /\ ValuesStored' = ValuesStored
           /\ ValuesHeld' = [ValuesHeld EXCEPT ![c] = Value(heap', held'[c])]
<1>1. c \in Owners /\ \A k \in Keys : c # k
  BY RecIs, MemoryStoreAssumption
<1>2. /\ \A k \in Keys : ValuesStored'[k] = ValuesStored[k]
      /\ \A d \in Clients : d # c => ValuesHeld'[d] = ValuesHeld[d]
  BY <1>1, ValuesStay DEF Stays
<1>3. /\ ValuesStored' = [k \in Keys |-> Value(heap', stored'[k])]
      /\ ValuesHeld' = [d \in Clients |-> Value(heap', held'[d])]
  BY ValueNext DEF Changes, Stays
<1>4. ValuesHeld'[c] = Value(heap', held'[c])
  BY <1>3
<1>5. /\ ValuesStored' = [k \in Keys |-> ValuesStored'[k]]
      /\ ValuesHeld' = [d \in Clients |-> ValuesHeld'[d]]
  BY <1>3
<1> QED  BY <1>2, <1>4, <1>5 DEF ValuesStored, ValuesHeld

LEMMA RecordValue ==
    ASSUME MemInv
    PROVE  /\ \A k \in Keys : stored[k] # Nothing => ValuesStored[k] # Nothing
           /\ \A c \in Clients : held[c] # Nothing => ValuesHeld[c] # Nothing
<1>1. ASSUME NEW u \in Owners, Rec(stored, held, u) # Nothing
      PROVE  Value(heap, Rec(stored, held, u)) # Nothing
  BY <1>1, CellsOf DEF MemInv, Layout
<1> QED  BY <1>1, RecIs DEF ValuesStored, ValuesHeld

LEMMA PromiseStep ==
    ASSUME MemInv, Step
    PROVE  Promise!Next
<1>1. ASSUME NEW c \in Clients, NEW k \in Keys, Changes(k), held[c] # Nothing,
             Value(heap', stored'[k]) = Value(heap, held[c])
      PROVE  Promise!Write(c, k)
  <2>1. ValuesHeld[c] = Value(heap, held[c])
    BY DEF ValuesHeld
  <2> QED  BY <1>1, <2>1, KeyChanges, RecordValue DEF Promise!Write
<1>2. ASSUME NEW c \in Clients, NEW k \in Keys, Stays(c), stored[k] # Nothing,
             Value(heap', held'[c]) = Value(heap, stored[k])
      PROVE  Promise!Read(c, k)
  <2>1. ValuesStored[k] = Value(heap, stored[k])
    BY DEF ValuesStored
  <2> QED  BY <1>2, <2>1, ClientChanges, RecordValue DEF Promise!Read
<1>3. ASSUME NEW k \in Keys, Changes(k), Value(heap', stored'[k]) = Nothing
      PROVE  Promise!Remove(k)
  BY <1>3, KeyChanges DEF Promise!Remove
<1>4. ASSUME NEW c \in Clients, Stays(c)
      PROVE  Promise!Own(c)
  BY <1>4, ClientChanges DEF Promise!Own, ValuesHeld
<1> QED  BY <1>1, <1>2, <1>3, <1>4 DEF Step, Promise!Next

\* The memory store implements ValueStore: although it is built of references,
\* what is stored changes only by a method and what a caller holds only by the
\* caller's doing.
THEOREM ValuesImplemented == Spec => ImplementsValueStore
<1>1. Init => Promise!Init
  BY DEF Init, Promise!Init, ValuesStored, ValuesHeld, Value
<1>2. MemInv /\ [Next]_vars => [Promise!Next]_<<ValuesStored, ValuesHeld>>
  <2> SUFFICES ASSUME MemInv, [Next]_vars
               PROVE  [Promise!Next]_<<ValuesStored, ValuesHeld>>
    OBVIOUS
  <2>1. CASE Next
    BY <2>1, NextStep, PromiseStep
  <2>2. CASE UNCHANGED vars
    <3>1. kind' = kind /\ heap' = heap /\ stored' = stored /\ held' = held
      BY <2>2 DEF vars
    <3> QED  BY <3>1, ValueNext DEF ValuesStored, ValuesHeld
  <2> QED  BY <2>1, <2>2
<1> QED  BY <1>1, <1>2, RecordsApart, PTL DEF Spec, ImplementsValueStore, Promise!Spec, Promise!vars
=============================================================================
