---------------------------- MODULE MemoryStore -----------------------------
(***************************************************************************)
(* internal/storage/memory/store.go, seen through its heap.  A record has  *)
(* fields that are maps, slices and pointers; copying the record copies    *)
(* the references, so that the stores clone it at both boundaries.         *)
(*                                                                         *)
(* A cell of the heap is a map, a slice or what a pointer points to.  The  *)
(* cells of a record form a tree, fixed for each kind of record (Parent);  *)
(* the values in custom fields, conditions and params are those of decoded *)
(* JSON, nested two deep.  An address is <<region, place>>: every record   *)
(* that is decoded or cloned gets a region of its own, where a cell sits   *)
(* at the address of its place in the tree, and a clone that copies less   *)
(* than the whole tree is left with references into the other's region.    *)
(* A record is a function from its reference fields to regions, Nil for nil. *)
(*                                                                         *)
(* The callers are the handlers, and any Go code that uses the interfaces  *)
(* of storage.go; each method is one step, under the mutex of data.        *)
(***************************************************************************)
EXTENDS Integers, FiniteSets

CONSTANTS
    Kind,       \* the kinds of record a run stores
    Keys,       \* keys of the maps
    Clients,    \* callers of the stores
    Values,     \* contents of a cell, besides its references
    MaxEdits,   \* bound on the changes callers make to their records
    Spare,      \* names for regions, besides the keys and callers
    Nil,        \* no region: a nil map, slice or pointer
    Nothing     \* no record

VARIABLES
    kind,       \* the kind of record this behaviour is about
    heap,       \* the reachable cells: [address -> cell]
    stored,     \* the store's map of that kind: [Keys -> record or Nothing]
    held,       \* [Clients -> the record the caller holds, or Nothing]
    edits       \* how many changes the callers have made

vars == <<kind, heap, stored, held, edits>>

-----------------------------------------------------------------------------
(* Records.                                                                *)

\* The field or cell that refers to a cell; "" for a field of the record.
Parent == [custom_fields    |-> "",
           nested           |-> "custom_fields",    \* map[string]any in it
           items            |-> "nested",           \* []any in that
           annual_revenue   |-> "",
           close_date       |-> "",
           expected_revenue |-> "",
           conditions       |-> "",
           value            |-> "conditions",       \* Value, if map or slice
           members          |-> "value",
           actions          |-> "",
           params           |-> "actions",
           param            |-> "params"]
Places  == DOMAIN Parent
Kids(p) == {q \in Places : Parent[q] = p}

\* The cells at and below a place.
Below[p \in Places] == {p} \cup UNION {Below[q] : q \in Kids(p)}

Fields == [accounts      |-> {"custom_fields", "annual_revenue"},
           contacts      |-> {"custom_fields"},
           opportunities |-> {"custom_fields", "close_date", "expected_revenue"},
           products      |-> {"custom_fields"},
           rules         |-> {"conditions", "actions"}]

Tree == [k \in DOMAIN Fields |-> UNION {Below[f] : f \in Fields[k]}]

Regions == Keys \cup Clients \cup Spare

\* Keys and callers name the regions of their records, so that they must be
\* told apart; a region to allocate in can always be found, as memory does not
\* run out; Nothing is neither a record nor what one contains.
ASSUME MemoryStoreAssumption ==
    /\ Kind \subseteq DOMAIN Fields
    /\ MaxEdits \in Nat
    /\ IsFiniteSet(Regions) /\ Keys \cap Clients = {} /\ Nil \notin Regions
    /\ Cardinality(Spare) > Cardinality(Keys \cup Clients)
    /\ Values # {}
    /\ \A S \in SUBSET Places :
          Nothing \notin [S -> Regions \cup {Nil}] \cup [S -> Values]

\* Where the cell at each place of a record is; Nil if there is none.
RegionIn(h, r) ==
    LET at[p \in Tree[kind]] ==
            IF Parent[p] = "" THEN IF p \in DOMAIN r THEN r[p] ELSE Nil
            ELSE LET up == at[Parent[p]]
                 IN  IF up = Nil THEN Nil ELSE h[<<up, Parent[p]>>].refs[p]
    IN  at

Cells(h, r) ==
    IF r = Nothing THEN {}
    ELSE LET at == RegionIn(h, r) IN {<<at[p], p>> : p \in {q \in DOMAIN at : at[q] # Nil}}

\* The record as a value: what each of its cells contains.
Value(h, r) ==
    IF r = Nothing THEN Nothing
    ELSE LET at == RegionIn(h, r)
         IN  [p \in {q \in DOMAIN at : at[q] # Nil} |-> h[<<at[p], p>>].contents]

Roots(s, o) == {s[k] : k \in Keys} \cup {o[c] : c \in Clients}

\* The heap with more cells in it.
With(new, h) ==
    [a \in DOMAIN new \cup DOMAIN h |-> IF a \in DOMAIN new THEN new[a] ELSE h[a]]

\* The garbage collector.
Reachable(h, s, o) ==
    [a \in UNION {Cells(h, r) : r \in Roots(s, o)} |-> h[a]]

\* The region of a new or cloned record: any that nothing lives in when root,
\* a key or a caller, has lost its record.  It is named after the root, or if
\* others still refer to cells there, by a spare name.
InUse(root) ==
    {a[1] : a \in UNION ({Cells(heap, stored[k]) : k \in Keys \ {root}}
                           \cup {Cells(heap, held[c]) : c \in Clients \ {root}})}
Fresh(root) ==
    LET used == InUse(root)
    IN  IF root \notin used THEN root ELSE CHOOSE r \in Spare : r \notin used

-----------------------------------------------------------------------------
(* Cloning.  A clone function is the set of places whose cells it copies.  *)

\* Faults the properties must notice: a map or slice inside of another one is
\* not copied; the second pointer of an opportunity is forgotten.
ShallowMap(p) == {p}
ForgetsPointer == Below["custom_fields"] \cup {"close_date"}

cloneAny(p) == Below[p]
cloneMap(p) == {p} \cup UNION {cloneAny(q) : q \in Kids(p)}

cloneConditions == {"conditions"} \cup cloneAny("value")
cloneActions    == {"actions"} \cup cloneMap("params")

cloneAccount     == cloneMap("custom_fields") \cup {"annual_revenue"}
cloneContact     == cloneMap("custom_fields")
cloneOpportunity == cloneMap("custom_fields") \cup {"close_date", "expected_revenue"}
cloneProduct     == cloneMap("custom_fields")
cloneRule        == cloneConditions \cup cloneActions

Copied == CASE kind = "accounts"      -> cloneAccount
            [] kind = "contacts"      -> cloneContact
            [] kind = "opportunities" -> cloneOpportunity
            [] kind = "products"      -> cloneProduct
            [] kind = "rules"         -> cloneRule

\* The record a clone gives, and the cells it adds in a fresh region.  A
\* reference to a cell that is copied leads to the copy, nil stays nil, and
\* any other reference stays what it was.
Redirect(p, region, new) == IF region # Nil /\ p \in Copied THEN new ELSE region

CloneOf(r, new) == [f \in DOMAIN r |-> Redirect(f, r[f], new)]
CloneCells(r, new) ==
    LET at == RegionIn(heap, r)
        copy(p) == [heap[<<at[p], p>>] EXCEPT !.refs = [q \in DOMAIN @ |-> Redirect(q, @[q], new)]]
    IN  [a \in {<<new, p>> : p \in {q \in Copied : at[q] # Nil}} |-> copy(a[2])]

-----------------------------------------------------------------------------
(* The methods, the same for each kind but for the clone function.         *)

Settle(h, s, o) ==
    /\ heap' = Reachable(h, s, o)
    /\ stored' = s
    /\ held' = o

Keep(c, k) ==
    LET new == Fresh(k)
    IN  Settle(With(CloneCells(held[c], new), heap),
               [stored EXCEPT ![k] = CloneOf(held[c], new)], held)

\* Create, which refuses a key that is taken, and Update, one that is not.
Create(c, k) == held[c] # Nothing /\ stored[k] = Nothing /\ Keep(c, k) /\ UNCHANGED <<kind, edits>>
Update(c, k) == held[c] # Nothing /\ stored[k] # Nothing /\ Keep(c, k) /\ UNCHANGED <<kind, edits>>

\* Get, and one of the records of List and ListActive.
Get(c, k) ==
    /\ stored[k] # Nothing /\ held[c] = Nothing
    /\ LET new == Fresh(c)
       IN  Settle(With(CloneCells(stored[k], new), heap), stored,
                  [held EXCEPT ![c] = CloneOf(stored[k], new)])
    /\ UNCHANGED <<kind, edits>>

Delete(k) ==
    /\ stored[k] # Nothing
    /\ Settle(heap, [stored EXCEPT ![k] = Nothing], held)
    /\ UNCHANGED <<kind, edits>>

Methods(c, k) == Create(c, k) \/ Get(c, k) \/ Update(c, k) \/ Delete(k)

accountStore(c, k)     == kind = "accounts" /\ Methods(c, k)
contactStore(c, k)     == kind = "contacts" /\ Methods(c, k)
opportunityStore(c, k) == kind = "opportunities" /\ Methods(c, k)
productStore(c, k)     == kind = "products" /\ Methods(c, k)
ruleStore(c, k)        == kind = "rules" /\ Methods(c, k)

-----------------------------------------------------------------------------
(* The callers.                                                            *)

\* A record decoded from a body, some of its fields left out.
Decode(c, some) ==
    LET new == Fresh(c)
        cell(p) == [contents |-> CHOOSE v \in Values : TRUE, refs |-> [q \in Kids(p) |-> new]]
        cells == [a \in {<<new, p>> : p \in UNION {Below[f] : f \in some}} |-> cell(a[2])]
    IN  /\ held[c] = Nothing
        /\ Settle(With(cells, heap), stored,
                  [held EXCEPT ![c] = [f \in Fields[kind] |-> IF f \in some THEN new ELSE Nil]])
        /\ UNCHANGED <<kind, edits>>

\* A PUT without custom_fields: the draft has those of the record the handler
\* read, the map itself and not a copy.
KeepCustomFields(c) ==
    /\ held[c] # Nothing /\ "custom_fields" \in Fields[kind]
    /\ Settle(heap, stored,
              [held EXCEPT ![c] = [f \in Fields[kind] |-> IF f = "custom_fields" THEN @[f] ELSE Nil]])
    /\ UNCHANGED <<kind, edits>>

\* The caller writes into a map, a slice or through a pointer of its record.
Edit(c, p, v) ==
    /\ edits < MaxEdits /\ held[c] # Nothing
    /\ LET at == RegionIn(heap, held[c])
       IN  /\ at[p] # Nil /\ heap[<<at[p], p>>].contents # v
           /\ heap' = [heap EXCEPT ![<<at[p], p>>].contents = v]
    /\ edits' = edits + 1
    /\ UNCHANGED <<kind, stored, held>>

\* The request is answered, the record is dropped.
Drop(c) ==
    /\ held[c] # Nothing
    /\ Settle(heap, stored, [held EXCEPT ![c] = Nothing])
    /\ UNCHANGED <<kind, edits>>

Init ==
    /\ kind \in Kind
    /\ heap = << >>
    /\ stored = [k \in Keys |-> Nothing]
    /\ held = [c \in Clients |-> Nothing]
    /\ edits = 0

Next ==
    \/ \E c \in Clients, k \in Keys :
          \/ accountStore(c, k) \/ contactStore(c, k) \/ opportunityStore(c, k)
          \/ productStore(c, k) \/ ruleStore(c, k)
    \/ \E c \in Clients : \E some \in SUBSET Fields[kind] : Decode(c, some)
    \/ \E c \in Clients : KeepCustomFields(c) \/ Drop(c)
    \/ \E c \in Clients, p \in Tree[kind], v \in Values : Edit(c, p, v)

Spec == Init /\ [][Next]_vars
=============================================================================
