------------------------------- MODULE Stores -------------------------------
(***************************************************************************)
(* The storage layer of the CRM API: internal/storage/memory/store.go and  *)
(* internal/storage/postgres/store.go with its schema.sql.  Both sit       *)
(* behind the interfaces of internal/storage/storage.go, and every method  *)
(* of both is one atomic step: the memory stores hold one RWMutex for the  *)
(* whole method, the Postgres stores run one SQL statement.                *)
(*                                                                         *)
(* The module has no state.  It defines what each method answers and what  *)
(* it leaves behind, as operators over two values the API module holds:    *)
(*   tenants : the tenant table, one record or None for every tenant id;   *)
(*   rows    : for each kind of entity, a map from keys to records.        *)
(*                                                                         *)
(* A tenant id or entity id is a sequence of tokens, so that the string    *)
(* concatenation which makes a map key is modelled by what it does.        *)
(***************************************************************************)
EXTENDS Naturals, Sequences

CONSTANTS
    Tenants,    \* tenant ids
    Ids,        \* entity ids
    Kinds,      \* the kinds of entity a run uses, among AllKinds
    Values,     \* values of the fields a PUT body may leave out
    Default,    \* the value such a field has when a POST body leaves it out
    MaxTime,    \* bound on the clock
    Backend,    \* "memory" or "postgres": DATABASE_URL picks one at start
    None        \* nothing stored, nothing referred to, field left out

AllKinds == {"accounts", "contacts", "opportunities", "products", "rules"}

ASSUME StoresAssumption ==
    /\ Backend \in {"memory", "postgres"}
    /\ Kinds \subseteq AllKinds
    /\ Default \in Values
    /\ MaxTime \in Nat

Times == 0 .. MaxTime

(***************************************************************************)
(* One record type for the five kinds.  account and contact are the        *)
(* references of a contact or an opportunity.  val stands for the fields   *)
(* that default on POST and may be left out of a PUT: Status, Stage,       *)
(* Probability, Active, CustomFields, and is_active of a rule (whose       *)
(* default, false, is what Default means there).  The remaining fields are *)
(* copied from the body and never read again by the API.                   *)
(***************************************************************************)
Record == [tenant : Tenants, id : Ids,
           account : Ids \cup {None}, contact : Ids \cup {None},
           val : Values, created : Times, updated : Times]

TenantRecord == [tenant : Tenants, created : Times, updated : Times]

ASSUME NoneAssumption == None \notin Record /\ None \notin TenantRecord

-----------------------------------------------------------------------------
(* Keys.                                                                   *)

\* tenant + "\x00" + id in memory, PRIMARY KEY (tenant_id, id) in Postgres:
\* one key for each pair, since no id contains the NUL character.
scopedKey(t, i) == <<t, i>>

\* The rule map alone joins the two with a colon, which ids may contain.
ruleKey(t, i) == t \o <<":">> \o i

Key(kind, t, i) ==
    IF Backend = "memory" /\ kind = "rules" THEN ruleKey(t, i)
                                            ELSE scopedKey(t, i)

Keys == {Key(k, t, i) : k \in Kinds, t \in Tenants, i \in Ids}

EmptyTenants == [t \in Tenants |-> None]
EmptyRows    == [k \in Kinds |-> [key \in Keys |-> None]]

-----------------------------------------------------------------------------
(* Reading.                                                                *)

\* A fault the properties must notice: the tenant of the record found under
\* the key is not compared with the tenant asked for.
LookupByKeyOnly(rows, kind, t, i) == rows[kind][Key(kind, t, i)]

\* Get: the record of that tenant and id, or None for "not found".
Lookup(rows, kind, t, i) ==
    LET r == rows[kind][Key(kind, t, i)]
    IN  IF r # None /\ r.tenant = t THEN r ELSE None

\* List: the records of the kind that belong to the tenant.
List(rows, kind, t) ==
    {r \in {rows[kind][key] : key \in Keys} : r # None /\ r.tenant = t}

\* RuleStore.ListActive: the tenant's rules whose is_active is true.
ListActive(rows, t) == {r \in List(rows, "rules", t) : r.val # Default}

-----------------------------------------------------------------------------
(* Writing.                                                                *)

\* A fault the properties must notice: the foreign key to tenants is gone.
RefusesDuplicates(tenants, rows, kind, t, i) ==
    rows[kind][Key(kind, t, i)] # None

\* Create fails when the key is taken, whoever took it; Postgres also
\* refuses a row whose tenant_id has no row in tenants.
CreateRefused(tenants, rows, kind, t, i) ==
    \/ rows[kind][Key(kind, t, i)] # None
    \/ Backend = "postgres" /\ tenants[t] = None

\* Create and Update of an entity.  Update of a missing one is refused by
\* the caller of Put (Lookup = None), as requireChanged and the map's
\* existence check do.
Put(rows, kind, t, i, r) == [rows EXCEPT ![kind][Key(kind, t, i)] = r]

\* Delete of an entity.
Remove(rows, kind, t, i) == [rows EXCEPT ![kind][Key(kind, t, i)] = None]

\* A fault the properties must notice: the delete of a tenant does not reach
\* its rows.
NoCascade(rows, t) == rows

\* What the delete of a tenant leaves of the entities: Postgres cascades to
\* every table, the memory store deletes the tenant alone.
AfterTenantDelete(rows, t) ==
    IF Backend = "memory" THEN rows
    ELSE [k \in Kinds |-> [key \in Keys |->
             IF rows[k][key] # None /\ rows[k][key].tenant = t
             THEN None ELSE rows[k][key]]]
=============================================================================
