------------------------- MODULE CrmApiSafetyProofs -------------------------
(***************************************************************************)
(* The safety invariants of CrmApiProperties as theorems.  Each has an     *)
(* invariant of its own that adds to it what the handlers hold at their    *)
(* steps; TypeInv of CrmApiProofs is assumed by all of them.               *)
(***************************************************************************)
EXTENDS CrmApiProofs

-----------------------------------------------------------------------------
(* Tenant isolation.                                                       *)

\* The rows are under keys of their own.
RowsKeyed ==
    \A k \in Kinds, key \in Keys :
       rows[k][key] # None =>
          key = Key(k, rows[k][key].tenant, rows[k][key].id)

(***************************************************************************)
(* What c's handler holds is of the tenant in its path.  The strengthening *)
(* is in the first and the last conjunct: a handler starts with nothing,   *)
(* and what it is about to store has the id in its path too.               *)
(***************************************************************************)
HandlerOwn(c) ==
    /\ pc[c] = "idle" =>
          existing[c] = None /\ draft[c] = None /\ resp[c].body = {}
    /\ pc[c] # "idle" /\ req[c].kind # "tenants" =>
          /\ existing[c] # None => existing[c].tenant = req[c].tenant
          /\ draft[c] # None => draft[c].tenant = req[c].tenant
          /\ \A r \in resp[c].body : r.tenant = req[c].tenant
    /\ pc[c] = "store" /\ req[c].kind # "tenants"
         /\ req[c].op \in {"create", "update"} => draft[c].id = req[c].id

IsolationInv == RowsKeyed /\ \A c \in Clients : HandlerOwn(c)

\* A step of c that leaves what the other handlers hold alone.
OnlyOf(c) ==
    \A d \in Clients \ {c} :
        /\ pc'[d] = pc[d] /\ req'[d] = req[d] /\ resp'[d] = resp[d]
        /\ existing'[d] = existing[d] /\ draft'[d] = draft[d]

LEMMA OthersOwn ==
    ASSUME IsolationInv, NEW c \in Clients, OnlyOf(c),
           RowsKeyed', HandlerOwn(c)'
    PROVE  IsolationInv'
<1>1. ASSUME NEW d \in Clients \ {c} PROVE HandlerOwn(d)'
  BY <1>1 DEF IsolationInv, HandlerOwn, OnlyOf
<1> QED
  BY <1>1 DEF IsolationInv

\* The steps of a handler change no other handler.
LEMMA StepsOnlyOf ==
    ASSUME TypeOK, NEW c \in Clients,
           HandlerStep(c) \/ tenantScoped(c) \/ Receive(c) \/ Deliver(c)
              \/ StoreFault(c) \/ AnswerLost(c)
    PROVE  OnlyOf(c)
<1> USE DEF OnlyOf, TypeOK, Goto, Answer, Refuse
<1>1. CASE LoadStep(c)
  BY <1>1 DEF LoadStep, LoadExisting
<1>2. CASE DecodeStep(c)
  BY <1>2 DEF DecodeStep, Decode
<1>3. CASE ReferenceStep(c)
  BY <1>3 DEF ReferenceStep, CheckReference
<1>4. CASE BuildStep(c)
  BY <1>4 DEF BuildStep, Build
<1>5. CASE WriteStep(c)
  BY <1>5 DEF WriteStep, StoreWrite
<1>6. CASE ReadStep(c)
  BY <1>6 DEF ReadStep, StoreRead
<1>7. CASE tenantScoped(c)
  BY <1>7 DEF tenantScoped
<1>8. CASE Receive(c)
  BY <1>8 DEF Receive
<1>9. CASE Deliver(c)
  BY <1>9 DEF Deliver
<1>10. CASE StoreFault(c) \/ AnswerLost(c)
  BY <1>10 DEF StoreFault, AnswerLost
<1> QED
  BY <1>1, <1>2, <1>3, <1>4, <1>5, <1>6, <1>7, <1>8, <1>9, <1>10
     DEF HandlerStep

\* An accepted write leaves every row under a key of its own.
LEMMA EffectKeyed ==
    ASSUME TypeInv, IsolationInv, NEW c \in Clients, pc[c] = "store",
           req[c].op \in Writes, Effect(c)
    PROVE  RowsKeyed'
<1>1. /\ rows \in [Kinds -> [Keys -> Record \cup {None}]] /\ RowsKeyed
      /\ HandlerOwn(c) /\ HandlerFits(c)
  BY DEF TypeInv, TypeOK, HandlerOK, IsolationInv
<1>2. CASE req[c].kind = "tenants"
  BY <1>1, <1>2 DEF Effect, AfterTenantDelete, RowsKeyed
<1>3. CASE req[c].kind # "tenants" /\ req[c].op = "delete"
  BY <1>1, <1>3 DEF Effect, Remove, RowsKeyed
<1>4. CASE req[c].kind # "tenants" /\ req[c].op # "delete"
  <2>1. /\ draft[c] # None
        /\ draft[c].tenant = req[c].tenant /\ draft[c].id = req[c].id
    BY <1>1, <1>4, NoneAssumption DEF HandlerFits, HandlerOwn, RecordOf, Writes
  <2>2. rows' = Put(rows, req[c].kind, req[c].tenant, req[c].id, draft[c])
    BY <1>4 DEF Effect
  <2> QED
    BY <1>1, <2>1, <2>2 DEF Put, RowsKeyed
<1> QED
  BY <1>2, <1>3, <1>4

LEMMA IsolationHandler ==
    ASSUME TypeInv, IsolationInv, NEW c \in Clients, HandlerStep(c)
    PROVE  IsolationInv'
<1>t. /\ TypeOK /\ HandlerFits(c) /\ RowsKeyed /\ HandlerOwn(c) /\ OnlyOf(c)
  BY StepsOnlyOf DEF TypeInv, HandlerOK, IsolationInv
<1> SUFFICES RowsKeyed' /\ HandlerOwn(c)'
  BY <1>t, OthersOwn
<1>1. CASE LoadStep(c)
  <2>1. PICK next \in {"decode", "store"} :
            /\ LoadExisting(c, next)
            /\ req[c].op = IF next = "decode" THEN "update" ELSE "delete"
    BY <1>1 DEF LoadStep
  <2>2. pc[c] = "load" /\ UNCHANGED <<rows, req, draft>>
    BY <2>1 DEF LoadExisting
  <2>3. req[c].kind # "tenants" /\ Stored(Name(c)) # None
           => Stored(Name(c)).tenant = req[c].tenant
    BY <2>1, <2>2, <1>t, RequestType, LookupType DEF TypeOK, Stored, Name
  <2>4. /\ pc'[c] = "done" \/ (pc'[c] = next /\ req[c].op # "create")
        /\ existing'[c] = existing[c]
              \/ req[c].kind = "tenants" \/ existing'[c] = Stored(Name(c))
        /\ resp'[c].body \in {{}, resp[c].body}
    BY <2>1, <1>t DEF LoadExisting, TypeOK, Goto, Answer, Refuse
  <2> QED
    BY <2>1, <2>2, <2>3, <2>4, <1>t DEF HandlerOwn, RowsKeyed
<1>2. CASE DecodeStep(c) \/ ReferenceStep(c)
  <2>1. /\ pc[c] \notin {"idle", "store"}
        /\ UNCHANGED <<rows, req, existing, draft>>
        /\ pc'[c] \notin {"idle", "store"} \/ req[c].op = "evaluate"
        /\ pc'[c] # "idle"
        /\ resp'[c].body \in {{}, resp[c].body}
    BY <1>2, <1>t DEF DecodeStep, ReferenceStep, Decode, CheckReference, TypeOK,
                      Goto, Answer, Refuse
  <2> QED
    BY <2>1, <1>t DEF HandlerOwn, RowsKeyed
<1>3. CASE ReadStep(c)
  <2>1. /\ pc[c] = "store" /\ pc'[c] = "done"
        /\ UNCHANGED <<rows, req, existing, draft>>
        /\ req[c].kind # "tenants" => \A r \in resp'[c].body : r.tenant = req[c].tenant
    BY <1>3, <1>t DEF ReadStep, StoreRead, TypeOK, Answer, Refuse
  <2> QED
    BY <2>1, <1>t DEF HandlerOwn, RowsKeyed
<1>4. CASE BuildStep(c)
  <2>1. PICK r : /\ Build(c, r)
                 /\ req[c].kind # "tenants" =>
                       r.tenant = req[c].tenant /\ r.id = req[c].id
    <3> DEFINE Renewed == [NewEntity(c) EXCEPT !.created = existing[c].created]
    <3>1. \A r \in {NewEntity(c), Merged(c), Renewed} :
              r.tenant = req[c].tenant /\ r.id = req[c].id
      <4>1. NewEntity(c).tenant = req[c].tenant /\ NewEntity(c).id = req[c].id
        BY DEF NewEntity
      <4>2. Merged(c).tenant = req[c].tenant /\ Merged(c).id = req[c].id
        BY DEF NewEntity, Merged
      <4>3. Renewed.tenant = req[c].tenant /\ Renewed.id = req[c].id
        BY DEF NewEntity
      <4> QED
        BY <4>1, <4>2, <4>3
    <3>2. CASE req[c].kind = "tenants"
      BY <3>2, <1>4 DEF BuildStep
    <3>3. CASE req[c].kind # "tenants"
      <4>1. Build(c, NewEntity(c)) \/ Build(c, Merged(c)) \/ Build(c, Renewed)
        BY <3>3, <1>4 DEF BuildStep
      <4> HIDE DEF Renewed
      <4> QED
        BY <3>1, <4>1
    <3> QED
      BY <3>2, <3>3
  <2>2. /\ pc[c] = "build" /\ pc'[c] = "store" /\ draft'[c] = r
        /\ UNCHANGED <<rows, req, existing>> /\ resp' = resp
    BY <2>1, <1>t DEF Build, Goto, TypeOK
  <2> QED
    BY <2>1, <2>2, <1>t DEF HandlerOwn, RowsKeyed
<1>5. CASE WriteStep(c)
  <2>1. PICK code \in {200, 201, 204}, body \in {{}, {draft[c]}} :
            /\ StoreWrite(c, code, body)
            /\ req[c].op \in Writes
            /\ req[c].op = "delete" => body = {}
    BY <1>5 DEF WriteStep, Writes
  <2>2. /\ pc[c] = "store" /\ UNCHANGED <<req, existing, draft>>
        /\ Effect(c) \/ rows' = rows
    BY <2>1 DEF StoreWrite
  <2>3. pc'[c] = "done" /\ resp'[c].body \in {{}, body}
    BY <2>1, <1>t DEF StoreWrite, TypeOK, Answer, Refuse
  <2>4. req[c].op # "delete" => draft[c] # None
    BY <2>1, <2>2, <1>t, NoneAssumption DEF HandlerFits, RecordOf, Writes
  <2>5. RowsKeyed'
    BY <2>1, <2>2, <1>t, EffectKeyed DEF RowsKeyed
  <2>6. HandlerOwn(c)'
    BY <2>1, <2>2, <2>3, <2>4, <1>t DEF HandlerOwn
  <2> QED
    BY <2>5, <2>6
<1> QED
  BY <1>1, <1>2, <1>3, <1>4, <1>5 DEF HandlerStep

LEMMA IsolationElse ==
    ASSUME TypeInv, IsolationInv, NEW c \in Clients,
           tenantScoped(c) \/ Receive(c) \/ Deliver(c)
              \/ StoreFault(c) \/ AnswerLost(c)
    PROVE  IsolationInv'
<1>t. TypeOK /\ RowsKeyed /\ HandlerOwn(c) /\ OnlyOf(c)
  BY StepsOnlyOf DEF TypeInv, IsolationInv
<1>e. \A r : Entry(r) # "idle"
             /\ (Entry(r) = "store" => r.op \notin {"create", "update"})
  BY DEF Entry
<1> SUFFICES RowsKeyed' /\ HandlerOwn(c)'
  BY <1>t, OthersOwn
<1>1. CASE tenantScoped(c)
  <2>1. /\ pc[c] = "scope" /\ UNCHANGED <<rows, req, existing, draft>>
        /\ pc'[c] = "done" \/ pc'[c] = Entry(req[c])
        /\ resp'[c].body \in {{}, resp[c].body}
    BY <1>1, <1>t DEF tenantScoped, TypeOK, Goto, Answer, Refuse
  <2> QED
    BY <2>1, <1>t, <1>e DEF HandlerOwn, RowsKeyed
<1>2. CASE Receive(c)
  <2>1. PICK r \in Requests :
            /\ req'[c] = r
            /\ pc'[c] = "scope" \/ pc'[c] = Entry(r)
            /\ pc[c] = "idle" /\ UNCHANGED <<rows, existing, draft, resp>>
    BY <1>2, <1>t DEF Receive, TypeOK
  <2> QED
    BY <2>1, <1>t, <1>e DEF HandlerOwn, RowsKeyed
<1>3. CASE Deliver(c)
  BY <1>3, <1>t DEF Deliver, HandlerOwn, RowsKeyed, TypeOK, NoAnswer
<1>4. CASE StoreFault(c) \/ AnswerLost(c)
  <2>1. /\ pc[c] # "idle" /\ pc'[c] = "done" /\ resp'[c].body = {}
        /\ UNCHANGED <<req, existing, draft>>
    BY <1>4, <1>t DEF StoreFault, AnswerLost, Refuse, Answer, TypeOK
  <2>2. RowsKeyed'
    <3>1. CASE StoreFault(c)
      BY <3>1, <1>t DEF StoreFault, RowsKeyed
    <3>2. CASE AnswerLost(c)
      BY <3>2, EffectKeyed DEF AnswerLost, Writes
    <3> QED
      BY <1>4, <3>1, <3>2
  <2> QED
    BY <2>1, <2>2, <1>t DEF HandlerOwn
<1> QED
  BY <1>1, <1>2, <1>3, <1>4

LEMMA IsolationStep ==
    TypeInv /\ IsolationInv /\ [Next]_vars => IsolationInv'
<1> SUFFICES ASSUME TypeInv, IsolationInv, [Next]_vars PROVE IsolationInv'
  OBVIOUS
<1>1. ASSUME NEW c \in Clients, Handlers(c) PROVE IsolationInv'
  BY <1>1, ServeCases, IsolationHandler
<1>2. ASSUME NEW c \in Clients,
             tenantScoped(c) \/ Receive(c) \/ Deliver(c)
                \/ StoreFault(c) \/ AnswerLost(c)
      PROVE  IsolationInv'
  BY <1>2, IsolationElse
<1>3. CASE Tick \/ UNCHANGED vars
  BY <1>3 DEF Tick, vars, IsolationInv, RowsKeyed, HandlerOwn
<1>4. CASE Restart
  BY <1>4 DEF Restart, IsolationInv, RowsKeyed, HandlerOwn, EmptyRows, NoAnswer
<1> QED
  BY <1>1, <1>2, <1>3, <1>4 DEF Next, Serve

LEMMA IsolationInit == Init => IsolationInv
BY DEF Init, IsolationInv, RowsKeyed, HandlerOwn, EmptyRows, NoAnswer

\* README.md:11: whatever the interleaving, every row sits under a key of its
\* own tenant, and a handler reads, builds and answers records of the tenant
\* in its path alone.
THEOREM TenantIsolated == Spec => []TenantIsolation
<1>1. Spec => []IsolationInv
  BY HandlersTyped, IsolationInit, IsolationStep, PTL DEF Spec
<1>2. IsolationInv => TenantIsolation
  BY DEF IsolationInv, RowsKeyed, HandlerOwn, TenantIsolation
<1> QED
  BY <1>1, <1>2, PTL

-----------------------------------------------------------------------------
(* No orphans, over Postgres.                                              *)

\* Neither a step that leaves the tables alone nor an accepted write leaves
\* an entity without its tenant.  The tenant was checked in an earlier step:
\* it is the foreign key that refuses the row, and the cascade that removes
\* the rows written before.
LEMMA EffectHomed ==
    ASSUME Backend = "postgres", TypeInv, IsolationInv, NoOrphans,
           NEW c \in Clients, pc[c] = "store", req[c].op \in Writes,
           Effect(c), ~Refused(c)
    PROVE  NoOrphans'
<1>1. /\ tenants \in [Tenants -> TenantRecord \cup {None}]
      /\ rows \in [Kinds -> [Keys -> Record \cup {None}]]
      /\ HandlerOwn(c) /\ HandlerFits(c)
      /\ req[c].tenant \in Tenants
      /\ req[c].kind # "tenants" => req[c].kind \in Kinds /\ req[c].id \in Ids
  BY RequestType DEF TypeInv, TypeOK, HandlerOK, IsolationInv, Writes
<1>2. req[c].op # "delete" => draft[c] # None
  BY <1>1, NoneAssumption DEF HandlerFits, RecordOf, Writes
<1>3. CASE req[c].kind = "tenants" /\ req[c].op # "delete"
  BY <1>1, <1>2, <1>3 DEF Effect, NoOrphans, Record
<1>4. CASE req[c].kind = "tenants" /\ req[c].op = "delete"
  <2>1. /\ tenants' = [tenants EXCEPT ![req[c].tenant] = None]
        /\ rows' = AfterTenantDelete(rows, req[c].tenant)
    BY <1>4 DEF Effect
  <2>2. ASSUME NEW k \in Kinds, NEW key \in Keys, rows'[k][key] # None
        PROVE  /\ rows[k][key] # None /\ rows[k][key].tenant # req[c].tenant
               /\ rows'[k][key] = rows[k][key]
    BY <2>1, <2>2 DEF AfterTenantDelete
  <2>3. ASSUME NEW k \in Kinds, NEW key \in Keys, rows[k][key] # None
        PROVE  rows[k][key].tenant \in Tenants /\ tenants[rows[k][key].tenant] # None
    BY <1>1, <2>3 DEF NoOrphans, Record
  <2> QED
    BY <1>1, <2>1, <2>2, <2>3 DEF NoOrphans
<1>5. CASE req[c].kind # "tenants" /\ req[c].op = "delete"
  BY <1>1, <1>5 DEF Effect, Remove, NoOrphans
<1>6. CASE req[c].kind # "tenants" /\ req[c].op # "delete"
  <2>1. tenants[req[c].tenant] # None
    <3>1. CASE req[c].op = "create"
      BY <1>6, <3>1 DEF Refused, CreateRefused
    <3>2. CASE req[c].op = "update"
      <4>1. Stored(Name(c)) # None
        BY <1>6, <3>2 DEF Refused
      <4>2. LET r == rows[req[c].kind][Key(req[c].kind, req[c].tenant, req[c].id)]
            IN  r # None /\ r.tenant = req[c].tenant
        BY <4>1 DEF Stored, Name, Lookup
      <4> QED
        BY <4>2, <1>1, <1>6, KeyType DEF NoOrphans
    <3> QED
      BY <1>6, <3>1, <3>2 DEF Writes
  <2>2. draft[c].tenant = req[c].tenant
    BY <1>1, <1>2, <1>6 DEF HandlerOwn
  <2>3. /\ rows' = Put(rows, req[c].kind, req[c].tenant, req[c].id, draft[c])
        /\ tenants' = tenants
    BY <1>6 DEF Effect
  <2> QED
    BY <1>1, <2>1, <2>2, <2>3 DEF Put, NoOrphans
<1> QED
  BY <1>3, <1>4, <1>5, <1>6

LEMMA OrphansStep ==
    ASSUME Backend = "postgres"
    PROVE  TypeInv /\ IsolationInv /\ NoOrphans /\ [Next]_vars => NoOrphans'
<1> SUFFICES ASSUME TypeInv, IsolationInv, NoOrphans, [Next]_vars
             PROVE  NoOrphans'
  OBVIOUS
<1>1. ASSUME UNCHANGED <<tenants, rows>> PROVE NoOrphans'
  BY <1>1 DEF NoOrphans
<1>2. ASSUME NEW c \in Clients, Handlers(c) PROVE NoOrphans'
  <2>1. CASE WriteStep(c)
    BY <2>1, <1>1, EffectHomed DEF WriteStep, StoreWrite, Writes
  <2>2. CASE LoadStep(c) \/ DecodeStep(c) \/ ReferenceStep(c)
             \/ BuildStep(c) \/ ReadStep(c)
    BY <2>2, <1>1 DEF LoadStep, LoadExisting, DecodeStep, Decode,
       ReferenceStep, CheckReference, BuildStep, Build, ReadStep, StoreRead
  <2> QED
    BY <1>2, <2>1, <2>2, ServeCases DEF HandlerStep
<1>3. ASSUME NEW c \in Clients, AnswerLost(c) PROVE NoOrphans'
  BY <1>3, EffectHomed DEF AnswerLost, Writes
<1>4. ASSUME NEW c \in Clients,
             tenantScoped(c) \/ Receive(c) \/ Deliver(c) \/ StoreFault(c)
      PROVE  NoOrphans'
  BY <1>4, <1>1 DEF tenantScoped, Receive, Deliver, StoreFault
<1>5. CASE Tick \/ Restart \/ UNCHANGED vars
  BY <1>5, <1>1 DEF Tick, Restart, vars
<1> QED
  BY <1>2, <1>3, <1>4, <1>5 DEF Next, Serve

\* schema.sql:9, 18, 28, 38, 47: over Postgres no entity is ever without its
\* tenant, faults, lost answers and restarts included.
THEOREM NoOrphansOverPostgres ==
    ASSUME Backend = "postgres"
    PROVE  Spec => []NoOrphans
<1>1. Init => NoOrphans
  BY DEF Init, NoOrphans, EmptyRows
<1>2. Spec => []IsolationInv
  BY HandlersTyped, IsolationInit, IsolationStep, PTL DEF Spec
<1> QED
  BY <1>1, <1>2, HandlersTyped, OrphansStep, PTL DEF Spec

-----------------------------------------------------------------------------
(* Time stamps.                                                            *)

\* An accepted write stores a record stamped in order.
LEMMA EffectOrdered ==
    ASSUME TypeInv, StampsOrdered, NEW c \in Clients, pc[c] = "store",
           req[c].op \in Writes, Effect(c), now' = now
    PROVE  /\ \A t \in Tenants : Ordered(tenants[t])'
           /\ \A k \in Kinds, key \in Keys : Ordered(rows[k][key])'
<1>1. /\ tenants \in [Tenants -> TenantRecord \cup {None}]
      /\ rows \in [Kinds -> [Keys -> Record \cup {None}]]
  BY DEF TypeInv, TypeOK
<1>2. Ordered(draft[c])
  BY DEF StampsOrdered
<1>3. CASE req[c].kind = "tenants"
  BY <1>1, <1>2, <1>3 DEF Effect, AfterTenantDelete, StampsOrdered, Ordered
<1>4. CASE req[c].kind # "tenants" /\ req[c].op = "delete"
  BY <1>1, <1>4 DEF Effect, Remove, StampsOrdered, Ordered
<1>5. CASE req[c].kind # "tenants" /\ req[c].op # "delete"
  BY <1>1, <1>2, <1>5 DEF Effect, Put, StampsOrdered, Ordered
<1> QED
  BY <1>3, <1>4, <1>5

\* What a handler builds is stamped in order: UpdatedAt is now, and CreatedAt
\* is now or that of a record stored before.
LEMMA BuildOrdered ==
    ASSUME TypeInv, StampsOrdered, NEW c \in Clients, BuildStep(c)
    PROVE  \E r : Build(c, r) /\ Ordered(r)
<1> DEFINE Renewed == [NewEntity(c) EXCEPT !.created = existing[c].created]
           Rewritten == [NewTenant(c) EXCEPT !.created = existing[c].created]
<1>1. now \in Nat /\ pc[c] = "build"
  BY DEF TypeInv, TypeOK, Times, BuildStep, Build
<1>2. req[c].op = "update" =>
         existing[c].created \in Nat /\ existing[c].created <= now
  <2> SUFFICES ASSUME req[c].op = "update"
               PROVE  existing[c].created \in Nat /\ existing[c].created <= now
    OBVIOUS
  <2>1. existing[c] \in Record \/ existing[c] \in TenantRecord
    BY <1>1 DEF TypeInv, HandlerOK, HandlerFits, RecordOf
  <2>2. existing[c] # None
    BY <2>1, NoneAssumption
  <2>3. existing[c].created \in Nat /\ existing[c].updated \in Nat
    BY <2>1 DEF Record, TenantRecord, Times
  <2>4. existing[c].created <= existing[c].updated /\ existing[c].updated <= now
    BY <2>2 DEF StampsOrdered, Ordered
  <2> QED
    BY <1>1, <2>3, <2>4
<1>3. NewEntity(c).created = now /\ NewEntity(c).updated = now
  BY DEF NewEntity
<1>4. NewTenant(c).created = now /\ NewTenant(c).updated = now
  BY DEF NewTenant
<1>5. Merged(c).created = existing[c].created /\ Merged(c).updated = now
  BY DEF NewEntity, Merged
<1>6. Renewed.created = existing[c].created /\ Renewed.updated = now
  BY DEF NewEntity
<1>7. Rewritten.created = existing[c].created /\ Rewritten.updated = now
  BY DEF NewTenant
<1> HIDE DEF Renewed, Rewritten
<1>8. \/ Build(c, NewEntity(c)) \/ Build(c, NewTenant(c))
      \/ req[c].op = "update"
           /\ (Build(c, Merged(c)) \/ Build(c, Renewed) \/ Build(c, Rewritten))
  BY DEF BuildStep, Renewed, Rewritten
<1> QED
  BY <1>1, <1>2, <1>3, <1>4, <1>5, <1>6, <1>7, <1>8 DEF Ordered

LEMMA StampsHandler ==
    ASSUME TypeInv, StampsOrdered, NEW c \in Clients, HandlerStep(c)
    PROVE  StampsOrdered'
<1>t. /\ tenants \in [Tenants -> TenantRecord \cup {None}]
      /\ rows \in [Kinds -> [Keys -> Record \cup {None}]]
      /\ existing \in [Clients -> Record \cup TenantRecord \cup {None}]
      /\ draft \in [Clients -> Record \cup TenantRecord \cup {None}]
  BY DEF TypeInv, TypeOK
<1>1. CASE LoadStep(c)
  <2>1. PICK next \in {"decode", "store"} :
            /\ LoadExisting(c, next)
            /\ req[c].op = IF next = "decode" THEN "update" ELSE "delete"
    BY <1>1 DEF LoadStep
  <2> DEFINE r == IF req[c].kind = "tenants" THEN tenants[req[c].tenant]
                                             ELSE Stored(Name(c))
  <2>2. UNCHANGED <<now, tenants, rows, draft>> /\ pc[c] = "load"
    BY <2>1 DEF LoadExisting
  <2>3. existing' = existing \/ existing' = [existing EXCEPT ![c] = r]
    BY <2>1 DEF LoadExisting
  <2>4. Ordered(r)
    <3>1. CASE req[c].kind = "tenants"
      BY <3>1, <2>2, RequestType DEF StampsOrdered
    <3>2. CASE req[c].kind # "tenants"
      <4>1. Key(req[c].kind, req[c].tenant, req[c].id) \in Keys
            /\ req[c].kind \in Kinds
        BY <3>2, <2>1, <2>2, RequestType, KeyType
      <4>2. Ordered(rows[req[c].kind][Key(req[c].kind, req[c].tenant, req[c].id)])
        BY <4>1 DEF StampsOrdered
      <4> QED
        BY <3>2, <4>2 DEF Stored, Name, Lookup, Ordered
    <3> QED
      BY <3>1, <3>2
  <2> HIDE DEF r
  <2> QED
    BY <2>2, <2>3, <2>4, <1>t DEF StampsOrdered, Ordered
<1>2. CASE DecodeStep(c) \/ ReferenceStep(c) \/ ReadStep(c)
  <2>1. UNCHANGED <<now, tenants, rows, existing, draft>>
    BY <1>2 DEF DecodeStep, Decode, ReferenceStep, CheckReference,
                ReadStep, StoreRead
  <2> QED
    BY <2>1 DEF StampsOrdered, Ordered
<1>3. CASE BuildStep(c)
  <2>1. PICK r : Build(c, r) /\ Ordered(r)
    BY <1>3, BuildOrdered
  <2>2. /\ draft' = [draft EXCEPT ![c] = r]
        /\ UNCHANGED <<now, tenants, rows, existing>>
    BY <2>1 DEF Build
  <2> QED
    BY <2>1, <2>2, <1>t DEF StampsOrdered, Ordered
<1>4. CASE WriteStep(c)
  <2>1. /\ pc[c] = "store" /\ req[c].op \in Writes
        /\ UNCHANGED <<now, existing, draft>>
        /\ Effect(c) \/ UNCHANGED <<tenants, rows>>
    BY <1>4 DEF WriteStep, StoreWrite, Writes
  <2>2. CASE Effect(c)
    <3>1. /\ \A t \in Tenants : Ordered(tenants[t])'
          /\ \A k \in Kinds, key \in Keys : Ordered(rows[k][key])'
      BY <2>1, <2>2, EffectOrdered
    <3>2. \A d \in Clients : Ordered(existing[d])' /\ Ordered(draft[d])'
      BY <2>1 DEF StampsOrdered, Ordered
    <3> QED
      BY <3>1, <3>2 DEF StampsOrdered
  <2>3. CASE UNCHANGED <<tenants, rows>>
    BY <2>1, <2>3 DEF StampsOrdered, Ordered
  <2> QED
    BY <2>1, <2>2, <2>3
<1> QED
  BY <1>1, <1>2, <1>3, <1>4 DEF HandlerStep

LEMMA StampsStep == TypeInv /\ StampsOrdered /\ [Next]_vars => StampsOrdered'
<1> SUFFICES ASSUME TypeInv, StampsOrdered, [Next]_vars PROVE StampsOrdered'
  OBVIOUS
<1>t. /\ tenants \in [Tenants -> TenantRecord \cup {None}]
      /\ rows \in [Kinds -> [Keys -> Record \cup {None}]]
      /\ existing \in [Clients -> Record \cup TenantRecord \cup {None}]
      /\ draft \in [Clients -> Record \cup TenantRecord \cup {None}]
      /\ now \in Nat
  BY DEF TypeInv, TypeOK, Times
<1>1. ASSUME NEW c \in Clients, Handlers(c) PROVE StampsOrdered'
  BY <1>1, ServeCases, StampsHandler
<1>2. ASSUME NEW c \in Clients, AnswerLost(c) PROVE StampsOrdered'
  <2>1. /\ \A t \in Tenants : Ordered(tenants[t])'
        /\ \A k \in Kinds, key \in Keys : Ordered(rows[k][key])'
    BY <1>2, EffectOrdered DEF AnswerLost, Writes
  <2>2. \A d \in Clients : Ordered(existing[d])' /\ Ordered(draft[d])'
    BY <1>2 DEF AnswerLost, StampsOrdered, Ordered
  <2> QED
    BY <2>1, <2>2 DEF StampsOrdered
<1>3. ASSUME NEW c \in Clients, tenantScoped(c) \/ Receive(c) \/ StoreFault(c)
      PROVE  StampsOrdered'
  BY <1>3 DEF tenantScoped, Receive, StoreFault, StampsOrdered, Ordered
<1>4. ASSUME NEW c \in Clients, Deliver(c) PROVE StampsOrdered'
  BY <1>4, <1>t DEF Deliver, StampsOrdered, Ordered
<1>5. CASE Tick
  <2>1. now' = now + 1 /\ UNCHANGED <<tenants, rows, existing, draft>>
    BY <1>5 DEF Tick
  <2>2. ASSUME NEW r \in Record \cup TenantRecord \cup {None}, Ordered(r)
        PROVE  r # None => r.created <= r.updated /\ r.updated <= now'
    BY <2>1, <2>2, <1>t DEF Ordered, Record, TenantRecord, Times
  <2> QED
    BY <2>1, <2>2, <1>t DEF StampsOrdered, Ordered
<1>6. CASE Restart
  BY <1>6 DEF Restart, StampsOrdered, Ordered, EmptyTenants, EmptyRows
<1>7. CASE UNCHANGED vars
  BY <1>7 DEF vars, StampsOrdered, Ordered
<1> QED
  BY <1>1, <1>2, <1>3, <1>4, <1>5, <1>6, <1>7 DEF Next, Serve

\* server.go stamps what it stores with time.Now() and carries CreatedAt over
\* from an earlier read: no interleaving and no clock step stores a record
\* updated before it was created, or stamped in the future.
THEOREM StampsAlwaysOrdered == Spec => []StampsOrdered
<1>1. Init => StampsOrdered
  BY DEF Init, StampsOrdered, Ordered, EmptyTenants, EmptyRows
<1> QED
  BY <1>1, HandlersTyped, StampsStep, PTL DEF Spec
=============================================================================
