-------------------------- MODULE CrmApiRefinement --------------------------
(***************************************************************************)
(* The API over Postgres implements EntityLifecycle, for every value of    *)
(* the constants: its initial states are those of EntityLifecycle, and     *)
(* each of its steps is a step of EntityLifecycle or changes nothing of    *)
(* what there is.                                                          *)
(***************************************************************************)
EXTENDS CrmApiSafetyProofs

\* The refinement mapping.
Present == {t \in Tenants : tenants[t] # None}
Live    == {n \in Names : Stored(n) # None}

\* The step of EntityLifecycle an accepted write takes.
Step ==
    \/ \E t \in Tenants : Lifecycle!CreateTenant(t) \/ Lifecycle!DeleteTenant(t)
    \/ \E n \in Kinds \X Tenants \X Ids : Lifecycle!Create(n) \/ Lifecycle!Delete(n)
    \/ Present' = Present /\ Live' = Live

\* In Postgres an entity is there when the row of its primary key is; other
\* entities have other keys.
LEMMA KeyOfName ==
    ASSUME Backend = "postgres", NEW n \in Names
    PROVE  /\ Key(n[1], n[2], n[3]) = <<n[2], n[3]>>
           /\ <<n[2], n[3]>> \in Keys
           /\ n = <<n[1], n[2], n[3]>>
           /\ n[1] \in Kinds /\ n[2] \in Tenants /\ n[3] \in Ids
<1>1. n[1] \in Kinds /\ n[2] \in Tenants /\ n[3] \in Ids /\ n = <<n[1], n[2], n[3]>>
  BY DEF Names
<1>2. Key(n[1], n[2], n[3]) = <<n[2], n[3]>>
  BY DEF Key, scopedKey
<1> QED
  BY <1>1, <1>2, KeyType

LEMMA LiveRow ==
    ASSUME Backend = "postgres", NEW n \in Names
    PROVE  n \in Live <=> /\ rows[n[1]][<<n[2], n[3]>>] # None
                          /\ rows[n[1]][<<n[2], n[3]>>].tenant = n[2]
BY KeyOfName DEF Live, Stored, Lookup

LEMMA LiveRowNext ==
    ASSUME Backend = "postgres", NEW n \in Names
    PROVE  n \in Live' <=> /\ rows'[n[1]][<<n[2], n[3]>>] # None
                           /\ rows'[n[1]][<<n[2], n[3]>>].tenant = n[2]
BY KeyOfName DEF Live, Stored, Lookup, Names

\* An accepted write of a tenant.
LEMMA TenantWrite ==
    ASSUME Backend = "postgres", TypeInv, NEW c \in Clients, pc[c] = "store",
           req[c].kind = "tenants", req[c].op \in Writes, Effect(c), ~Refused(c)
    PROVE  Step
<1> DEFINE t == req[c].tenant
<1>1. /\ t \in Tenants
      /\ tenants \in [Tenants -> TenantRecord \cup {None}]
      /\ rows \in [Kinds -> [Keys -> Record \cup {None}]]
  BY RequestType DEF TypeInv, TypeOK
<1>2. req[c].op # "delete" => draft[c] # None
  BY NoneAssumption DEF TypeInv, HandlerOK, HandlerFits, RecordOf, Writes
<1>3. req[c].op # "delete" => tenants' = [tenants EXCEPT ![t] = draft[c]] /\ rows' = rows
  BY DEF Effect
<1>4. req[c].op # "delete" => Live' = Live
  BY <1>3 DEF Live, Stored, Lookup, Names
<1>5. CASE req[c].op = "create"
  <2>1. t \notin Present
    BY <1>5 DEF Refused, Present
  <2>2. Present' = Present \cup {t}
    BY <1>1, <1>2, <1>3, <1>5 DEF Present
  <2> QED
    BY <1>1, <1>4, <1>5, <2>1, <2>2 DEF Step, Lifecycle!CreateTenant, Present, Live
<1>6. CASE req[c].op = "update"
  <2>1. Present' = Present
    BY <1>1, <1>2, <1>3, <1>6 DEF Refused, Present
  <2> QED
    BY <1>4, <1>6, <2>1 DEF Step
<1>7. CASE req[c].op = "delete"
  <2>1. tenants' = [tenants EXCEPT ![t] = None] /\ rows' = AfterTenantDelete(rows, t)
    BY <1>7 DEF Effect
  <2>2. t \in Present
    BY <1>1, <1>7 DEF Refused, Present
  <2>3. Present' = Present \ {t}
    BY <1>1, <2>1 DEF Present
  <2>4. ASSUME NEW n \in Names PROVE n \in Live' <=> n \in Live /\ n[2] # t
    <3> DEFINE row == rows[n[1]][<<n[2], n[3]>>]
    <3>1. n[1] \in Kinds /\ <<n[2], n[3]>> \in Keys
      BY KeyOfName
    <3>2. rows'[n[1]][<<n[2], n[3]>>] =
             IF row # None /\ row.tenant = t THEN None ELSE row
      BY <2>1, <3>1 DEF AfterTenantDelete
    <3> QED
      BY <3>2, LiveRow, LiveRowNext
  <2>5. Live' = {n \in Live : n[2] # t}
    BY <2>4 DEF Live, Names
  <2> QED
    BY <1>1, <2>2, <2>3, <2>5 DEF Step, Lifecycle!DeleteTenant, Present, Live
<1> QED
  BY <1>5, <1>6, <1>7 DEF Writes

\* An accepted write of an entity.
LEMMA EntityWrite ==
    ASSUME Backend = "postgres", TypeInv, IsolationInv, NEW c \in Clients,
           pc[c] = "store", req[c].kind # "tenants", req[c].op \in Writes,
           Effect(c), ~Refused(c)
    PROVE  Step
<1> DEFINE n == Name(c)
<1>1. /\ n \in Names /\ n[1] = req[c].kind /\ n[2] = req[c].tenant /\ n[3] = req[c].id
      /\ rows \in [Kinds -> [Keys -> Record \cup {None}]]
  BY RequestType DEF TypeInv, TypeOK, Writes, Name, Names
<1> HIDE DEF n
<1>2. /\ Key(n[1], n[2], n[3]) = <<n[2], n[3]>> /\ <<n[2], n[3]>> \in Keys
      /\ n[1] \in Kinds /\ n = <<n[1], n[2], n[3]>> /\ n[2] \in Tenants
  BY <1>1, KeyOfName
<1>3. tenants' = tenants /\ Present' = Present
  BY <1>1 DEF Effect, Present
<1> DEFINE r == IF req[c].op = "delete" THEN None ELSE draft[c]
<1>4. rows' = [rows EXCEPT ![n[1]][<<n[2], n[3]>>] = r]
  BY <1>1, <1>2 DEF Effect, Put, Remove
<1>5. req[c].op # "delete" => draft[c] # None /\ draft[c].tenant = n[2]
  BY <1>1, NoneAssumption
     DEF TypeInv, HandlerOK, HandlerFits, RecordOf, Writes, IsolationInv, HandlerOwn
<1>6. ASSUME NEW m \in Names
      PROVE  m \in Live' <=> IF m = n THEN req[c].op # "delete" ELSE m \in Live
  <2>1. m[1] \in Kinds /\ <<m[2], m[3]>> \in Keys /\ m = <<m[1], m[2], m[3]>>
    BY KeyOfName
  <2>2. CASE m = n
    <3>1. rows'[m[1]][<<m[2], m[3]>>] = r
      BY <1>1, <1>2, <1>4, <2>2
    <3> QED
      BY <1>5, <2>2, <3>1, LiveRowNext
  <2>3. CASE m # n
    <3>1. m[1] # n[1] \/ <<m[2], m[3]>> # <<n[2], n[3]>>
      BY <1>2, <2>1, <2>3
    <3>2. rows'[m[1]][<<m[2], m[3]>>] = rows[m[1]][<<m[2], m[3]>>]
      BY <1>1, <1>2, <1>4, <2>1, <3>1
    <3> QED
      BY <2>3, <3>2, LiveRow, LiveRowNext
  <2> QED
    BY <2>2, <2>3
<1>7. CASE req[c].op = "create"
  <2>1. rows[n[1]][<<n[2], n[3]>>] = None /\ tenants[n[2]] # None
    BY <1>1, <1>2, <1>7 DEF Refused, CreateRefused
  <2>2. n \notin Live /\ n[2] \in Present
    BY <1>1, <1>2, <2>1, LiveRow DEF Present
  <2>3. Live' = Live \cup {n}
    BY <1>1, <1>6, <1>7 DEF Live, Names
  <2>4. Lifecycle!Create(n)
    BY <1>3, <2>2, <2>3 DEF Lifecycle!Create, Present, Live
  <2> QED
    BY <1>1, <2>4 DEF Step, Names
<1>8. CASE req[c].op # "create"
  <2>1. n \in Live
    <3>1. Stored(n) # None
      BY <1>1, <1>8 DEF Refused, n
    <3> QED
      BY <1>1, <3>1 DEF Live
  <2>2. CASE req[c].op = "delete"
    <3>1. Live' = Live \ {n}
      BY <1>1, <1>6, <2>2 DEF Live, Names
    <3>2. Lifecycle!Delete(n)
      BY <1>3, <2>1, <3>1 DEF Lifecycle!Delete, Present, Live
    <3> QED
      BY <1>1, <3>2 DEF Step, Names
  <2>3. CASE req[c].op = "update"
    <3>1. Live' = Live
      BY <1>6, <2>1, <2>3 DEF Live, Names
    <3> QED
      BY <1>3, <3>1 DEF Step
  <2> QED
    BY <1>8, <2>2, <2>3 DEF Writes
<1> QED
  BY <1>7, <1>8

\* Every step of the API is a step of EntityLifecycle or a stutter.
LEMMA LifecycleStep ==
    ASSUME Backend = "postgres"
    PROVE  TypeInv /\ IsolationInv /\ [Next]_vars => Step
<1> SUFFICES ASSUME TypeInv, IsolationInv, [Next]_vars PROVE Step
  OBVIOUS
<1>1. ASSUME UNCHANGED <<tenants, rows>> PROVE Step
  BY <1>1 DEF Step, Present, Live, Stored, Lookup, Names
<1>2. ASSUME NEW c \in Clients, pc[c] = "store", req[c].op \in Writes, Effect(c), ~Refused(c)
      PROVE  Step
  BY <1>2, TenantWrite, EntityWrite
<1>3. ASSUME NEW c \in Clients, Handlers(c) PROVE Step
  <2>1. CASE WriteStep(c)
    BY <2>1, <1>1, <1>2 DEF WriteStep, StoreWrite, Writes
  <2>2. CASE LoadStep(c) \/ DecodeStep(c) \/ ReferenceStep(c)
             \/ BuildStep(c) \/ ReadStep(c)
    BY <2>2, <1>1 DEF LoadStep, LoadExisting, DecodeStep, Decode,
       ReferenceStep, CheckReference, BuildStep, Build, ReadStep, StoreRead
  <2> QED
    BY <1>3, <2>1, <2>2, ServeCases DEF HandlerStep
<1>4. ASSUME NEW c \in Clients, AnswerLost(c) PROVE Step
  BY <1>4, <1>2 DEF AnswerLost, Writes
<1>5. ASSUME NEW c \in Clients,
             tenantScoped(c) \/ Receive(c) \/ Deliver(c) \/ StoreFault(c)
      PROVE  Step
  BY <1>5, <1>1 DEF tenantScoped, Receive, Deliver, StoreFault
<1>6. CASE Tick \/ Restart \/ UNCHANGED vars
  BY <1>6, <1>1 DEF Tick, Restart, vars
<1> QED
  BY <1>3, <1>4, <1>5, <1>6 DEF Next, Serve

\* What there is changes only as EntityLifecycle says: faults, answers lost,
\* restarts and every interleaving included.
THEOREM LifecycleImplemented ==
    ASSUME Backend = "postgres"
    PROVE  Spec => ImplementsLifecycle
<1>1. Init => Lifecycle!Init
  <2> SUFFICES ASSUME Init PROVE Lifecycle!Init
    OBVIOUS
  <2>1. Present = {}
    BY DEF Init, EmptyTenants, Present
  <2>2. ASSUME NEW n \in Names PROVE n \notin Live
    BY LiveRow, KeyOfName DEF Init, EmptyRows
  <2> QED
    BY <2>1, <2>2 DEF Lifecycle!Init, Present, Live
<1>2. TypeInv /\ IsolationInv /\ [Next]_vars
         => [Lifecycle!Next]_<<Present, Live>>
  BY LifecycleStep DEF Step, Lifecycle!Next, Present, Live
<1>3. Spec => []IsolationInv
  BY HandlersTyped, IsolationInit, IsolationStep, PTL DEF Spec
<1> QED
  BY <1>1, <1>2, <1>3, HandlersTyped, PTL
     DEF Spec, ImplementsLifecycle, Lifecycle!Spec, Present, Live
=============================================================================
