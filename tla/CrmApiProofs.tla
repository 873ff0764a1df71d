---------------------------- MODULE CrmApiProofs ----------------------------
(***************************************************************************)
(* Theorems about CrmApi for any sets of clients, tenants, ids and         *)
(* requests, both backends, with and without store faults and restarts.    *)
(*                                                                         *)
(* The thirty-one handlers are made of a few kinds of step.  ServeCases    *)
(* reduces a step of a client's handler to them; every theorem then has    *)
(* one case for each kind of step.                                         *)
(***************************************************************************)
EXTENDS CrmApiProperties, TLAPS

Writes == {"create", "update", "delete"}

\* The type of the record c's handler reads and builds.
RecordOf(c) == IF req[c].kind = "tenants" THEN TenantRecord ELSE Record

(***************************************************************************)
(* What a handler holds at each of its steps: the strengthening that makes *)
(* TypeOK inductive.  A record goes to the store whatever handler built    *)
(* it, so its type must be known from the request and the step alone.      *)
(***************************************************************************)
HandlerFits(c) ==
    /\ pc[c] # "idle" => req[c] \in Requests
    /\ pc[c] \in {"decode", "account", "contact", "build"}
         /\ req[c].op = "update" => existing[c] \in RecordOf(c)
    /\ pc[c] = "store" /\ req[c].op \in {"create", "update"}
         => draft[c] \in RecordOf(c)

HandlerOK == \A c \in Clients : HandlerFits(c)

TypeInv == TypeOK /\ HandlerOK

-----------------------------------------------------------------------------
(* The kinds of step of a handler.                                         *)

LoadStep(c) ==
    \/ LoadExisting(c, "decode") /\ req[c].op = "update"
    \/ LoadExisting(c, "store") /\ req[c].op = "delete"

DecodeStep(c) ==
    \/ Decode(c, "build")
    \/ Decode(c, "account")
    \/ Decode(c, "store") /\ req[c].op = "evaluate"

ReferenceStep(c) ==
    \E step \in {"account", "contact"}, kind \in {"accounts", "contacts"},
       id \in Ids \cup {None}, next \in {"contact", "build"} :
          CheckReference(c, step, kind, id, next)

BuildStep(c) ==
    \/ req[c].op = "create" /\ req[c].kind = "tenants" /\ Build(c, NewTenant(c))
    \/ req[c].op = "create" /\ req[c].kind # "tenants" /\ Build(c, NewEntity(c))
    \/ /\ req[c].op = "update" /\ req[c].kind = "tenants"
       /\ Build(c, [NewTenant(c) EXCEPT !.created = existing[c].created])
    \/ /\ req[c].op = "update" /\ req[c].kind # "tenants"
       /\ \/ Build(c, Merged(c))
          \/ Build(c, [NewEntity(c) EXCEPT !.created = existing[c].created])

WriteStep(c) ==
    \/ req[c].op = "create" /\ StoreWrite(c, 201, {draft[c]})
    \/ req[c].op = "update" /\ StoreWrite(c, 200, {draft[c]})
    \/ req[c].op = "delete" /\ StoreWrite(c, 204, {})

ReadStep(c) ==
    \E found \in SUBSET (Record \cup TenantRecord) :
        /\ StoreRead(c, found)
        /\ req[c].kind # "tenants" => \A r \in found : r.tenant = req[c].tenant

HandlerStep(c) ==
    \/ LoadStep(c) \/ DecodeStep(c) \/ ReferenceStep(c)
    \/ BuildStep(c) \/ WriteStep(c) \/ ReadStep(c)

-----------------------------------------------------------------------------
(* What the stores' operators return.                                      *)

\* A key of the tables has the form Key builds.
LEMMA KeyType ==
    ASSUME NEW k \in Kinds, NEW t \in Tenants, NEW i \in Ids
    PROVE  Key(k, t, i) \in Keys
BY DEF Keys

\* Get returns a record of the tenant asked for, or nothing.
LEMMA LookupType ==
    ASSUME NEW R \in [Kinds -> [Keys -> Record \cup {None}]],
           NEW k \in Kinds, NEW t \in Tenants, NEW i \in Ids,
           Lookup(R, k, t, i) # None
    PROVE  Lookup(R, k, t, i) \in Record /\ Lookup(R, k, t, i).tenant = t
BY KeyType DEF Lookup

\* List and ListActive return records of the tenant asked for.
LEMMA ListType ==
    ASSUME NEW R \in [Kinds -> [Keys -> Record \cup {None}]],
           NEW k \in Kinds, NEW t \in Tenants
    PROVE  \A r \in List(R, k, t) : r \in Record /\ r.tenant = t
BY DEF List

\* Writing, removing and cascading keep the type of the tables.
LEMMA RowsType ==
    ASSUME NEW R \in [Kinds -> [Keys -> Record \cup {None}]],
           NEW k \in Kinds, NEW t \in Tenants, NEW i \in Ids,
           NEW r \in Record
    PROVE  /\ Put(R, k, t, i, r) \in [Kinds -> [Keys -> Record \cup {None}]]
           /\ Remove(R, k, t, i) \in [Kinds -> [Keys -> Record \cup {None}]]
           /\ AfterTenantDelete(R, t) \in [Kinds -> [Keys -> Record \cup {None}]]
<1>1. Put(R, k, t, i, r) \in [Kinds -> [Keys -> Record \cup {None}]]
  BY DEF Put
<1>2. Remove(R, k, t, i) \in [Kinds -> [Keys -> Record \cup {None}]]
  BY DEF Remove
<1>3. AfterTenantDelete(R, t) \in [Kinds -> [Keys -> Record \cup {None}]]
  BY DEF AfterTenantDelete
<1> QED
  BY <1>1, <1>2, <1>3

-----------------------------------------------------------------------------
(* The handlers reduced to their steps.                                    *)

\* A request being served is one of the run's, with fields of their types.
LEMMA RequestType ==
    ASSUME TypeInv, NEW c \in Clients, pc[c] # "idle"
    PROVE  /\ req[c] \in Request
           /\ req[c].kind # "tenants" => req[c].kind \in Kinds
           /\ req[c].kind # "tenants" /\ req[c].op \notin {"list", "evaluate"}
                => req[c].id \in Ids
           /\ req[c].tenant \in Tenants
BY RequestsAssumption DEF TypeInv, HandlerOK, HandlerFits, Request

\* Every handler is made of those steps.
LEMMA ServeCases ==
    ASSUME TypeInv, NEW c \in Clients, Handlers(c)
    PROVE  HandlerStep(c)
<1> USE DEF Serving
<1>a. pc[c] # "idle"
  BY DEF Handlers, handleCreateTenant, handleListTenants, handleGetTenant,
     handleUpdateTenant, handleDeleteTenant,
     handleCreateAccount, handleListAccounts, handleGetAccount,
     handleUpdateAccount, handleDeleteAccount,
     handleCreateContact, handleListContacts, handleGetContact,
     handleUpdateContact, handleDeleteContact,
     handleCreateOpportunity, handleListOpportunities, handleGetOpportunity,
     handleUpdateOpportunity, handleDeleteOpportunity,
     handleCreateProduct, handleListProducts, handleGetProduct,
     handleUpdateProduct, handleDeleteProduct,
     handleCreateRule, handleListRules, handleGetRule,
     handleUpdateRule, handleDeleteRule, handleEvaluateOpportunityRules
<1>r. /\ rows \in [Kinds -> [Keys -> Record \cup {None}]]
      /\ tenants \in [Tenants -> TenantRecord \cup {None}]
      /\ req[c].tenant \in Tenants
      /\ req[c].account \in Ids \cup {None}
      /\ req[c].contact \in Ids \cup {None}
      /\ req[c].kind # "tenants" => req[c].kind \in Kinds
      /\ req[c].kind # "tenants" /\ req[c].op \notin {"list", "evaluate"}
            => req[c].id \in Ids
  BY <1>a, RequestType DEF TypeInv, TypeOK, Request
<1>1. req[c].kind # "tenants" /\ ListAll(c) => ReadStep(c)
  <2> SUFFICES ASSUME req[c].kind # "tenants", ListAll(c) PROVE ReadStep(c)
    OBVIOUS
  <2>1. \A r \in List(rows, req[c].kind, req[c].tenant) :
            r \in Record /\ r.tenant = req[c].tenant
    BY <1>r, ListType
  <2> QED
    BY <2>1 DEF ReadStep, ListAll
<1>2. req[c].kind # "tenants" /\ req[c].op = "get" /\ GetOne(c) => ReadStep(c)
  <2> SUFFICES ASSUME req[c].kind # "tenants", req[c].op = "get", GetOne(c)
               PROVE  ReadStep(c)
    OBVIOUS
  <2>1. \A r \in {Stored(Name(c))} \ {None} :
            r \in Record /\ r.tenant = req[c].tenant
    BY <1>r, LookupType DEF Stored, Name
  <2> QED
    BY <2>1 DEF ReadStep, GetOne
<1>3. ASSUME NEW S \in SUBSET (TenantRecord \cup {None}),
             req[c].kind = "tenants", StoreRead(c, S \ {None})
      PROVE  ReadStep(c)
  BY <1>3 DEF ReadStep
<1>4. CASE handleCreateTenant(c)
  BY <1>4 DEF handleCreateTenant, HandlerStep, DecodeStep, BuildStep, WriteStep,
              StoreCreate
<1>5. CASE handleListTenants(c)
  BY <1>5, <1>3, <1>r DEF handleListTenants, HandlerStep
<1>6. CASE handleGetTenant(c)
  BY <1>6, <1>3, <1>r DEF handleGetTenant, HandlerStep
<1>7. CASE handleUpdateTenant(c)
  BY <1>7 DEF handleUpdateTenant, HandlerStep, LoadStep, DecodeStep, BuildStep,
              WriteStep, StoreUpdate
<1>8. CASE handleDeleteTenant(c)
  BY <1>8 DEF handleDeleteTenant, HandlerStep, LoadStep, WriteStep, StoreDelete
<1>9. CASE handleListAccounts(c) \/ handleListContacts(c)
           \/ handleListOpportunities(c) \/ handleListProducts(c)
           \/ handleListRules(c)
  BY <1>9, <1>1 DEF handleListAccounts, handleListContacts,
     handleListOpportunities, handleListProducts, handleListRules, HandlerStep
<1>10. CASE handleGetAccount(c) \/ handleGetContact(c)
            \/ handleGetOpportunity(c) \/ handleGetProduct(c) \/ handleGetRule(c)
  BY <1>10, <1>2 DEF handleGetAccount, handleGetContact,
     handleGetOpportunity, handleGetProduct, handleGetRule, HandlerStep
<1>11. CASE handleDeleteAccount(c) \/ handleDeleteContact(c)
            \/ handleDeleteOpportunity(c) \/ handleDeleteProduct(c)
            \/ handleDeleteRule(c)
  BY <1>11 DEF handleDeleteAccount, handleDeleteContact,
     handleDeleteOpportunity, handleDeleteProduct, handleDeleteRule,
     HandlerStep, WriteStep, StoreDelete
<1>12. CASE handleCreateAccount(c) \/ handleCreateProduct(c)
            \/ handleCreateRule(c)
  BY <1>12 DEF handleCreateAccount, handleCreateProduct, handleCreateRule,
     HandlerStep, DecodeStep, BuildStep, WriteStep, StoreCreate
<1>13. CASE handleUpdateAccount(c) \/ handleUpdateProduct(c)
            \/ handleUpdateRule(c)
  BY <1>13 DEF handleUpdateAccount, handleUpdateProduct, handleUpdateRule,
     HandlerStep, LoadStep, DecodeStep, BuildStep, WriteStep, StoreUpdate
<1>14. CheckReference(c, "account", "accounts", req[c].account, "build")
          => ReferenceStep(c)
  BY <1>r DEF ReferenceStep
<1>15. CASE handleCreateContact(c)
  BY <1>15, <1>14 DEF handleCreateContact, ContactRefs, HandlerStep,
     DecodeStep, BuildStep, WriteStep, StoreCreate
<1>16. CASE handleUpdateContact(c)
  BY <1>16, <1>14 DEF handleUpdateContact, ContactRefs, HandlerStep,
     LoadStep, DecodeStep, BuildStep, WriteStep, StoreUpdate
<1>17. OpportunityRefs(c) => DecodeStep(c) \/ ReferenceStep(c)
  <2>1. CheckReference(c, "account", "accounts", req[c].account,
                IF req[c].contact = None THEN "build" ELSE "contact")
          => ReferenceStep(c)
    BY <1>r DEF ReferenceStep
  <2>2. CheckReference(c, "contact", "contacts", req[c].contact, "build")
          => ReferenceStep(c)
    BY <1>r DEF ReferenceStep
  <2> QED
    BY <2>1, <2>2 DEF OpportunityRefs, DecodeStep
<1>18. CASE handleCreateOpportunity(c)
  BY <1>18, <1>17 DEF handleCreateOpportunity, HandlerStep, BuildStep,
     WriteStep, StoreCreate
<1>19. CASE handleUpdateOpportunity(c)
  BY <1>19, <1>17 DEF handleUpdateOpportunity, HandlerStep, LoadStep,
     BuildStep, WriteStep, StoreUpdate
<1>20. ListActive(rows, req[c].tenant) \subseteq List(rows, "rules", req[c].tenant)
  BY DEF ListActive
<1>21. CASE handleEvaluateOpportunityRules(c)
  <2>1. \A r \in ListActive(rows, req[c].tenant) :
            r \in Record /\ r.tenant = req[c].tenant
    BY <1>21, <1>20, <1>r, ListType DEF handleEvaluateOpportunityRules
  <2>2. StoreRead(c, ListActive(rows, req[c].tenant)) => ReadStep(c)
    BY <2>1 DEF ReadStep
  <2> QED
    BY <1>21, <2>2 DEF handleEvaluateOpportunityRules, HandlerStep, DecodeStep
<1> QED
  BY <1>4, <1>5, <1>6, <1>7, <1>8, <1>9, <1>10, <1>11, <1>12, <1>13, <1>15,
     <1>16, <1>18, <1>19, <1>21 DEF Handlers

-----------------------------------------------------------------------------
(* Type correctness.                                                       *)

\* The status of a refused call is one of the codes.
LEMMA ErrorCodeType ==
    ASSUME NEW c \in Clients
    PROVE  ErrorCode(c) \in Codes
BY DEF ErrorCode, Codes

\* What a handler builds has the type of what its route stores.
LEMMA BuildType ==
    ASSUME TypeInv, NEW c \in Clients, pc[c] = "build",
           req[c].op \in {"create", "update"}
    PROVE  /\ req[c].kind = "tenants" => NewTenant(c) \in TenantRecord
           /\ req[c].kind # "tenants" => NewEntity(c) \in Record
           /\ req[c].op = "update" /\ req[c].kind = "tenants" =>
                [NewTenant(c) EXCEPT !.created = existing[c].created]
                    \in TenantRecord
           /\ req[c].op = "update" /\ req[c].kind # "tenants" =>
                /\ Merged(c) \in Record
                /\ [NewEntity(c) EXCEPT !.created = existing[c].created]
                    \in Record
<1>1. /\ req[c] \in Request
      /\ req[c].tenant \in Tenants
      /\ req[c].kind # "tenants" => req[c].id \in Ids
      /\ now \in Times
  BY RequestType DEF TypeInv, TypeOK
<1>2. /\ req[c].account \in Ids \cup {None}
      /\ req[c].contact \in Ids \cup {None}
      /\ req[c].val \in Values \cup {None}
  BY <1>1 DEF Request
<1>3. NewTenant(c) \in TenantRecord
  BY <1>1 DEF NewTenant, TenantRecord
<1>4. req[c].kind # "tenants" => NewEntity(c) \in Record
  BY <1>1, <1>2, StoresAssumption DEF NewEntity, Record
<1>5. req[c].op = "update" => existing[c] \in RecordOf(c)
  BY DEF TypeInv, HandlerOK, HandlerFits
<1>6. req[c].op = "update" /\ req[c].kind = "tenants" =>
          [NewTenant(c) EXCEPT !.created = existing[c].created] \in TenantRecord
  BY <1>3, <1>5 DEF RecordOf, TenantRecord
<1>7. req[c].op = "update" /\ req[c].kind # "tenants" =>
          /\ existing[c].created \in Times
          /\ (IF req[c].val = None THEN existing[c].val ELSE req[c].val) \in Values
  BY <1>2, <1>5 DEF RecordOf, Record
<1>8. req[c].op = "update" /\ req[c].kind # "tenants" =>
          /\ Merged(c) \in Record
          /\ [NewEntity(c) EXCEPT !.created = existing[c].created] \in Record
  BY <1>4, <1>7 DEF Merged, Record
<1> QED
  BY <1>3, <1>4, <1>6, <1>8

\* The effect of an accepted write keeps the tables well typed.
LEMMA EffectType ==
    ASSUME TypeInv, NEW c \in Clients, pc[c] = "store",
           req[c].op \in Writes, Effect(c)
    PROVE  /\ tenants' \in [Tenants -> TenantRecord \cup {None}]
           /\ rows' \in [Kinds -> [Keys -> Record \cup {None}]]
<1>1. /\ req[c].tenant \in Tenants
      /\ req[c].kind # "tenants" => req[c].kind \in Kinds /\ req[c].id \in Ids
      /\ tenants \in [Tenants -> TenantRecord \cup {None}]
      /\ rows \in [Kinds -> [Keys -> Record \cup {None}]]
  BY RequestType DEF TypeInv, TypeOK, Writes
<1>2. req[c].op # "delete" => draft[c] \in RecordOf(c)
  BY DEF TypeInv, HandlerOK, HandlerFits, Writes
<1>3. CASE req[c].kind = "tenants" /\ req[c].op = "delete"
  BY <1>1, <1>3 DEF Effect, AfterTenantDelete
<1>4. CASE req[c].kind = "tenants" /\ req[c].op # "delete"
  BY <1>1, <1>2, <1>4 DEF Effect, RecordOf
<1>5. CASE req[c].kind # "tenants" /\ req[c].op = "delete"
  BY <1>1, <1>5 DEF Effect, Remove
<1>6. CASE req[c].kind # "tenants" /\ req[c].op # "delete"
  <2>1. draft[c] \in Record
    BY <1>2, <1>6 DEF RecordOf
  <2> QED
    BY <1>1, <1>6, <2>1, RowsType DEF Effect
<1> QED
  BY <1>3, <1>4, <1>5, <1>6

LEMMA TypeInit == Init => TypeInv
<1> SUFFICES ASSUME Init PROVE TypeInv
  OBVIOUS
<1>1. now \in Times /\ restarts \in 0 .. MaxRestarts
  BY StoresAssumption, RequestsAssumption DEF Init, Times
<1>2. /\ tenants \in [Tenants -> TenantRecord \cup {None}]
      /\ rows \in [Kinds -> [Keys -> Record \cup {None}]]
  BY DEF Init, EmptyTenants, EmptyRows
<1>3. /\ pc \in [Clients -> Steps]
      /\ req \in [Clients -> Requests \cup {None}]
      /\ existing \in [Clients -> Record \cup TenantRecord \cup {None}]
      /\ draft \in [Clients -> Record \cup TenantRecord \cup {None}]
      /\ resp \in [Clients -> Answers \cup {NoAnswer}]
  BY DEF Init, Steps
<1>4. HandlerOK
  BY DEF Init, HandlerOK, HandlerFits
<1> QED
  BY <1>1, <1>2, <1>3, <1>4 DEF TypeInv, TypeOK

\* Moving on and answering keep pc and resp well typed, and touch c alone.
LEMMA MoveType ==
    ASSUME TypeOK, NEW c \in Clients,
           \/ \E s \in Steps : Goto(c, s)
           \/ \E code \in Codes, body \in SUBSET (Record \cup TenantRecord) :
                 Answer(c, code, body)
    PROVE  /\ pc' \in [Clients -> Steps]
           /\ resp' \in [Clients -> Answers \cup {NoAnswer}]
           /\ \A d \in Clients \ {c} : pc'[d] = pc[d]
<1>1. CASE \E s \in Steps : Goto(c, s)
  BY <1>1 DEF TypeOK, Goto
<1>2. ASSUME NEW code \in Codes, NEW body \in SUBSET (Record \cup TenantRecord),
             Answer(c, code, body)
      PROVE  /\ pc' \in [Clients -> Steps]
             /\ resp' \in [Clients -> Answers \cup {NoAnswer}]
             /\ \A d \in Clients \ {c} : pc'[d] = pc[d]
  <2>1. [code |-> code, body |-> body] \in Answers
    BY DEF Answers
  <2>2. "done" \in Steps
    BY DEF Steps
  <2> QED
    BY <1>2, <2>1, <2>2 DEF TypeOK, Answer
<1> QED
  BY <1>1, <1>2

\* A step of c that touches no other handler leaves the others fitting.
LEMMA OthersFit ==
    ASSUME HandlerOK, NEW c \in Clients, HandlerFits(c)',
           \A d \in Clients \ {c} :
              /\ pc'[d] = pc[d] /\ req'[d] = req[d]
              /\ existing'[d] = existing[d] /\ draft'[d] = draft[d]
    PROVE  HandlerOK'
<1>1. ASSUME NEW d \in Clients \ {c} PROVE HandlerFits(d)'
  BY <1>1 DEF HandlerOK, HandlerFits, RecordOf
<1> QED
  BY <1>1 DEF HandlerOK

\* A step of a handler keeps the types, whatever the handler.
LEMMA TypeHandler ==
    ASSUME TypeInv, NEW c \in Clients, HandlerStep(c)
    PROVE  TypeInv'
<1>t. TypeOK /\ HandlerOK /\ HandlerFits(c)
  BY DEF TypeInv, HandlerOK
<1>e. Refuse(c) => \E code \in Codes, body \in SUBSET (Record \cup TenantRecord) :
                      Answer(c, code, body)
  BY ErrorCodeType DEF Refuse
<1>s. {"decode", "store", "build", "account", "contact", "done"} \subseteq Steps
  BY DEF Steps
<1>1. CASE LoadStep(c)
  <2>1. PICK next \in {"decode", "store"} :
            /\ LoadExisting(c, next)
            /\ req[c].op = IF next = "decode" THEN "update" ELSE "delete"
    BY <1>1 DEF LoadStep
  <2> DEFINE r == IF req[c].kind = "tenants" THEN tenants[req[c].tenant]
                                             ELSE Stored(Name(c))
  <2>2. pc[c] = "load" /\ pc[c] # "idle"
    BY <2>1 DEF LoadExisting
  <2>3. r # None => r \in RecordOf(c)
    <3>1. req[c].kind = "tenants" => r \in TenantRecord \cup {None}
      BY <2>2, <1>t, RequestType DEF TypeOK
    <3>2. req[c].kind # "tenants" /\ r # None => r \in Record
      BY <2>1, <2>2, <1>t, RequestType, LookupType DEF TypeOK, Stored, Name
    <3> QED
      BY <3>1, <3>2 DEF RecordOf
  <2>4. \/ Refuse(c) /\ UNCHANGED existing
        \/ /\ r # None /\ Goto(c, next)
           /\ existing' = [existing EXCEPT ![c] = r]
    BY <2>1 DEF LoadExisting
  <2>5. UNCHANGED <<now, tenants, rows, req, draft, since, restarts>>
    BY <2>1 DEF LoadExisting
  <2>6. /\ pc' \in [Clients -> Steps]
        /\ resp' \in [Clients -> Answers \cup {NoAnswer}]
        /\ \A d \in Clients \ {c} : pc'[d] = pc[d]
    BY <2>4, <1>t, <1>e, <1>s, MoveType
  <2>7. existing' \in [Clients -> Record \cup TenantRecord \cup {None}]
    BY <2>3, <2>4, <1>t DEF TypeOK, RecordOf
  <2>8. TypeOK'
    BY <2>5, <2>6, <2>7, <1>t DEF TypeOK
  <2>9. HandlerFits(c)'
    <3>1. CASE Refuse(c)
      BY <3>1, <2>2, <2>5, <1>t DEF HandlerFits, Refuse, Answer, TypeOK
    <3>2. CASE r # None /\ Goto(c, next) /\ existing' = [existing EXCEPT ![c] = r]
      <4>1. pc'[c] = next /\ existing'[c] = r
        BY <3>2, <1>t DEF TypeOK, Goto
      <4> QED
        BY <4>1, <3>2, <2>1, <2>2, <2>3, <2>5, <1>t DEF HandlerFits, RecordOf
    <3> QED
      BY <3>1, <3>2, <2>4
  <2>10. \A d \in Clients \ {c} : existing'[d] = existing[d]
    BY <2>4, <1>t DEF TypeOK
  <2> QED
    BY <2>5, <2>6, <2>8, <2>9, <2>10, <1>t, OthersFit DEF TypeInv
<1>2. CASE DecodeStep(c) \/ ReferenceStep(c) \/ ReadStep(c)
  <2>1. /\ pc[c] \in {"decode", "account", "contact", "store"}
        /\ UNCHANGED <<now, tenants, rows, req, existing, draft, since, restarts>>
    BY <1>2 DEF DecodeStep, ReferenceStep, ReadStep, Decode, CheckReference, StoreRead
  <2>2. \/ \E code \in Codes, body \in SUBSET (Record \cup TenantRecord) :
              Answer(c, code, body)
        \/ /\ pc[c] \in {"decode", "account", "contact"}
           /\ \E s \in {"build", "account", "contact"} : Goto(c, s)
        \/ Goto(c, "store") /\ req[c].op = "evaluate"
    <3>1. CASE DecodeStep(c)
      BY <3>1, 400 \in Codes DEF DecodeStep, Decode, Codes
    <3>2. CASE ReferenceStep(c)
      BY <3>2, <1>e DEF ReferenceStep, CheckReference
    <3>3. CASE ReadStep(c)
      BY <3>3, <1>e, 200 \in Codes DEF ReadStep, StoreRead, Codes
    <3> QED
      BY <1>2, <3>1, <3>2, <3>3
  <2>3. /\ pc' \in [Clients -> Steps]
        /\ resp' \in [Clients -> Answers \cup {NoAnswer}]
        /\ \A d \in Clients \ {c} : pc'[d] = pc[d]
    BY <2>2, <1>t, <1>s, MoveType
  <2>4. TypeOK'
    BY <2>1, <2>3, <1>t DEF TypeOK
  <2>5. \/ pc'[c] = "done"
        \/ /\ pc[c] \in {"decode", "account", "contact"}
           /\ pc'[c] \in {"build", "account", "contact"}
        \/ pc'[c] = "store" /\ req[c].op = "evaluate"
    BY <2>2, <1>t DEF TypeOK, Goto, Answer
  <2>6. HandlerFits(c)'
    BY <2>1, <2>5, <1>t DEF HandlerFits, RecordOf
  <2> QED
    BY <2>1, <2>3, <2>4, <2>6, <1>t, OthersFit DEF TypeInv
<1>3. CASE BuildStep(c)
  <2>1. PICK r : Build(c, r) /\ r \in RecordOf(c)
    BY <1>3, BuildType DEF BuildStep, Build, RecordOf
  <2>2. /\ pc[c] = "build" /\ Goto(c, "store")
        /\ draft' = [draft EXCEPT ![c] = r]
        /\ UNCHANGED <<now, tenants, rows, req, existing, since, restarts>>
    BY <2>1 DEF Build
  <2>3. /\ pc' \in [Clients -> Steps]
        /\ resp' \in [Clients -> Answers \cup {NoAnswer}]
        /\ \A d \in Clients \ {c} : pc'[d] = pc[d]
    BY <2>2, <1>t, <1>s, MoveType
  <2>4. draft' \in [Clients -> Record \cup TenantRecord \cup {None}]
    BY <2>1, <2>2, <1>t DEF TypeOK, RecordOf
  <2>5. TypeOK'
    BY <2>2, <2>3, <2>4, <1>t DEF TypeOK
  <2>6. /\ pc'[c] = "store" /\ draft'[c] = r
        /\ \A d \in Clients \ {c} : draft'[d] = draft[d]
    BY <2>2, <1>t DEF TypeOK, Goto
  <2>7. HandlerFits(c)'
    BY <2>1, <2>2, <2>6, <1>t DEF HandlerFits, RecordOf
  <2> QED
    BY <2>2, <2>3, <2>5, <2>6, <2>7, <1>t, OthersFit DEF TypeInv
<1>4. CASE WriteStep(c)
  <2>1. PICK code \in {200, 201, 204}, body \in {{}, {draft[c]}} :
            /\ StoreWrite(c, code, body)
            /\ req[c].op \in Writes
            /\ req[c].op = "delete" => body = {}
    BY <1>4 DEF WriteStep, Writes
  <2>2. pc[c] = "store" /\ UNCHANGED <<now, req, existing, draft, restarts>>
    BY <2>1 DEF StoreWrite
  <2>3. body \in SUBSET (Record \cup TenantRecord)
    BY <2>1, <2>2, <1>t DEF HandlerFits, RecordOf, Writes
  <2>4. \E k \in Codes, b \in SUBSET (Record \cup TenantRecord) : Answer(c, k, b)
    BY <2>1, <2>3, <1>e DEF StoreWrite, Codes
  <2>5. /\ pc' \in [Clients -> Steps]
        /\ resp' \in [Clients -> Answers \cup {NoAnswer}]
        /\ \A d \in Clients \ {c} : pc'[d] = pc[d]
    BY <2>4, <1>t, MoveType
  <2>6. /\ tenants' \in [Tenants -> TenantRecord \cup {None}]
        /\ rows' \in [Kinds -> [Keys -> Record \cup {None}]]
    <3>1. Effect(c) \/ UNCHANGED <<tenants, rows>>
      BY <2>1 DEF StoreWrite
    <3> QED
      BY <3>1, <2>1, <2>2, <1>t, EffectType DEF TypeOK
  <2>7. TypeOK'
    BY <2>2, <2>5, <2>6, <1>t DEF TypeOK
  <2>8. pc'[c] = "done"
    BY <2>4, <1>t DEF TypeOK, Answer
  <2>9. HandlerFits(c)'
    BY <2>2, <2>8, <1>t DEF HandlerFits
  <2> QED
    BY <2>2, <2>5, <2>7, <2>9, <1>t, OthersFit DEF TypeInv
<1> QED
  BY <1>1, <1>2, <1>3, <1>4 DEF HandlerStep

\* The middleware, and the request's way in and out.
LEMMA TypeEnvelope ==
    ASSUME TypeInv, NEW c \in Clients,
           tenantScoped(c) \/ Receive(c) \/ Deliver(c)
    PROVE  TypeInv'
<1>t. TypeOK /\ HandlerOK /\ HandlerFits(c)
  BY DEF TypeInv, HandlerOK
<1>e. \A r : Entry(r) \in {"decode", "load", "store"}
             /\ (Entry(r) = "decode" => r.op # "update")
             /\ (Entry(r) = "store" => r.op \notin {"create", "update"})
  BY DEF Entry
<1>s. {"decode", "store", "load", "scope", "done", "idle"} \subseteq Steps
  BY DEF Steps
<1>1. CASE tenantScoped(c)
  <2>1. /\ pc[c] = "scope"
        /\ UNCHANGED <<now, tenants, rows, req, existing, draft, since, restarts>>
    BY <1>1 DEF tenantScoped
  <2>2. \/ \E code \in Codes, body \in SUBSET (Record \cup TenantRecord) :
              Answer(c, code, body)
        \/ Goto(c, Entry(req[c]))
    BY <1>1, ErrorCodeType, 401 \in Codes DEF tenantScoped, Refuse, Codes
  <2>3. /\ pc' \in [Clients -> Steps]
        /\ resp' \in [Clients -> Answers \cup {NoAnswer}]
        /\ \A d \in Clients \ {c} : pc'[d] = pc[d]
    BY <2>2, <1>t, <1>e, <1>s, MoveType
  <2>4. TypeOK'
    BY <2>1, <2>3, <1>t DEF TypeOK
  <2>5. pc'[c] = "done" \/ pc'[c] = Entry(req[c])
    BY <2>2, <1>t DEF TypeOK, Goto, Answer
  <2>6. HandlerFits(c)'
    BY <2>1, <2>5, <1>t, <1>e DEF HandlerFits
  <2> QED
    BY <2>1, <2>3, <2>4, <2>6, <1>t, OthersFit DEF TypeInv
<1>2. CASE Receive(c)
  <2>1. PICK r \in Requests :
            /\ req' = [req EXCEPT ![c] = r]
            /\ pc' = [pc EXCEPT ![c] =
                         IF r.kind = "tenants" THEN Entry(r) ELSE "scope"]
    BY <1>2 DEF Receive
  <2>2. UNCHANGED <<now, tenants, rows, existing, draft, resp, since, restarts>>
    BY <1>2 DEF Receive
  <2>3. TypeOK'
    <3>1. pc' \in [Clients -> Steps]
      BY <2>1, <1>t, <1>e, <1>s DEF TypeOK
    <3>2. req' \in [Clients -> Requests \cup {None}]
      BY <2>1, <1>t DEF TypeOK
    <3> QED
      BY <3>1, <3>2, <2>2, <1>t DEF TypeOK
  <2>4. /\ req'[c] = r
        /\ pc'[c] = "scope" \/ pc'[c] = Entry(r)
        /\ \A d \in Clients \ {c} : pc'[d] = pc[d] /\ req'[d] = req[d]
    BY <2>1, <1>t DEF TypeOK
  <2>5. HandlerFits(c)'
    BY <2>4, <1>e DEF HandlerFits
  <2> QED
    BY <2>2, <2>3, <2>4, <2>5, <1>t, OthersFit DEF TypeInv
<1>3. CASE Deliver(c)
  <2>1. TypeOK'
    BY <1>3, <1>t, <1>s DEF Deliver, TypeOK
  <2>2. /\ pc'[c] = "idle"
        /\ \A d \in Clients \ {c} :
              /\ pc'[d] = pc[d] /\ req'[d] = req[d]
              /\ existing'[d] = existing[d] /\ draft'[d] = draft[d]
    BY <1>3, <1>t DEF Deliver, TypeOK
  <2>3. HandlerFits(c)'
    BY <2>2 DEF HandlerFits
  <2> QED
    BY <2>1, <2>2, <2>3, <1>t, OthersFit DEF TypeInv
<1> QED
  BY <1>1, <1>2, <1>3

\* Faults of the database, the clock, and the restart of the process.
LEMMA TypeSurroundings ==
    ASSUME TypeInv,
           \/ \E c \in Clients : StoreFault(c) \/ AnswerLost(c)
           \/ Tick \/ Restart
    PROVE  TypeInv'
<1>t. TypeOK /\ HandlerOK
  BY DEF TypeInv
<1>1. ASSUME NEW c \in Clients, StoreFault(c) \/ AnswerLost(c)
      PROVE  TypeInv'
  <2>1. /\ pc[c] # "idle" /\ Refuse(c)
        /\ UNCHANGED <<now, req, existing, draft, restarts>>
    BY <1>1 DEF StoreFault, AnswerLost
  <2>2. \E code \in Codes, body \in SUBSET (Record \cup TenantRecord) :
            Answer(c, code, body)
    BY <2>1, ErrorCodeType DEF Refuse
  <2>3. /\ pc' \in [Clients -> Steps]
        /\ resp' \in [Clients -> Answers \cup {NoAnswer}]
        /\ \A d \in Clients \ {c} : pc'[d] = pc[d]
    BY <2>2, <1>t, MoveType
  <2>4. /\ tenants' \in [Tenants -> TenantRecord \cup {None}]
        /\ rows' \in [Kinds -> [Keys -> Record \cup {None}]]
    <3>1. CASE StoreFault(c)
      BY <3>1, <1>t DEF StoreFault, TypeOK
    <3>2. CASE AnswerLost(c)
      BY <3>2, EffectType DEF AnswerLost, Writes
    <3> QED
      BY <1>1, <3>1, <3>2
  <2>5. TypeOK'
    BY <2>1, <2>3, <2>4, <1>t DEF TypeOK
  <2>6. pc'[c] = "done"
    BY <2>2, <1>t DEF TypeOK, Answer
  <2>7. HandlerFits(c)'
    BY <2>1, <2>6, <1>t DEF HandlerOK, HandlerFits
  <2> QED
    BY <2>1, <2>3, <2>5, <2>7, <1>t, OthersFit DEF TypeInv
<1>2. CASE Tick
  <2>1. TypeOK'
    BY <1>2, <1>t, StoresAssumption DEF Tick, TypeOK, Times
  <2>2. HandlerOK'
    BY <1>2, <1>t DEF Tick, HandlerOK, HandlerFits, RecordOf
  <2> QED
    BY <2>1, <2>2 DEF TypeInv
<1>3. CASE Restart
  <2>1. /\ tenants' \in [Tenants -> TenantRecord \cup {None}]
        /\ rows' \in [Kinds -> [Keys -> Record \cup {None}]]
    BY <1>3, <1>t DEF Restart, TypeOK, EmptyTenants, EmptyRows
  <2>2. restarts' \in 0 .. MaxRestarts /\ now' \in Times
    BY <1>3, <1>t, RequestsAssumption DEF Restart, TypeOK
  <2>3. /\ pc' \in [Clients -> Steps]
        /\ req' \in [Clients -> Requests \cup {None}]
        /\ existing' \in [Clients -> Record \cup TenantRecord \cup {None}]
        /\ draft' \in [Clients -> Record \cup TenantRecord \cup {None}]
        /\ resp' \in [Clients -> Answers \cup {NoAnswer}]
    BY <1>3 DEF Restart, Steps
  <2>4. HandlerOK'
    BY <1>3 DEF Restart, HandlerOK, HandlerFits
  <2> QED
    BY <2>1, <2>2, <2>3, <2>4 DEF TypeInv, TypeOK
<1> QED
  BY <1>1, <1>2, <1>3

LEMMA TypeStep == TypeInv /\ [Next]_vars => TypeInv'
<1> SUFFICES ASSUME TypeInv, [Next]_vars PROVE TypeInv'
  OBVIOUS
<1>1. ASSUME NEW c \in Clients, Handlers(c) PROVE TypeInv'
  BY <1>1, ServeCases, TypeHandler
<1>2. ASSUME NEW c \in Clients, tenantScoped(c) \/ Receive(c) \/ Deliver(c)
      PROVE  TypeInv'
  BY <1>2, TypeEnvelope
<1>3. CASE \/ \E c \in Clients : StoreFault(c) \/ AnswerLost(c)
           \/ Tick \/ Restart
  BY <1>3, TypeSurroundings
<1>4. CASE UNCHANGED vars
  BY <1>4 DEF vars, TypeInv, TypeOK, HandlerOK, HandlerFits, RecordOf
<1> QED
  BY <1>1, <1>2, <1>3, <1>4 DEF Next, Serve

\* The variables of the API keep their types, in every behaviour; with them
\* goes what each handler holds at each step.
THEOREM TypeCorrect == Spec => []TypeOK
<1>1. Spec => []TypeInv
  BY TypeInit, TypeStep, PTL DEF Spec
<1>2. TypeInv => TypeOK
  BY DEF TypeInv
<1> QED
  BY <1>1, <1>2, PTL

THEOREM HandlersTyped == Spec => []TypeInv
BY TypeInit, TypeStep, PTL DEF Spec
=============================================================================
