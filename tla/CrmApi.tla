------------------------------- MODULE CrmApi -------------------------------
(***************************************************************************)
(* The HTTP API of internal/api/server.go over the stores: every route is  *)
(* a handler that runs in a goroutine of its own and reaches the stores    *)
(* through separate calls, so the steps of concurrent handlers interleave  *)
(* between the calls.  Nothing is locked, and no transaction spans two of  *)
(* them.                                                                   *)
(*                                                                         *)
(* A client has at most one request under way.  pc says which step of the  *)
(* handler comes next:                                                     *)
(*   scope    tenantScoped: token, then Tenants.Get                        *)
(*   load     Get of the stored record (PUT, DELETE of a tenant)           *)
(*   decode   readJSON and the checks of the body                          *)
(*   account  Accounts.Get of the account the body refers to               *)
(*   contact  Contacts.Get of the contact the body refers to               *)
(*   build    the record is put together and stamped with time.Now()       *)
(*   store    the last call, whose result is the answer                    *)
(*   done     the answer is written and on its way to the client           *)
(***************************************************************************)
EXTENDS Stores

CONSTANTS
    Clients,        \* concurrent clients, one request at a time each
    Requests,       \* the requests a run issues
    ServiceToken,   \* TRUE: VERTKIT_SERVICE_TOKEN is set
    StoreFaults,    \* TRUE: a call to Postgres may fail
    MaxRestarts     \* bound on the restarts of the process

Ops == {"create", "list", "get", "update", "delete", "evaluate"}

(***************************************************************************)
(* ok: the body decodes, passes the constructor's validation and does not  *)
(* change the id.  token: the request carries the service token.  val is   *)
(* None when the body leaves the field out.  Only the bodies of contacts   *)
(* and opportunities have an account, only those of opportunities a        *)
(* contact.                                                                *)
(***************************************************************************)
Request == [op : Ops, kind : Kinds \cup {"tenants"}, tenant : Tenants,
            id : Ids \cup {None}, account : Ids \cup {None},
            contact : Ids \cup {None}, val : Values \cup {None},
            ok : BOOLEAN, token : BOOLEAN]

ASSUME RequestsAssumption ==
    /\ Requests \subseteq Request
    /\ \A r \in Requests :
          /\ r.kind = "tenants" => r.id = None
          /\ r.kind # "tenants" /\ r.op \notin {"list", "evaluate"} => r.id \in Ids
          /\ r.account # None => /\ r.kind \in {"contacts", "opportunities"}
                                /\ "accounts" \in Kinds
          /\ r.contact # None => r.kind = "opportunities" /\ "contacts" \in Kinds
    /\ ServiceToken \in BOOLEAN /\ StoreFaults \in BOOLEAN
    /\ StoreFaults => Backend = "postgres"
    /\ MaxRestarts \in Nat

Steps == {"idle", "scope", "load", "decode", "account", "contact", "build",
          "store", "done"}
Codes == {200, 201, 204, 400, 401, 404, 409, 500}

NoAnswer == [code |-> 0, body |-> {}]
Answers  == [code : Codes, body : SUBSET (Record \cup TenantRecord)]

VARIABLES
    now,        \* time.Now() of the host
    tenants,    \* the tenant table
    rows,       \* the entity tables
    pc,         \* next step of the client's handler
    req,        \* the request it serves
    existing,   \* the record its Get returned (a copy)
    draft,      \* the record it is about to store
    resp,       \* its answer
    since,      \* history: what others changed while it was served
    restarts    \* history: restarts so far

vars == <<now, tenants, rows, pc, req, existing, draft, resp, since, restarts>>

-----------------------------------------------------------------------------
(* Names of entities, and the history of changes.                          *)

Names == Kinds \X Tenants \X Ids

Stored(n) == Lookup(rows, n[1], n[2], n[3])
Name(c)   == <<req[c].kind, req[c].tenant, req[c].id>>

\* What a step does to the tables, read off the tables: the entities and
\* tenants it removes, the entities it adds or changes.
Changes ==
    {<<"removed", n>> : n \in {m \in Names : Stored(m) # None /\ Stored(m)' = None}}
      \cup
    {<<"written", n>> : n \in {m \in Names : Stored(m)' \notin {None, Stored(m)}}}
      \cup
    {<<"removed", <<"tenants", t, None>>>> :
        t \in {u \in Tenants : tenants[u] # None /\ tenants'[u] = None}}

\* The changes made by c's step join the history of every other request
\* that is being served.
Chronicle(c) ==
    since' = [d \in Clients |->
                IF d = c \/ pc[d] \in {"idle", "done"} THEN since[d]
                ELSE since[d] \cup Changes]

During(c, what, n) == <<what, n>> \in since[c]
Faulted(c) == During(c, "fault", Name(c))

-----------------------------------------------------------------------------
(* Steps the handlers are made of.                                         *)

Goto(c, step) == pc' = [pc EXCEPT ![c] = step] /\ UNCHANGED resp

Answer(c, code, body) ==
    /\ pc' = [pc EXCEPT ![c] = "done"]
    /\ resp' = [resp EXCEPT ![c] = [code |-> code, body |-> body]]

\* A fault the properties must notice: a POST whose store call fails is
\* answered like a PUT whose store call fails.
CreateErrorCode(c) ==
    CASE pc[c] \in {"account", "contact"} -> 400
      [] pc[c] \in {"scope", "load"}      -> 404
      [] OTHER                            -> 500

\* A handler does not look at the error a store call returns: the place of
\* the call alone decides the status.
ErrorCode(c) ==
    LET r == req[c]
    IN  CASE pc[c] \in {"account", "contact"}            -> 400
          [] pc[c] \in {"scope", "load"}                 -> 404
          [] pc[c] = "store" /\ r.op = "create"          -> 409
          [] pc[c] = "store" /\ r.op = "get"             -> 404
          [] pc[c] = "store" /\ r.op = "delete"
                            /\ r.kind # "tenants"        -> 404
          [] OTHER                                       -> 500

Refuse(c) == Answer(c, ErrorCode(c), {})

authorize(c) == ServiceToken => req[c].token

\* First step of a handler once the request is let through.
Entry(r) ==
    IF r.op \in {"create", "evaluate"} THEN "decode"
    ELSE IF r.op = "update" \/ (r.op = "delete" /\ r.kind = "tenants")
         THEN "load" ELSE "store"

\* The middleware of every tenant-scoped route.
tenantScoped(c) ==
    /\ pc[c] = "scope"
    /\ \/ ~authorize(c) /\ Answer(c, 401, {})
       \/ authorize(c) /\ tenants[req[c].tenant] = None /\ Refuse(c)
       \/ authorize(c) /\ tenants[req[c].tenant] # None /\ Goto(c, Entry(req[c]))
    /\ UNCHANGED <<now, tenants, rows, req, existing, draft, since, restarts>>

\* The handler of (op, kind) is running for c.
Serving(c, op, kind) ==
    /\ pc[c] \notin {"idle", "scope", "done"}
    /\ req[c].op = op /\ req[c].kind = kind

\* existing, err := Get(...); "not found" is the answer when it fails.
LoadExisting(c, next) ==
    /\ pc[c] = "load"
    /\ LET r == IF req[c].kind = "tenants" THEN tenants[req[c].tenant]
                                           ELSE Stored(Name(c))
       IN  IF r = None THEN Refuse(c) /\ UNCHANGED existing
           ELSE Goto(c, next) /\ existing' = [existing EXCEPT ![c] = r]
    /\ UNCHANGED <<now, tenants, rows, req, draft, since, restarts>>

\* readJSON, required fields, constructors: all of them answer 400.
Decode(c, next) ==
    /\ pc[c] = "decode"
    /\ IF req[c].ok THEN Goto(c, next) ELSE Answer(c, 400, {})
    /\ UNCHANGED <<now, tenants, rows, req, existing, draft, since, restarts>>

\* The Get of a record the body refers to; only its existence matters.
CheckReference(c, step, kind, id, next) ==
    /\ pc[c] = step
    /\ IF Lookup(rows, kind, req[c].tenant, id) = None
       THEN Refuse(c) ELSE Goto(c, next)
    /\ UNCHANGED <<now, tenants, rows, req, existing, draft, since, restarts>>

\* The record is complete; only the store call is left.
Build(c, r) ==
    /\ pc[c] = "build"
    /\ draft' = [draft EXCEPT ![c] = r]
    /\ Goto(c, "store")
    /\ UNCHANGED <<now, tenants, rows, req, existing, since, restarts>>

-----------------------------------------------------------------------------
(* What a handler builds.                                                  *)

\* NewTenant, and NewAccount .. NewProduct with the fields the handlers
\* assign after it: both time stamps come from one time.Now().
NewTenant(c) == [tenant |-> req[c].tenant, created |-> now, updated |-> now]

\* A fault the properties must notice: no default for a field left out.
NoDefault(c) ==
    [tenant |-> req[c].tenant, id |-> req[c].id,
     account |-> req[c].account, contact |-> req[c].contact,
     val |-> req[c].val, created |-> now, updated |-> now]

NewEntity(c) ==
    [tenant |-> req[c].tenant, id |-> req[c].id,
     account |-> req[c].account, contact |-> req[c].contact,
     val |-> IF req[c].val = None THEN Default ELSE req[c].val,
     created |-> now, updated |-> now]

\* Faults the properties must notice: CreatedAt is not carried over; it is
\* UpdatedAt that is carried over; fields left out go back to their default.
ForgetsCreatedAt(c) ==
    [NewEntity(c) EXCEPT
        !.val = IF req[c].val = None THEN existing[c].val ELSE req[c].val]
SwapsStamps(c) == [ForgetsCreatedAt(c) EXCEPT !.updated = existing[c].updated]
ForgetsOmitted(c) == [NewEntity(c) EXCEPT !.created = existing[c].created]

\* PUT of an account, contact, opportunity or product: a field left out
\* keeps the value read by LoadExisting, and so does CreatedAt.
Merged(c) ==
    [NewEntity(c) EXCEPT
        !.created = existing[c].created,
        !.val = IF req[c].val = None THEN existing[c].val ELSE req[c].val]

-----------------------------------------------------------------------------
(* The last store call.                                                    *)

\* A fault the properties must notice: an update that writes the row whether
\* or not it is there.
UpdateInserts(c) ==
    /\ req[c].op # "update"
    /\ IF req[c].op = "create" /\ req[c].kind # "tenants"
       THEN CreateRefused(tenants, rows, req[c].kind, req[c].tenant, req[c].id)
       ELSE IF req[c].kind = "tenants"
       THEN (req[c].op = "create") = (tenants[req[c].tenant] # None)
       ELSE Stored(Name(c)) = None

\* The call fails on its own account: name taken, row or tenant missing.
\* tenantStore.Delete fails in Postgres alone, which requires a changed row.
Refused(c) ==
    LET t == req[c].tenant
        tenantMissing == tenants[t] = None
    IN  CASE req[c].kind = "tenants" /\ req[c].op = "create" -> ~tenantMissing
          [] req[c].kind = "tenants" /\ req[c].op = "update" -> tenantMissing
          [] req[c].kind = "tenants" /\ req[c].op = "delete" ->
                Backend = "postgres" /\ tenantMissing
          [] req[c].kind # "tenants" /\ req[c].op = "create" ->
                CreateRefused(tenants, rows, req[c].kind, t, req[c].id)
          [] OTHER -> Stored(Name(c)) = None

\* What the call changes when it succeeds.
Effect(c) ==
    LET k == req[c].kind
        t == req[c].tenant
        i == req[c].id
    IN  IF k = "tenants"
        THEN IF req[c].op = "delete"
             THEN /\ tenants' = [tenants EXCEPT ![t] = None]
                  /\ rows' = AfterTenantDelete(rows, t)
             ELSE /\ tenants' = [tenants EXCEPT ![t] = draft[c]]
                  /\ rows' = rows
        ELSE /\ tenants' = tenants
             /\ rows' = IF req[c].op = "delete" THEN Remove(rows, k, t, i)
                        ELSE Put(rows, k, t, i, draft[c])

\* A fault the properties must notice: a handler whose store call is refused
\* starts over.
RetriesRefused(c, code, body) ==
    /\ pc[c] = "store"
    /\ IF Refused(c) THEN Goto(c, Entry(req[c])) /\ UNCHANGED <<tenants, rows>>
                     ELSE Answer(c, code, body) /\ Effect(c)
    /\ Chronicle(c)
    /\ UNCHANGED <<now, req, existing, draft, restarts>>

StoreWrite(c, code, body) ==
    /\ pc[c] = "store"
    /\ IF Refused(c) THEN Refuse(c) /\ UNCHANGED <<tenants, rows>>
                     ELSE Answer(c, code, body) /\ Effect(c)
    /\ Chronicle(c)
    /\ UNCHANGED <<now, req, existing, draft, restarts>>

StoreCreate(c) == StoreWrite(c, 201, {draft[c]})
StoreUpdate(c) == StoreWrite(c, 200, {draft[c]})
StoreDelete(c) == StoreWrite(c, 204, {})

\* Reads: one record (404 when there is none), or all that List returns.
StoreRead(c, found) ==
    /\ pc[c] = "store"
    /\ IF req[c].op = "get" /\ found = {} THEN Refuse(c) ELSE Answer(c, 200, found)
    /\ UNCHANGED <<now, tenants, rows, req, existing, draft, since, restarts>>

GetOne(c)  == StoreRead(c, {Stored(Name(c))} \ {None})
ListAll(c) == StoreRead(c, List(rows, req[c].kind, req[c].tenant))

-----------------------------------------------------------------------------
(* The handlers.                                                           *)

handleCreateTenant(c) ==
    /\ Serving(c, "create", "tenants")
    /\ Decode(c, "build") \/ Build(c, NewTenant(c)) \/ StoreCreate(c)

handleListTenants(c) ==
    /\ Serving(c, "list", "tenants")
    /\ StoreRead(c, {tenants[t] : t \in Tenants} \ {None})

handleGetTenant(c) ==
    /\ Serving(c, "get", "tenants")
    /\ StoreRead(c, {tenants[req[c].tenant]} \ {None})

handleUpdateTenant(c) ==
    /\ Serving(c, "update", "tenants")
    /\ \/ LoadExisting(c, "decode")
       \/ Decode(c, "build")
       \/ Build(c, [NewTenant(c) EXCEPT !.created = existing[c].created])
       \/ StoreUpdate(c)

handleDeleteTenant(c) ==
    /\ Serving(c, "delete", "tenants")
    /\ LoadExisting(c, "store") \/ StoreDelete(c)

handleCreateAccount(c) ==
    /\ Serving(c, "create", "accounts")
    /\ Decode(c, "build") \/ Build(c, NewEntity(c)) \/ StoreCreate(c)

handleListAccounts(c) == Serving(c, "list", "accounts") /\ ListAll(c)

handleGetAccount(c) == Serving(c, "get", "accounts") /\ GetOne(c)

handleUpdateAccount(c) ==
    /\ Serving(c, "update", "accounts")
    /\ \/ LoadExisting(c, "decode")
       \/ Decode(c, "build")
       \/ Build(c, Merged(c))
       \/ StoreUpdate(c)

handleDeleteAccount(c) == Serving(c, "delete", "accounts") /\ StoreDelete(c)

\* The account of a contact is optional, the account of an opportunity is
\* not; its contact is.
ContactRefs(c) == IF req[c].account = None THEN "build" ELSE "account"

handleCreateContact(c) ==
    /\ Serving(c, "create", "contacts")
    /\ \/ Decode(c, ContactRefs(c))
       \/ CheckReference(c, "account", "accounts", req[c].account, "build")
       \/ Build(c, NewEntity(c))
       \/ StoreCreate(c)

handleListContacts(c) == Serving(c, "list", "contacts") /\ ListAll(c)

handleGetContact(c) == Serving(c, "get", "contacts") /\ GetOne(c)

\* A fault the properties must notice: the account is not looked up again.
UpdateContactUnchecked(c) ==
    /\ Serving(c, "update", "contacts")
    /\ \/ LoadExisting(c, "decode")
       \/ Decode(c, "build")
       \/ Build(c, Merged(c))
       \/ StoreUpdate(c)

handleUpdateContact(c) ==
    /\ Serving(c, "update", "contacts")
    /\ \/ LoadExisting(c, "decode")
       \/ Decode(c, ContactRefs(c))
       \/ CheckReference(c, "account", "accounts", req[c].account, "build")
       \/ Build(c, Merged(c))
       \/ StoreUpdate(c)

handleDeleteContact(c) == Serving(c, "delete", "contacts") /\ StoreDelete(c)

\* A fault the properties must notice: the contact is not looked up.
AccountRefOnly(c) ==
    \/ Decode(c, "account")
    \/ CheckReference(c, "account", "accounts", req[c].account, "build")

\* The checks of an opportunity's references, after the body is decoded.
OpportunityRefs(c) ==
    \/ Decode(c, "account")
    \/ CheckReference(c, "account", "accounts", req[c].account,
                      IF req[c].contact = None THEN "build" ELSE "contact")
    \/ CheckReference(c, "contact", "contacts", req[c].contact, "build")

handleCreateOpportunity(c) ==
    /\ Serving(c, "create", "opportunities")
    /\ OpportunityRefs(c) \/ Build(c, NewEntity(c)) \/ StoreCreate(c)

handleListOpportunities(c) == Serving(c, "list", "opportunities") /\ ListAll(c)

handleGetOpportunity(c) == Serving(c, "get", "opportunities") /\ GetOne(c)

handleUpdateOpportunity(c) ==
    /\ Serving(c, "update", "opportunities")
    /\ \/ LoadExisting(c, "decode")
       \/ OpportunityRefs(c)
       \/ Build(c, Merged(c))
       \/ StoreUpdate(c)

handleDeleteOpportunity(c) ==
    Serving(c, "delete", "opportunities") /\ StoreDelete(c)

handleCreateProduct(c) ==
    /\ Serving(c, "create", "products")
    /\ Decode(c, "build") \/ Build(c, NewEntity(c)) \/ StoreCreate(c)

handleListProducts(c) == Serving(c, "list", "products") /\ ListAll(c)

handleGetProduct(c) == Serving(c, "get", "products") /\ GetOne(c)

handleUpdateProduct(c) ==
    /\ Serving(c, "update", "products")
    /\ \/ LoadExisting(c, "decode")
       \/ Decode(c, "build")
       \/ Build(c, Merged(c))
       \/ StoreUpdate(c)

handleDeleteProduct(c) == Serving(c, "delete", "products") /\ StoreDelete(c)

handleCreateRule(c) ==
    /\ Serving(c, "create", "rules")
    /\ Decode(c, "build") \/ Build(c, NewEntity(c)) \/ StoreCreate(c)

handleListRules(c) == Serving(c, "list", "rules") /\ ListAll(c)

handleGetRule(c) == Serving(c, "get", "rules") /\ GetOne(c)

\* A PUT of a rule replaces it; only CreatedAt is carried over.
handleUpdateRule(c) ==
    /\ Serving(c, "update", "rules")
    /\ \/ LoadExisting(c, "decode")
       \/ Decode(c, "build")
       \/ Build(c, [NewEntity(c) EXCEPT !.created = existing[c].created])
       \/ StoreUpdate(c)

handleDeleteRule(c) == Serving(c, "delete", "rules") /\ StoreDelete(c)

\* The rules handed to the engine, all in the answer; req.ok covers the
\* check of the body's tenant_id.  RuleEngine models the engine itself, which
\* may panic (Panics).
handleEvaluateOpportunityRules(c) ==
    /\ Serving(c, "evaluate", "rules")
    /\ Decode(c, "store") \/ StoreRead(c, ListActive(rows, req[c].tenant))

Handlers(c) ==
    \/ handleCreateTenant(c)      \/ handleListTenants(c)
    \/ handleGetTenant(c)         \/ handleUpdateTenant(c)
    \/ handleDeleteTenant(c)
    \/ handleCreateAccount(c)     \/ handleListAccounts(c)
    \/ handleGetAccount(c)        \/ handleUpdateAccount(c)
    \/ handleDeleteAccount(c)
    \/ handleCreateContact(c)     \/ handleListContacts(c)
    \/ handleGetContact(c)        \/ handleUpdateContact(c)
    \/ handleDeleteContact(c)
    \/ handleCreateOpportunity(c) \/ handleListOpportunities(c)
    \/ handleGetOpportunity(c)    \/ handleUpdateOpportunity(c)
    \/ handleDeleteOpportunity(c)
    \/ handleCreateProduct(c)     \/ handleListProducts(c)
    \/ handleGetProduct(c)        \/ handleUpdateProduct(c)
    \/ handleDeleteProduct(c)
    \/ handleCreateRule(c)        \/ handleListRules(c)
    \/ handleGetRule(c)           \/ handleUpdateRule(c)
    \/ handleDeleteRule(c)
    \/ handleEvaluateOpportunityRules(c)

-----------------------------------------------------------------------------
(* Around the handlers.                                                    *)

\* A client sends a request; the mux picks its handler.
Receive(c) ==
    /\ pc[c] = "idle"
    /\ \E r \in Requests :
          /\ req' = [req EXCEPT ![c] = r]
          /\ pc' = [pc EXCEPT ![c] =
                       IF r.kind = "tenants" THEN Entry(r) ELSE "scope"]
    /\ UNCHANGED <<now, tenants, rows, existing, draft, resp, since, restarts>>

\* The rules are read and one of them makes the engine panic: net/http recovers
\* and closes the connection, and no answer was written.
Panics(c) ==
    /\ Serving(c, "evaluate", "rules") /\ pc[c] = "store"
    /\ ListActive(rows, req[c].tenant) # {}

\* The answer reaches the client, or the connection is closed without one.
Deliver(c) ==
    /\ pc[c] = "done" \/ Panics(c)
    /\ pc' = [pc EXCEPT ![c] = "idle"]
    /\ req' = [req EXCEPT ![c] = None]
    /\ existing' = [existing EXCEPT ![c] = None]
    /\ draft' = [draft EXCEPT ![c] = None]
    /\ resp' = [resp EXCEPT ![c] = NoAnswer]
    /\ since' = [since EXCEPT ![c] = {}]
    /\ UNCHANGED <<now, tenants, rows, restarts>>

\* A Postgres call returns an error of its own (connection lost, request
\* context cancelled).  A write may have been committed all the same.
StoreFault(c) ==
    /\ StoreFaults
    /\ pc[c] \in {"scope", "load", "account", "contact", "store"}
    /\ pc[c] = "scope" => authorize(c)
    /\ Refuse(c)
    /\ UNCHANGED <<now, tenants, rows, req, existing, draft, restarts>>
    /\ since' = [since EXCEPT ![c] = @ \cup {<<"fault", Name(c)>>}]

AnswerLost(c) ==
    /\ StoreFaults
    /\ pc[c] = "store" /\ req[c].op \in {"create", "update", "delete"}
    /\ ~Refused(c)
    /\ Refuse(c) /\ Effect(c)
    /\ UNCHANGED <<now, req, existing, draft, restarts>>
    /\ since' = [d \in Clients |->
                   IF d = c THEN since[c] \cup {<<"fault", Name(c)>>}
                   ELSE IF pc[d] \in {"idle", "done"} THEN since[d]
                   ELSE since[d] \cup Changes]

Tick == now < MaxTime /\ now' = now + 1
        /\ UNCHANGED <<tenants, rows, pc, req, existing, draft, resp, since, restarts>>

\* The process stops at any moment and starts again: requests under way are
\* lost, and with them everything the memory stores held.
Restart ==
    /\ restarts < MaxRestarts
    /\ restarts' = restarts + 1
    /\ pc' = [c \in Clients |-> "idle"]
    /\ req' = [c \in Clients |-> None]
    /\ existing' = [c \in Clients |-> None]
    /\ draft' = [c \in Clients |-> None]
    /\ resp' = [c \in Clients |-> NoAnswer]
    /\ since' = [c \in Clients |-> {}]
    /\ IF Backend = "memory" THEN tenants' = EmptyTenants /\ rows' = EmptyRows
                             ELSE UNCHANGED <<tenants, rows>>
    /\ UNCHANGED now

-----------------------------------------------------------------------------

Init ==
    /\ now = 0
    /\ tenants = EmptyTenants /\ rows = EmptyRows
    /\ pc = [c \in Clients |-> "idle"]
    /\ req = [c \in Clients |-> None]
    /\ existing = [c \in Clients |-> None]
    /\ draft = [c \in Clients |-> None]
    /\ resp = [c \in Clients |-> NoAnswer]
    /\ since = [c \in Clients |-> {}]
    /\ restarts = 0

Serve(c) == tenantScoped(c) \/ Handlers(c) \/ Deliver(c)

Next ==
    \/ Tick
    \/ Restart
    \/ \E c \in Clients : \/ Receive(c) \/ Serve(c)
                          \/ StoreFault(c) \/ AnswerLost(c)

Spec == Init /\ [][Next]_vars

\* The Go scheduler runs every runnable goroutine, the RWMutex starves
\* nobody, and the database answers each statement one way or the other.
FairSpec == Spec /\ \A c \in Clients : WF_vars(Serve(c))
=============================================================================
