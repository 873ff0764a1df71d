----------------------------- MODULE CrmApiRaces -----------------------------
(***************************************************************************)
(* What a handler has found is still there, or another request has taken   *)
(* it away in the meantime: the races of the API, and nothing but races,   *)
(* make an answer of 500, a reference that dangles, a stamp that goes back *)
(* or a field that is lost.                                                *)
(*                                                                         *)
(* Theorems for any number of clients, tenants and ids, and for both       *)
(* stores.                                                                 *)
(***************************************************************************)
EXTENDS CrmApiSafetyProofs

Busy(c) == pc[c] \notin {"idle", "done"}

\* What there is under the name of an entity or a tenant.
Found(n) == IF n[1] = "tenants" THEN tenants[n[2]] ELSE Stored(n)

StillThere(c, n) == Found(n) # None \/ During(c, "removed", n)

Unchanged(c) == Stored(Name(c)) = existing[c] \/ Overlapped(c, Name(c))

Account(c) == <<"accounts", req[c].tenant, req[c].account>>
Contact(c) == <<"contacts", req[c].tenant, req[c].contact>>

\* The handler has read the record it changes.
Loaded(c) ==
    \/ pc[c] \in {"decode", "account", "contact", "build", "store"} /\ req[c].op = "update"
    \/ pc[c] = "store" /\ req[c].op = "delete" /\ req[c].kind = "tenants"

TargetKnown(c) ==
    Loaded(c) =>
       /\ StillThere(c, Name(c))
       /\ req[c].kind # "tenants" => existing[c] # None /\ Unchanged(c)

ReferencesKnown(c) ==
    pc[c] \in {"contact", "build", "store"} /\ req[c].op \in {"create", "update"} =>
       /\ req[c].account # None => StillThere(c, Account(c))
       /\ pc[c] # "contact" /\ req[c].contact # None => StillThere(c, Contact(c))

\* What the draft has from the request and from the record read.
DraftKnown(c) ==
    /\ Busy(c) /\ req[c].op \notin {"create", "update"} => draft[c] = None
    /\ pc[c] = "store" /\ req[c].kind # "tenants" /\ req[c].op \in {"create", "update"} =>
          draft[c].account = req[c].account /\ draft[c].contact = req[c].contact
    /\ pc[c] = "store" /\ req[c].kind # "tenants" /\ req[c].op = "update" =>
          /\ draft[c].created = existing[c].created
          /\ existing[c].updated <= draft[c].updated
          /\ req[c].val = None /\ req[c].kind # "rules" => draft[c].val = existing[c].val

ErrorKnown(c) ==
    pc[c] = "done" /\ resp[c].code = 500 =>
       \/ Faulted(c)
       \/ req[c].op \in {"update", "delete"} /\ During(c, "removed", Name(c))

Known(c) == TargetKnown(c) /\ ReferencesKnown(c) /\ DraftKnown(c) /\ ErrorKnown(c)

IsHistory == since = [c \in Clients |-> since[c]]

(***************************************************************************)
(* The invariant.  None of the four properties is inductive: each speaks   *)
(* of one step of a handler, and needs what the handler has found at the   *)
(* steps before, minus what the history says others have taken away.       *)
(***************************************************************************)
RaceInv ==
    /\ IsHistory
    /\ \A c \in Clients : Known(c)

-----------------------------------------------------------------------------
(* The handlers, where they differ in more than their steps.               *)

\* What a handler has made sure of when it leaves a step.
LEMMA StepsTaken ==
    ASSUME TypeInv, NEW c \in Clients, Handlers(c)
    PROVE  /\ pc[c] = "load" /\ req[c].op = "delete" => req[c].kind = "tenants"
           /\ pc[c] = "decode" /\ pc'[c] = "build" =>
                 /\ req[c].kind # "opportunities"
                 /\ req[c].kind = "contacts" => req[c].account = None
           /\ pc[c] = "account" /\ pc'[c] # "done" =>
                 /\ Lookup(rows, "accounts", req[c].tenant, req[c].account) # None
                 /\ pc'[c] = "build" /\ req[c].kind = "opportunities"
                       => req[c].contact = None
           /\ pc[c] = "contact" /\ pc'[c] # "done" =>
                 Lookup(rows, "contacts", req[c].tenant, req[c].contact) # None
           /\ pc[c] = "build" /\ req[c].op = "update"
                 /\ req[c].kind \notin {"tenants", "rules"} => Build(c, Merged(c))
           /\ pc[c] = "store" /\ req[c].op \in Writes => WriteStep(c)
<1> USE DEF Serving, Decode, LoadExisting, CheckReference, Build, StoreCreate,
            StoreUpdate, StoreDelete, StoreWrite, StoreRead, GetOne, ListAll,
            Goto, Answer, Refuse, TypeInv, TypeOK, Writes, WriteStep
<1>1. CASE handleCreateTenant(c) \/ handleListTenants(c) \/ handleGetTenant(c)
  BY <1>1 DEF handleCreateTenant, handleListTenants, handleGetTenant
<1>2. CASE handleUpdateTenant(c) \/ handleDeleteTenant(c)
  BY <1>2 DEF handleUpdateTenant, handleDeleteTenant
<1>3. CASE handleListAccounts(c) \/ handleListContacts(c) \/ handleListOpportunities(c)
           \/ handleListProducts(c) \/ handleListRules(c)
  BY <1>3 DEF handleListAccounts, handleListContacts, handleListOpportunities,
              handleListProducts, handleListRules
<1>4. CASE handleGetAccount(c) \/ handleGetContact(c) \/ handleGetOpportunity(c)
           \/ handleGetProduct(c) \/ handleGetRule(c)
  BY <1>4 DEF handleGetAccount, handleGetContact, handleGetOpportunity,
              handleGetProduct, handleGetRule
<1>5. CASE handleDeleteAccount(c) \/ handleDeleteContact(c) \/ handleDeleteOpportunity(c)
           \/ handleDeleteProduct(c) \/ handleDeleteRule(c)
  BY <1>5 DEF handleDeleteAccount, handleDeleteContact, handleDeleteOpportunity,
              handleDeleteProduct, handleDeleteRule
<1>6. CASE handleCreateAccount(c) \/ handleCreateProduct(c) \/ handleCreateRule(c)
  BY <1>6 DEF handleCreateAccount, handleCreateProduct, handleCreateRule
<1>7. CASE handleUpdateAccount(c)
  BY <1>7 DEF handleUpdateAccount
<1>8. CASE handleUpdateProduct(c)
  BY <1>8 DEF handleUpdateProduct
<1>9. CASE handleUpdateRule(c)
  BY <1>9 DEF handleUpdateRule
<1>10. CASE handleCreateContact(c)
  BY <1>10 DEF handleCreateContact, ContactRefs
<1>11. CASE handleUpdateContact(c)
  BY <1>11 DEF handleUpdateContact, ContactRefs
<1>12. CASE handleCreateOpportunity(c)
  BY <1>12 DEF handleCreateOpportunity, OpportunityRefs
<1>13. CASE handleUpdateOpportunity(c)
  BY <1>13 DEF handleUpdateOpportunity, OpportunityRefs
<1>14. CASE handleEvaluateOpportunityRules(c)
  BY <1>14 DEF handleEvaluateOpportunityRules
<1> QED
  BY <1>1, <1>2, <1>3, <1>4, <1>5, <1>6, <1>7, <1>8, <1>9, <1>10, <1>11, <1>12, <1>13,
     <1>14 DEF Handlers

-----------------------------------------------------------------------------
(* What a step of one client leaves of the others.                         *)

\* The changes of this step are on record for d.
Recorded(d) ==
    /\ since[d] \subseteq since'[d]
    /\ \A n \in Names :
          /\ Stored(n) # None /\ Stored(n)' = None => <<"removed", n>> \in since'[d]
          /\ Stored(n)' \notin {None, Stored(n)} => <<"written", n>> \in since'[d]
    /\ \A t \in Tenants : tenants[t] # None /\ tenants'[t] = None =>
          <<"removed", <<"tenants", t, None>>>> \in since'[d]

Targets == Names \cup {<<"tenants", t, None>> : t \in Tenants}

LEMMA NoTenantKind == \A n \in Names : n[1] # "tenants"
BY StoresAssumption DEF Names, AllKinds

\* The names a request is about.
LEMMA NameType ==
    ASSUME TypeInv, NEW c \in Clients, pc[c] # "idle"
    PROVE  /\ req[c].kind = "tenants" => Name(c) = <<"tenants", req[c].tenant, None>>
           /\ req[c].kind # "tenants" /\ req[c].op \in Writes => Name(c) \in Names
           /\ req[c].account # None => Account(c) \in Names
           /\ req[c].contact # None => Contact(c) \in Names
           /\ req[c].tenant \in Tenants
           /\ req[c].op \in Writes => Name(c) \in Targets
<1>1. req[c] \in Requests /\ req[c] \in Request /\ req[c].tenant \in Tenants
  BY RequestType DEF TypeInv, HandlerOK, HandlerFits
<1>2. /\ req[c].kind = "tenants" => req[c].id = None
      /\ req[c].account # None => "accounts" \in Kinds
      /\ req[c].contact # None => "contacts" \in Kinds
  BY <1>1, RequestsAssumption
<1>3. req[c].account \in Ids \cup {None} /\ req[c].contact \in Ids \cup {None}
  BY <1>1 DEF Request
<1> QED
  BY <1>1, <1>2, <1>3, RequestType DEF Name, Names, Account, Contact, Writes, Targets

\* What was there is there, or its removal is on record.
LEMMA StaysThere ==
    ASSUME NEW d \in Clients, Recorded(d)
    PROVE  /\ \A n \in Targets : StillThere(d, n) => StillThere(d, n)'
           /\ \A n \in Names : \A r : (Stored(n) = r \/ Overlapped(d, n))
                                         => (Stored(n)' = r \/ Overlapped(d, n)')
<1>1. \A n \in Targets : Found(n) # None => Found(n)' # None \/ During(d, "removed", n)'
  <2>1. ASSUME NEW n \in Names
        PROVE  Found(n) # None => Found(n)' # None \/ During(d, "removed", n)'
    BY NoTenantKind DEF Found, Recorded, During
  <2>2. ASSUME NEW t \in Tenants
        PROVE  LET n == <<"tenants", t, None>>
               IN  Found(n) # None => Found(n)' # None \/ During(d, "removed", n)'
    BY DEF Found, Recorded, During
  <2> QED
    BY <2>1, <2>2 DEF Targets
<1>2. \A n, what : During(d, what, n) => During(d, what, n)'
  BY DEF Recorded, During
<1>3. \A n \in Names : Stored(n)' = Stored(n) \/ Overlapped(d, n)'
  BY DEF Recorded, Overlapped, During
<1> QED
  BY <1>1, <1>2, <1>3 DEF StillThere, Overlapped

\* A step that does not touch d's handler, and is on its record if d is served.
LEMMA OthersKnown ==
    ASSUME TypeInv, NEW d \in Clients, Known(d),
           pc'[d] = pc[d], req'[d] = req[d], resp'[d] = resp[d],
           existing'[d] = existing[d], draft'[d] = draft[d],
           IF Busy(d) THEN Recorded(d) ELSE since'[d] = since[d]
    PROVE  Known(d)'
<1>1. CASE ~Busy(d)
  BY <1>1 DEF Busy, Known, TargetKnown, Loaded, ReferencesKnown, DraftKnown, ErrorKnown,
              Faulted, During, Name
<1>2. CASE Busy(d)
  <2>1. /\ Name(d)' = Name(d) /\ Account(d)' = Account(d) /\ Contact(d)' = Contact(d)
        /\ Loaded(d)' = Loaded(d) /\ pc[d] \notin {"idle", "done"}
    BY <1>2 DEF Name, Account, Contact, Loaded, Busy
  <2>2. Loaded(d) => req[d].op \in Writes
    BY DEF Loaded, Writes
  <2>3. TargetKnown(d)'
    <3> SUFFICES ASSUME Loaded(d)
                 PROVE  /\ StillThere(d, Name(d))'
                        /\ req[d].kind # "tenants" => existing[d] # None /\ Unchanged(d)'
      BY <2>1 DEF TargetKnown
    <3>1. StillThere(d, Name(d))'
      BY <1>2, <2>1, <2>2, NameType, StaysThere DEF Known, TargetKnown
    <3>2. ASSUME req[d].kind # "tenants"
          PROVE  existing[d] # None /\ Unchanged(d)'
      BY <1>2, <2>1, <2>2, <3>2, NameType, StaysThere DEF Known, TargetKnown, Unchanged
    <3> QED
      BY <3>1, <3>2
  <2>4. ReferencesKnown(d)'
    <3>1. req[d].account # None /\ StillThere(d, Account(d)) => StillThere(d, Account(d))'
      BY <1>2, <2>1, NameType, StaysThere DEF Targets
    <3>2. req[d].contact # None /\ StillThere(d, Contact(d)) => StillThere(d, Contact(d))'
      BY <1>2, <2>1, NameType, StaysThere DEF Targets
    <3> QED
      BY <2>1, <3>1, <3>2 DEF Known, ReferencesKnown
  <2>5. DraftKnown(d)' /\ ErrorKnown(d)'
    BY <2>1 DEF Known, DraftKnown, ErrorKnown, Busy
  <2> QED
    BY <2>3, <2>4, <2>5 DEF Known
<1> QED
  BY <1>1, <1>2

-----------------------------------------------------------------------------
(* The record of a step.                                                   *)
\* A step that changes no table needs no record.
LEMMA NothingToRecord ==
    ASSUME NEW d \in Clients, UNCHANGED <<tenants, rows>>, since'[d] = since[d]
    PROVE  Recorded(d)
BY DEF Recorded, Stored, Lookup, Names

LEMMA ChangesRecorded ==
    ASSUME NEW d \in Clients, since'[d] = since[d] \cup Changes
    PROVE  Recorded(d)
BY DEF Recorded, Changes

\* Every step of c leaves IsHistory, and is on record for the others.
LEMMA StepRecorded ==
    ASSUME TypeInv, IsHistory, NEW c \in Clients,
           Handlers(c) \/ tenantScoped(c) \/ Receive(c) \/ Deliver(c)
              \/ StoreFault(c) \/ AnswerLost(c)
    PROVE  /\ IsHistory'
           /\ \A d \in Clients \ {c} :
                 IF Busy(d) THEN Recorded(d) ELSE since'[d] = since[d]
<1>1. CASE WriteStep(c) \/ AnswerLost(c)
  <2>1. /\ IsHistory'
        /\ \A d \in Clients \ {c} :
              since'[d] = IF Busy(d) THEN since[d] \cup Changes ELSE since[d]
    BY <1>1 DEF WriteStep, StoreWrite, Chronicle, AnswerLost, IsHistory, Busy
  <2> QED
    BY <2>1, ChangesRecorded
<1>2. CASE \/ LoadStep(c) \/ DecodeStep(c) \/ ReferenceStep(c) \/ BuildStep(c) \/ ReadStep(c)
           \/ tenantScoped(c) \/ Receive(c) \/ Deliver(c) \/ StoreFault(c)
  <2>1. /\ UNCHANGED <<tenants, rows>>
        /\ IsHistory' /\ \A d \in Clients \ {c} : since'[d] = since[d]
    BY <1>2 DEF LoadStep, LoadExisting, DecodeStep, Decode, ReferenceStep, CheckReference,
                BuildStep, Build, ReadStep, StoreRead, tenantScoped, Receive, Deliver,
                StoreFault, IsHistory
  <2> QED
    BY <2>1, NothingToRecord
<1> QED
  BY <1>1, <1>2, ServeCases DEF HandlerStep

-----------------------------------------------------------------------------
(* What a step of c leaves of c's own handler.                             *)

\* What a refused call is answered with, by its place.
LEMMA RefusalCodes ==
    ASSUME NEW c \in Clients
    PROVE  /\ pc[c] = "scope" => ErrorCode(c) = 404
           /\ pc[c] = "load" => ErrorCode(c) = 404
           /\ pc[c] \in {"account", "contact"} => ErrorCode(c) = 400
           /\ pc[c] = "store" /\ req[c].op = "get" => ErrorCode(c) = 404
           /\ pc[c] = "store" /\ req[c].op = "create" => ErrorCode(c) = 409
           /\ pc[c] = "store" /\ req[c].op = "delete" /\ req[c].kind # "tenants"
                 => ErrorCode(c) = 404
           /\ ErrorCode(c) \in {400, 404, 409, 500}
<1>1. pc[c] = "scope" => ErrorCode(c) = 404
  BY DEF ErrorCode
<1>2. pc[c] = "load" => ErrorCode(c) = 404
  BY DEF ErrorCode
<1>3. pc[c] \in {"account", "contact"} => ErrorCode(c) = 400
  BY DEF ErrorCode
<1>4. pc[c] = "store" /\ req[c].op = "get" => ErrorCode(c) = 404
  BY DEF ErrorCode
<1>5. pc[c] = "store" /\ req[c].op = "create" => ErrorCode(c) = 409
  BY DEF ErrorCode
<1>6. pc[c] = "store" /\ req[c].op = "delete" /\ req[c].kind # "tenants"
         => ErrorCode(c) = 404
  BY DEF ErrorCode
<1>7. ErrorCode(c) \in {400, 404, 409, 500}
  BY DEF ErrorCode
<1> QED
  BY <1>1, <1>2, <1>3, <1>4, <1>5, <1>6, <1>7

\* A refused call is answered 500 only by a PUT, or the delete of a tenant,
\* whose target has been removed since it was found.
LEMMA RefusalKnown ==
    ASSUME TypeInv, RaceInv, NEW c \in Clients, pc[c] = "store", req[c].op \in Writes,
           Refused(c), ErrorCode(c) = 500
    PROVE  req[c].op \in {"update", "delete"} /\ During(c, "removed", Name(c))
<1>1. req[c].op = "update" \/ (req[c].op = "delete" /\ req[c].kind = "tenants")
  BY RefusalCodes DEF Writes
<1>2. StillThere(c, Name(c))
  BY <1>1 DEF RaceInv, Known, TargetKnown, Loaded
<1>3. Found(Name(c)) = None
  BY <1>1, NameType, NoTenantKind DEF Refused, Found, Name, Writes
<1> QED
  BY <1>1, <1>2, <1>3 DEF StillThere

LEMMA WriteKnown ==
    ASSUME TypeInv, RaceInv, NEW c \in Clients, WriteStep(c)
    PROVE  Known(c)'
<1>0. PICK code \in {200, 201, 204}, body \in {{}, {draft[c]}} :
         StoreWrite(c, code, body) /\ req[c].op \in Writes
  BY DEF WriteStep, Writes
<1>1. /\ pc[c] = "store" /\ req[c].op \in Writes /\ UNCHANGED <<req, existing, draft>>
      /\ pc'[c] = "done" /\ since'[c] = since[c]
      /\ resp'[c].code = code \/ (Refused(c) /\ resp'[c].code = ErrorCode(c))
  <2>1. \/ Answer(c, code, body)
        \/ Refused(c) /\ Answer(c, ErrorCode(c), {})
    BY <1>0 DEF StoreWrite, Refuse
  <2>2. pc \in [Clients -> Steps] /\ resp \in [Clients -> Answers \cup {NoAnswer}]
    BY DEF TypeInv, TypeOK
  <2>3. /\ pc'[c] = "done"
        /\ resp'[c].code = code \/ (Refused(c) /\ resp'[c].code = ErrorCode(c))
    BY <2>1, <2>2 DEF Answer
  <2> QED
    BY <1>0, <2>3 DEF StoreWrite, Chronicle
<1>2. ErrorKnown(c)'
  BY <1>1, RefusalKnown DEF ErrorKnown, During, Name
<1> QED
  BY <1>1, <1>2 DEF Known, TargetKnown, Loaded, ReferencesKnown, DraftKnown, Busy

\* A handler that answers at any other step answers no 500.
LEMMA DoneKnown ==
    ASSUME NEW c \in Clients, pc'[c] = "done", resp'[c].code # 500
    PROVE  Known(c)'
BY DEF Known, TargetKnown, Loaded, ReferencesKnown, DraftKnown, ErrorKnown, Busy

LEMMA FaultKnown ==
    ASSUME TypeInv, IsHistory, NEW c \in Clients, StoreFault(c) \/ AnswerLost(c)
    PROVE  Known(c)'
<1>1. /\ pc'[c] = "done" /\ req' = req
      /\ <<"fault", Name(c)>> \in since'[c]
  BY DEF StoreFault, AnswerLost, Refuse, Answer, IsHistory, TypeInv, TypeOK
<1>2. Faulted(c)'
  BY <1>1 DEF Faulted, During, Name
<1> QED
  BY <1>1, <1>2 DEF Known, TargetKnown, Loaded, ReferencesKnown, DraftKnown, ErrorKnown, Busy

\* The middleware and the mux leave a handler where it knows nothing yet.
LEMMA EnvelopeKnown ==
    ASSUME TypeInv, IsolationInv, RaceInv, NEW c \in Clients,
           tenantScoped(c) \/ Receive(c) \/ Deliver(c)
    PROVE  Known(c)'
<1>1. CASE tenantScoped(c)
  <2>1. /\ pc[c] = "scope" /\ UNCHANGED <<req, draft>>
        /\ \/ pc'[c] = "done" /\ resp'[c].code \in {401, 404}
           \/ pc'[c] = Entry(req[c])
    <3>1. pc[c] = "scope" /\ ErrorCode(c) = 404
      BY <1>1, RefusalCodes DEF tenantScoped
    <3>2. /\ UNCHANGED <<req, draft>>
          /\ Answer(c, 401, {}) \/ Answer(c, ErrorCode(c), {}) \/ Goto(c, Entry(req[c]))
      BY <1>1 DEF tenantScoped, Refuse
    <3>3. pc \in [Clients -> Steps] /\ resp \in [Clients -> Answers \cup {NoAnswer}]
      BY DEF TypeInv, TypeOK
    <3> QED
      BY <3>1, <3>2, <3>3 DEF Answer, Goto
  <2>2. CASE pc'[c] = "done" /\ resp'[c].code \in {401, 404}
    BY <2>2, DoneKnown
  <2>3. CASE pc'[c] = Entry(req[c])
    BY <2>1, <2>3 DEF Entry, RaceInv, Known, TargetKnown, Loaded, ReferencesKnown,
                      DraftKnown, ErrorKnown, Busy
  <2> QED
    BY <2>1, <2>2, <2>3
<1>2. CASE Receive(c)
  <2>1. /\ pc[c] = "idle" /\ UNCHANGED draft
        /\ pc'[c] = "scope" \/ pc'[c] = Entry(req'[c])
    BY <1>2 DEF Receive, TypeInv, TypeOK
  <2>2. draft[c] = None
    BY <2>1 DEF IsolationInv, HandlerOwn
  <2>3. pc'[c] = "store" /\ req'[c].op \in {"create", "update", "delete"}
           => req'[c].kind # "tenants" /\ req'[c].op = "delete"
    BY <2>1 DEF Entry
  <2> QED
    BY <2>1, <2>2, <2>3 DEF Entry, Known, TargetKnown, Loaded, ReferencesKnown,
                            DraftKnown, ErrorKnown, Busy
<1>3. CASE Deliver(c)
  BY <1>3 DEF Deliver, TypeInv, TypeOK, Known, TargetKnown, Loaded, ReferencesKnown,
              DraftKnown, ErrorKnown, Busy
<1> QED
  BY <1>1, <1>2, <1>3

\* A read that succeeds has found what is there, and nothing has changed yet.
LEMMA LoadKnown ==
    ASSUME TypeInv, RaceInv, NEW c \in Clients, Handlers(c), LoadStep(c)
    PROVE  Known(c)'
<1>1. PICK next \in {"decode", "store"} :
          /\ LoadExisting(c, next)
          /\ req[c].op = IF next = "decode" THEN "update" ELSE "delete"
  BY DEF LoadStep
<1>2. /\ pc[c] = "load" /\ ErrorCode(c) = 404
      /\ UNCHANGED <<tenants, rows, req, draft, since>>
  BY <1>1, RefusalCodes DEF LoadExisting
<1>3. \/ pc'[c] = "done" /\ resp'[c].code = 404
      \/ /\ pc'[c] = next /\ existing'[c] = Found(Name(c)) /\ existing'[c] # None
  <2>1. /\ pc \in [Clients -> Steps] /\ resp \in [Clients -> Answers \cup {NoAnswer}]
        /\ existing \in [Clients -> Record \cup TenantRecord \cup {None}]
    BY DEF TypeInv, TypeOK
  <2>2. Found(Name(c)) = IF req[c].kind = "tenants" THEN tenants[req[c].tenant]
                                                    ELSE Stored(Name(c))
    BY DEF Found, Name
  <2>3. \/ Answer(c, 404, {})
        \/ /\ Found(Name(c)) # None /\ Goto(c, next)
           /\ existing' = [existing EXCEPT ![c] = Found(Name(c))]
    BY <1>1, <1>2, <2>2 DEF LoadExisting, Refuse
  <2> QED
    BY <2>1, <2>3 DEF Answer, Goto
<1>4. CASE pc'[c] = "done" /\ resp'[c].code = 404
  BY <1>4, DoneKnown
<1>5. CASE pc'[c] = next /\ existing'[c] = Found(Name(c)) /\ existing'[c] # None
  <2>1. /\ Found(Name(c))' = existing'[c]
        /\ req[c].kind # "tenants" => Stored(Name(c))' = existing'[c]
    BY <1>2, <1>5 DEF Found, Name, Stored, Lookup
  <2>2. TargetKnown(c)'
    BY <1>2, <1>5, <2>1 DEF TargetKnown, StillThere, Unchanged
  <2>3. next = "store" => req[c].op = "delete"
    BY <1>1
  <2>4. req[c].op \notin {"create", "update"} => draft[c] = None
    BY <1>2 DEF RaceInv, Known, DraftKnown, Busy
  <2> QED
    BY <1>2, <1>5, <2>2, <2>3, <2>4 DEF Known, ReferencesKnown, DraftKnown, ErrorKnown
<1> QED
  BY <1>3, <1>4, <1>5

\* A body that refers to nothing goes on to the record, one that refers to an
\* account to its check.
LEMMA DecodeKnown ==
    ASSUME TypeInv, RaceInv, NEW c \in Clients, Handlers(c), DecodeStep(c)
    PROVE  Known(c)'
<1>1. /\ pc[c] = "decode" /\ UNCHANGED <<tenants, rows, req, existing, draft, since>>
      /\ \/ pc'[c] = "done" /\ resp'[c].code = 400
         \/ pc'[c] \in {"build", "account"}
         \/ pc'[c] = "store" /\ req[c].op = "evaluate"
  BY DEF DecodeStep, Decode, Goto, Answer, TypeInv, TypeOK
<1>2. CASE pc'[c] = "done" /\ resp'[c].code = 400
  BY <1>2, DoneKnown
<1>3. CASE pc'[c] \in {"build", "account"} \/ (pc'[c] = "store" /\ req[c].op = "evaluate")
  <2>1. TargetKnown(c)'
    <3>1. Loaded(c)' => Loaded(c)
      BY <1>1, <1>3 DEF Loaded
    <3>2. StillThere(c, Name(c))' = StillThere(c, Name(c)) /\ Unchanged(c)' = Unchanged(c)
      BY <1>1 DEF StillThere, Unchanged, Found, Name, Stored, Lookup, During, Overlapped
    <3> QED
      BY <1>1, <3>1, <3>2 DEF RaceInv, Known, TargetKnown
  <2>2. pc'[c] = "build" => req[c].account = None /\ req[c].contact = None
    <3>1. req[c] \in Requests
      BY <1>1 DEF TypeInv, HandlerOK, HandlerFits
    <3>2. pc'[c] = "build" =>
             /\ req[c].kind # "opportunities"
             /\ req[c].kind = "contacts" => req[c].account = None
      BY <1>1, StepsTaken
    <3> QED
      BY <3>1, <3>2, RequestsAssumption
  <2>3. ReferencesKnown(c)'
    BY <1>1, <1>3, <2>2 DEF ReferencesKnown
  <2>4. DraftKnown(c)'
    BY <1>1, <1>3 DEF RaceInv, Known, DraftKnown, Busy
  <2> QED
    BY <1>3, <2>1, <2>3, <2>4 DEF Known, ErrorKnown
<1> QED
  BY <1>1, <1>2, <1>3

\* A reference that is found is there, and nothing has changed yet.
LEMMA ReferenceKnown ==
    ASSUME TypeInv, RaceInv, NEW c \in Clients, Handlers(c), ReferenceStep(c)
    PROVE  Known(c)'
<1>1. /\ pc[c] \in {"account", "contact"}
      /\ UNCHANGED <<tenants, rows, req, existing, draft, since>>
      /\ \/ pc'[c] = "done" /\ resp'[c].code = 400
         \/ pc'[c] \in {"contact", "build"}
  <2>1. /\ pc[c] \in {"account", "contact"}
        /\ UNCHANGED <<tenants, rows, req, existing, draft, since>>
        /\ Answer(c, ErrorCode(c), {}) \/ Goto(c, "contact") \/ Goto(c, "build")
    BY DEF ReferenceStep, CheckReference, Refuse
  <2>2. pc \in [Clients -> Steps] /\ resp \in [Clients -> Answers \cup {NoAnswer}]
    BY DEF TypeInv, TypeOK
  <2> QED
    BY <2>1, <2>2, RefusalCodes DEF Answer, Goto
<1>2. CASE pc'[c] = "done" /\ resp'[c].code = 400
  BY <1>2, DoneKnown
<1>3. CASE pc'[c] \in {"contact", "build"}
  <2>1. TargetKnown(c)'
    <3>1. Loaded(c)' => Loaded(c)
      BY <1>1, <1>3 DEF Loaded
    <3>2. StillThere(c, Name(c))' = StillThere(c, Name(c)) /\ Unchanged(c)' = Unchanged(c)
      BY <1>1 DEF StillThere, Unchanged, Found, Name, Stored, Lookup, During, Overlapped
    <3> QED
      BY <1>1, <3>1, <3>2 DEF RaceInv, Known, TargetKnown
  <2>2. ReferencesKnown(c)'
    <3>1. /\ StillThere(c, Account(c))' = StillThere(c, Account(c))
          /\ StillThere(c, Contact(c))' = StillThere(c, Contact(c))
      BY <1>1 DEF StillThere, Account, Contact, Found, Stored, Lookup, During
    <3>2. /\ Found(Account(c)) = Lookup(rows, "accounts", req[c].tenant, req[c].account)
          /\ Found(Contact(c)) = Lookup(rows, "contacts", req[c].tenant, req[c].contact)
      BY DEF Found, Account, Contact, Stored
    <3>3. CASE pc[c] = "account"
      <4>1. StillThere(c, Account(c))
        BY <1>3, <3>2, <3>3, StepsTaken DEF StillThere
      <4>2. pc'[c] = "build" => req[c].contact = None
        <5>1. req[c] \in Requests
          BY <3>3 DEF TypeInv, HandlerOK, HandlerFits
        <5>2. pc'[c] = "build" /\ req[c].kind = "opportunities" => req[c].contact = None
          BY <1>3, <3>3, StepsTaken
        <5> QED
          BY <5>1, <5>2, RequestsAssumption
      <4> QED
        BY <1>1, <1>3, <3>1, <4>1, <4>2 DEF ReferencesKnown
    <3>4. CASE pc[c] = "contact"
      <4>1. StillThere(c, Contact(c))
        BY <1>3, <3>2, <3>4, StepsTaken DEF StillThere
      <4> QED
        BY <1>1, <1>3, <3>1, <3>4, <4>1 DEF RaceInv, Known, ReferencesKnown
    <3> QED
      BY <1>1, <3>3, <3>4
  <2>3. DraftKnown(c)'
    BY <1>1, <1>3 DEF RaceInv, Known, DraftKnown, Busy
  <2> QED
    BY <1>3, <2>1, <2>2, <2>3 DEF Known, ErrorKnown
<1> QED
  BY <1>1, <1>2, <1>3

\* The record is made of the request and of the record read.
LEMMA BuildKnown ==
    ASSUME TypeInv, StampsOrdered, RaceInv, NEW c \in Clients, Handlers(c), BuildStep(c)
    PROVE  Known(c)'
<1> DEFINE Renewed == [NewEntity(c) EXCEPT !.created = existing[c].created]
<1>1. PICK r : /\ Build(c, r) /\ req[c].op \in {"create", "update"}
               /\ req[c].kind # "tenants" =>
                     \/ req[c].op = "create" /\ r = NewEntity(c)
                     \/ req[c].op = "update" /\ r \in {Merged(c), Renewed}
  BY DEF BuildStep
<1>2. /\ pc[c] = "build" /\ pc'[c] = "store" /\ draft'[c] = r
      /\ UNCHANGED <<tenants, rows, req, existing, since>>
  BY <1>1 DEF Build, Goto, TypeInv, TypeOK
<1>3. TargetKnown(c)'
  <2>1. Loaded(c)' => Loaded(c)
    BY <1>1, <1>2 DEF Loaded
  <2>2. StillThere(c, Name(c))' = StillThere(c, Name(c)) /\ Unchanged(c)' = Unchanged(c)
    BY <1>2 DEF StillThere, Unchanged, Found, Name, Stored, Lookup, During, Overlapped
  <2> QED
    BY <1>2, <2>1, <2>2 DEF RaceInv, Known, TargetKnown
<1>4. ReferencesKnown(c)'
  <2>1. /\ StillThere(c, Account(c))' = StillThere(c, Account(c))
        /\ StillThere(c, Contact(c))' = StillThere(c, Contact(c))
    BY <1>2 DEF StillThere, Account, Contact, Found, Stored, Lookup, During
  <2> QED
    BY <1>2, <2>1 DEF RaceInv, Known, ReferencesKnown
<1>5. DraftKnown(c)'
  <2>1. req[c].kind # "tenants" =>
           r.account = req[c].account /\ r.contact = req[c].contact /\ r.updated = now
    <3>1. /\ NewEntity(c).account = req[c].account /\ NewEntity(c).contact = req[c].contact
          /\ NewEntity(c).updated = now
      BY DEF NewEntity
    <3>2. /\ Merged(c).account = req[c].account /\ Merged(c).contact = req[c].contact
          /\ Merged(c).updated = now
      BY DEF NewEntity, Merged
    <3>3. /\ Renewed.account = req[c].account /\ Renewed.contact = req[c].contact
          /\ Renewed.updated = now
      BY DEF NewEntity
    <3> HIDE DEF Renewed
    <3> QED
      BY <1>1, <3>1, <3>2, <3>3
  <2>2. ASSUME req[c].kind # "tenants", req[c].op = "update"
        PROVE  r.created = existing[c].created /\ existing[c].updated <= now
    <3>1. Merged(c).created = existing[c].created /\ Renewed.created = existing[c].created
      BY DEF NewEntity, Merged
    <3>2. existing[c] # None
      BY <1>2, <2>2 DEF RaceInv, Known, TargetKnown, Loaded
    <3> QED
      BY <1>1, <2>2, <3>1, <3>2 DEF StampsOrdered, Ordered
  <2>3. ASSUME req[c].kind \notin {"tenants", "rules"}, req[c].op = "update",
               req[c].val = None
        PROVE  r.val = existing[c].val
    <3>1. Build(c, Merged(c))
      BY <1>2, <2>3, StepsTaken
    <3>2. draft'[c] = Merged(c)
      BY <3>1 DEF Build, TypeInv, TypeOK
    <3>3. Merged(c).val = existing[c].val
      BY <2>3 DEF NewEntity, Merged
    <3> QED
      BY <1>2, <3>2, <3>3
  <2> QED
    BY <1>1, <1>2, <2>1, <2>2, <2>3 DEF DraftKnown
<1> QED
  BY <1>2, <1>3, <1>4, <1>5 DEF Known, ErrorKnown

LEMMA ReadKnown ==
    ASSUME TypeInv, NEW c \in Clients, ReadStep(c)
    PROVE  Known(c)'
<1>1. /\ pc[c] = "store"
      /\ \/ req[c].op = "get" /\ Answer(c, ErrorCode(c), {})
         \/ \E found : Answer(c, 200, found)
  BY DEF ReadStep, StoreRead, Refuse
<1>2. pc \in [Clients -> Steps] /\ resp \in [Clients -> Answers \cup {NoAnswer}]
  BY DEF TypeInv, TypeOK
<1>3. pc'[c] = "done" /\ resp'[c].code \in {200, 404}
  BY <1>1, <1>2, RefusalCodes DEF Answer
<1> QED
  BY <1>3, DoneKnown

-----------------------------------------------------------------------------
(* The invariant.                                                          *)

LEMMA RaceStep ==
    TypeInv /\ IsolationInv /\ StampsOrdered /\ RaceInv /\ [Next]_vars => RaceInv'
<1> SUFFICES ASSUME TypeInv, IsolationInv, StampsOrdered, RaceInv, [Next]_vars
             PROVE  RaceInv'
  OBVIOUS
<1>1. ASSUME NEW c \in Clients,
             Handlers(c) \/ tenantScoped(c) \/ Receive(c) \/ Deliver(c)
                \/ StoreFault(c) \/ AnswerLost(c)
      PROVE  RaceInv'
  <2>1. IsHistory
    BY DEF RaceInv
  <2>2. Known(c)'
    <3>1. CASE Handlers(c)
      BY <3>1, ServeCases, LoadKnown, DecodeKnown, ReferenceKnown, BuildKnown, WriteKnown,
         ReadKnown DEF HandlerStep
    <3> QED
      BY <1>1, <2>1, <3>1, FaultKnown, EnvelopeKnown
  <2>3. ASSUME NEW d \in Clients \ {c} PROVE Known(d)'
    <3>1. OnlyOf(c)
      BY <1>1, ServeCases, StepsOnlyOf DEF TypeInv
    <3>2. IF Busy(d) THEN Recorded(d) ELSE since'[d] = since[d]
      BY <1>1, <2>1, StepRecorded
    <3>3. Known(d)
      BY DEF RaceInv
    <3> QED
      BY <3>1, <3>2, <3>3, OthersKnown DEF OnlyOf
  <2>4. IsHistory'
    BY <1>1, <2>1, StepRecorded
  <2> QED
    BY <2>2, <2>3, <2>4 DEF RaceInv
<1>2. CASE Tick \/ UNCHANGED vars
  <2>1. UNCHANGED <<tenants, rows, pc, req, existing, draft, resp, since>>
    BY <1>2 DEF Tick, vars
  <2>2. ASSUME NEW d \in Clients PROVE Known(d)'
    BY <2>1, OthersKnown, NothingToRecord DEF RaceInv
  <2> QED
    BY <2>1, <2>2 DEF RaceInv, IsHistory
<1>3. CASE Restart
  BY <1>3 DEF Restart, RaceInv, IsHistory, Known, TargetKnown, Loaded, ReferencesKnown, DraftKnown,
              ErrorKnown, Busy
<1> QED
  BY <1>1, <1>2, <1>3 DEF Next, Serve

LEMMA RaceInit == Init => RaceInv
BY DEF Init, RaceInv, IsHistory, Known, TargetKnown, Loaded, ReferencesKnown, DraftKnown,
       ErrorKnown, Busy

\* RaceInv holds throughout, beside the invariants it was proved from.
LEMMA RacesRecorded == Spec => [](TypeInv /\ IsolationInv /\ StampsOrdered /\ RaceInv)
<1>1. Spec => [](TypeInv /\ IsolationInv)
  BY HandlersTyped, IsolationInit, IsolationStep, PTL DEF Spec
<1>2. Spec => []StampsOrdered
  BY StampsAlwaysOrdered
<1> QED
  BY <1>1, <1>2, RaceInit, RaceStep, PTL DEF Spec

-----------------------------------------------------------------------------
(* What follows of it.                                                     *)

\* Whatever the interleaving, a write is answered 500 only if what its handler
\* found has been deleted since, or Postgres failed.
THEOREM ServerErrorsAreRaces == Spec => []ServerErrorOnlyByRace
<1>1. RaceInv => ServerErrorOnlyByRace
  BY DEF RaceInv, Known, ErrorKnown, ServerErrorOnlyByRace
<1> QED
  BY <1>1, RacesRecorded, PTL

\* A write commits in the last step of its own handler, and a POST only under
\* a name that is free.
LEMMA CommitStep ==
    ASSUME TypeInv, RaceInv, [Next]_vars, NEW c \in Clients,
           NEW n \in {Name(c)}, Commits(c, n)
    PROVE  /\ req[c].op \in {"create", "update"} /\ req[c].kind # "tenants"
           /\ pc[c] = "store"
           /\ req[c].op = "create" => Stored(n) = None
<1>1. /\ pc[c] = "store" /\ pc'[c] = "done" /\ req[c].kind # "tenants"
      /\ Stored(n)' = draft[c] /\ Stored(n)' # None
      /\ resp'[c].code \in {200, 201}
  BY DEF Commits
<1>2. draft[c] # None
  BY <1>1
<1>3. req[c].op \in {"create", "update"}
  BY <1>1, <1>2 DEF RaceInv, Known, DraftKnown, Busy
<1>4. ErrorCode(c) \notin {200, 201}
  BY RefusalCodes
<1>5. WriteStep(c)
  <2>1. CASE Tick \/ Restart \/ UNCHANGED vars
    BY <1>1, <2>1 DEF Tick, Restart, vars
  <2>2. ASSUME NEW d \in Clients \ {c}, Serve(d) \/ Receive(d) \/ StoreFault(d) \/ AnswerLost(d)
        PROVE  FALSE
    <3>1. OnlyOf(d)
      BY <2>2, ServeCases, StepsOnlyOf DEF TypeInv, Serve
    <3> QED
      BY <1>1, <3>1 DEF OnlyOf
  <2>3. CASE tenantScoped(c) \/ Receive(c) \/ Deliver(c)
    BY <1>1, <2>3 DEF tenantScoped, Receive, Deliver, TypeInv, TypeOK
  <2>4. CASE StoreFault(c) \/ AnswerLost(c)
    <3>1. resp'[c].code = ErrorCode(c)
      BY <2>4 DEF StoreFault, AnswerLost, Refuse, Answer, TypeInv, TypeOK
    <3> QED
      BY <1>1, <1>4, <3>1
  <2>5. CASE Handlers(c)
    BY <1>1, <1>3, <2>5, StepsTaken DEF Writes
  <2> QED
    BY <2>1, <2>2, <2>3, <2>4, <2>5 DEF Next, Serve
<1>6. req[c].op = "create" => Stored(n) = None
  <2>1. ASSUME Refused(c) PROVE FALSE
    <3>1. Answer(c, ErrorCode(c), {})
      BY <1>5, <2>1 DEF WriteStep, StoreWrite, Refuse
    <3>2. resp'[c].code = ErrorCode(c)
      BY <3>1 DEF Answer, TypeInv, TypeOK
    <3> QED
      BY <1>1, <1>4, <3>2
  <2>2. req[c].op = "create" =>
           rows[req[c].kind][Key(req[c].kind, req[c].tenant, req[c].id)] = None
    BY <1>1, <2>1 DEF Refused, CreateRefused
  <2> QED
    BY <2>2 DEF Stored, Name, Lookup
<1> QED
  BY <1>1, <1>3, <1>6

\* server.go checks the references of a contact or opportunity before it
\* stores it: at the write a reference dangles only if its target has been
\* deleted between the check and the write.
THEOREM DanglingIsARace == Spec => DanglingOnlyByRace
<1>1. ASSUME TypeInv, RaceInv, [Next]_vars, NEW c \in Clients,
             NEW n \in {Name(c)}, Commits(c, n)
      PROVE  ReferenceAtWrite(c, n)
  <2>1. /\ req[c].op \in {"create", "update"} /\ req[c].kind # "tenants" /\ pc[c] = "store"
    BY <1>1, CommitStep
  <2>2. Known(c)
    BY <1>1 DEF RaceInv
  <2>3. draft[c].account = req[c].account /\ draft[c].contact = req[c].contact
    BY <2>1, <2>2 DEF Known, DraftKnown
  <2>4. /\ req[c].account # None => StillThere(c, Account(c))
        /\ req[c].contact # None => StillThere(c, Contact(c))
    BY <2>1, <2>2 DEF Known, ReferencesKnown
  <2> QED
    BY <2>3, <2>4 DEF ReferenceAtWrite, StillThere, Found, Account, Contact, Name
<1>2. TypeInv /\ RaceInv /\ [Next]_vars =>
         \A c \in Clients : pc[c] = "store" => \A n \in {Name(c)} :
            Commits(c, n) => ReferenceAtWrite(c, n)
  BY <1>1
<1> QED
  BY <1>2, RacesRecorded, PTL DEF Spec, DanglingOnlyByRace

\* What a PUT is about to store, against the entity it has read: the entity is
\* still as it was read unless another request has changed it in between.
LEMMA UpdateFound ==
    ASSUME RaceInv, NEW c \in Clients, pc[c] = "store", req[c].op = "update",
           req[c].kind # "tenants"
    PROVE  /\ existing[c] # None
           /\ Stored(Name(c)) = existing[c] \/ Overlapped(c, Name(c))
           /\ draft[c].created = existing[c].created
           /\ existing[c].updated <= draft[c].updated
           /\ req[c].val = None /\ req[c].kind # "rules" => draft[c].val = existing[c].val
BY DEF RaceInv, Known, TargetKnown, Loaded, Unchanged, DraftKnown

\* While an entity stays, CreatedAt changes and UpdatedAt goes back only by an
\* update that overlapped another change of the entity.
THEOREM StampsRegressInRacesOnly == Spec => StampsRegressOnlyByRace
<1>1. ASSUME TypeInv, RaceInv, [Next]_vars, NEW c \in Clients,
             NEW n \in {Name(c)}, Commits(c, n),
             Stored(n) # None,
             \/ Stored(n)'.created # Stored(n).created
             \/ Stored(n)'.updated < Stored(n).updated
      PROVE  Overlapped(c, n)
  <2>1. /\ req[c].op = "update" /\ req[c].kind # "tenants" /\ pc[c] = "store"
    BY <1>1, CommitStep
  <2>2. Stored(n)' = draft[c] /\ draft[c] # None
    BY <1>1 DEF Commits
  <2>3. ASSUME Stored(n) = existing[c] PROVE FALSE
    <3>1. existing[c].updated \in Nat /\ draft[c].updated \in Nat
      <4>1. existing[c] \in Record \cup TenantRecord /\ draft[c] \in Record \cup TenantRecord
        BY <1>1, <2>2, <2>3 DEF TypeInv, TypeOK
      <4> QED
        BY <4>1 DEF Record, TenantRecord, Times
    <3>2. /\ draft[c].created = existing[c].created
          /\ existing[c].updated <= draft[c].updated
      BY <1>1, <2>1, UpdateFound
    <3> QED
      BY <1>1, <2>2, <2>3, <3>1, <3>2
  <2> QED
    BY <1>1, <2>1, <2>3, UpdateFound
<1>2. TypeInv /\ RaceInv /\ [Next]_vars =>
         \A c \in Clients : pc[c] = "store" => \A n \in {Name(c)} :
            /\ Commits(c, n) /\ Stored(n) # None
            /\ \/ Stored(n)'.created # Stored(n).created
               \/ Stored(n)'.updated < Stored(n).updated
            => Overlapped(c, n)
  BY <1>1
<1> QED
  BY <1>2, RacesRecorded, PTL DEF Spec, StampsRegressOnlyByRace

\* A PUT leaves alone what its body leaves out, unless another request wrote
\* or deleted the entity while it was at work.
THEOREM OmittedFieldsAreKept == Spec => OmittedFieldsKept
<1>1. ASSUME TypeInv, RaceInv, [Next]_vars, NEW c \in Clients,
             NEW n \in {Name(c)}, Commits(c, n),
             req[c].op = "update", req[c].val = None, n[1] # "rules"
      PROVE  \/ Stored(n) # None /\ Stored(n)'.val = Stored(n).val
             \/ Overlapped(c, n)
  <2>1. /\ req[c].kind \notin {"tenants", "rules"} /\ pc[c] = "store"
        /\ Stored(n)' = draft[c]
    BY <1>1 DEF Commits, Name
  <2> QED
    BY <1>1, <2>1, UpdateFound
<1>2. TypeInv /\ RaceInv /\ [Next]_vars =>
         \A c \in Clients : pc[c] = "store" => \A n \in {Name(c)} :
            /\ Commits(c, n) /\ req[c].op = "update"
            /\ req[c].val = None /\ n[1] # "rules"
            => \/ Stored(n) # None /\ Stored(n)'.val = Stored(n).val
               \/ Overlapped(c, n)
  BY <1>1
<1> QED
  BY <1>2, RacesRecorded, PTL DEF Spec, OmittedFieldsKept
=============================================================================
