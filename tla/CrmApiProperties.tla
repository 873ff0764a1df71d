-------------------------- MODULE CrmApiProperties --------------------------
(***************************************************************************)
(* What must hold of the API of CrmApi, whatever the interleaving.         *)
(***************************************************************************)
EXTENDS CrmApi

\* Type correctness: every variable of the API has the values its Go type
\* and the stores' schema give it.
TypeOK ==
    /\ now \in Times
    /\ tenants \in [Tenants -> TenantRecord \cup {None}]
    /\ rows \in [Kinds -> [Keys -> Record \cup {None}]]
    /\ pc \in [Clients -> Steps]
    /\ req \in [Clients -> Requests \cup {None}]
    /\ existing \in [Clients -> Record \cup TenantRecord \cup {None}]
    /\ draft \in [Clients -> Record \cup TenantRecord \cup {None}]
    /\ resp \in [Clients -> Answers \cup {NoAnswer}]
    /\ restarts \in 0 .. MaxRestarts

-----------------------------------------------------------------------------
(* State invariants.                                                       *)

\* README.md:11, SKILL.md:23: tenant isolation.  Every row sits under a key of
\* its own tenant and id; everything a handler of a tenant-scoped route has
\* read, built or answered belongs to the tenant in its path.
TenantIsolation ==
    /\ \A k \in Kinds, key \in Keys :
          rows[k][key] # None =>
             key = Key(k, rows[k][key].tenant, rows[k][key].id)
    /\ \A c \in Clients : pc[c] # "idle" /\ req[c].kind # "tenants" =>
          /\ existing[c] # None => existing[c].tenant = req[c].tenant
          /\ draft[c] # None => draft[c].tenant = req[c].tenant
          /\ \A r \in resp[c].body : r.tenant = req[c].tenant

\* schema.sql REFERENCES tenants(id) ON DELETE CASCADE: no entity outlives
\* its tenant, although the handlers check the tenant in an earlier call
\* than the one that writes.
NoOrphans ==
    \A k \in Kinds, key \in Keys :
        rows[k][key] # None => tenants[rows[k][key].tenant] # None

\* Stored records and records about to be stored are stamped in order, and
\* never in the future, although CreatedAt comes from an earlier read.
Ordered(r) == r # None => r.created <= r.updated /\ r.updated <= now

StampsOrdered ==
    /\ \A t \in Tenants : Ordered(tenants[t])
    /\ \A k \in Kinds, key \in Keys : Ordered(rows[k][key])
    /\ \A c \in Clients : Ordered(existing[c]) /\ Ordered(draft[c])

\* A 500 is the answer to a write only when what the handler found in its
\* first look was deleted while it was at work (or Postgres failed).
ServerErrorOnlyByRace ==
    \A c \in Clients :
        pc[c] = "done" /\ resp[c].code = 500 =>
           \/ Faulted(c)
           \/ /\ req[c].op \in {"update", "delete"}
              /\ During(c, "removed", Name(c))

-----------------------------------------------------------------------------
(* Action properties.                                                      *)

\* c's write of entity n is committed by this step.
Commits(c, n) ==
    /\ pc[c] = "store" /\ pc'[c] = "done"
    /\ req[c].kind # "tenants" /\ Name(c) = n
    /\ Stored(n)' # None /\ Stored(n)' = draft[c] /\ resp'[c].code \in {200, 201}

\* server.go checks the references of a contact or opportunity before it
\* stores them.  A stored reference dangles at the moment it is written only
\* if its target was deleted between the check and the write.
ReferenceAtWrite(c, n) ==
    /\ draft[c].account # None =>
          \/ Stored(<<"accounts", n[2], draft[c].account>>) # None
          \/ During(c, "removed", <<"accounts", n[2], draft[c].account>>)
    /\ draft[c].contact # None =>
          \/ Stored(<<"contacts", n[2], draft[c].contact>>) # None
          \/ During(c, "removed", <<"contacts", n[2], draft[c].contact>>)

DanglingOnlyByRace ==
    [][\A c \in Clients : pc[c] = "store" => \A n \in {Name(c)} :
          Commits(c, n) => ReferenceAtWrite(c, n)]_vars

\* Another request added, changed or deleted entity n while c was served.
Overlapped(c, n) == During(c, "written", n) \/ During(c, "removed", n)

\* While an entity stays, CreatedAt changes and UpdatedAt goes back only when
\* the update that does it overlapped another change of the entity.  (Both
\* happen then: the update may have read an entity since deleted, or have
\* taken its time stamp before the other request took its own.)
StampsRegressOnlyByRace ==
    [][\A c \in Clients : pc[c] = "store" => \A n \in {Name(c)} :
          /\ Commits(c, n) /\ Stored(n) # None
          /\ \/ Stored(n)'.created # Stored(n).created
             \/ Stored(n)'.updated < Stored(n).updated
          => Overlapped(c, n)]_vars

\* PUT leaves alone the fields its body leaves out, unless another request
\* wrote or deleted the entity while it was at work (there is no version
\* check, so such a write can be undone).
OmittedFieldsKept ==
    [][\A c \in Clients : pc[c] = "store" => \A n \in {Name(c)} :
          /\ Commits(c, n) /\ req[c].op = "update"
          /\ req[c].val = None /\ n[1] # "rules"
          => \/ Stored(n) # None /\ Stored(n)'.val = Stored(n).val
             \/ Overlapped(c, n)]_vars

\* backend-foundation.md:47, 409 for duplicate ids: a POST is answered 409
\* only when an entity of that kind, tenant and id is there.
ConflictMeansDuplicate ==
    [][\A c \in Clients :
          /\ pc[c] = "store" /\ pc'[c] = "done" /\ resp'[c].code = 409
          => IF req[c].kind = "tenants" THEN tenants[req[c].tenant] # None
             ELSE Stored(Name(c)) # None]_vars

\* backend-foundation.md:46, 404 for a missing tenant: a 404 of the middleware
\* means the tenant is not there.
NotFoundMeansMissing ==
    [][\A c \in Clients :
          /\ pc[c] = "scope" /\ pc'[c] = "done" /\ resp'[c].code = 404
          => tenants[req[c].tenant] = None]_vars

-----------------------------------------------------------------------------
(* Liveness and refinement.                                                *)

\* Every request ends: it is answered, closed by a panic of the rules engine or
\* lost with the process.  No handler waits for another or tries again.
EveryRequestAnswered ==
    \A c \in Clients : pc[c] # "idle" ~> pc[c] = "idle"

\* The API over Postgres implements the promise of EntityLifecycle.
Lifecycle == INSTANCE EntityLifecycle WITH
    present <- {t \in Tenants : tenants[t] # None},
    live    <- {n \in Names : Stored(n) # None}

ImplementsLifecycle == Lifecycle!Spec
=============================================================================
