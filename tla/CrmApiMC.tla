------------------------------ MODULE CrmApiMC ------------------------------
(***************************************************************************)
(* Instances of CrmApi for TLC: ids, and the requests each run issues.     *)
(***************************************************************************)
EXTENDS CrmApiProperties, TLC

CONSTANTS c1, c2

MCClients == {c1, c2}
Symmetry  == Permutations(MCClients)

\* One tenant; two tenants, one of whose ids holds the colon of ruleKey.
A == <<"a">>
B == <<"a", ":", "b">>
X == <<"x">>
Y == <<"b", ":", "x">>

OneTenant  == {A}
TwoTenants == {A, B}
OneId      == {X}
TwoIds     == {X, Y}

OneVal  == {"v"}
TwoVals == {"v", "w"}

Req(op, kind, t, i) ==
    [op |-> op, kind |-> kind, tenant |-> t, id |-> i, account |-> None,
     contact |-> None, val |-> None, ok |-> TRUE, token |-> TRUE]

TenantReqs(ops) == {Req(op, "tenants", t, None) : op \in ops, t \in Tenants}
EntityReqs(ops, kind) ==
    {Req(op, kind, t, i) : op \in ops, t \in Tenants, i \in Ids}
Bad(rs)        == {[r EXCEPT !.ok = FALSE] : r \in rs}
NoToken(rs)    == {[r EXCEPT !.token = FALSE] : r \in rs}
WithVal(rs, v) == {[r EXCEPT !.val = v] : r \in rs}
OfAccount(rs)  == {[r EXCEPT !.account = i] : r \in rs, i \in Ids}
OfContact(rs)  == {[r EXCEPT !.contact = i] : r \in rs, i \in Ids}

Writes == {"create", "update", "delete"}

\* Accounts and the contacts that refer to them.
ContactRequests ==
    TenantReqs({"create", "delete"})
      \cup EntityReqs({"create", "delete"}, "accounts")
      \cup EntityReqs({"create", "delete"}, "contacts")
      \cup OfAccount(EntityReqs({"create", "update"}, "contacts"))

\* Opportunities with both references, or without a contact.  Accounts and
\* contacts come and go.
OpportunityRequests ==
    TenantReqs({"create"})
      \cup EntityReqs(Writes \cup {"list"}, "accounts")
      \cup OfAccount(EntityReqs({"create"}, "contacts"))
      \cup EntityReqs({"delete", "list"}, "contacts")
      \cup OfAccount(EntityReqs({"create"}, "opportunities"))
      \cup OfContact(OfAccount(EntityReqs({"update"}, "opportunities")))
      \cup EntityReqs({"list", "get", "delete"}, "opportunities")

\* Rules of two tenants whose keys are the same string, and the tenants.
SharedKey(rs) == {r \in rs : <<r.tenant, r.id>> \in {<<A, Y>>, <<B, X>>}}

RuleRequests ==
    TenantReqs({"create"})
      \cup SharedKey(EntityReqs(Writes \cup {"get", "list", "evaluate"}, "rules"))
      \cup WithVal(SharedKey(EntityReqs({"create"}, "rules")), "w")

\* The same with the other requests on one of the tenants, one of them without
\* the service token; accounts and contacts are only looked for.
Here(rs) == {r \in rs : r.tenant = A /\ r.id \in {Y, None}}

TenantRequests ==
    RuleRequests
      \cup Here(TenantReqs({"list", "get", "update"}))
      \cup NoToken(Here(EntityReqs({"get"}, "rules")))
      \cup Here(EntityReqs({"get"}, "accounts") \cup EntityReqs({"get"}, "contacts"))

\* One product, read and written with and without the omittable field.
ProductRequests ==
    TenantReqs({"create"})
      \cup EntityReqs(Writes \cup {"get", "list"}, "products")
      \cup WithVal(EntityReqs({"update"}, "products"), "w")
      \cup Bad(EntityReqs({"update"}, "products"))

\* Every kind of answer an account route can give.
AccountRequests ==
    TenantReqs({"create", "delete"}) \cup Bad(TenantReqs({"create"}))
      \cup EntityReqs(Writes \cup {"get", "list"}, "accounts")
      \cup Bad(EntityReqs({"update"}, "accounts"))
      \cup NoToken(EntityReqs({"delete"}, "accounts"))
=============================================================================
