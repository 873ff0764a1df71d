--------------------------- MODULE EntityLifecycle ---------------------------
(***************************************************************************)
(* What the API promises about which tenants and entities there are, with  *)
(* no handlers, steps or stores in it: an entity comes into being once, in *)
(* a tenant that is there, and goes away by its own deletion or with its   *)
(* tenant.  Nothing else changes what there is: no update brings back an   *)
(* entity, no crash takes one away.                                        *)
(***************************************************************************)
CONSTANTS Tenants, Ids, Kinds

VARIABLES
    present,    \* the tenants there are
    live        \* the entities there are: <<kind, tenant, id>>

Init == present = {} /\ live = {}

CreateTenant(t) ==
    /\ t \notin present
    /\ present' = present \cup {t}
    /\ UNCHANGED live

DeleteTenant(t) ==
    /\ t \in present
    /\ present' = present \ {t}
    /\ live' = {n \in live : n[2] # t}

Create(n) ==
    /\ n[2] \in present /\ n \notin live
    /\ live' = live \cup {n}
    /\ UNCHANGED present

Delete(n) ==
    /\ n \in live
    /\ live' = live \ {n}
    /\ UNCHANGED present

Next ==
    \/ \E t \in Tenants : CreateTenant(t) \/ DeleteTenant(t)
    \/ \E n \in Kinds \X Tenants \X Ids : Create(n) \/ Delete(n)

Spec == Init /\ [][Next]_<<present, live>>
=============================================================================
