----------------------------- MODULE ValueStore -----------------------------
(***************************************************************************)
(* What storage.go's interfaces promise of records that hold maps, slices  *)
(* and pointers: a store of values.  What is stored under a key is the     *)
(* value passed to Create or Update, as it was at the call; what a caller  *)
(* gets is the value stored, as it was at the call; and a caller who       *)
(* changes its record changes nobody else's.                               *)
(***************************************************************************)
CONSTANTS
    Keys,       \* the keys of the store
    Clients,    \* the callers, each of whom holds one record
    Nothing     \* no record

VARIABLES
    stored,     \* [Keys -> the value under the key, or Nothing]
    held        \* [Clients -> the value the caller holds, or Nothing]

vars == <<stored, held>>

Init ==
    /\ stored = [k \in Keys |-> Nothing]
    /\ held = [c \in Clients |-> Nothing]

\* Create and Update store the caller's value; Delete removes one.
Write(c, k) ==
    /\ stored' = [stored EXCEPT ![k] = held[c]]
    /\ held[c] # Nothing
    /\ UNCHANGED held

Remove(k) ==
    /\ stored' = [stored EXCEPT ![k] = Nothing]
    /\ UNCHANGED held

\* Get and List hand out what is stored.
Read(c, k) ==
    /\ stored[k] # Nothing
    /\ held' = [held EXCEPT ![c] = stored[k]]
    /\ UNCHANGED stored

\* The caller does what it likes with its own record.
Own(c) ==
    /\ \A d \in Clients \ {c} : held'[d] = held[d]
    /\ DOMAIN held' = Clients
    /\ UNCHANGED stored

Next ==
    \/ \E c \in Clients, k \in Keys : Write(c, k) \/ Read(c, k)
    \/ \E k \in Keys : Remove(k)
    \/ \E c \in Clients : Own(c)

Spec == Init /\ [][Next]_vars
=============================================================================
