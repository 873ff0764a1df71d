------------------------ MODULE MemoryStoreProperties ------------------------
(***************************************************************************)
(* The memory store keeps values, although it is built of references.      *)
(***************************************************************************)
EXTENDS MemoryStore, TLC

\* backend-foundation.md:55: no cell of a stored record belongs to another
\* record, stored or in a caller's hands, and no two callers share one.
NothingShared ==
    /\ \A k, l \in Keys : k # l => Cells(heap, stored[k]) \cap Cells(heap, stored[l]) = {}
    /\ \A k \in Keys, c \in Clients : Cells(heap, stored[k]) \cap Cells(heap, held[c]) = {}
    /\ \A c, d \in Clients : c # d => Cells(heap, held[c]) \cap Cells(heap, held[d]) = {}

\* The records as values.
ValuesStored == [k \in Keys |-> Value(heap, stored[k])]
ValuesHeld   == [c \in Clients |-> Value(heap, held[c])]

Promise == INSTANCE ValueStore WITH stored <- ValuesStored, held <- ValuesHeld

\* TestReturnedAccountsCannotMutateStoredCustomFields (store_test.go:42), for
\* every kind of record, every depth and both directions: what is stored
\* changes only by a method of the store, what a caller holds only by its own
\* doing.
ImplementsValueStore == Promise!Spec

-----------------------------------------------------------------------------
(* The instance.                                                           *)

CONSTANTS c1, c2, x, y

MCClients == {c1, c2}
OneKey    == {x}
TwoKeys   == {x, y}
AllKinds  == {"accounts", "contacts", "opportunities", "products", "rules"}
Symmetry  == Permutations(MCClients) \cup Permutations(TwoKeys)
=============================================================================
