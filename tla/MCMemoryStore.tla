---------------------------- MODULE MCMemoryStore ----------------------------
(* MemoryStore alone for TLC: one user, ids of versions in their order.    *)
EXTENDS MemoryStore, Integers, FiniteSets, TLC

CONSTANTS ann, room

MCIdentity == {[subject |-> ann, conversation |-> room, tenant |-> Nothing]}

Symmetry == Permutations(Connection)

Next == /\ MemoryNext
        /\ \E n \in 0..Cardinality(Memory) : minted' = 1..n

Spec == MemoryInit /\ [][Next]_memoryVars
=============================================================================
