---------------------------- MODULE MCQueueStore ----------------------------
(* Two requests of one account for the same address: they are               *)
(* interchangeable.                                                         *)
EXTENDS QueueStore, TLC

CONSTANTS j1, j2, a, u

MCSourceOf == [j \in Jobs |-> a]
MCOwnerOf == [j \in Jobs |-> u]

Symmetric == Permutations({j1, j2})
=============================================================================
