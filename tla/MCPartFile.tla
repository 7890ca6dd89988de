----------------------------- MODULE MCPartFile -----------------------------
(* Two sources of the same size, which no check of the size tells apart.    *)
EXTENDS PartFile, TLC

CONSTANTS s, t, m, n

MCSize == [x \in Sources |-> 3]
Symmetric == Permutations({s, t}) \union Permutations({m, n})
=============================================================================
