---------------------------- MODULE MCLibraryOps ----------------------------
(* A move of two folders, the second to another library over a file-system  *)
(* boundary or not; a re-root of two items; a direct request that wants the *)
(* name the queue sends its first folder to.                                *)
EXTENDS LibraryOps, TLC

CONSTANTS a, b, c, r, x, y, z, L, M

MCTargetOf == [i \in Items |-> IF i = a \/ i = r THEN x ELSE IF i = b THEN y ELSE z]
MCNear == [p \in Paths |-> L]
MCFar == [p \in Paths |-> IF p = y THEN M ELSE L]
MCMoves == [i \in Items |-> IF i = c THEN "reroot" ELSE "move"]
MCCopies == [i \in Items |-> IF i = c THEN "reroot" ELSE IF i = b THEN "copy" ELSE "move"]
MCTwoJobs == <<<<a, b>>, <<c>>>>
MCOneJob == <<<<a, b>>>>
MCOnce == [m \in Mishaps |-> 1]
MCTwice == [m \in Mishaps |-> IF m = "crash" THEN 2 ELSE 1]
=============================================================================
