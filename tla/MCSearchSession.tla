-------------------------- MODULE MCSearchSession --------------------------
(* A local source and two of one server, which may run one job; a search of *)
(* the server, one of the local library, and an empty one that takes the    *)
(* slot of the first.                                                       *)
EXTENDS SearchSession, TLC

CONSTANTS a, b, u

MCClass == 1 :> 2 @@ 2 :> 3 @@ 3 :> 3
MCPool == 1 :> 1 @@ 2 :> 2 @@ 3 :> 2
MCPerSession == 1 :> 1 @@ 2 :> 1 @@ 3 :> 1
MCSlotOf == 1 :> a @@ 2 :> b @@ 3 :> a
MCOwnerOf == a :> u @@ b :> u
MCSourcesOf == 1 :> {2, 3} @@ 2 :> {1} @@ 3 :> {}
MCRows == 1 :> 1 @@ 2 :> 2 @@ 3 :> 1
MCFresh == 1 :> {1} @@ 2 :> {1} @@ 3 :> {1}
=============================================================================
