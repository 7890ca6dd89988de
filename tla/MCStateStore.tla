---------------------------- MODULE MCStateStore ----------------------------
(* A change of both files, one of two rows and one that takes away both the *)
(* rows and something in state.json.                                        *)
EXTENDS StateStore, TLC

CONSTANTS both, row, gone, k, l

MCSets == both :> {k} @@ row :> {k, l} @@ gone :> {}
MCDrops == both :> {} @@ row :> {} @@ gone :> {k, l}
=============================================================================
