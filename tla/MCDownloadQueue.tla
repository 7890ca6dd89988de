--------------------------- MODULE MCDownloadQueue --------------------------
(***************************************************************************)
(* Small instances of DownloadQueue: two rows with addresses of their own  *)
(* and one whose source is looked for, on one host or on two.              *)
(***************************************************************************)
EXTENDS DownloadQueue

CONSTANTS d, e, l, p, x, y

MCKind == [j \in Jobs |-> CASE j \in {d, e} -> "direct" [] j = l -> "lazy" [] OTHER -> "profile"]
MCHost == [j \in Jobs |-> x]
MCStoredD == <<d>>
MCStoredP == <<p>>
MCStoredDE == <<d, e>>
MCStoredDLE == <<d, l, e>>
MCStoredDP == <<d, p>>
MCStoredLP == <<l, p>>
=============================================================================
