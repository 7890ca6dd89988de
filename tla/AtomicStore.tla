---------------------------- MODULE AtomicStore ----------------------------
(***************************************************************************)
(* What the settings store promises, without the files that keep the       *)
(* promise: there is one state in memory and one in storage. Storage only  *)
(* ever becomes what memory holds, all of it in one step; an update is     *)
(* accepted when storage holds it and refused when it changed nothing, and *)
(* a process that ends comes back with exactly what storage holds.         *)
(***************************************************************************)
CONSTANT States

VARIABLES
    disk,      \* the state in storage
    mem,       \* the state in memory
    before,    \* memory as the current turn found it
    turn,      \* whose turn it is: nobody's, an update's or a late save's
    committed  \* storage holds what this turn was to write

svars == <<disk, mem, before, turn, committed>>

SInit == disk \in States /\ mem = disk /\ before = disk /\ turn = "none" /\ committed = FALSE

Begin(s, who) ==
    /\ turn = "none" /\ who \in {"update", "save"} /\ (who = "save" => s = mem)
    /\ mem' = s /\ before' = mem /\ turn' = who
    /\ committed' \in BOOLEAN /\ (committed' => s = disk)
    /\ UNCHANGED disk
\* A change that is only owed.
Defer(s) ==
    /\ turn = "none" /\ mem' = s
    /\ UNCHANGED <<disk, before, turn, committed>>
Commit ==
    /\ turn # "none" /\ ~committed
    /\ disk' = mem /\ committed' = TRUE
    /\ UNCHANGED <<mem, before, turn>>
Accept ==
    /\ turn # "none" /\ committed
    /\ turn' = "none" /\ committed' = FALSE
    /\ UNCHANGED <<disk, mem, before>>
Refuse ==
    /\ turn # "none" /\ ~committed
    /\ mem' = (IF turn = "update" THEN before ELSE mem) /\ turn' = "none"
    /\ UNCHANGED <<disk, before, committed>>
Crash ==
    /\ mem' = disk /\ turn' = "none" /\ committed' = FALSE
    /\ UNCHANGED <<disk, before>>

SNext ==
    \/ \E s \in States, who \in {"update", "save"} : Begin(s, who)
    \/ \E s \in States : Defer(s)
    \/ Commit \/ Accept \/ Refuse \/ Crash

SSpec == SInit /\ [][SNext]_svars

\* An update is accepted only once storage holds it, with all that memory holds; between
\* the turns a refused one has left nothing behind.
CommittedIsStored == committed => disk = mem
=============================================================================
