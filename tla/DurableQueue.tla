---------------------------- MODULE DurableQueue ----------------------------
(***************************************************************************)
(* What the download queue promises its clients about storage, without the *)
(* writes that keep the promise: a request is stored and accepted in one   *)
(* step or refused and never stored, and a stored row leaves only in the   *)
(* step that removes it or clears it. No save, retry or restart is seen    *)
(* here: none of them may change which rows are stored.                    *)
(***************************************************************************)
CONSTANT Jobs

VARIABLES
    stored,  \* the rows in storage
    told,    \* what the client of each request knows
    erased   \* the rows a client was told are removed

dvars == <<stored, told, erased>>

Told == {"pending", "accepted", "refused", "unheard"}

DInit == stored = {} /\ told = [j \in Jobs |-> "pending"] /\ erased = {}

Accept(j) ==
    /\ told[j] = "pending" /\ j \notin stored
    /\ told' = [told EXCEPT ![j] = "accepted"]
    /\ stored' = stored \union {j}
    /\ UNCHANGED erased

\* A duplicate, or a request whose write failed.
Refuse(j) ==
    /\ told[j] = "pending" /\ j \notin stored
    /\ told' = [told EXCEPT ![j] = "refused"]
    /\ UNCHANGED <<stored, erased>>

Erase(j) ==
    /\ erased' = erased \union {j}
    /\ stored' = stored \ {j}
    /\ UNCHANGED told

Clear(S) ==
    /\ S # {} /\ S \subseteq stored
    /\ stored' = stored \ S
    /\ UNCHANGED <<told, erased>>

\* The process dies: the clients still waiting hear nothing, and the one
\* change that was on its way to storage has landed or has not.
Crash(unheard, added, taken) ==
    /\ added \subseteq unheard /\ added \intersect stored = {}
    /\ taken \subseteq stored /\ (added = {} \/ taken = {})
    /\ \A j \in unheard : told[j] = "pending"
    /\ told' = [j \in Jobs |-> IF j \in unheard THEN "unheard" ELSE told[j]]
    /\ stored' = (stored \union added) \ taken
    /\ \A j, k \in added : j = k
    /\ UNCHANGED erased

DNext ==
    \/ \E j \in Jobs : Accept(j) \/ Refuse(j) \/ Erase(j)
    \/ \E S \in SUBSET Jobs : Clear(S)
    \/ \E unheard, added, taken \in SUBSET Jobs : Crash(unheard, added, taken)

DSpec == DInit /\ [][DNext]_dvars
=============================================================================
