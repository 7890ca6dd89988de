---------------------------- MODULE StateStore ----------------------------
(***************************************************************************)
(* The settings store (server/src/store.ts) over its two files: state.json *)
(* holds everything but the personal rows, the database holds those. A     *)
(* change of both is one change: its row operations travel as a journal    *)
(* inside the state.json that commits it, the rows follow in a batch, and  *)
(* a second write of state.json drops the journal. A start replays the     *)
(* journal it finds.                                                       *)
(*                                                                         *)
(* One chain serialises the tasks, so a task is one turn here: an update   *)
(* (taken back if its write fails), a change that is only owed, or the     *)
(* late save of what is owed. A file is replaced by a rename, a batch is a *)
(* transaction. The first import of the rows, the repairs of a loaded      *)
(* state and the validation of its shape are left out.                     *)
(***************************************************************************)
EXTENDS Naturals

CONSTANTS
    Requests,  \* the changes callers make; each may be asked for again
    Cold,      \* those that change state.json
    Keys,      \* the personal rows
    Sets,      \* the rows each request writes
    Drops,     \* the rows each request deletes
    None,
    MaxFaults, \* bound: writes that fail
    MaxCrashes \* bound: process deaths

ASSUME StoreAssumption ==
    /\ Cold \subseteq Requests /\ None \notin Requests
    /\ Sets \in [Requests -> SUBSET Keys] /\ Drops \in [Requests -> SUBSET Keys]
    /\ MaxFaults \in Nat /\ MaxCrashes \in Nat

VARIABLES
    file,          \* state.json: the cold half and the journal
    db,            \* the rows in the database
    mem,           \* the state in memory
    before,        \* memory as the current turn found it
    pc,            \* where the current turn stands
    task,          \* whose turn it is
    persistedCold, \* the cold half known to be on disk, if it is known
    persistedRows, \* the rows known to be in the database
    coldStripPending,
    deferredPending,
    bumped,        \* deferredRevision has moved during this turn
    timer,         \* deferredTimer runs
    queued,        \* a late save waits its turn
    faults, crashes

vars == <<file, db, mem, before, pc, task, persistedCold, persistedRows, coldStripPending,
          deferredPending, bumped, timer, queued, faults, crashes>>

Values == Requests \cup {None}
Rows == [Keys -> Values]
States == [cold : Values, rows : Rows]
Journals == UNION {[S -> Values] : S \in SUBSET Keys}
NoJournal == [k \in {} |-> None]

TypeOK ==
    /\ file \in [cold : Values, journal : Journals] /\ db \in Rows
    /\ mem \in States /\ before \in States
    /\ pc \in {"idle", "journal", "batch", "strip", "cold", "rows", "landed", "failed", "load"}
    /\ task \in {"update", "save"}
    /\ persistedCold \in {<<v>> : v \in Values} \cup {<<>>} /\ persistedRows \in Rows
    /\ coldStripPending \in BOOLEAN /\ deferredPending \in BOOLEAN /\ bumped \in BOOLEAN
    /\ timer \in BOOLEAN /\ queued \in BOOLEAN
    /\ faults \in 0 .. MaxFaults /\ crashes \in 0 .. MaxCrashes

Init ==
    /\ file = [cold |-> None, journal |-> NoJournal] /\ db = [k \in Keys |-> None]
    /\ mem = [cold |-> None, rows |-> db] /\ before = mem
    /\ pc = "idle" /\ task = "update"
    /\ persistedCold = <<None>> /\ persistedRows = db /\ coldStripPending = FALSE
    /\ deferredPending = FALSE /\ bumped = FALSE /\ timer = FALSE /\ queued = FALSE
    /\ faults = 0 /\ crashes = 0

------------------------------------------------------------------------------
Applied(q, s) ==
    [cold |-> IF q \in Cold THEN q ELSE s.cold,
     rows |-> [k \in Keys |-> IF k \in Sets[q] THEN q ELSE IF k \in Drops[q] THEN None ELSE s.rows[k]]]

\* The upserts and deletes that make the old rows the new ones, and their replay.
Ops(new, old) == [k \in {k \in Keys : new[k] # old[k]} |-> new[k]]
Replay(journal, rows) == [k \in Keys |-> IF k \in DOMAIN journal THEN journal[k] ELSE rows[k]]

\* What a start would find: the rows that are due count as written.
Durable == [cold |-> file.cold, rows |-> Replay(file.journal, db)]

\* Slip: the journal that is still in the file is forgotten.
WritesCold_Clean(s) == persistedCold # <<s.cold>>

\* A file that still carries a journal is written again with every change.
WritesCold(s) == coldStripPending \/ persistedCold # <<s.cold>>

Route(s) ==
    IF WritesCold(s) THEN IF s.rows # persistedRows THEN "journal" ELSE "cold"
    ELSE IF s.rows # persistedRows THEN "rows" ELSE "landed"

disks == <<file, db>>
known == <<persistedCold, persistedRows, coldStripPending>>
bounds == <<faults, crashes>>

Turn(s, who) ==
    /\ before' = mem /\ mem' = s /\ task' = who /\ bumped' = FALSE /\ pc' = Route(s)

\* update(): the change is made when its turn comes.
Update(q) ==
    /\ pc = "idle"
    /\ Turn(Applied(q, mem), "update")
    /\ UNCHANGED <<disks, known, deferredPending, timer, queued, bounds>>
\* A mutator that answers false: only a change still owed is written.
UpdateNothing ==
    /\ pc = "idle" /\ deferredPending
    /\ Turn(mem, "update")
    /\ UNCHANGED <<disks, known, deferredPending, timer, queued, bounds>>
UpdateLater(q) ==
    /\ pc = "idle"
    /\ mem' = Applied(q, mem)
    /\ deferredPending' = TRUE /\ timer' = TRUE
    /\ UNCHANGED <<disks, known, before, pc, task, bumped, queued, bounds>>
TimerFires ==
    /\ pc # "load" /\ timer
    /\ timer' = FALSE /\ queued' = TRUE
    /\ UNCHANGED <<disks, known, mem, before, pc, task, deferredPending, bumped, bounds>>
\* Asked for at shutdown: what is owed is written after the tasks in the chain.
Flush ==
    /\ pc # "load" /\ ~queued
    /\ timer' = FALSE /\ queued' = TRUE
    /\ UNCHANGED <<disks, known, mem, before, pc, task, deferredPending, bumped, bounds>>
WriteDeferred ==
    /\ pc = "idle" /\ queued
    /\ queued' = FALSE
    /\ IF deferredPending THEN Turn(mem, "save") ELSE UNCHANGED <<mem, before, pc, task, bumped>>
    /\ UNCHANGED <<disks, known, deferredPending, timer, bounds>>

------------------------------------------------------------------------------
(* writePersisted(). *)

Fault == faults < MaxFaults /\ faults' = faults + 1
turns == <<mem, before, task>>
owed == <<deferredPending, bumped, timer>>

\* state.json first, rows second: state.json names the accounts and is the commit point.
JournalLands ==
    /\ pc = "journal"
    /\ file' = [cold |-> mem.cold, journal |-> Ops(mem.rows, persistedRows)]
    /\ persistedCold' = <<>> /\ pc' = "batch"
    /\ UNCHANGED <<db, persistedRows, coldStripPending, turns, owed, queued, bounds>>
BatchLands ==
    /\ pc \in {"batch", "rows"}
    /\ db' = Replay(Ops(mem.rows, persistedRows), db)
    /\ persistedRows' = mem.rows
    /\ pc' = IF pc = "batch" THEN "strip" ELSE "landed"
    /\ UNCHANGED <<file, persistedCold, coldStripPending, turns, owed, queued, bounds>>
\* The journaled file is the commit: the change stands and the rows are tried again.
BatchOwed ==
    /\ pc = "batch" /\ Fault
    /\ deferredPending' = TRUE /\ bumped' = TRUE /\ timer' = TRUE
    /\ pc' = "landed"
    /\ UNCHANGED <<disks, known, turns, queued, crashes>>
ColdLands ==
    /\ pc \in {"strip", "cold"}
    /\ file' = [cold |-> mem.cold, journal |-> NoJournal]
    /\ persistedCold' = <<mem.cold>> /\ coldStripPending' = FALSE
    /\ pc' = "landed"
    /\ UNCHANGED <<db, persistedRows, turns, owed, queued, bounds>>
\* Both halves are durable; only the journal is left.
StripFails ==
    /\ pc = "strip" /\ Fault
    /\ coldStripPending' = TRUE /\ pc' = "landed"
    /\ UNCHANGED <<disks, persistedCold, persistedRows, turns, owed, queued, crashes>>
WriteFails ==
    /\ pc \in {"journal", "cold", "rows"} /\ Fault
    /\ pc' = "failed"
    /\ UNCHANGED <<disks, known, turns, owed, queued, crashes>>

\* Slip: the write that left rows owed counts as the one that paid.
Landed_Paid ==
    /\ pc = "landed"
    /\ pc' = "idle"
    /\ deferredPending' = FALSE /\ timer' = FALSE
    /\ UNCHANGED <<disks, known, turns, bumped, queued, bounds>>

\* What was owed is paid, unless this very write has left something owed.
Landed ==
    /\ pc = "landed"
    /\ pc' = "idle"
    /\ deferredPending' = (deferredPending /\ bumped)
    /\ timer' = (timer /\ bumped)
    /\ UNCHANGED <<disks, known, turns, bumped, queued, bounds>>
\* Slip: a late save that fails waits for the next change.
Failed_Quietly ==
    /\ pc = "failed"
    /\ pc' = "idle"
    /\ mem' = IF task = "update" THEN before ELSE mem
    /\ UNCHANGED <<disks, known, before, task, deferredPending, bumped, timer, queued, bounds>>

\* An update takes its change back; a late save keeps owing and tries again.
Failed ==
    /\ pc = "failed"
    /\ pc' = "idle"
    /\ mem' = IF task = "update" THEN before ELSE mem
    /\ timer' = (timer \/ task = "save")
    /\ UNCHANGED <<disks, known, before, task, deferredPending, bumped, queued, bounds>>

------------------------------------------------------------------------------
Crash ==
    /\ crashes < MaxCrashes /\ crashes' = crashes + 1
    /\ pc' = "load" /\ mem' = Durable /\ before' = before
    /\ deferredPending' = FALSE /\ bumped' = FALSE /\ timer' = FALSE /\ queued' = FALSE
    /\ UNCHANGED <<disks, known, task, faults>>
\* Slip: the rows are taken from the journal and not read from the database.
Load_JournalOnly ==
    /\ pc = "load"
    /\ db' = Replay(file.journal, db)
    /\ mem' = [cold |-> file.cold, rows |-> file.journal]
    /\ persistedRows' = db' /\ persistedCold' = <<file.cold>>
    /\ coldStripPending' = (file.journal # NoJournal)
    /\ pc' = "idle"
    /\ UNCHANGED <<file, before, task, owed, queued, bounds>>

\* A start replays the journal it finds; the next write drops it from the file.
Load ==
    /\ pc = "load"
    /\ db' = Replay(file.journal, db)
    /\ mem' = [cold |-> file.cold, rows |-> db']
    /\ persistedRows' = db' /\ persistedCold' = <<file.cold>>
    /\ coldStripPending' = (file.journal # NoJournal)
    /\ pc' = "idle"
    /\ UNCHANGED <<file, before, task, owed, queued, bounds>>

Writing == JournalLands \/ BatchLands \/ ColdLands \/ Landed \/ Failed \/ Load
Next ==
    \/ \E q \in Requests : Update(q) \/ UpdateLater(q)
    \/ UpdateNothing \/ TimerFires \/ Flush \/ WriteDeferred
    \/ Writing \/ BatchOwed \/ StripFails \/ WriteFails \/ Crash

Spec == Init /\ [][Next]_vars
\* A write lands or fails and a timer fires; the chain is first come, first served, so a
\* late save gets its turn however many updates there are.
FairSpec == Spec /\ WF_vars(Writing) /\ WF_vars(TimerFires) /\ SF_vars(WriteDeferred)

------------------------------------------------------------------------------
(* Properties. *)

\* When no turn is running and nothing is owed, the database itself holds the rows of memory
\* and the file its cold half: what writePersisted() left for later is never forgotten.
SettledIsStored ==
    pc = "idle" /\ ~deferredPending => db = mem.rows /\ file.cold = mem.cold /\ Durable = mem

\* Between the two files there is no state that is neither the old nor the new: read with its
\* journal, storage implements the store of one file (the journal of writePersisted() and its
\* replay in loadPersonalRows()).
Atomic == INSTANCE AtomicStore WITH
    disk <- Durable,
    turn <- IF pc \in {"idle", "load"} THEN "none" ELSE task,
    committed <- pc \in {"batch", "strip", "landed"}
ImplementsAtomicStore == Atomic!SSpec

\* What is owed is written in the end, also when the write that owed it has failed.
DeferredLands == deferredPending ~> ~deferredPending
=============================================================================
