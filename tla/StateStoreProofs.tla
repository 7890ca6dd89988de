-------------------------- MODULE StateStoreProofs --------------------------
(***************************************************************************)
(* The settings store keeps its promise for any requests, rows, faults and *)
(* crashes. IInv is inductive: it says, for every place a turn can stand   *)
(* at, what the two files hold and what the store knows of them.           *)
(***************************************************************************)
EXTENDS StateStore, TLAPS

-----------------------------------------------------------------------------
(* The invariant.                                                          *)

\* What the store believes of the files is so.
KnownInv ==
    pc # "load" =>
        /\ persistedRows = db
        /\ persistedCold # <<>> =>
               /\ persistedCold = <<file.cold>>
               /\ Replay(file.journal, db) = db
               /\ ~coldStripPending => file.journal = NoJournal

Stored(s) == db = s.rows /\ file.cold = s.cold /\ Durable = s

\* What each step of writePersisted() has already done.
TurnInv ==
    /\ pc = "batch" =>
           /\ persistedCold = <<>>
           /\ file = [cold |-> mem.cold, journal |-> Ops(mem.rows, db)]
    /\ pc = "strip" =>
           /\ persistedCold = <<>> /\ file.cold = mem.cold /\ db = mem.rows
           /\ Replay(file.journal, db) = db
    /\ pc = "cold" => mem.rows = persistedRows
    /\ pc = "rows" => ~WritesCold(mem)
    /\ pc = "landed" => Durable = mem /\ (db = mem.rows \/ (deferredPending /\ bumped))
    /\ pc = "load" => mem = Durable

\* A turn that can still be refused has changed nothing that its refusal would have to undo.
RefusalInv ==
    pc \in {"journal", "cold", "rows", "failed"} =>
        /\ ~deferredPending => Stored(before)
        /\ task = "save" => deferredPending

IInv == TypeOK /\ KnownInv /\ TurnInv /\ RefusalInv /\ SettledIsStored

-----------------------------------------------------------------------------
(* Journals. A replayed journal gives the new rows, however often it is    *)
(* replayed.                                                               *)

LEMMA StateIsItsHalves ==
    ASSUME NEW s \in States
    PROVE  s = [cold |-> s.cold, rows |-> s.rows] /\ s.cold \in Values /\ s.rows \in Rows
BY DEF States

LEMMA OpsIsJournal ==
    ASSUME NEW new \in Rows, NEW old \in Rows
    PROVE  Ops(new, old) \in Journals
<1> DEFINE S == {k \in Keys : new[k] # old[k]}
<1>1. S \in SUBSET Keys
  OBVIOUS
<1>2. Ops(new, old) \in [S -> Values]
  BY DEF Ops, Rows
<1> QED
  BY <1>1, <1>2 DEF Journals

LEMMA NoJournalIsJournal == NoJournal \in Journals
<1>1. NoJournal \in [{} -> Values]
  BY DEF NoJournal
<1> QED
  BY <1>1 DEF Journals

LEMMA ReplayIsRows ==
    ASSUME NEW j \in Journals, NEW r \in Rows
    PROVE  Replay(j, r) \in Rows
<1>1. PICK S \in SUBSET Keys : j \in [S -> Values]
  BY DEF Journals
<1> QED
  BY <1>1 DEF Replay, Rows

LEMMA ReplayNothing ==
    ASSUME NEW r \in Rows
    PROVE  Replay(NoJournal, r) = r
BY DEF Replay, NoJournal, Rows

\* A journal replayed over rows that already have it changes nothing: a start may find
\* the batch committed or not.
LEMMA ReplayTwice ==
    ASSUME NEW j \in Journals, NEW r \in Rows
    PROVE  Replay(j, Replay(j, r)) = Replay(j, r)
BY DEF Replay

LEMMA ReplayOps ==
    ASSUME NEW new \in Rows, NEW old \in Rows
    PROVE  Replay(Ops(new, old), old) = new /\ Replay(Ops(new, old), new) = new
<1>1. \A k \in Keys : Replay(Ops(new, old), old)[k] = new[k]
  BY DEF Replay, Ops
<1>2. \A k \in Keys : Replay(Ops(new, old), new)[k] = new[k]
  BY DEF Replay, Ops
<1>3. Replay(Ops(new, old), old) = [k \in Keys |-> Replay(Ops(new, old), old)[k]]
  BY DEF Replay
<1>4. Replay(Ops(new, old), new) = [k \in Keys |-> Replay(Ops(new, old), new)[k]]
  BY DEF Replay
<1>5. new = [k \in Keys |-> new[k]]
  BY DEF Rows
<1> QED
  BY <1>1, <1>2, <1>3, <1>4, <1>5

LEMMA AppliedIsState ==
    ASSUME NEW q \in Requests, NEW s \in States
    PROVE  Applied(q, s) \in States
BY DEF Applied, States, Rows, Values

LEMMA DurableIsState == TypeOK => Durable \in States
BY ReplayIsRows DEF TypeOK, Durable, States

-----------------------------------------------------------------------------
(* Typing.                                                                 *)

\* The type invariant in groups that the actions disturb together.
FilesTyped ==
    /\ file \in [cold : Values, journal : Journals] /\ db \in Rows
    /\ persistedRows \in Rows /\ persistedCold \in {<<v>> : v \in Values} \cup {<<>>}
TurnTyped ==
    /\ mem \in States /\ before \in States
    /\ pc \in {"idle", "journal", "batch", "strip", "cold", "rows", "landed", "failed", "load"}
    /\ task \in {"update", "save"}
FlagsTyped ==
    /\ coldStripPending \in BOOLEAN /\ deferredPending \in BOOLEAN /\ bumped \in BOOLEAN
    /\ timer \in BOOLEAN /\ queued \in BOOLEAN
BoundsTyped == faults \in 0 .. MaxFaults /\ crashes \in 0 .. MaxCrashes

LEMMA TypeGroups == TypeOK <=> FilesTyped /\ TurnTyped /\ FlagsTyped /\ BoundsTyped
BY DEF TypeOK, FilesTyped, TurnTyped, FlagsTyped, BoundsTyped

LEMMA TypedInit == Init => TypeOK
<1> SUFFICES ASSUME Init PROVE TypeOK
  OBVIOUS
<1> USE DEF Init
<1>1. db \in Rows /\ None \in Values
  BY DEF Rows, Values
<1>2. file \in [cold : Values, journal : Journals] /\ mem \in States
  BY <1>1, NoJournalIsJournal DEF States
<1>3. persistedCold \in {<<v>> : v \in Values} \cup {<<>>}
  BY <1>1
<1>4. FilesTyped
  BY <1>1, <1>2, <1>3 DEF FilesTyped
<1>5. TurnTyped /\ FlagsTyped
  BY <1>2 DEF TurnTyped, FlagsTyped
<1>6. BoundsTyped
  BY StoreAssumption DEF BoundsTyped
<1> QED
  BY <1>4, <1>5, <1>6, TypeGroups

LEMMA TypedStep == TypeOK /\ [Next]_vars => TypeOK'
<1> SUFFICES ASSUME TypeOK, [Next]_vars PROVE TypeOK'
  OBVIOUS
<1> USE DEF disks, known, bounds, turns, owed
<1>a. FilesTyped /\ TurnTyped /\ FlagsTyped /\ BoundsTyped
  BY TypeGroups
<1>q. FilesTyped' /\ TurnTyped' /\ FlagsTyped' /\ BoundsTyped' => TypeOK'
  BY DEF TypeOK, FilesTyped, TurnTyped, FlagsTyped, BoundsTyped
<1>b. Durable \in States /\ Durable.rows \in Rows /\ file.cold \in Values
  BY <1>a, DurableIsState, StateIsItsHalves DEF FilesTyped
<1>c. mem.cold \in Values /\ mem.rows \in Rows
  BY <1>a, StateIsItsHalves DEF TurnTyped
<1>d. Ops(mem.rows, persistedRows) \in Journals /\ Replay(Ops(mem.rows, persistedRows), db) \in Rows
  BY <1>a, <1>c, OpsIsJournal, ReplayIsRows DEF FilesTyped
<1>e. ASSUME NEW s \in States, NEW who \in {"update", "save"}, Turn(s, who)
      PROVE  TurnTyped' /\ bumped' \in BOOLEAN
  BY <1>e, <1>a DEF Turn, Route, TurnTyped
<1>1. CASE \E q \in Requests : Update(q)
  <2>1. TurnTyped' /\ bumped' \in BOOLEAN
    BY <1>1, <1>a, <1>e, AppliedIsState DEF Update, TurnTyped
  <2> QED
    BY <1>1, <1>a, <2>1, <1>q DEF Update, FilesTyped, FlagsTyped, BoundsTyped
<1>2. CASE \E q \in Requests : UpdateLater(q)
  <2>1. TurnTyped'
    BY <1>2, <1>a, AppliedIsState DEF UpdateLater, TurnTyped
  <2> QED
    BY <1>2, <1>a, <2>1, <1>q DEF UpdateLater, FilesTyped, FlagsTyped, BoundsTyped
<1>3. CASE UpdateNothing
  <2>1. TurnTyped' /\ bumped' \in BOOLEAN
    BY <1>3, <1>a, <1>e DEF UpdateNothing, TurnTyped
  <2> QED
    BY <1>3, <1>a, <2>1, <1>q DEF UpdateNothing, FilesTyped, FlagsTyped, BoundsTyped
<1>4. CASE WriteDeferred
  <2>1. TurnTyped' /\ bumped' \in BOOLEAN
    BY <1>4, <1>a, <1>e DEF WriteDeferred, TurnTyped, FlagsTyped
  <2> QED
    BY <1>4, <1>a, <2>1, <1>q DEF WriteDeferred, FilesTyped, FlagsTyped, BoundsTyped
<1>5. CASE TimerFires \/ Flush
  BY <1>5, <1>a, <1>q DEF TimerFires, Flush, FilesTyped, TurnTyped, FlagsTyped, BoundsTyped
<1>6. CASE JournalLands
  <2>1. FilesTyped' /\ TurnTyped'
    BY <1>6, <1>a, <1>c, <1>d DEF JournalLands, FilesTyped, TurnTyped
  <2> QED
    BY <1>6, <1>a, <2>1, <1>q DEF JournalLands, FlagsTyped, BoundsTyped
<1>7. CASE BatchLands
  <2>1. FilesTyped'
    BY <1>7, <1>a, <1>c, <1>d DEF BatchLands, FilesTyped
  <2>2. TurnTyped'
    BY <1>7, <1>a DEF BatchLands, TurnTyped
  <2> QED
    BY <1>7, <1>a, <2>1, <2>2, <1>q DEF BatchLands, FlagsTyped, BoundsTyped
<1>8. CASE ColdLands
  <2>1. FilesTyped'
    BY <1>8, <1>a, <1>c, NoJournalIsJournal DEF ColdLands, FilesTyped
  <2>2. TurnTyped'
    BY <1>8, <1>a DEF ColdLands, TurnTyped
  <2> QED
    BY <1>8, <1>a, <2>1, <2>2, <1>q DEF ColdLands, FlagsTyped, BoundsTyped
<1>9. CASE Landed \/ Failed
  <2>1. TurnTyped' /\ FilesTyped' /\ BoundsTyped'
    BY <1>9, <1>a DEF Landed, Failed, FilesTyped, TurnTyped, BoundsTyped
  <2>2. FlagsTyped'
    BY <1>9, <1>a DEF Landed, Failed, FlagsTyped
  <2> QED
    BY <2>1, <2>2, <1>q
<1>10. CASE BatchOwed \/ StripFails \/ WriteFails
  <2>1. FilesTyped' /\ FlagsTyped'
    BY <1>10, <1>a DEF BatchOwed, StripFails, WriteFails, FilesTyped, FlagsTyped
  <2>2. TurnTyped'
    BY <1>10, <1>a DEF BatchOwed, StripFails, WriteFails, TurnTyped
  <2>3. BoundsTyped'
    BY <1>10, <1>a, StoreAssumption DEF BatchOwed, StripFails, WriteFails, Fault, BoundsTyped
  <2> QED
    BY <2>1, <2>2, <2>3, <1>q
<1>11. CASE Crash
  <2>1. FilesTyped' /\ FlagsTyped'
    BY <1>11, <1>a DEF Crash, FilesTyped, FlagsTyped
  <2>2. TurnTyped'
    BY <1>11, <1>a, <1>b DEF Crash, TurnTyped
  <2>3. BoundsTyped'
    BY <1>11, <1>a, StoreAssumption DEF Crash, BoundsTyped
  <2> QED
    BY <2>1, <2>2, <2>3, <1>q
<1>12. CASE Load
  <2>1. db' \in Rows
    BY <1>12, <1>a, ReplayIsRows DEF Load, FilesTyped
  <2>2. FilesTyped'
    BY <1>12, <1>a, <1>b, <2>1 DEF Load, FilesTyped
  <2>3. TurnTyped'
    BY <1>12, <1>a, <1>b, <2>1 DEF Load, TurnTyped, States
  <2> QED
    BY <1>12, <1>a, <2>2, <2>3, <1>q DEF Load, FlagsTyped, BoundsTyped
<1>13. CASE UNCHANGED vars
  BY <1>13, <1>a, <1>q DEF vars, FilesTyped, TurnTyped, FlagsTyped, BoundsTyped
<1> QED
  BY <1>1, <1>2, <1>3, <1>4, <1>5, <1>6, <1>7, <1>8, <1>9, <1>10, <1>11, <1>12, <1>13
     DEF Next, Writing

\* Whatever is asked for, lands or fails, every variable keeps its type: a journal only
\* ever names personal rows, and what is replayed from it is rows again.
THEOREM StateTyped == Spec => []TypeOK
<1>1. Init => TypeOK
  BY TypedInit
<1>2. TypeOK /\ [Next]_vars => TypeOK'
  BY TypedStep
<1> QED
  BY <1>1, <1>2, PTL DEF Spec

-----------------------------------------------------------------------------
(* The invariant is inductive.                                             *)

LEMMA InvInit == Init => IInv
<1> SUFFICES ASSUME Init PROVE IInv
  OBVIOUS
<1>1. TypeOK
  BY TypedInit
<1>2. db \in Rows /\ mem \in States /\ mem = [cold |-> None, rows |-> db]
  BY <1>1 DEF TypeOK, Init
<1>3. Replay(file.journal, db) = db /\ file.journal = NoJournal /\ file.cold = None
  BY <1>2, ReplayNothing DEF Init
<1>4. SettledIsStored
  BY <1>2, <1>3 DEF SettledIsStored, Durable
<1> QED
  BY <1>1, <1>2, <1>3, <1>4 DEF Init, IInv, KnownInv, TurnInv, RefusalInv

\* What TypeOK and the invariant say of the two files while the store runs.
LEMMA Files ==
    ASSUME IInv
    PROVE  /\ mem \in States /\ mem = [cold |-> mem.cold, rows |-> mem.rows] /\ mem.rows \in Rows
           /\ before \in States /\ db \in Rows /\ file.journal \in Journals
           /\ Durable = [cold |-> file.cold, rows |-> Replay(file.journal, db)]
           /\ deferredPending \in BOOLEAN /\ bumped \in BOOLEAN
BY StateIsItsHalves DEF IInv, TypeOK, Durable

\* A turn starts from stored memory unless something is owed, and one with nothing to
\* write finds storage as memory is to be.
LEMMA TurnStarts ==
    ASSUME IInv, pc = "idle", NEW s \in States, NEW who \in {"update", "save"}, Turn(s, who),
           who = "save" => deferredPending,
           UNCHANGED <<disks, known, deferredPending>>
    PROVE  KnownInv' /\ TurnInv' /\ RefusalInv' /\ SettledIsStored' /\ (pc' = "landed" => s = Durable)
<1> USE DEF disks, known
<1>1. pc' \in {"journal", "cold", "rows", "landed"} /\ mem' = s /\ before' = mem /\ task' = who
  BY DEF Turn, Route
<1>2. KnownInv'
  BY <1>1 DEF IInv, KnownInv
<1>3. ASSUME pc' = "landed"
      PROVE  s = Durable /\ db = s.rows
  <2>1. ~WritesCold(s) /\ s.rows = persistedRows
    BY <1>3 DEF Turn, Route
  <2>2. persistedCold = <<s.cold>> /\ ~coldStripPending
    BY <2>1 DEF WritesCold, IInv, TypeOK
  <2>3. db = s.rows /\ file.cold = s.cold /\ Replay(file.journal, db) = db
    BY <2>1, <2>2 DEF IInv, KnownInv
  <2> QED
    BY <2>3, Files, StateIsItsHalves
<1>4. pc' = "cold" => s.rows = persistedRows
  BY DEF Turn, Route
<1>5. pc' = "rows" => ~WritesCold(s)'
  BY DEF Turn, Route, WritesCold
<1>6. Durable' = Durable
  BY DEF Durable
<1>7. TurnInv'
  BY <1>1, <1>3, <1>4, <1>5, <1>6 DEF TurnInv, WritesCold
<1>8. ~deferredPending => Stored(mem)
  BY DEF IInv, SettledIsStored, Stored
<1>9. RefusalInv'
  BY <1>1, <1>6, <1>8 DEF RefusalInv, Stored
<1> QED
  BY <1>1, <1>2, <1>3, <1>7, <1>9 DEF SettledIsStored

LEMMA InvRequests ==
    IInv /\ (\/ \E q \in Requests : Update(q) \/ UpdateLater(q)
             \/ UpdateNothing \/ TimerFires \/ Flush \/ WriteDeferred)
    => KnownInv' /\ TurnInv' /\ RefusalInv' /\ SettledIsStored'
<1> SUFFICES ASSUME IInv
             PROVE  (\/ \E q \in Requests : Update(q) \/ UpdateLater(q)
                     \/ UpdateNothing \/ TimerFires \/ Flush \/ WriteDeferred)
                    => KnownInv' /\ TurnInv' /\ RefusalInv' /\ SettledIsStored'
  OBVIOUS
<1> USE DEF disks, known, bounds
<1>1. ASSUME NEW q \in Requests, Update(q)
      PROVE  KnownInv' /\ TurnInv' /\ RefusalInv' /\ SettledIsStored'
  BY <1>1, Files, AppliedIsState, TurnStarts DEF Update
<1>2. ASSUME UpdateNothing \/ (WriteDeferred /\ deferredPending)
      PROVE  KnownInv' /\ TurnInv' /\ RefusalInv' /\ SettledIsStored'
  BY <1>2, Files, TurnStarts DEF UpdateNothing, WriteDeferred
<1>3. ASSUME NEW q \in Requests, UpdateLater(q)
      PROVE  KnownInv' /\ TurnInv' /\ RefusalInv' /\ SettledIsStored'
  BY <1>3 DEF UpdateLater, IInv, KnownInv, TurnInv, RefusalInv, SettledIsStored
<1>4. ASSUME TimerFires \/ Flush \/ (WriteDeferred /\ ~deferredPending)
      PROVE  KnownInv' /\ TurnInv' /\ RefusalInv' /\ SettledIsStored'
  <2>1. UNCHANGED <<file, db, mem, before, pc, task, persistedCold, persistedRows,
                    coldStripPending, deferredPending, bumped>>
    BY <1>4 DEF TimerFires, Flush, WriteDeferred
  <2> QED
    BY <2>1 DEF IInv, KnownInv, TurnInv, RefusalInv, SettledIsStored, Stored, Durable, WritesCold
<1> QED
  BY <1>1, <1>2, <1>3, <1>4

\* The journaled file is the new state already; with the batch, or without, it stays that.
LEMMA InvWrites ==
    IInv /\ (JournalLands \/ BatchLands \/ BatchOwed \/ ColdLands \/ StripFails \/ WriteFails)
    => KnownInv' /\ TurnInv' /\ RefusalInv' /\ SettledIsStored'
<1> SUFFICES ASSUME IInv
             PROVE  (JournalLands \/ BatchLands \/ BatchOwed \/ ColdLands \/ StripFails \/ WriteFails)
                    => KnownInv' /\ TurnInv' /\ RefusalInv' /\ SettledIsStored'
  OBVIOUS
<1> USE DEF disks, known, bounds, turns, owed
<1>r. pc # "load" => persistedRows = db /\ Replay(Ops(mem.rows, db), db) = mem.rows
                     /\ Replay(Ops(mem.rows, db), mem.rows) = mem.rows
  BY Files, ReplayOps DEF IInv, KnownInv
<1>1. ASSUME JournalLands PROVE KnownInv' /\ TurnInv' /\ RefusalInv' /\ SettledIsStored'
  BY <1>1, <1>r DEF JournalLands, IInv, KnownInv, TurnInv, RefusalInv, SettledIsStored
<1>2. ASSUME BatchLands, pc = "batch" PROVE KnownInv' /\ TurnInv' /\ RefusalInv' /\ SettledIsStored'
  <2>1. db' = mem.rows /\ persistedRows' = mem.rows /\ pc' = "strip"
    BY <1>2, <1>r DEF BatchLands
  <2>2. file.journal = Ops(mem.rows, db) /\ file.cold = mem.cold /\ persistedCold = <<>>
    BY <1>2 DEF IInv, TurnInv
  <2>3. Replay(file.journal, db)' = db'
    BY <1>2, <1>r, <2>1, <2>2 DEF BatchLands
  <2> QED
    BY <1>2, <2>1, <2>2, <2>3 DEF BatchLands, KnownInv, TurnInv, RefusalInv, SettledIsStored
<1>3. ASSUME BatchLands, pc = "rows" PROVE KnownInv' /\ TurnInv' /\ RefusalInv' /\ SettledIsStored'
  <2>1. db' = mem.rows /\ persistedRows' = mem.rows /\ pc' = "landed"
    BY <1>3, <1>r DEF BatchLands
  <2>2. persistedCold = <<mem.cold>> /\ ~coldStripPending
    BY <1>3 DEF IInv, TurnInv, TypeOK, WritesCold
  <2>3. file.cold = mem.cold /\ file.journal = NoJournal
    BY <1>3, <2>2 DEF IInv, KnownInv
  <2>4. Replay(NoJournal, mem.rows) = mem.rows
    BY Files, ReplayNothing
  <2>5. Durable' = mem'
    BY <1>3, <2>1, <2>3, <2>4, Files DEF BatchLands, Durable
  <2> QED
    BY <1>3, <2>1, <2>2, <2>3, <2>4, <2>5 DEF BatchLands, KnownInv, TurnInv, RefusalInv, SettledIsStored
<1>4. ASSUME BatchOwed PROVE KnownInv' /\ TurnInv' /\ RefusalInv' /\ SettledIsStored'
  <2>1. Durable = mem
    BY <1>4, <1>r, Files DEF BatchOwed, IInv, TurnInv
  <2>2. Durable' = Durable
    BY <1>4 DEF BatchOwed, Durable
  <2> QED
    BY <1>4, <2>1, <2>2 DEF BatchOwed, IInv, KnownInv, TurnInv, RefusalInv, SettledIsStored
<1>5. ASSUME ColdLands PROVE KnownInv' /\ TurnInv' /\ RefusalInv' /\ SettledIsStored'
  <2>1. db = mem.rows /\ persistedRows = db
    BY <1>5 DEF ColdLands, IInv, KnownInv, TurnInv
  <2>2. Replay(NoJournal, db) = db
    BY Files, ReplayNothing
  <2>3. Durable' = mem'
    BY <1>5, <2>1, <2>2, Files DEF ColdLands, Durable
  <2> QED
    BY <1>5, <2>1, <2>2, <2>3 DEF ColdLands, KnownInv, TurnInv, RefusalInv, SettledIsStored
<1>6. ASSUME StripFails PROVE KnownInv' /\ TurnInv' /\ RefusalInv' /\ SettledIsStored'
  <2>1. Durable = mem /\ db = mem.rows
    BY <1>6, Files DEF StripFails, IInv, TurnInv
  <2>2. Durable' = Durable
    BY <1>6 DEF StripFails, Durable
  <2> QED
    BY <1>6, <2>1, <2>2 DEF StripFails, IInv, KnownInv, TurnInv, RefusalInv, SettledIsStored
<1>7. ASSUME WriteFails PROVE KnownInv' /\ TurnInv' /\ RefusalInv' /\ SettledIsStored'
  BY <1>7 DEF WriteFails, IInv, KnownInv, TurnInv, RefusalInv, SettledIsStored, Stored, Durable
<1> QED
  BY <1>1, <1>2, <1>3, <1>4, <1>5, <1>6, <1>7 DEF BatchLands

LEMMA InvEnds ==
    IInv /\ (Landed \/ Failed \/ Crash \/ Load)
    => KnownInv' /\ TurnInv' /\ RefusalInv' /\ SettledIsStored'
<1> SUFFICES ASSUME IInv
             PROVE  (Landed \/ Failed \/ Crash \/ Load)
                    => KnownInv' /\ TurnInv' /\ RefusalInv' /\ SettledIsStored'
  OBVIOUS
<1> USE DEF disks, known, bounds, turns, owed
<1>1. ASSUME Landed PROVE KnownInv' /\ TurnInv' /\ RefusalInv' /\ SettledIsStored'
  <2>1. Durable' = Durable /\ Durable = mem /\ file.cold = mem.cold
    BY <1>1, Files DEF Landed, Durable, IInv, TurnInv
  <2>2. ~deferredPending' => db = mem.rows
    BY <1>1, Files DEF Landed, IInv, TurnInv
  <2> QED
    BY <1>1, <2>1, <2>2 DEF Landed, IInv, KnownInv, TurnInv, RefusalInv, SettledIsStored
<1>2. ASSUME Failed PROVE KnownInv' /\ TurnInv' /\ RefusalInv' /\ SettledIsStored'
  <2>1. ~deferredPending => Stored(before) /\ mem' = before
    BY <1>2 DEF Failed, IInv, RefusalInv, TypeOK
  <2>2. Durable' = Durable
    BY <1>2 DEF Failed, Durable
  <2> QED
    BY <1>2, <2>1, <2>2 DEF Failed, Stored, IInv, KnownInv, TurnInv, RefusalInv, SettledIsStored
<1>3. ASSUME Crash PROVE KnownInv' /\ TurnInv' /\ RefusalInv' /\ SettledIsStored'
  <2>1. Durable' = Durable
    BY <1>3 DEF Crash, Durable
  <2> QED
    BY <1>3, <2>1 DEF Crash, KnownInv, TurnInv, RefusalInv, SettledIsStored
<1>4. ASSUME Load PROVE KnownInv' /\ TurnInv' /\ RefusalInv' /\ SettledIsStored'
  <2>1. Replay(file.journal, db') = db'
    BY <1>4, Files, ReplayTwice DEF Load
  <2>2. mem' = [cold |-> file.cold, rows |-> db'] /\ file' = file
    BY <1>4 DEF Load
  <2>3. Durable' = mem'
    BY <2>1, <2>2 DEF Durable
  <2>4. mem'.rows = db' /\ mem'.cold = file.cold
    BY <2>2
  <2> QED
    BY <1>4, <2>1, <2>2, <2>3, <2>4 DEF Load, KnownInv, TurnInv, RefusalInv, SettledIsStored
<1> QED
  BY <1>1, <1>2, <1>3, <1>4

LEMMA InvStep == IInv /\ [Next]_vars => IInv'
<1> SUFFICES ASSUME IInv, [Next]_vars PROVE IInv'
  OBVIOUS
<1>1. TypeOK'
  BY TypedStep DEF IInv
<1>2. KnownInv' /\ TurnInv' /\ RefusalInv' /\ SettledIsStored'
  <2>1. CASE UNCHANGED vars
    BY <2>1 DEF vars, IInv, KnownInv, TurnInv, RefusalInv, SettledIsStored, Stored, Durable, WritesCold
  <2> QED
    BY <2>1, InvRequests, InvWrites, InvEnds DEF Next, Writing
<1> QED
  BY <1>1, <1>2 DEF IInv

THEOREM Invariance == Spec => []IInv
<1>1. Init => IInv
  BY InvInit
<1>2. IInv /\ [Next]_vars => IInv'
  BY InvStep
<1> QED
  BY <1>1, <1>2, PTL DEF Spec

\* Between turns with nothing owed, both files hold what memory holds: a refused change is
\* taken back whole, and a batch or a strip left for later stays owed until it lands.
THEOREM SettledStaysStored == Spec => []SettledIsStored
<1>1. IInv => SettledIsStored
  BY DEF IInv
<1> QED
  BY <1>1, Invariance, PTL

-----------------------------------------------------------------------------
(* The two files implement the store of one.                               *)

LEMMA RefinesInit == Init => Atomic!SInit
<1> SUFFICES ASSUME Init PROVE Atomic!SInit
  OBVIOUS
<1>1. IInv
  BY InvInit
<1>2. Durable = mem /\ mem \in States
  BY <1>1, Files DEF Init, IInv, SettledIsStored
<1> QED
  BY <1>2 DEF Init, Atomic!SInit

LEMMA TurnBegins ==
    ASSUME IInv, pc = "idle", NEW s \in States, NEW who \in {"update", "save"}, Turn(s, who),
           who = "save" => deferredPending /\ s = mem,
           UNCHANGED <<disks, known, deferredPending>>
    PROVE  Atomic!SNext
<1>1. pc' \in {"journal", "cold", "rows", "landed"} /\ mem' = s /\ before' = mem /\ task' = who
  BY DEF Turn, Route
<1>2. pc' = "landed" => s = Durable
  BY TurnStarts
<1>3. Durable' = Durable
  BY DEF Durable, disks
<1>4. Atomic!Begin(s, who)
  BY <1>1, <1>2, <1>3 DEF Atomic!Begin
<1> QED
  BY <1>4 DEF Atomic!SNext

\* A request begins a turn or is owed; a timer and an empty late save are no step at all.
LEMMA RequestsRefine ==
    IInv /\ (\/ \E q \in Requests : Update(q) \/ UpdateLater(q)
             \/ UpdateNothing \/ TimerFires \/ Flush \/ WriteDeferred)
    => Atomic!SNext \/ UNCHANGED Atomic!svars
<1> SUFFICES ASSUME IInv
             PROVE  (\/ \E q \in Requests : Update(q) \/ UpdateLater(q)
                     \/ UpdateNothing \/ TimerFires \/ Flush \/ WriteDeferred)
                    => Atomic!SNext \/ UNCHANGED Atomic!svars
  OBVIOUS
<1> USE DEF disks, known, bounds
<1>1. ASSUME NEW q \in Requests, Update(q) PROVE Atomic!SNext
  BY <1>1, Files, AppliedIsState, TurnBegins DEF Update
<1>2. ASSUME UpdateNothing \/ (WriteDeferred /\ deferredPending) PROVE Atomic!SNext
  BY <1>2, Files, TurnBegins DEF UpdateNothing, WriteDeferred
<1>3. ASSUME NEW q \in Requests, UpdateLater(q) PROVE Atomic!SNext
  <2>1. Durable' = Durable
    BY <1>3 DEF UpdateLater, Durable
  <2>2. Applied(q, mem) \in States
    BY Files, AppliedIsState
  <2>3. Atomic!Defer(Applied(q, mem))
    BY <1>3, <2>1 DEF UpdateLater, Atomic!Defer
  <2> QED
    BY <2>2, <2>3 DEF Atomic!SNext
<1>4. ASSUME TimerFires \/ Flush \/ (WriteDeferred /\ ~deferredPending)
      PROVE  UNCHANGED Atomic!svars
  <2>1. UNCHANGED <<file, db, mem, before, pc, task>>
    BY <1>4 DEF TimerFires, Flush, WriteDeferred
  <2> QED
    BY <2>1 DEF Atomic!svars, Durable
<1> QED
  BY <1>1, <1>2, <1>3, <1>4

\* One write of a turn is the commit: the journaled file, the file alone or the rows alone.
LEMMA WritesRefine ==
    IInv /\ (JournalLands \/ BatchLands \/ BatchOwed \/ ColdLands \/ StripFails \/ WriteFails)
    => Atomic!SNext \/ UNCHANGED Atomic!svars
<1> SUFFICES ASSUME IInv
             PROVE  (JournalLands \/ BatchLands \/ BatchOwed \/ ColdLands \/ StripFails \/ WriteFails)
                    => Atomic!SNext \/ UNCHANGED Atomic!svars
  OBVIOUS
<1> USE DEF disks, known, bounds, turns, owed
<1>t. task \in {"update", "save"}
  BY DEF IInv, TypeOK
<1>r. pc # "load" => persistedRows = db /\ Replay(Ops(mem.rows, db), db) = mem.rows
                     /\ Replay(Ops(mem.rows, db), mem.rows) = mem.rows
  BY Files, ReplayOps DEF IInv, KnownInv
<1>c. ASSUME UNCHANGED <<mem, before, task>>, pc \in {"journal", "cold", "rows"},
             pc' \in {"batch", "landed"}, Durable' = mem
      PROVE  Atomic!SNext
  BY <1>c, <1>t DEF Atomic!SNext, Atomic!Commit
<1>s. ASSUME UNCHANGED <<mem, before, task>>, Durable' = Durable,
             \/ pc \in {"batch", "strip"} /\ pc' \in {"strip", "landed"}
             \/ pc \in {"journal", "cold", "rows"} /\ pc' = "failed"
      PROVE  UNCHANGED Atomic!svars
  BY <1>s DEF Atomic!svars
<1>1. ASSUME JournalLands PROVE Atomic!SNext
  <2>1. file' = [cold |-> mem.cold, journal |-> Ops(mem.rows, db)] /\ db' = db
    BY <1>1, <1>r DEF JournalLands
  <2>2. Durable' = mem
    BY <1>1, <1>r, <2>1, Files DEF JournalLands, Durable
  <2> QED
    BY <1>1, <1>c, <2>2 DEF JournalLands
<1>2. ASSUME BatchLands, pc = "batch" PROVE UNCHANGED Atomic!svars
  <2>1. file = [cold |-> mem.cold, journal |-> Ops(mem.rows, db)] /\ db' = mem.rows /\ file' = file
    BY <1>2, <1>r DEF BatchLands, IInv, TurnInv
  <2>2. Durable = mem /\ Durable' = mem
    BY <1>2, <1>r, <2>1, Files DEF Durable
  <2> QED
    BY <1>2, <1>s, <2>2 DEF BatchLands
<1>3. ASSUME BatchLands, pc = "rows" PROVE Atomic!SNext
  <2>1. db' = mem.rows /\ file' = file
    BY <1>3, <1>r DEF BatchLands
  <2>2. persistedCold = <<mem.cold>> /\ ~coldStripPending
    BY <1>3 DEF IInv, TurnInv, TypeOK, WritesCold
  <2>3. file.cold = mem.cold /\ file.journal = NoJournal
    BY <1>3, <2>2 DEF IInv, KnownInv
  <2>4. Durable' = mem
    BY <2>1, <2>3, Files, ReplayNothing DEF Durable
  <2> QED
    BY <1>3, <1>c, <2>4 DEF BatchLands
<1>4. ASSUME BatchOwed \/ StripFails \/ WriteFails PROVE UNCHANGED Atomic!svars
  <2>1. Durable' = Durable
    BY <1>4 DEF BatchOwed, StripFails, WriteFails, Durable
  <2> QED
    BY <1>4, <1>s, <2>1 DEF BatchOwed, StripFails, WriteFails
<1>5. ASSUME ColdLands PROVE Atomic!SNext \/ UNCHANGED Atomic!svars
  <2>1. db = mem.rows
    BY <1>5 DEF ColdLands, IInv, KnownInv, TurnInv
  <2>2. Durable' = mem
    BY <1>5, <2>1, Files, ReplayNothing DEF ColdLands, Durable
  <2>3. pc = "strip" => Durable = mem
    BY <2>1, Files DEF IInv, TurnInv
  <2> QED
    BY <1>5, <1>c, <1>s, <2>2, <2>3 DEF ColdLands
<1> QED
  BY <1>1, <1>2, <1>3, <1>4, <1>5 DEF BatchLands

LEMMA EndsRefine ==
    IInv /\ (Landed \/ Failed \/ Crash \/ Load) => Atomic!SNext \/ UNCHANGED Atomic!svars
<1> SUFFICES ASSUME IInv
             PROVE  (Landed \/ Failed \/ Crash \/ Load) => Atomic!SNext \/ UNCHANGED Atomic!svars
  OBVIOUS
<1> USE DEF disks, known, bounds, turns, owed
<1>t. task \in {"update", "save"}
  BY DEF IInv, TypeOK
<1>1. ASSUME Landed PROVE Atomic!SNext
  <2>1. Durable' = Durable
    BY <1>1 DEF Landed, Durable
  <2>2. Atomic!Accept
    BY <1>1, <1>t, <2>1 DEF Landed, Atomic!Accept
  <2> QED
    BY <2>2 DEF Atomic!SNext
<1>2. ASSUME Failed PROVE Atomic!SNext
  <2>1. Durable' = Durable
    BY <1>2 DEF Failed, Durable
  <2>2. Atomic!Refuse
    BY <1>2, <1>t, <2>1 DEF Failed, Atomic!Refuse
  <2> QED
    BY <2>2 DEF Atomic!SNext
<1>3. ASSUME Crash PROVE Atomic!SNext
  <2>1. Durable' = Durable
    BY <1>3 DEF Crash, Durable
  <2>2. Atomic!Crash
    BY <1>3, <2>1 DEF Crash, Atomic!Crash
  <2> QED
    BY <2>2 DEF Atomic!SNext
<1>4. ASSUME Load PROVE UNCHANGED Atomic!svars
  <2>1. Replay(file.journal, db') = db' /\ db' = Replay(file.journal, db)
    BY <1>4, Files, ReplayTwice DEF Load
  <2>2. Durable' = Durable /\ mem' = mem
    BY <1>4, <2>1, Files DEF Load, Durable, IInv, TurnInv
  <2> QED
    BY <1>4, <2>2 DEF Load, Atomic!svars
<1> QED
  BY <1>1, <1>2, <1>3, <1>4

\* The store of two files is the store of one: a change reaches storage in one step, the
\* commit of writePersisted(), and no failure, crash or replay shows half of it.
THEOREM StateImplementsAtomicStore == Spec => ImplementsAtomicStore
<1>1. Init => Atomic!SInit
  BY RefinesInit
<1>2. IInv /\ [Next]_vars => [Atomic!SNext]_(Atomic!svars)
  <2> SUFFICES ASSUME IInv, [Next]_vars PROVE Atomic!SNext \/ UNCHANGED Atomic!svars
    BY DEF Atomic!svars
  <2>1. CASE UNCHANGED vars
    BY <2>1 DEF vars, Atomic!svars, Durable
  <2> QED
    BY <2>1, RequestsRefine, WritesRefine, EndsRefine DEF Next, Writing
<1> QED
  BY <1>1, <1>2, Invariance, PTL DEF Spec, ImplementsAtomicStore, Atomic!SSpec

\* An update that is about to be answered as accepted has all of memory in storage: there
\* is no moment between its commit and its answer at which a crash could take it back.
THEOREM AcceptedUpdateIsStored == Spec => []Atomic!CommittedIsStored
<1>1. IInv => Atomic!CommittedIsStored
  <2> SUFFICES ASSUME IInv, pc \in {"batch", "strip", "landed"} PROVE Durable = mem
    BY DEF Atomic!CommittedIsStored
  <2>1. CASE pc = "batch"
    <3>1. Replay(Ops(mem.rows, db), db) = mem.rows
      BY Files, ReplayOps
    <3> QED
      BY <2>1, <3>1, Files DEF IInv, TurnInv
  <2>2. CASE pc \in {"strip", "landed"}
    BY <2>2, Files DEF IInv, TurnInv
  <2> QED
    BY <2>1, <2>2
<1> QED
  BY <1>1, Invariance, PTL
=============================================================================
