------------------------ MODULE SearchSessionProofs ------------------------
(***************************************************************************)
(* The shared scheduler stays sound for any sessions, sources and limits:  *)
(* the counters are exact, no limit is passed, no job that may run waits   *)
(* beside a free slot and a search that is gone leaves no job behind that  *)
(* takes one. IInv adds the token by which a source knows its job.         *)
(* A source shows its rows in order, whoever answers after its time: PInv  *)
(* adds what the page it waits for, and the end of its job, can change.    *)
(***************************************************************************)
EXTENDS SearchSession, FiniteSetTheorems, TLAPS

-----------------------------------------------------------------------------
(* The invariant.                                                          *)

\* pump() runs only while it has something to admit.
PumpAdmits == pumping => Admits

Sched == SchedulerTypeOK /\ CountsMatch /\ LimitsKept /\ NoIdleSlot /\ PumpAdmits

Alive(e) == e.s \in Live /\ e.x \in sources[e.s]
Told == {t.e : t \in settled}

\* A job that waits is the one its source knows, and no job of a source is newer than that one.
Linked ==
    /\ \A e \in queued : ~Dead(e) /\ rec[e.s][e.x].jobRunning
    /\ \A e \in active \cup Told : Alive(e) => e.n <= rec[e.s][e.x].jobToken
    /\ \A e \in Told : e \notin queued
    /\ \A e \in queued \cup active \cup Told : phase[e.s] # "new"
    /\ \A e \in active \ cancelRequested : e.s \in Live

IInv == TypeOK /\ Sched /\ Linked

-----------------------------------------------------------------------------
(* The counters.                                                           *)

LEMMA PartsFinite ==
    ASSUME SchedulerTypeOK
    PROVE  /\ Cardinality(active) \in Nat
           /\ \A s \in Ids, c \in Classes :
                 IsFiniteSet(Running(s, c)) /\ Cardinality(Running(s, c)) \in Nat
           /\ \A p \in Pools : IsFiniteSet(Connected(p)) /\ Cardinality(Connected(p)) \in Nat
<1>1. Cardinality(active) \in Nat
  BY FS_CardinalityType DEF SchedulerTypeOK
<1>2. \A S \in SUBSET active : IsFiniteSet(S) /\ Cardinality(S) \in Nat
  BY FS_Subset, FS_CardinalityType DEF SchedulerTypeOK
<1> QED
  BY <1>1, <1>2 DEF Running, Connected

\* One entry more, or one fewer, in a part of the active ones
LEMMA OneMore ==
    ASSUME NEW S, IsFiniteSet(S), NEW e, e \notin S
    PROVE  IsFiniteSet(S \cup {e}) /\ Cardinality(S \cup {e}) = Cardinality(S) + 1
BY FS_AddElement

LEMMA OneFewer ==
    ASSUME NEW S, IsFiniteSet(S), NEW e \in S
    PROVE  IsFiniteSet(S \ {e}) /\ Cardinality(S \ {e}) = Cardinality(S) - 1
BY FS_RemoveElement

LEMMA ClassOfEntry ==
    ASSUME NEW e \in Entries
    PROVE  /\ e.s \in Ids /\ e.x \in Sources /\ e.n \in Nat
           /\ Class[e.x] \in Classes /\ Pool[e.x] \in Pools
BY SchedulerAssumption DEF Entries, Pools

\* Nothing of the scheduler changes but results that are forgotten.
LEMMA QuietKeeps ==
    ASSUME Sched, UNCHANGED <<queues, counts, rotation, pumping>>, settled' \subseteq settled
    PROVE  Sched'
<1> USE DEF queues, counts, rotation
<1>1. SchedulerTypeOK'
  BY DEF Sched, SchedulerTypeOK
<1>2. CountsMatch' /\ LimitsKept'
  BY DEF Sched, CountsMatch, LimitsKept, Running, Connected
<1>3. Runnable' = Runnable
  BY DEF Runnable, CanRun
<1>4. NoIdleSlot' /\ PumpAdmits'
  BY <1>3 DEF Sched, NoIdleSlot, PumpAdmits, Admits
<1> QED
  BY <1>1, <1>2, <1>4 DEF Sched

LEMMA EnqueueKeeps ==
    ASSUME Sched, NEW e \in Entries, e \notin active, Enqueue(e)
    PROVE  Sched'
<1> USE DEF counts, rotation
<1>1. SchedulerTypeOK'
  BY DEF Sched, SchedulerTypeOK, Enqueue, Admits
<1>2. CountsMatch' /\ LimitsKept'
  BY DEF Sched, CountsMatch, LimitsKept, Running, Connected, Enqueue
<1>3. NoIdleSlot' /\ PumpAdmits'
  BY DEF NoIdleSlot, PumpAdmits, Enqueue, Admits
<1> QED
  BY <1>1, <1>2, <1>3 DEF Sched

LEMMA CancelKeeps ==
    ASSUME Sched, NEW E, Cancel(E)
    PROVE  Sched'
<1> USE DEF counts, rotation
<1>1. SchedulerTypeOK'
  BY DEF Sched, SchedulerTypeOK, Cancel, Admits
<1>2. CountsMatch' /\ LimitsKept'
  BY DEF Sched, CountsMatch, LimitsKept, Running, Connected, Cancel
<1>3. Runnable' \subseteq Runnable
  BY DEF Runnable, CanRun, Cancel
<1>4. NoIdleSlot' /\ PumpAdmits'
  BY <1>3 DEF Sched, NoIdleSlot, PumpAdmits, Cancel, Admits
<1> QED
  BY <1>1, <1>2, <1>4 DEF Sched

-----------------------------------------------------------------------------
LEMMA AdmitKeeps ==
    ASSUME Sched, NEW e \in Runnable, Admit(e)
    PROVE  Sched'
<1> USE DEF counts, rotation
<1> DEFINE c0 == Class[e.x]
           p0 == Pool[e.x]
<1>1. e \in queued /\ e \in Entries /\ e \notin active /\ CanRun(e)
  BY DEF Runnable, Sched, SchedulerTypeOK
<1>2. e.s \in Ids /\ e.x \in Sources /\ c0 \in Classes /\ p0 \in Pools
  BY <1>1, ClassOfEntry
<1>3. IsFiniteSet(active) /\ IsFiniteSet(active') /\ Cardinality(active') = Cardinality(active) + 1
  BY <1>1, OneMore DEF Sched, SchedulerTypeOK, Admit
<1>4. Cardinality(active') <= JobsServerWide
  BY <1>3, PartsFinite, SchedulerAssumption DEF Sched, PumpAdmits, Admits, Admit
<1>5. SchedulerTypeOK'
  <2>1. queued' \subseteq Entries /\ active' \subseteq Entries /\ queued' \cap active' = {}
        /\ cancelRequested' \subseteq active' /\ settled' = settled
    BY <1>1 DEF Sched, SchedulerTypeOK, Admit
  <2>2. sessionClassActive' \in [Ids -> [Classes -> Nat]] /\ poolActive' \in [Pools -> Nat]
    BY <1>2 DEF Sched, SchedulerTypeOK, Admit
  <2>3. lastSession' \in Ids \cup {0} /\ lastClass' \in [Ids -> Classes \cup {0}]
        /\ lastPool' \in [Ids -> [Classes -> Pools \cup {0}]]
    BY <1>2 DEF Sched, SchedulerTypeOK, Admit
  <2> QED
    BY <1>3, <2>1, <2>2, <2>3 DEF Sched, SchedulerTypeOK, Admit, Admits
<1>6. ASSUME NEW s \in Ids, NEW c \in Classes
      PROVE  /\ sessionClassActive'[s][c] = Cardinality(Running(s, c)')
             /\ Cardinality(Running(s, c)') <= PerSession[c]
  <2>1. sessionClassActive[s][c] = Cardinality(Running(s, c)) /\ Cardinality(Running(s, c)) <= PerSession[c]
    BY DEF Sched, CountsMatch, LimitsKept
  <2>2. CASE s = e.s /\ c = c0
    <3>1. Running(s, c)' = Running(s, c) \cup {e} /\ e \notin Running(s, c)
      BY <1>1, <2>2 DEF Running, Admit
    <3>2. Cardinality(Running(s, c)') = Cardinality(Running(s, c)) + 1
      BY <3>1, OneMore, PartsFinite DEF Sched
    <3>3. sessionClassActive'[s][c] = sessionClassActive[s][c] + 1
      BY <1>2, <2>2 DEF Admit, Sched, SchedulerTypeOK
    <3>4. sessionClassActive[s][c] < PerSession[c]
      BY <1>1, <2>2 DEF CanRun
    <3>5. PerSession[c] \in Nat /\ Cardinality(Running(s, c)) \in Nat
      BY SchedulerAssumption, PartsFinite DEF Sched
    <3> QED
      BY <2>1, <3>2, <3>3, <3>4, <3>5
  <2>3. CASE ~(s = e.s /\ c = c0)
    <3>1. Running(s, c)' = Running(s, c)
      BY <1>1, <2>3 DEF Running, Admit
    <3>2. sessionClassActive'[s][c] = sessionClassActive[s][c]
      BY <1>2, <2>3 DEF Admit, Sched, SchedulerTypeOK
    <3> QED
      BY <2>1, <3>1, <3>2
  <2> QED
    BY <2>2, <2>3
<1>7. ASSUME NEW p \in Pools
      PROVE  /\ poolActive'[p] = Cardinality(Connected(p)')
             /\ Cardinality(Connected(p)') <= PerPool
  <2>1. poolActive[p] = Cardinality(Connected(p)) /\ Cardinality(Connected(p)) <= PerPool
    BY DEF Sched, CountsMatch, LimitsKept
  <2>2. CASE c0 = Remote /\ p = p0
    <3>1. Connected(p)' = Connected(p) \cup {e} /\ e \notin Connected(p)
      BY <1>1, <2>2 DEF Connected, Admit
    <3>2. Cardinality(Connected(p)') = Cardinality(Connected(p)) + 1
      BY <3>1, OneMore, PartsFinite DEF Sched
    <3>3. poolActive'[p] = poolActive[p] + 1
      BY <1>2, <2>2 DEF Admit, Sched, SchedulerTypeOK
    <3>4. poolActive[p] < PerPool
      BY <1>1, <2>2 DEF CanRun
    <3>5. PerPool \in Nat /\ Cardinality(Connected(p)) \in Nat
      BY SchedulerAssumption, PartsFinite DEF Sched
    <3> QED
      BY <2>1, <3>2, <3>3, <3>4, <3>5
  <2>3. CASE ~(c0 = Remote /\ p = p0)
    <3>1. Connected(p)' = Connected(p)
      BY <1>1, <2>3 DEF Connected, Admit
    <3>2. poolActive'[p] = poolActive[p]
      BY <1>2, <2>3 DEF Admit, Sched, SchedulerTypeOK
    <3> QED
      BY <2>1, <3>1, <3>2
  <2> QED
    BY <2>2, <2>3
<1>8. CountsMatch' /\ LimitsKept'
  BY <1>4, <1>6, <1>7 DEF CountsMatch, LimitsKept
<1>9. NoIdleSlot' /\ PumpAdmits'
  BY DEF NoIdleSlot, PumpAdmits, Admit, Admits
<1> QED
  BY <1>5, <1>8, <1>9 DEF Sched

LEMMA ReleaseKeeps ==
    ASSUME Sched, NEW e, NEW result \in Results, Release(e, result)
    PROVE  Sched'
<1> USE DEF counts, rotation
<1> DEFINE c0 == Class[e.x]
           p0 == Pool[e.x]
<1>1. e \in active /\ e \in Entries
  BY DEF Release, Sched, SchedulerTypeOK
<1>2. e.s \in Ids /\ e.x \in Sources /\ c0 \in Classes /\ p0 \in Pools
  BY <1>1, ClassOfEntry
<1>3. IsFiniteSet(active') /\ Cardinality(active') = Cardinality(active) - 1
  BY <1>1, OneFewer DEF Sched, SchedulerTypeOK, Release
<1>4. Cardinality(active') <= JobsServerWide
  BY <1>3, PartsFinite, SchedulerAssumption DEF Sched, LimitsKept
<1>6. ASSUME NEW s \in Ids, NEW c \in Classes
      PROVE  /\ sessionClassActive'[s][c] = Cardinality(Running(s, c)')
             /\ Cardinality(Running(s, c)') <= PerSession[c]
             /\ sessionClassActive'[s][c] \in Nat
  <2>1. sessionClassActive[s][c] = Cardinality(Running(s, c)) /\ Cardinality(Running(s, c)) <= PerSession[c]
    BY DEF Sched, CountsMatch, LimitsKept
  <2>2. PerSession[c] \in Nat /\ Cardinality(Running(s, c)) \in Nat /\ IsFiniteSet(Running(s, c))
    BY SchedulerAssumption, PartsFinite DEF Sched
  <2>3. CASE s = e.s /\ c = c0
    <3>1. Running(s, c)' = Running(s, c) \ {e} /\ e \in Running(s, c)
      BY <1>1, <2>3 DEF Running, Release
    <3>2. Cardinality(Running(s, c)') = Cardinality(Running(s, c)) - 1
          /\ Cardinality(Running(s, c)') \in Nat
      BY <2>2, <3>1, OneFewer, FS_CardinalityType
    <3>3. sessionClassActive'[s][c] = sessionClassActive[s][c] - 1
      BY <1>2, <2>3 DEF Release, Sched, SchedulerTypeOK
    <3> QED
      BY <2>1, <2>2, <3>2, <3>3
  <2>4. CASE ~(s = e.s /\ c = c0)
    <3>1. Running(s, c)' = Running(s, c)
      BY <1>1, <2>4 DEF Running, Release
    <3>2. sessionClassActive'[s][c] = sessionClassActive[s][c]
      BY <1>2, <2>4 DEF Release, Sched, SchedulerTypeOK
    <3> QED
      BY <2>1, <2>2, <3>1, <3>2
  <2> QED
    BY <2>3, <2>4
<1>7. ASSUME NEW p \in Pools
      PROVE  /\ poolActive'[p] = Cardinality(Connected(p)')
             /\ Cardinality(Connected(p)') <= PerPool
             /\ poolActive'[p] \in Nat
  <2>1. poolActive[p] = Cardinality(Connected(p)) /\ Cardinality(Connected(p)) <= PerPool
    BY DEF Sched, CountsMatch, LimitsKept
  <2>2. PerPool \in Nat /\ Cardinality(Connected(p)) \in Nat /\ IsFiniteSet(Connected(p))
    BY SchedulerAssumption, PartsFinite DEF Sched
  <2>3. CASE c0 = Remote /\ p = p0
    <3>1. Connected(p)' = Connected(p) \ {e} /\ e \in Connected(p)
      BY <1>1, <2>3 DEF Connected, Release
    <3>2. Cardinality(Connected(p)') = Cardinality(Connected(p)) - 1 /\ Cardinality(Connected(p)') \in Nat
      BY <2>2, <3>1, OneFewer, FS_CardinalityType
    <3>3. poolActive'[p] = poolActive[p] - 1
      BY <1>2, <2>3 DEF Release, Sched, SchedulerTypeOK
    <3> QED
      BY <2>1, <2>2, <3>2, <3>3
  <2>4. CASE ~(c0 = Remote /\ p = p0)
    <3>1. Connected(p)' = Connected(p)
      BY <1>1, <2>4 DEF Connected, Release
    <3>2. poolActive'[p] = poolActive[p]
      BY <1>2, <2>4 DEF Release, Sched, SchedulerTypeOK
    <3> QED
      BY <2>1, <2>2, <3>1, <3>2
  <2> QED
    BY <2>3, <2>4
<1>5. SchedulerTypeOK'
  <2>1. queued' \subseteq Entries /\ active' \subseteq Entries /\ queued' \cap active' = {}
        /\ cancelRequested' \subseteq active'
    BY DEF Sched, SchedulerTypeOK, Release
  <2>2. settled' \subseteq [e : Entries, result : Results]
    BY <1>1 DEF Sched, SchedulerTypeOK, Release
  <2>3. sessionClassActive' \in [Ids -> [Classes -> Nat]]
    <3>1. sessionClassActive' = [sessionClassActive EXCEPT ![e.s][c0] = @ - 1]
      BY DEF Release
    <3>2. \A s \in Ids, c \in Classes : sessionClassActive'[s][c] \in Nat
      BY <1>6
    <3>3. sessionClassActive \in [Ids -> [Classes -> Nat]]
      BY DEF Sched, SchedulerTypeOK
    <3> QED
      BY <1>2, <3>1, <3>2, <3>3
  <2>4. poolActive' \in [Pools -> Nat]
    <3>1. \A p \in Pools : poolActive'[p] \in Nat
      BY <1>7
    <3> QED
      BY <1>2, <3>1 DEF Sched, SchedulerTypeOK, Release
  <2> QED
    BY <1>3, <2>1, <2>2, <2>3, <2>4 DEF Sched, SchedulerTypeOK, Release, Admits
<1>8. CountsMatch' /\ LimitsKept'
  BY <1>4, <1>6, <1>7 DEF CountsMatch, LimitsKept
<1>9. NoIdleSlot' /\ PumpAdmits'
  BY DEF NoIdleSlot, PumpAdmits, Release, Admits
<1> QED
  BY <1>5, <1>8, <1>9 DEF Sched

-----------------------------------------------------------------------------
(* Sessions and sources.                                                   *)

RecType == [Ids -> [Sources -> SourceState]]

SessionTyped ==
    /\ phase \in [Ids -> {"new", "live", "gone"}] /\ slots \in [Slots -> Ids \cup {0}]
    /\ sources \in [Ids -> SUBSET Sources] /\ rec \in RecType
    /\ limited \subseteq Ids /\ initial \in [Ids -> {"none", "waiting", "resolved"}]

CallTyped ==
    /\ todo \subseteq [kind : {"page", "more", "ready"}, s : Ids, x : Sources]
    /\ starting \subseteq active
    /\ fetching \subseteq [e : Entries, at : Nat, cold : BOOLEAN]
    /\ ended \subseteq [e : Entries, result : Results]

WorldTyped ==
    /\ current \subseteq Owners /\ allowed \subseteq Sources /\ ready \in BOOLEAN
    /\ mishaps \in Nat

LEMMA TypeParts == TypeOK <=> SchedulerTypeOK /\ SessionTyped /\ CallTyped /\ WorldTyped
BY DEF TypeOK, SessionTyped, CallTyped, WorldTyped, RecType

LEMMA NewSourceTyped ==
    ASSUME NEW x \in Sources
    PROVE  NewSource(x) \in SourceState
BY DEF NewSource, SourceState, SourceStates

LEMMA EntryIs ==
    ASSUME NEW e \in Entries, NEW f \in Entries, e.s = f.s, e.x = f.x, e.n = f.n
    PROVE  e = f
BY DEF Entries

\* Nothing is asked of a source, and no source knows of another job than before.
LEMMA AliveKept ==
    ASSUME IInv, Sched',
           queued' \subseteq queued, active' \subseteq active \cup queued,
           \A t \in settled' : t \in settled \/ t.e \in active,
           \A s \in Ids : phase[s] # "new" => phase'[s] # "new",
           \A s \in Ids, x \in Sources :
               phase'[s] = "live" /\ phase[s] # "new" /\ x \in sources'[s] =>
                   /\ phase[s] = "live" /\ x \in sources[s]
                   /\ rec'[s][x].jobToken = rec[s][x].jobToken
                   /\ rec'[s][x].jobRunning = rec[s][x].jobRunning,
           \A e \in queued' : phase'[e.s] = "live" /\ e.x \in sources'[e.s],
           \A e \in active' \ cancelRequested' : phase'[e.s] = "live"
    PROVE  Linked'
<1>1. /\ queued \subseteq Entries /\ active \subseteq Entries /\ queued \cap active = {}
      /\ \A e \in Told : e \in Entries
  BY DEF IInv, Sched, SchedulerTypeOK, Told
<1>2. \A e \in Entries : e.s \in Ids /\ e.x \in Sources
  BY DEF Entries
<1>3. Told' \subseteq Told \cup active
  BY DEF Told
<1>4. \A e \in queued \cup active \cup Told : phase[e.s] # "new"
  BY DEF IInv, Linked
<1>5. \A e \in queued' : ~Dead(e)' /\ rec'[e.s][e.x].jobRunning
  BY <1>1, <1>2, <1>4 DEF IInv, Linked, Dead, Live
<1>6. ASSUME NEW e \in active' \cup Told', Alive(e)'
      PROVE  e.n <= rec'[e.s][e.x].jobToken
  <2>1. e \in queued \cup active \cup Told
    BY <1>3
  <2>2. e.s \in Ids /\ e.x \in Sources /\ e.n \in Nat /\ phase[e.s] # "new"
    BY <1>1, <1>4, <2>1 DEF Entries
  <2>3. Alive(e) /\ rec'[e.s][e.x].jobToken = rec[e.s][e.x].jobToken
    BY <1>6, <2>2 DEF Alive, Live
  <2>4. CASE e \in queued
    BY <2>2, <2>3, <2>4 DEF IInv, Linked, Dead
  <2>5. CASE e \in active \cup Told
    BY <2>3, <2>5 DEF IInv, Linked
  <2> QED
    BY <2>1, <2>4, <2>5
<1>7. \A e \in Told' : e \notin queued'
  BY <1>1, <1>3 DEF IInv, Linked
<1>8. \A e \in queued' \cup active' \cup Told' : phase'[e.s] # "new"
  BY <1>1, <1>2, <1>3, <1>4
<1>9. \A e \in active' \ cancelRequested' : e.s \in Live'
  BY <1>1, <1>2 DEF Live
<1> QED
  BY <1>5, <1>6, <1>7, <1>8, <1>9 DEF Linked

\* One source changes, but not what it knows of its job.
LEMMA SourceChanges ==
    ASSUME IInv, NEW s \in Ids, NEW x \in Sources, NEW q \in SourceState,
           q.jobToken = rec[s][x].jobToken, q.jobRunning = rec[s][x].jobRunning,
           rec' = [rec EXCEPT ![s][x] = q], UNCHANGED <<schedulerVars, phase, sources>>
    PROVE  rec' \in RecType /\ Sched' /\ Linked'
<1>1. rec \in RecType
  BY TypeParts DEF IInv, SessionTyped
<1>2. rec' \in RecType
  BY <1>1 DEF RecType
<1>3. \A k \in Ids, y \in Sources : /\ rec'[k][y].jobToken = rec[k][y].jobToken
                                   /\ rec'[k][y].jobRunning = rec[k][y].jobRunning
  BY <1>1 DEF RecType
<1>4. Sched'
  BY QuietKeeps DEF IInv, schedulerVars
<1>5. Linked'
  <2>1. /\ \A e \in queued : phase[e.s] = "live" /\ e.x \in sources[e.s]
        /\ \A e \in active \ cancelRequested : phase[e.s] = "live"
    BY DEF IInv, Linked, Dead, Live
  <2>2. UNCHANGED <<queued, active, cancelRequested, settled, phase, sources>>
    BY DEF schedulerVars, queues
  <2> QED
    BY <1>3, <1>4, <2>1, <2>2, AliveKept
<1> QED
  BY <1>2, <1>4, <1>5

\* Nothing changes that the scheduler or a source knows.
LEMMA Unseen ==
    ASSUME IInv, UNCHANGED <<schedulerVars, phase, sources, rec>>
    PROVE  Sched' /\ Linked'
<1>1. Sched'
  BY QuietKeeps DEF IInv, schedulerVars
<1>2. Linked'
  BY DEF IInv, Linked, Dead, Live, Alive, Told, schedulerVars, queues
<1> QED
  BY <1>1, <1>2

LEMMA TurnoverKeeps ==
    ASSUME IInv, NEW D \in SUBSET Ids, NEW N \in SUBSET Ids,
           \A s \in N : phase[s] = "new", Turnover(D, N)
    PROVE  SessionTyped' /\ Sched' /\ Linked'
<1>1. SessionTyped /\ allowed \subseteq Sources
  BY TypeParts DEF IInv, WorldTyped
<1>2. Sched'
  BY CancelKeeps DEF IInv, Turnover
<1>3. SessionTyped'
  <2>1. phase' \in [Ids -> {"new", "live", "gone"}] /\ limited' \subseteq Ids
    BY <1>1 DEF SessionTyped, Turnover
  <2>2. slots' \in [Slots -> Ids \cup {0}]
    <3>1. \A k \in Slots : (\E s \in N : SlotOf[s] = k) => (CHOOSE s \in N : SlotOf[s] = k) \in Ids
      OBVIOUS
    <3> QED
      BY <1>1, <3>1 DEF SessionTyped, Turnover
  <2>3. sources' \in [Ids -> SUBSET Sources]
    BY <1>1 DEF SessionTyped, Turnover
  <2>4. rec' \in RecType
    BY <1>1, NewSourceTyped DEF SessionTyped, Turnover, RecType
  <2>5. initial' \in [Ids -> {"none", "waiting", "resolved"}]
    BY <1>1 DEF SessionTyped, Turnover
  <2> QED
    BY <2>1, <2>2, <2>3, <2>4, <2>5 DEF SessionTyped
<1>4. /\ queued' = {e \in queued : e.s \notin D} /\ active' = active /\ settled' = settled
      /\ \A e \in active : e.s \in D => e \in cancelRequested'
      /\ cancelRequested \subseteq cancelRequested'
  BY DEF Turnover, Cancel
<1>5. \A e \in queued \cup active : e.s \in Ids
  BY DEF IInv, Sched, SchedulerTypeOK, Entries
<1>6. \A s \in Ids : phase'[s] = IF s \in N THEN "live" ELSE IF s \in D THEN "gone" ELSE phase[s]
  BY DEF Turnover
<1>7. ASSUME NEW s \in Ids, NEW x \in Sources, phase'[s] = "live", phase[s] # "new", x \in sources'[s]
      PROVE  phase[s] = "live" /\ x \in sources[s] /\ rec'[s] = rec[s]
  <2>1. s \notin N /\ s \notin D
    BY <1>6, <1>7
  <2> QED
    BY <1>6, <1>7, <2>1 DEF Turnover
<1>8. ASSUME NEW e \in queued'
      PROVE  phase'[e.s] = "live" /\ e.x \in sources'[e.s]
  <2>1. e.s \in Ids /\ e.s \notin D /\ phase[e.s] = "live" /\ e.x \in sources[e.s]
    BY <1>4, <1>5 DEF IInv, Linked, Dead, Live
  <2>2. e.s \notin N
    BY <2>1
  <2> QED
    BY <1>6, <2>1, <2>2 DEF Turnover
<1>9. ASSUME NEW e \in active' \ cancelRequested'
      PROVE  phase'[e.s] = "live"
  <2>1. e.s \in Ids /\ e.s \notin D /\ phase[e.s] = "live"
    BY <1>4, <1>5 DEF IInv, Linked, Live
  <2> QED
    BY <1>6, <2>1
<1>10. \A s \in Ids : phase[s] # "new" => phase'[s] # "new"
  BY <1>6
<1>11. Linked'
  BY <1>2, <1>4, <1>7, <1>8, <1>9, <1>10, AliveKept
<1> QED
  BY <1>2, <1>3, <1>11

\* Sources are removed; the others know of the jobs they knew of.
LEMMA WithoutKeeps ==
    ASSUME IInv, NEW R \in [Ids -> SUBSET Sources], NEW r \in RecType,
           \A s \in Ids, x \in Sources : /\ r[s][x].jobToken = rec[s][x].jobToken
                                       /\ r[s][x].jobRunning = rec[s][x].jobRunning,
           Without(R, r)
    PROVE  /\ Sched' /\ Linked'
           /\ initial' \in [Ids -> {"none", "waiting", "resolved"}] => SessionTyped'
<1>1. SessionTyped
  BY TypeParts DEF IInv
<1>2. Sched'
  BY CancelKeeps DEF IInv, Without
<1>3. rec' \in RecType
  BY NewSourceTyped DEF Without, RecType
<1>4. sources' \in [Ids -> SUBSET Sources]
  BY <1>1 DEF SessionTyped, Without
<1>5. /\ queued' = {e \in queued : e.x \notin R[e.s]} /\ active' = active /\ settled' = settled
      /\ cancelRequested \subseteq cancelRequested' /\ phase' = phase
  BY DEF Without, Cancel
<1>6. \A e \in queued \cup active : e.s \in Ids /\ e.x \in Sources
  BY DEF IInv, Sched, SchedulerTypeOK, Entries
<1>7. ASSUME NEW s \in Ids, NEW x \in Sources, x \in sources'[s]
      PROVE  /\ x \in sources[s]
             /\ rec'[s][x].jobToken = rec[s][x].jobToken
             /\ rec'[s][x].jobRunning = rec[s][x].jobRunning
  BY <1>7 DEF Without
<1>8. \A e \in queued' : phase'[e.s] = "live" /\ e.x \in sources'[e.s]
  BY <1>5, <1>6 DEF IInv, Linked, Dead, Live, Without
<1>9. \A e \in active' \ cancelRequested' : phase'[e.s] = "live"
  BY <1>5 DEF IInv, Linked, Live
<1>10. Linked'
  BY <1>2, <1>5, <1>7, <1>8, <1>9, AliveKept
<1> QED
  BY <1>1, <1>2, <1>3, <1>4, <1>5, <1>10 DEF SessionTyped, Without

LEMMA InitialDoneTyped ==
    ASSUME SessionTyped, NEW S, NEW X, NEW r
    PROVE  InitialDone(S, X, r) \in [Ids -> {"none", "waiting", "resolved"}]
BY DEF SessionTyped, InitialDone

\* What the rest of a step may leave as it is
LEMMA Assembled ==
    ASSUME Sched', Linked', SessionTyped', CallTyped', WorldTyped'
    PROVE  IInv'
BY TypeParts DEF IInv, Sched, TypeOK, SessionTyped, CallTyped, WorldTyped, RecType

LEMMA CallTypedKept ==
    ASSUME CallTyped, active' = active, UNCHANGED <<todo, starting, fetching, ended>>
    PROVE  CallTyped'
BY DEF CallTyped

LEMMA WorldTypedKept ==
    ASSUME WorldTyped, UNCHANGED worldVars
    PROVE  WorldTyped'
BY DEF WorldTyped, worldVars

LEMMA Parts ==
    ASSUME IInv
    PROVE  Sched /\ Linked /\ SchedulerTypeOK /\ SessionTyped /\ CallTyped /\ WorldTyped
BY TypeParts DEF IInv

-----------------------------------------------------------------------------
(* The calls.                                                              *)

LEMMA StartKeeps ==
    ASSUME IInv, NEW id \in Ids, Start(id)
    PROVE  IInv'
<1> USE Parts
<1> DEFINE existing == {slots[SlotOf[id]]} \ {0}
<1>1. existing \in SUBSET Ids
  BY SessionAssumption DEF SessionTyped
<1>2. PICK victims \in SUBSET Live : Turnover(existing \cup victims, {id})
  BY DEF Start
<1>3. SessionTyped' /\ Sched' /\ Linked'
  BY <1>1, <1>2, TurnoverKeeps DEF Start, Live
<1>4. active' = active
  BY <1>2 DEF Turnover, Cancel
<1>5. CallTyped'
  BY <1>3, <1>4 DEF CallTyped, Start, Item, SessionTyped
<1> QED
  BY <1>3, <1>5, WorldTypedKept, Assembled DEF Start

LEMMA DestroyKeeps ==
    ASSUME IInv, NEW D \in SUBSET Ids, Destroy(D)
    PROVE  SessionTyped' /\ Sched' /\ Linked' /\ active' = active
BY TurnoverKeeps DEF Destroy, Turnover, Cancel

LEMMA EndOfSession ==
    ASSUME IInv, NEW s \in Ids, Refuse(s) \/ Delete(s)
    PROVE  IInv'
<1> USE Parts
<1>1. Destroy({s}) /\ UNCHANGED <<todo, starting, fetching, ended, worldVars>>
  BY DEF Refuse, Delete
<1> QED
  BY <1>1, DestroyKeeps, CallTypedKept, WorldTypedKept, Assembled

LEMMA DisallowedTyped ==
    ASSUME SessionTyped, NEW s \in Ids
    PROVE  Disallowed(s) \in [Ids -> SUBSET Sources]
BY DEF SessionTyped, Disallowed

LEMMA RemoveKeeps ==
    ASSUME IInv, NEW R \in [Ids -> SUBSET Sources], NEW r \in RecType,
           \A s \in Ids, x \in Sources : /\ r[s][x].jobToken = rec[s][x].jobToken
                                       /\ r[s][x].jobRunning = rec[s][x].jobRunning,
           Remove(R, r)
    PROVE  SessionTyped' /\ Sched' /\ Linked' /\ active' = active
BY Parts, WithoutKeeps, InitialDoneTyped DEF Remove, Without, Cancel

LEMMA CallKeeps ==
    ASSUME IInv, NEW s \in Ids, Call(s, rec)
    PROVE  SessionTyped' /\ Sched' /\ Linked' /\ active' = active
BY Parts, RemoveKeeps, DisallowedTyped DEF Call, SessionTyped

LEMMA LookKeeps ==
    ASSUME IInv, NEW s \in Ids, Look(s)
    PROVE  IInv'
BY Parts, CallKeeps, CallTypedKept, WorldTypedKept, Assembled DEF Look

LEMMA PageAllKeeps ==
    ASSUME IInv, NEW s \in Ids, PageAll(s)
    PROVE  IInv'
<1> USE Parts
<1>1. SessionTyped' /\ Sched' /\ Linked' /\ active' = active
  BY CallKeeps DEF PageAll
<1>2. CallTyped'
  BY <1>1 DEF CallTyped, PageAll, Item, SessionTyped
<1> QED
  BY <1>1, <1>2, WorldTypedKept, Assembled DEF PageAll

LEMMA RecTyped ==
    ASSUME IInv, NEW s \in Ids, NEW x \in Sources
    PROVE  rec \in RecType /\ rec[s][x] \in SourceState
BY Parts DEF SessionTyped, RecType

LEMMA RetriedTyped ==
    ASSUME NEW x \in Sources, NEW r \in SourceState
    PROVE  /\ Retried(x, r) \in SourceState
           /\ Retried(x, r).jobToken = r.jobToken /\ Retried(x, r).jobRunning = r.jobRunning
<1> DEFINE c == NewSource(x).continuation
<1>1. c \in {"supported", "unsupported", "blocked"}
  BY DEF NewSource
<1> DEFINE q == [r EXCEPT !.state = "queued", !.noProgress = 0, !.continuation = c]
<1>2. Retried(x, r) = q
  BY DEF Retried
<1> HIDE DEF c
<1>3. q \in SourceState /\ q.jobToken = r.jobToken /\ q.jobRunning = r.jobRunning
  BY <1>1 DEF SourceState, SourceStates
<1> HIDE DEF q
<1> QED
  BY <1>2, <1>3

LEMMA RetryKeeps ==
    ASSUME IInv, NEW s \in Ids, NEW x \in Sources, Retry(s, x)
    PROVE  IInv'
<1> USE Parts
<1> DEFINE q == Retried(x, rec[s][x])
<1>1. rec \in RecType /\ rec[s][x] \in SourceState
  BY RecTyped
<1>2. q \in SourceState /\ q.jobToken = rec[s][x].jobToken /\ q.jobRunning = rec[s][x].jobRunning
  BY <1>1, RetriedTyped
<1>3. Remove(Disallowed(s), [rec EXCEPT ![s][x] = q]) /\ todo' = {Item("page", s, x)}
      /\ UNCHANGED <<starting, fetching, ended, current, allowed, ready>>
      /\ mishaps' = mishaps + 1
  BY DEF Retry, Call
<1> HIDE DEF q
<1>4. [rec EXCEPT ![s][x] = q] \in RecType
  BY <1>1, <1>2 DEF RecType
<1>5. \A k \in Ids, y \in Sources :
         /\ [rec EXCEPT ![s][x] = q][k][y].jobToken = rec[k][y].jobToken
         /\ [rec EXCEPT ![s][x] = q][k][y].jobRunning = rec[k][y].jobRunning
  BY <1>1, <1>2 DEF RecType
<1>7. SessionTyped' /\ Sched' /\ Linked' /\ active' = active
  BY <1>3, <1>4, <1>5, RemoveKeeps, DisallowedTyped
<1>8. CallTyped' /\ WorldTyped'
  BY <1>3, <1>7 DEF CallTyped, WorldTyped, Item
<1> QED
  BY <1>7, <1>8, Assembled

LEMMA InvalidateKeeps ==
    ASSUME IInv, InvalidateContent
    PROVE  IInv'
<1> USE Parts
<1> DEFINE R == [s \in Ids |-> IF s \in Live THEN sources[s] \ allowed ELSE {}]
<1>1. R \in [Ids -> SUBSET Sources]
  BY DEF SessionTyped
<1>2. Remove(R, rec) /\ UNCHANGED <<todo, starting, fetching, ended, worldVars>>
  BY DEF InvalidateContent
<1> HIDE DEF R
<1>3. SessionTyped' /\ Sched' /\ Linked' /\ active' = active
  BY <1>1, <1>2, RemoveKeeps DEF SessionTyped
<1> QED
  BY <1>2, <1>3, CallTypedKept, WorldTypedKept, Assembled

LEMMA InitialTimeoutKeeps ==
    ASSUME IInv, NEW s \in Ids, InitialTimeout(s)
    PROVE  IInv'
<1> USE Parts
<1>1. Sched' /\ Linked' /\ active' = active
  BY Unseen DEF InitialTimeout, schedulerVars, queues
<1>2. SessionTyped'
  BY DEF SessionTyped, InitialTimeout
<1> QED
  BY <1>1, <1>2, CallTypedKept, WorldTypedKept, Assembled DEF InitialTimeout

LEMMA AnswerKeeps ==
    ASSUME IInv, NEW s \in Ids, Answer(s)
    PROVE  IInv'
<1> USE Parts
<1>1. UNCHANGED <<todo, starting, fetching, ended, worldVars>>
  BY DEF Answer
<1>2. CASE Without(Disallowed(s), rec) /\ initial' = [initial EXCEPT ![s] = "none"]
  <2>1. initial' \in [Ids -> {"none", "waiting", "resolved"}]
    BY <1>2 DEF SessionTyped
  <2>2. SessionTyped' /\ Sched' /\ Linked'
    BY <1>2, <2>1, WithoutKeeps, DisallowedTyped DEF SessionTyped
  <2>3. active' = active
    BY <1>2 DEF Without, Cancel
  <2> QED
    BY <1>1, <2>2, <2>3, CallTypedKept, WorldTypedKept, Assembled
<1>3. CASE Destroy({s})
  BY <1>1, <1>3, DestroyKeeps, CallTypedKept, WorldTypedKept, Assembled
<1>4. CASE /\ initial' = [initial EXCEPT ![s] = "none"]
           /\ UNCHANGED <<schedulerVars, phase, slots, sources, rec, limited>>
  <2>1. Sched' /\ Linked' /\ active' = active
    BY <1>4, Unseen DEF schedulerVars, queues
  <2>2. SessionTyped'
    BY <1>4 DEF SessionTyped
  <2> QED
    BY <1>1, <2>1, <2>2, CallTypedKept, WorldTypedKept, Assembled
<1> QED
  BY <1>2, <1>3, <1>4 DEF Answer

-----------------------------------------------------------------------------
(* The jobs.                                                               *)

LEMMA AskedTyped ==
    ASSUME NEW r \in SourceState
    PROVE  Asked(r) \in SourceState /\ Asked(r).jobToken = r.jobToken + 1 /\ Asked(r).jobRunning
<1> DEFINE n == r.jobToken + 1
           before == IF r.state = "ready" THEN "ready" ELSE "queued"
<1>1. n \in Nat /\ before \in {"queued", "ready"}
  BY DEF SourceState
<1>2. Asked(r) = [r EXCEPT !.jobRunning = TRUE, !.jobToken = n, !.state = "queued", !.before = before, !.cut = FALSE]
  BY DEF Asked
<1> HIDE DEF n, before
<1>3. Asked(r) \in SourceState /\ Asked(r).jobToken = n /\ Asked(r).jobRunning
  BY <1>1, <1>2 DEF SourceState, SourceStates
<1> QED
  BY <1>3 DEF n

\* A source that schedules a page: its job is new to it and to the scheduler.
LEMMA ScheduledKeeps ==
    ASSUME IInv, NEW s \in Ids, NEW x \in Sources, NEW q \in SourceState,
           ~Dead([s |-> s, x |-> x, n |-> rec[s][x].jobToken]), ~rec[s][x].jobRunning,
           q.jobToken = rec[s][x].jobToken + 1, q.jobRunning,
           rec' = [rec EXCEPT ![s][x] = q],
           Enqueue([s |-> s, x |-> x, n |-> rec[s][x].jobToken + 1]),
           UNCHANGED <<phase, sources>>
    PROVE  rec' \in RecType /\ Sched' /\ Linked'
<1> USE Parts
<1> DEFINE job == [s |-> s, x |-> x, n |-> rec[s][x].jobToken + 1]
<1>0. rec \in RecType
  BY DEF SessionTyped
<1>1. rec[s][x] \in SourceState /\ rec[s][x].jobToken \in Nat
  BY <1>0 DEF RecType, SourceState
<1>2. q.jobToken = rec[s][x].jobToken + 1 /\ q.jobRunning
  OBVIOUS
<1>4. job \in Entries /\ job.s = s /\ job.x = x /\ job.n = rec[s][x].jobToken + 1
  BY <1>1 DEF Entries
<1>5. queued' = queued \cup {job} /\ active' = active /\ settled' = settled
      /\ cancelRequested' = cancelRequested /\ Enqueue(job)
  BY DEF Enqueue
<1>6. s \in Live /\ x \in sources[s]
  BY DEF Dead
<1> HIDE DEF job
<1>7. rec' \in RecType
  BY <1>0 DEF RecType
<1>8. rec'[s][x] = q
      /\ \A k \in Ids, y \in Sources : (k # s \/ y # x) => rec'[k][y] = rec[k][y]
  BY <1>0 DEF RecType
<1>9. queued \subseteq Entries /\ active \subseteq Entries /\ Told \subseteq Entries
      /\ \A e \in Entries : e.s \in Ids /\ e.x \in Sources /\ e.n \in Nat
  BY DEF SchedulerTypeOK, Told, Entries
<1>10. job \notin active /\ job \notin Told
  <2>1. Alive(job)
    BY <1>4, <1>6 DEF Alive
  <2>2. \A e \in active \cup Told : Alive(e) => e.n <= rec[e.s][e.x].jobToken
    BY DEF Linked
  <2> QED
    BY <1>1, <1>4, <2>1, <2>2
<1>11. Sched'
  BY <1>4, <1>5, <1>10, EnqueueKeeps
<1>12. \A e \in queued : ~(e.s = s /\ e.x = x)
  BY DEF Linked
<1>13. Linked'
  <2>1. Live' = Live /\ sources' = sources /\ phase' = phase /\ Told' = Told
    BY <1>5 DEF Live, Told
  <2>2. ASSUME NEW e \in queued'
        PROVE  ~Dead(e)' /\ rec'[e.s][e.x].jobRunning
    <3>1. CASE e = job
      BY <1>2, <1>4, <1>6, <1>8, <2>1, <3>1 DEF Dead
    <3>2. CASE e \in queued
      <4>1. rec'[e.s][e.x] = rec[e.s][e.x]
        BY <1>8, <1>9, <1>12, <3>2
      <4> QED
        BY <2>1, <3>2, <4>1 DEF Dead, Linked
    <3> QED
      BY <1>5, <3>1, <3>2
  <2>3. ASSUME NEW e \in active' \cup Told', Alive(e)'
        PROVE  e.n <= rec'[e.s][e.x].jobToken
    <3>1. e \in Entries /\ Alive(e) /\ e.n <= rec[e.s][e.x].jobToken
      BY <1>5, <1>9, <2>1, <2>3 DEF Alive, Linked
    <3>2. CASE e.s = s /\ e.x = x
      BY <1>1, <1>2, <1>8, <1>9, <3>1, <3>2
    <3>3. CASE ~(e.s = s /\ e.x = x)
      BY <1>8, <1>9, <3>1, <3>3
    <3> QED
      BY <3>2, <3>3
  <2>4. \A e \in Told' : e \notin queued'
    BY <1>5, <1>10, <2>1 DEF Linked
  <2>5. \A e \in queued' \cup active' \cup Told' : phase'[e.s] # "new"
    <3>1. phase[job.s] # "new"
      BY <1>4, <1>6 DEF Live
    <3> QED
      BY <1>5, <2>1, <3>1 DEF Linked
  <2>6. \A e \in active' \ cancelRequested' : e.s \in Live'
    BY <1>5, <2>1 DEF Linked
  <2> QED
    BY <2>2, <2>3, <2>4, <2>5, <2>6 DEF Linked
<1> QED
  BY <1>7, <1>11, <1>13

LEMMA SchedulePageKeeps ==
    ASSUME IInv, SchedulePage
    PROVE  IInv'
<1> USE Parts
<1>1. PICK i \in todo :
        /\ starting = {} /\ todo' = todo \ {i}
        /\ IF Schedules(i)
           THEN /\ rec' = [rec EXCEPT ![i.s][i.x] = Asked(rec[i.s][i.x])]
                /\ Enqueue([s |-> i.s, x |-> i.x, n |-> Asked(rec[i.s][i.x]).jobToken])
           ELSE /\ rec' = IF Wakes(i) THEN [rec EXCEPT ![i.s][i.x].state = "queued"] ELSE rec
                /\ UNCHANGED schedulerVars
        /\ UNCHANGED <<phase, slots, sources, limited, initial, starting, fetching, ended, worldVars>>
  BY DEF SchedulePage
<1>2. i.s \in Ids /\ i.x \in Sources
  BY DEF CallTyped
<1>3. rec \in RecType /\ rec[i.s][i.x] \in SourceState
  BY <1>2, RecTyped
<1>4. rec' \in RecType /\ Sched' /\ Linked' /\ active' = active
  <2>1. CASE Schedules(i)
    <3> DEFINE q == Asked(rec[i.s][i.x])
    <3>1. q \in SourceState /\ q.jobToken = rec[i.s][i.x].jobToken + 1 /\ q.jobRunning
      BY <1>3, AskedTyped
    <3> HIDE DEF q
    <3>2. /\ rec' = [rec EXCEPT ![i.s][i.x] = q] /\ Enqueue([s |-> i.s, x |-> i.x, n |-> q.jobToken])
      BY <1>1, <2>1 DEF q
    <3>3. /\ ~Dead([s |-> i.s, x |-> i.x, n |-> rec[i.s][i.x].jobToken]) /\ ~rec[i.s][i.x].jobRunning
      BY <2>1 DEF Schedules
    <3>4. rec' \in RecType /\ Sched' /\ Linked'
      BY <1>1, <1>2, <3>1, <3>2, <3>3, ScheduledKeeps
    <3> QED
      BY <3>2, <3>4 DEF Enqueue
  <2>2. CASE ~Schedules(i) /\ Wakes(i)
    <3> DEFINE q == [rec[i.s][i.x] EXCEPT !.state = "queued"]
    <3>1. q \in SourceState /\ q.jobToken = rec[i.s][i.x].jobToken
          /\ q.jobRunning = rec[i.s][i.x].jobRunning
      BY <1>3 DEF SourceState, SourceStates
    <3>2. rec' = [rec EXCEPT ![i.s][i.x] = q]
      BY <1>1, <1>3, <2>2 DEF RecType, SourceState
    <3> HIDE DEF q
    <3> QED
      BY <1>1, <1>2, <2>2, <3>1, <3>2, SourceChanges DEF schedulerVars, queues
  <2>3. CASE ~Schedules(i) /\ ~Wakes(i)
    BY <1>1, <1>3, <2>3, Unseen DEF schedulerVars, queues
  <2> QED
    BY <2>1, <2>2, <2>3
<1>5. SessionTyped' /\ CallTyped'
  BY <1>1, <1>4 DEF SessionTyped, CallTyped
<1> QED
  BY <1>1, <1>4, <1>5, WorldTypedKept, Assembled

LEMMA PumpKeeps ==
    ASSUME IInv, Pump
    PROVE  IInv'
<1> USE Parts
<1>1. PICK e \in Runnable : Admit(e) /\ starting' = {e}
  BY DEF Pump
<1>2. UNCHANGED <<phase, slots, sources, rec, limited, initial, todo, fetching, ended, worldVars>>
  BY DEF Pump, sessionVars
<1>3. Sched'
  BY <1>1, AdmitKeeps
<1>4. e \in queued /\ queued' = queued \ {e} /\ active' = active \cup {e} /\ settled' = settled
      /\ cancelRequested' = cancelRequested
  BY <1>1 DEF Runnable, Admit
<1>5. Linked'
  <2>1. \A f \in queued : phase[f.s] = "live" /\ f.x \in sources[f.s]
    BY DEF Linked, Dead, Live
  <2>2. \A f \in active \ cancelRequested : phase[f.s] = "live"
    BY DEF Linked, Live
  <2> QED
    BY <1>2, <1>3, <1>4, <2>1, <2>2, AliveKept
<1>6. SessionTyped' /\ CallTyped'
  BY <1>1, <1>2, <1>4 DEF SessionTyped, CallTyped
<1> QED
  BY <1>2, <1>3, <1>5, <1>6, WorldTypedKept, Assembled

\* The end of a run is noted.
LEMMA EndsTyped ==
    ASSUME CallTyped, NEW e \in Entries, NEW result \in Results, Ends(e, result)
    PROVE  ended' \subseteq [e : Entries, result : Results]
BY DEF CallTyped, Ends

LEMMA AppliedTyped ==
    ASSUME NEW s, NEW x, NEW r \in SourceState, NEW batch \in SUBSET Nat
    PROVE  /\ Applied(s, x, r, batch) \in SourceState
           /\ Applied(s, x, r, batch).jobToken = r.jobToken
           /\ Applied(s, x, r, batch).jobRunning = r.jobRunning
<1> DEFINE hit == LimitHit(s, x, batch)
           misses == IF batch \cap Fresh[x] # {} /\ ~hit THEN 0 ELSE r.noProgress + 1
           stalls == misses >= StallAfter
           blocked == IF stalls THEN "blocked" ELSE r.continuation
           taken == IF hit THEN r.records ELSE r.records \cup batch
           state == IF stalls THEN "stalled"
                    ELSE IF hit \/ s \in limited \/ r.continuation = "unsupported" THEN "ready"
                    ELSE IF r.exhausted /\ r.buffer = {} THEN "exhausted"
                    ELSE "ready"
<1>0. r.noProgress \in Nat /\ r.records \subseteq Nat
      /\ r.continuation \in {"supported", "unsupported", "blocked"}
  BY DEF SourceState
<1> HIDE DEF hit
<1>4. misses \in Nat
  BY <1>0
<1> HIDE DEF stalls
<1>1. taken \subseteq Nat /\ blocked \in {"supported", "unsupported", "blocked"}
  BY <1>0
<1>2. state \in SourceStates
  BY DEF SourceStates
<1>3. Applied(s, x, r, batch) = [r EXCEPT !.noProgress = misses, !.records = taken,
                                          !.continuation = blocked, !.state = state]
  BY DEF Applied, hit, stalls
<1> DEFINE q == [r EXCEPT !.noProgress = misses, !.records = taken, !.continuation = blocked,
                          !.state = state]
<1> HIDE DEF misses, taken, blocked, state
<1>5. q \in SourceState /\ q.jobToken = r.jobToken /\ q.jobRunning = r.jobRunning
  BY <1>4, <1>1, <1>2 DEF SourceState
<1>6. Applied(s, x, r, batch) = q
  BY <1>3
<1> HIDE DEF q
<1> QED
  BY <1>5, <1>6

LEMMA ApplyKeeps ==
    ASSUME IInv, NEW s \in Ids, NEW x \in Sources, NEW r \in SourceState,
           r.jobToken = rec[s][x].jobToken, r.jobRunning = rec[s][x].jobRunning,
           NEW batch \in SUBSET Nat, Apply(s, x, r, batch),
           UNCHANGED <<schedulerVars, phase, sources>>
    PROVE  rec' \in RecType /\ limited' \subseteq Ids /\ Sched' /\ Linked'
<1> DEFINE q == Applied(s, x, r, batch)
<1>1. rec' = [rec EXCEPT ![s][x] = q]
  BY Zenon DEF Apply
<1>2. q \in SourceState /\ q.jobToken = rec[s][x].jobToken /\ q.jobRunning = rec[s][x].jobRunning
  <2>1. q \in SourceState /\ q.jobToken = r.jobToken /\ q.jobRunning = r.jobRunning
    BY AppliedTyped, Z3
  <2> HIDE DEF q
  <2> QED
    BY <2>1
<1> HIDE DEF q
<1>3. rec' \in RecType /\ Sched' /\ Linked'
  BY <1>1, <1>2, SourceChanges
<1>4. limited' \subseteq Ids
  BY Parts DEF Apply, SessionTyped
<1> QED
  BY <1>3, <1>4

\* One source of a session gets another state.
StateSet(s, x, state) == rec' = [rec EXCEPT ![s][x].state = state]

LEMMA StateWritten ==
    ASSUME IInv, NEW s \in Ids, NEW x \in Sources, NEW state \in SourceStates, StateSet(s, x, state)
    PROVE  \E q \in SourceState : /\ q.jobToken = rec[s][x].jobToken /\ q.jobRunning = rec[s][x].jobRunning
                                  /\ rec' = [rec EXCEPT ![s][x] = q]
<1> DEFINE q == [rec[s][x] EXCEPT !.state = state]
<1>1. rec \in RecType /\ rec[s][x] \in SourceState
  BY Parts DEF SessionTyped, RecType
<1>2. q \in SourceState /\ q.jobToken = rec[s][x].jobToken /\ q.jobRunning = rec[s][x].jobRunning
  BY <1>1 DEF SourceState
<1>3. rec' = [rec EXCEPT ![s][x] = q]
  <2>1. rec' = [rec EXCEPT ![s] = [rec[s] EXCEPT ![x] = [rec[s][x] EXCEPT !.state = state]]]
    BY Zenon DEF StateSet
  <2> QED
    BY <2>1, Zenon
<1> HIDE DEF q
<1> QED
  BY <1>2, <1>3, Zenon

\* A run that goes on to a page, to the rows that wait or to the limit of its session
LEMMA RunOfLiving ==
    ASSUME IInv, NEW e \in Entries, UNCHANGED <<schedulerVars, phase, slots, sources, initial>>,
           \/ /\ rec' = [rec EXCEPT ![e.s][e.x].state = "ready"]
              /\ Ends(e, "ok") /\ UNCHANGED <<limited, fetching>>
           \/ /\ \E b \in rec[e.s][e.x].buffer :
                    Apply(e.s, e.x, [rec[e.s][e.x] EXCEPT !.buffer = @ \ {b}], {b})
              /\ Ends(e, "ok") /\ UNCHANGED fetching
           \/ /\ rec' = [rec EXCEPT ![e.s][e.x].state = "loading"]
              /\ fetching' = fetching \cup {[e |-> e, at |-> rec[e.s][e.x].cursor,
                                             cold |-> Class[e.x] = Local /\ ~ready]}
              /\ UNCHANGED <<limited, ended>>
    PROVE  /\ SessionTyped' /\ Sched' /\ Linked'
           /\ fetching' \subseteq [e : Entries, at : Nat, cold : BOOLEAN]
           /\ ended' \subseteq [e : Entries, result : Results]
<1> USE Parts
<1>1. e.s \in Ids /\ e.x \in Sources
  BY DEF Entries
<1>2. rec[e.s][e.x] \in SourceState
  BY <1>1, RecTyped, Zenon
<1>3. rec[e.s][e.x].cursor \in Nat /\ rec[e.s][e.x].buffer \in SUBSET Nat
  BY <1>2 DEF SourceState
<1>4. "ready" \in SourceStates /\ "loading" \in SourceStates /\ "ok" \in Results
  BY DEF SourceStates, Results
<1>5. CASE /\ rec' = [rec EXCEPT ![e.s][e.x].state = "ready"]
           /\ Ends(e, "ok") /\ UNCHANGED <<limited, fetching>>
  <2>1. rec' \in RecType /\ Sched' /\ Linked'
    <3>1. PICK q \in SourceState : /\ q.jobToken = rec[e.s][e.x].jobToken /\ q.jobRunning = rec[e.s][e.x].jobRunning
                                  /\ rec' = [rec EXCEPT ![e.s][e.x] = q]
      <4>1. StateSet(e.s, e.x, "ready")
        BY <1>5 DEF StateSet
      <4> QED
        BY <1>1, <1>4, <4>1, StateWritten
    <3> QED
      BY <1>1, <3>1, SourceChanges
  <2>2. SessionTyped'
    BY <1>5, <2>1 DEF SessionTyped
  <2> QED
    BY <1>4, <1>5, <2>1, <2>2, EndsTyped DEF CallTyped
<1>6. CASE /\ \E b \in rec[e.s][e.x].buffer :
                 Apply(e.s, e.x, [rec[e.s][e.x] EXCEPT !.buffer = @ \ {b}], {b})
           /\ Ends(e, "ok") /\ UNCHANGED fetching
  <2>1. PICK b \in rec[e.s][e.x].buffer :
             Apply(e.s, e.x, [rec[e.s][e.x] EXCEPT !.buffer = @ \ {b}], {b})
    BY <1>6
  <2> DEFINE q == [rec[e.s][e.x] EXCEPT !.buffer = @ \ {b}]
  <2>2. q \in SourceState /\ q.jobToken = rec[e.s][e.x].jobToken
        /\ q.jobRunning = rec[e.s][e.x].jobRunning
    BY <1>2 DEF SourceState
  <2>3. Apply(e.s, e.x, q, {b}) /\ {b} \in SUBSET Nat
    BY <1>3, <2>1
  <2> HIDE DEF q
  <2>4. rec' \in RecType /\ limited' \subseteq Ids /\ Sched' /\ Linked'
    BY <1>1, <2>2, <2>3, ApplyKeeps
  <2>5. SessionTyped'
    BY <2>4 DEF SessionTyped
  <2> QED
    BY <1>4, <1>6, <2>4, <2>5, EndsTyped DEF CallTyped
<1>7. CASE /\ rec' = [rec EXCEPT ![e.s][e.x].state = "loading"]
           /\ fetching' = fetching \cup {[e |-> e, at |-> rec[e.s][e.x].cursor,
                                          cold |-> Class[e.x] = Local /\ ~ready]}
           /\ UNCHANGED <<limited, ended>>
  <2>1. rec' \in RecType /\ Sched' /\ Linked'
    <3>1. PICK q \in SourceState : /\ q.jobToken = rec[e.s][e.x].jobToken /\ q.jobRunning = rec[e.s][e.x].jobRunning
                                  /\ rec' = [rec EXCEPT ![e.s][e.x] = q]
      <4>1. StateSet(e.s, e.x, "loading")
        BY <1>7 DEF StateSet
      <4> QED
        BY <1>1, <1>4, <4>1, StateWritten
    <3> QED
      BY <1>1, <3>1, SourceChanges
  <2>2. SessionTyped'
    BY <1>7, <2>1 DEF SessionTyped
  <2>3. (Class[e.x] = Local /\ ~ready) \in BOOLEAN
    OBVIOUS
  <2>4. [e |-> e, at |-> rec[e.s][e.x].cursor, cold |-> Class[e.x] = Local /\ ~ready]
        \in [e : Entries, at : Nat, cold : BOOLEAN]
    BY <1>3, <2>3
  <2> QED
    BY <1>7, <2>1, <2>2, <2>4 DEF CallTyped
<1> QED
  BY <1>5, <1>6, <1>7

LEMMA RunKeeps ==
    ASSUME IInv, NEW e \in starting, Run(e)
    PROVE  IInv'
<1> USE Parts
<1>1. e \in Entries /\ e.s \in Ids /\ e.x \in Sources /\ "cancelled" \in Results
  BY ClassOfEntry DEF CallTyped, SchedulerTypeOK, Results
<1>2. starting' = {} /\ UNCHANGED <<todo, worldVars>>
  BY DEF Run
<1>3. CASE /\ Ends(e, "cancelled") /\ UNCHANGED <<schedulerVars, sessionVars, fetching>>
  <2>1. Sched' /\ Linked'
    BY <1>3, Unseen DEF sessionVars
  <2>2. SessionTyped'
    BY <1>3 DEF SessionTyped, sessionVars
  <2>3. CallTyped'
    BY <1>1, <1>2, <1>3, EndsTyped DEF CallTyped
  <2> QED
    BY <1>2, <2>1, <2>2, <2>3, WorldTypedKept, Assembled
<1>4. CASE Destroy({e.s}) /\ Ends(e, "cancelled") /\ UNCHANGED fetching
  <2>1. SessionTyped' /\ Sched' /\ Linked'
    BY <1>1, <1>4, DestroyKeeps
  <2>2. CallTyped'
    BY <1>1, <1>2, <1>4, EndsTyped DEF CallTyped
  <2> QED
    BY <1>2, <2>1, <2>2, WorldTypedKept, Assembled
<1>5. CASE /\ Remove([s \in Ids |-> IF s = e.s THEN {e.x} ELSE {}], rec)
           /\ Ends(e, "cancelled") /\ UNCHANGED fetching
  <2> DEFINE R == [s \in Ids |-> IF s = e.s THEN {e.x} ELSE {}]
  <2>1. R \in [Ids -> SUBSET Sources] /\ Remove(R, rec)
    BY <1>1, <1>5
  <2> HIDE DEF R
  <2>2. SessionTyped' /\ Sched' /\ Linked'
    BY <2>1, RemoveKeeps DEF SessionTyped
  <2>3. CallTyped'
    BY <1>1, <1>2, <1>5, EndsTyped DEF CallTyped
  <2> QED
    BY <1>2, <2>2, <2>3, WorldTypedKept, Assembled
<1>6. CASE /\ \/ /\ rec' = [rec EXCEPT ![e.s][e.x].state = "ready"]
                 /\ Ends(e, "ok") /\ UNCHANGED <<limited, fetching>>
              \/ /\ \E b \in rec[e.s][e.x].buffer :
                       Apply(e.s, e.x, [rec[e.s][e.x] EXCEPT !.buffer = @ \ {b}], {b})
                 /\ Ends(e, "ok") /\ UNCHANGED fetching
              \/ /\ rec' = [rec EXCEPT ![e.s][e.x].state = "loading"]
                 /\ fetching' = fetching \cup {[e |-> e, at |-> rec[e.s][e.x].cursor,
                                                cold |-> Class[e.x] = Local /\ ~ready]}
                 /\ UNCHANGED <<limited, ended>>
           /\ UNCHANGED <<schedulerVars, phase, slots, sources, initial>>
  <2>1. /\ SessionTyped' /\ Sched' /\ Linked'
        /\ fetching' \subseteq [e : Entries, at : Nat, cold : BOOLEAN]
        /\ ended' \subseteq [e : Entries, result : Results]
    BY <1>1, <1>6, RunOfLiving
  <2>2. CallTyped'
    BY <1>2, <2>1 DEF CallTyped
  <2> QED
    BY <1>2, <2>1, <2>2, WorldTypedKept, Assembled
<1> QED
  BY <1>3, <1>4, <1>5, <1>6 DEF Run

-----------------------------------------------------------------------------
(* Answers and callbacks.                                                  *)

LEMMA FetchIsEarlyKeeps ==
    ASSUME IInv, NEW f \in fetching, FetchIsEarly(f)
    PROVE  IInv'
<1> USE Parts
<1>1. f.e \in Entries /\ f.e.s \in Ids /\ f.e.x \in Sources /\ "ok" \in Results
  BY ClassOfEntry DEF CallTyped, Results
<1>2. /\ Ends(f.e, "ok") /\ fetching' \subseteq fetching
      /\ UNCHANGED <<schedulerVars, phase, slots, sources, limited, initial, todo, starting, worldVars>>
  BY DEF FetchIsEarly
<1>3. rec \in RecType /\ rec[f.e.s][f.e.x] \in SourceState
  BY <1>1, RecTyped
<1>4. rec' \in RecType /\ Sched' /\ Linked'
  <2>1. CASE UNCHANGED rec
    BY <1>2, <1>3, <2>1, Unseen
  <2>2. CASE rec' = [rec EXCEPT ![f.e.s][f.e.x].state = "indexing", ![f.e.s][f.e.x].subscribed = TRUE]
    <3> DEFINE q == [rec[f.e.s][f.e.x] EXCEPT !.state = "indexing", !.subscribed = TRUE]
    <3>1. q \in SourceState /\ q.jobToken = rec[f.e.s][f.e.x].jobToken
          /\ q.jobRunning = rec[f.e.s][f.e.x].jobRunning
      BY <1>3 DEF SourceState, SourceStates
    <3>2. rec' = [rec EXCEPT ![f.e.s][f.e.x] = q]
      BY <1>1, <1>3, <2>2 DEF RecType, SourceState
    <3> HIDE DEF q
    <3> QED
      BY <1>1, <1>2, <3>1, <3>2, SourceChanges
  <2> QED
    BY <2>1, <2>2 DEF FetchIsEarly
<1>5. SessionTyped'
  BY <1>2, <1>4 DEF SessionTyped
<1>6. CallTyped'
  BY <1>1, <1>2, EndsTyped DEF CallTyped, schedulerVars, queues
<1> QED
  BY <1>2, <1>4, <1>5, <1>6, WorldTypedKept, Assembled

LEMMA FetchReturnsKeeps ==
    ASSUME IInv, NEW f \in fetching, FetchReturns(f)
    PROVE  IInv'
<1> USE Parts
<1>1. /\ f.e \in Entries /\ f.at \in Nat /\ f.e.s \in Ids /\ f.e.x \in Sources /\ "ok" \in Results
  BY ClassOfEntry DEF CallTyped, Results
<1>2. /\ Ends(f.e, "ok") /\ fetching' \subseteq fetching
      /\ UNCHANGED <<schedulerVars, phase, slots, sources, initial, todo, starting, worldVars>>
  BY DEF FetchReturns
<1>3. rec \in RecType /\ rec[f.e.s][f.e.x] \in SourceState
  BY <1>1, RecTyped
<1>4. rec' \in RecType /\ limited' \subseteq Ids /\ Sched' /\ Linked'
  <2>1. CASE UNCHANGED <<rec, limited>>
    BY <1>2, <1>3, <2>1, Unseen DEF SessionTyped
  <2>2. ASSUME NEW n \in 0 .. 2, NEW first \in SUBSET {f.at + 1}, NEW rest \in SUBSET {f.at + 2},
               Apply(f.e.s, f.e.x,
                     [rec[f.e.s][f.e.x] EXCEPT !.cursor = NextCursor(f.e.x, f.at, n),
                                               !.buffer = @ \cup rest,
                                               !.exhausted = LastPage(f.e.x, f.at, n)],
                     first)
        PROVE  rec' \in RecType /\ limited' \subseteq Ids /\ Sched' /\ Linked'
    <3> DEFINE c == NextCursor(f.e.x, f.at, n)
               l == LastPage(f.e.x, f.at, n)
               q == [rec[f.e.s][f.e.x] EXCEPT !.cursor = c, !.buffer = @ \cup rest, !.exhausted = l]
    <3>1. c \in Nat
      BY <1>1 DEF NextCursor
    <3>2. l \in BOOLEAN
      BY DEF LastPage
    <3>3. first \in SUBSET Nat /\ rest \in SUBSET Nat
      BY <1>1
    <3>4. Apply(f.e.s, f.e.x, q, first)
      BY <2>2
    <3> HIDE DEF c, l
    <3>5. q \in SourceState /\ q.jobToken = rec[f.e.s][f.e.x].jobToken
          /\ q.jobRunning = rec[f.e.s][f.e.x].jobRunning
      BY <1>3, <3>1, <3>2, <3>3 DEF SourceState
    <3> HIDE DEF q
    <3> QED
      BY <1>1, <1>2, <3>3, <3>4, <3>5, ApplyKeeps
  <2>3. ASSUME ~Dropped(f)
        PROVE  \E n \in 0 .. 2 : \E first \in SUBSET {f.at + 1}, rest \in SUBSET {f.at + 2} :
                  Apply(f.e.s, f.e.x,
                        [rec[f.e.s][f.e.x] EXCEPT !.cursor = NextCursor(f.e.x, f.at, n),
                                                  !.buffer = @ \cup rest,
                                                  !.exhausted = LastPage(f.e.x, f.at, n)],
                        first)
    <3>1. PICK n \in 0 .. 2 :
             Apply(f.e.s, f.e.x,
                   [rec[f.e.s][f.e.x] EXCEPT !.cursor = NextCursor(f.e.x, f.at, n),
                                             !.buffer = @ \cup {b \in {f.at + 2} : n > 1},
                                             !.exhausted = LastPage(f.e.x, f.at, n)],
                   {b \in {f.at + 1} : n > 0})
      BY <2>3 DEF FetchReturns
    <3>2. /\ {b \in {f.at + 1} : n > 0} \in SUBSET {f.at + 1}
          /\ {b \in {f.at + 2} : n > 1} \in SUBSET {f.at + 2}
      OBVIOUS
    <3> QED
      BY <3>1, <3>2, Zenon
  <2>4. Dropped(f) => UNCHANGED <<rec, limited>>
    BY DEF FetchReturns
  <2> QED
    BY <2>1, <2>2, <2>3, <2>4
<1>5. SessionTyped'
  BY <1>2, <1>4 DEF SessionTyped
<1>6. CallTyped'
  BY <1>1, <1>2, EndsTyped DEF CallTyped, schedulerVars, queues
<1> QED
  BY <1>2, <1>4, <1>5, <1>6, WorldTypedKept, Assembled

LEMMA FetchFailsKeeps ==
    ASSUME IInv, NEW f \in fetching, FetchFails(f)
    PROVE  IInv'
<1> USE Parts
<1>1. f.e \in Entries
  BY DEF CallTyped
<1>2. /\ fetching' \subseteq fetching
      /\ UNCHANGED <<schedulerVars, sessionVars, todo, starting, current, allowed, ready>>
  BY DEF FetchFails
<1>3. (\E result \in Results : Ends(f.e, result)) /\ mishaps' \in Nat
  BY DEF FetchFails, WorldTyped, Results
<1>4. Sched' /\ Linked'
  BY <1>2, Unseen DEF sessionVars
<1>5. SessionTyped' /\ WorldTyped'
  BY <1>2, <1>3 DEF SessionTyped, WorldTyped, sessionVars
<1>6. CallTyped'
  BY <1>1, <1>2, <1>3, EndsTyped DEF CallTyped, schedulerVars, queues
<1> QED
  BY <1>4, <1>5, <1>6, Assembled

\* A slot is given back: the scheduler hears of nothing new.
LEMMA ReleaseLinks ==
    ASSUME IInv, NEW e \in active, NEW result \in Results, Release(e, result), UNCHANGED sessionVars
    PROVE  Sched' /\ Linked'
<1> USE Parts
<1>1. Sched'
  BY ReleaseKeeps
<1>2. /\ queued' = queued /\ active' \subseteq active
      /\ active' \ cancelRequested' \subseteq active \ cancelRequested
      /\ \A t \in settled' : t \in settled \/ t.e \in active
  BY DEF Release
<1>3. /\ \A f \in queued : phase[f.s] = "live" /\ f.x \in sources[f.s]
      /\ \A f \in active \ cancelRequested : phase[f.s] = "live"
  BY DEF Linked, Dead, Live
<1> QED
  BY <1>1, <1>2, <1>3, AliveKept DEF sessionVars

LEMMA FinishKeeps ==
    ASSUME IInv, NEW d \in ended, Finish(d)
    PROVE  IInv'
<1> USE Parts
<1>1. d.e \in active /\ d.result \in Results /\ Release(d.e, d.result)
  BY DEF Finish, Release, CallTyped
<1>2. Sched' /\ Linked'
  BY <1>1, ReleaseLinks DEF Finish
<1>3. SessionTyped' /\ CallTyped'
  BY DEF SessionTyped, CallTyped, Finish, Returned, sessionVars
<1> QED
  BY <1>2, <1>3, WorldTypedKept, Assembled DEF Finish

LEMMA HardLimitKeeps ==
    ASSUME IInv, NEW e \in active, HardLimit(e)
    PROVE  IInv'
<1> USE Parts
<1>1. Release(e, "hardLimit") /\ "hardLimit" \in Results
  BY DEF HardLimit, Results
<1>2. Sched' /\ Linked'
  BY <1>1, ReleaseLinks DEF HardLimit
<1>3. SessionTyped' /\ CallTyped'
  BY DEF SessionTyped, CallTyped, HardLimit, Idle, Returned, sessionVars
<1> QED
  BY <1>2, <1>3, WorldTypedKept, Assembled DEF HardLimit

LEMMA FinishedTyped ==
    ASSUME NEW s, NEW r \in SourceState, NEW result
    PROVE  Finished(s, r, result) \in SourceState /\ Finished(s, r, result).jobToken = r.jobToken + 1
<1> DEFINE n == r.jobToken + 1
           cut == result = "cancelled"
           state == CASE result \in {"failed", "timedOut"} -> result
                      [] result = "hardLimit" -> "timedOut"
                      [] result = "cancelled" -> r.before
                      [] result = "ok" /\ s \in limited /\ r.state = "loading" -> "ready"
                      [] OTHER -> r.state
<1>1. n \in Nat /\ r.state \in SourceStates /\ r.before \in SourceStates /\ cut \in BOOLEAN
  BY DEF SourceState, SourceStates
<1>2. state \in SourceStates
  BY <1>1 DEF SourceStates
<1>3. Finished(s, r, result) = [r EXCEPT !.jobRunning = FALSE, !.jobToken = n, !.firstSettled = TRUE,
                                         !.state = state, !.cut = cut]
  BY DEF Finished
<1> HIDE DEF n, state, cut
<1>4. Finished(s, r, result) \in SourceState /\ Finished(s, r, result).jobToken = n
  <2>1. \A st \in SourceStates :
           LET q == [r EXCEPT !.jobRunning = FALSE, !.jobToken = n, !.firstSettled = TRUE, !.state = st,
                              !.cut = cut] IN
               q \in SourceState /\ q.jobToken = n
    BY <1>1 DEF SourceState
  <2> QED
    BY <1>2, <1>3, <2>1
<1> QED
  BY <1>4 DEF n

\* A source that has heard of its job knows of no other.
LEMMA FinishPageJobKeeps ==
    ASSUME IInv, NEW t \in settled, FinishPageJob(t)
    PROVE  IInv'
<1> USE Parts
<1> DEFINE s == t.e.s
           x == t.e.x
           q == Finished(s, rec[s][x], t.result)
<1>1. t.e \in Entries /\ s \in Ids /\ x \in Sources /\ t.e \in Told
  BY ClassOfEntry DEF SchedulerTypeOK, Told
<1>2. /\ settled' \subseteq settled
      /\ UNCHANGED <<queues, counts, rotation, pumping, phase, slots, sources, limited, todo, starting,
                     fetching, ended, worldVars>>
  BY DEF FinishPageJob
<1>3. rec \in RecType /\ rec[s][x] \in SourceState
  BY <1>1 DEF SessionTyped, RecType
<1>4. Sched'
  BY <1>2, QuietKeeps
<1>5. queued' = queued /\ active' = active /\ cancelRequested' = cancelRequested /\ Live' = Live
      /\ Told' \subseteq Told
  BY <1>2 DEF queues, Live, Told
<1>6. CASE UNCHANGED <<rec, initial>>
  <2>1. /\ \A e \in queued : phase[e.s] = "live" /\ e.x \in sources[e.s]
        /\ \A e \in active \ cancelRequested : phase[e.s] = "live"
    BY DEF Linked, Dead, Live
  <2>2. Linked'
    BY <1>2, <1>4, <1>5, <1>6, <2>1, AliveKept
  <2>3. SessionTyped' /\ CallTyped'
    BY <1>2, <1>5, <1>6 DEF SessionTyped, CallTyped
  <2> QED
    BY <1>2, <1>4, <2>2, <2>3, WorldTypedKept, Assembled
<1>7. CASE /\ ~Dead(t.e) /\ rec' = [rec EXCEPT ![s][x] = q]
           /\ initial' = InitialDone({s}, sources, [rec EXCEPT ![s][x] = q])
  <2>1. q \in SourceState /\ q.jobToken = rec[s][x].jobToken + 1
    BY <1>3, FinishedTyped
  <2>2. t.e.n = rec[s][x].jobToken
    BY <1>7 DEF Dead
  <2> HIDE DEF q
  <2>3. rec' \in RecType /\ rec'[s][x] = q
        /\ \A k \in Ids, y \in Sources : (k # s \/ y # x) => rec'[k][y] = rec[k][y]
    BY <1>1, <1>3, <1>7, <2>1 DEF RecType
  <2>4. queued \subseteq Entries /\ active \subseteq Entries /\ Told \subseteq Entries
        /\ \A e \in Entries : e.s \in Ids /\ e.x \in Sources /\ e.n \in Nat
    BY DEF SchedulerTypeOK, Told, Entries
  <2>5. ASSUME NEW e \in queued'
        PROVE  ~Dead(e)' /\ rec'[e.s][e.x].jobRunning
    <3>1. e \in queued /\ e \in Entries /\ ~Dead(e) /\ rec[e.s][e.x].jobRunning
      BY <1>5, <2>4 DEF Linked
    <3>2. e.n = rec[e.s][e.x].jobToken
      BY <3>1 DEF Dead
    <3>3. ~(e.s = s /\ e.x = x)
      <4> SUFFICES ASSUME e.s = s /\ e.x = x
                   PROVE  FALSE
        OBVIOUS
      <4>1. e = t.e
        BY <1>1, <2>2, <3>1, <3>2, EntryIs
      <4> QED
        BY <1>1, <3>1, <4>1 DEF Linked
    <3>4. rec'[e.s][e.x] = rec[e.s][e.x]
      BY <2>3, <2>4, <3>1, <3>3
    <3> QED
      BY <1>2, <1>5, <3>1, <3>4 DEF Dead
  <2>6. ASSUME NEW e \in active' \cup Told', Alive(e)'
        PROVE  e.n <= rec'[e.s][e.x].jobToken
    <3>1. e \in Entries /\ e.n <= rec[e.s][e.x].jobToken
      BY <1>2, <1>5, <2>4, <2>6 DEF Alive, Linked
    <3>2. CASE e.s = s /\ e.x = x
      <4>1. rec[s][x].jobToken \in Nat
        BY <1>3 DEF SourceState
      <4> QED
        BY <2>1, <2>3, <2>4, <3>1, <3>2, <4>1
    <3>3. CASE ~(e.s = s /\ e.x = x)
      BY <2>3, <2>4, <3>1, <3>3
    <3> QED
      BY <3>2, <3>3
  <2>7. Linked'
    BY <1>2, <1>5, <2>5, <2>6 DEF Linked
  <2>8. SessionTyped' /\ CallTyped'
    BY <1>2, <1>5, <1>7, <2>3, InitialDoneTyped DEF SessionTyped, CallTyped
  <2> QED
    BY <1>2, <1>4, <2>7, <2>8, WorldTypedKept, Assembled
<1> QED
  BY <1>6, <1>7 DEF FinishPageJob

LEMMA PublishKeeps ==
    ASSUME IInv, Publish
    PROVE  IInv'
<1> USE Parts
<1>1. /\ rec' = [s \in Ids |-> [x \in Sources |-> [rec[s][x] EXCEPT !.subscribed = FALSE]]]
      /\ todo' \subseteq {Item("ready", s, x) : s \in Live, x \in Sources}
      /\ UNCHANGED <<schedulerVars, phase, slots, sources, limited, initial, starting, fetching,
                     ended, current, allowed, mishaps>>
      /\ ready' = TRUE
  BY DEF Publish
<1>2. \A s \in Ids, x \in Sources :
         /\ [rec[s][x] EXCEPT !.subscribed = FALSE] \in SourceState
         /\ [rec[s][x] EXCEPT !.subscribed = FALSE].jobToken = rec[s][x].jobToken
         /\ [rec[s][x] EXCEPT !.subscribed = FALSE].jobRunning = rec[s][x].jobRunning
  <2>1. ASSUME NEW r \in SourceState
        PROVE  /\ [r EXCEPT !.subscribed = FALSE] \in SourceState
               /\ [r EXCEPT !.subscribed = FALSE].jobToken = r.jobToken
               /\ [r EXCEPT !.subscribed = FALSE].jobRunning = r.jobRunning
    BY DEF SourceState
  <2>2. \A s \in Ids, x \in Sources : rec[s][x] \in SourceState
    BY DEF SessionTyped, RecType
  <2> QED
    BY <2>1, <2>2
<1>3. rec' \in RecType
      /\ \A s \in Ids, x \in Sources : /\ rec'[s][x].jobToken = rec[s][x].jobToken
                                       /\ rec'[s][x].jobRunning = rec[s][x].jobRunning
  BY <1>1, <1>2 DEF RecType
<1>4. Sched'
  BY <1>1, QuietKeeps DEF schedulerVars
<1>5. Linked'
  <2>1. /\ \A e \in queued : phase[e.s] = "live" /\ e.x \in sources[e.s]
        /\ \A e \in active \ cancelRequested : phase[e.s] = "live"
    BY DEF Linked, Dead, Live
  <2> QED
    BY <1>1, <1>3, <1>4, <2>1, AliveKept DEF schedulerVars, queues
<1>6. SessionTyped' /\ WorldTyped'
  BY <1>1, <1>3 DEF SessionTyped, WorldTyped
<1>7. CallTyped'
  BY <1>1 DEF CallTyped, schedulerVars, queues, Item, Live
<1> QED
  BY <1>4, <1>5, <1>6, <1>7, Assembled

LEMMA LoseRightsKeeps ==
    ASSUME IInv, LoseRights
    PROVE  IInv'
<1> USE Parts
<1>1. Sched' /\ Linked'
  BY Unseen DEF LoseRights, sessionVars
<1>2. SessionTyped' /\ CallTyped' /\ WorldTyped'
  BY DEF LoseRights, SessionTyped, CallTyped, WorldTyped, sessionVars, schedulerVars, queues
<1> QED
  BY <1>1, <1>2, Assembled

-----------------------------------------------------------------------------
(* The specification.                                                      *)

LEMMA InitSound == Init => IInv
<1> SUFFICES ASSUME Init
             PROVE  IInv
  OBVIOUS
<1> USE DEF Init, SchedulerInit
<1>1. SchedulerTypeOK
  BY FS_EmptySet DEF SchedulerTypeOK
<1>2. SessionTyped
  <2>1. rec \in RecType
    BY NewSourceTyped DEF RecType
  <2> QED
    BY <2>1 DEF SessionTyped
<1>3. CallTyped /\ WorldTyped
  BY DEF CallTyped, WorldTyped
<1>4. CountsMatch /\ LimitsKept
  <2>1. /\ \A s \in Ids, c \in Classes : Running(s, c) = {}
        /\ \A p \in Pools : Connected(p) = {}
    BY DEF Running, Connected
  <2>2. JobsServerWide \in Nat /\ PerPool \in Nat /\ \A c \in Classes : PerSession[c] \in Nat
    BY SchedulerAssumption
  <2>3. Cardinality({}) = 0
    BY FS_EmptySet
  <2>4. CountsMatch
    BY <2>1, <2>3 DEF CountsMatch
  <2>5. LimitsKept
    <3>1. Cardinality(active) <= JobsServerWide
      BY <2>2, <2>3
    <3> HIDE DEF Init, SchedulerInit
    <3> QED
      BY <2>1, <2>2, <2>3, <3>1 DEF LimitsKept
  <2> QED
    BY <2>4, <2>5
<1>5. NoIdleSlot /\ PumpAdmits
  BY DEF NoIdleSlot, PumpAdmits, Runnable
<1>6. Linked
  BY DEF Linked, Told
<1> QED
  BY <1>1, <1>2, <1>3, <1>4, <1>5, <1>6, TypeParts DEF IInv, Sched

LEMMA NextKeeps ==
    ASSUME IInv, [Next]_vars
    PROVE  IInv'
<1>1. CASE UNCHANGED vars
  <2> USE Parts
  <2>0. UNCHANGED <<schedulerVars, phase, sources, rec>>
    BY <1>1 DEF vars, sessionVars
  <2>1. Sched' /\ Linked'
    BY <2>0, Unseen
  <2>2. SessionTyped' /\ CallTyped' /\ WorldTyped'
    BY <1>1 DEF vars, sessionVars, worldVars, schedulerVars, queues, SessionTyped, CallTyped, WorldTyped
  <2> QED
    BY <2>1, <2>2, Assembled
<1>2. CASE Sync
  BY <1>2, SchedulePageKeeps, PumpKeeps, RunKeeps DEF Sync
<1>3. CASE Callback
  BY <1>3, FetchIsEarlyKeeps, FinishKeeps, FinishPageJobKeeps, AnswerKeeps DEF Callback
<1>4. CASE Request
  BY <1>4, StartKeeps, LookKeeps, EndOfSession, PageAllKeeps, RetryKeeps, InvalidateKeeps,
     LoseRightsKeeps DEF Request
<1>5. CASE Timer \/ Publish
  BY <1>5, InitialTimeoutKeeps, PublishKeeps DEF Timer
<1>6. CASE \/ \E f \in fetching : FetchReturns(f) \/ FetchFails(f)
           \/ \E e \in active : HardLimit(e)
  BY <1>6, FetchReturnsKeeps, FetchFailsKeeps, HardLimitKeeps
<1> QED
  BY <1>1, <1>2, <1>3, <1>4, <1>5, <1>6 DEF Next

LEMMA AlwaysIInv == Spec => []IInv
BY InitSound, NextKeeps, PTL DEF Spec

\* The state is of its type for any sessions, sources and limits: no counter of the scheduler
\* falls below zero, and a run begins only with the slot it was given.
THEOREM SearchTyped == Spec => []TypeOK
<1>1. IInv => TypeOK
  BY DEF IInv
<1> QED
  BY <1>1, AlwaysIInv, PTL

\* pump(), release() and cancelEntry() keep the shared scheduler sound for any sessions, sources
\* and limits: exact counters, no limit passed, no idle slot, nothing left of a search that is
\* gone.
THEOREM SchedulerStaysSound == Spec => []SchedulerSound
<1>1. IInv => SchedulerSound
  BY DEF IInv, Sched, Linked, SchedulerSound, GoneLeavesNothing
<1> QED
  BY <1>1, AlwaysIInv, PTL
-----------------------------------------------------------------------------
(* The pages of a source: what its jobs say and what it knows of them.     *)

\* Jobs that have not begun, and jobs that have asked or ended
Coming == queued \cup starting
Past == {f.e : f \in fetching} \cup {d.e : d \in ended} \cup Told

At(e, s, x) == e.s = s /\ e.x = x
Wanted(s, x) == s \in Live /\ x \in sources[s]

\* A job that has not begun finds its source queued, and the page a source waits for is the one
\* that goes on where it stands. The end of a job cannot undo the last page, since a job that
\* brought it is told before its time can be up.
InStep(s, x) ==
    /\ \A e \in Coming : At(e, s, x) =>
           ~Dead(e) /\ rec[s][x].jobRunning /\ rec[s][x].state = "queued"
    /\ \A e \in Past : At(e, s, x) =>
           e \notin Coming /\ phase[s] # "new" /\ (Wanted(s, x) => e.n <= rec[s][x].jobToken)
    /\ \A f \in fetching : At(f.e, s, x) /\ ~Dead(f.e) =>
           rec[s][x].state = "loading" /\ rec[s][x].cursor = f.at /\ rec[s][x].buffer = {}
    /\ \A f, g \in fetching : At(f.e, s, x) /\ f.e = g.e => f = g
    /\ \A d \in ended \cup settled : At(d.e, s, x) /\ ~Dead(d.e) /\ d.result # "ok" =>
           rec[s][x].state # "exhausted"
    /\ \A e \in active \ starting : At(e, s, x) /\ ~Dead(e) /\ rec[s][x].state = "exhausted" =>
           \E d \in ended : d.e = e
    /\ phase[s] = "new" => rec[s][x] = NewSource(x)
    /\ s \notin limited => InOrder(x, rec[s][x])

\* A page is asked for without a look at the state of its source only where that is not exhausted.
AskedFor ==
    \A i, k \in todo : i.kind = "page" =>
        /\ k.kind = "page" /\ rec[i.s][i.x].state # "exhausted"
        /\ rec[i.s][i.x].jobRunning => todo = {i} /\ ~pumping /\ starting = {}

PInv == IInv /\ AskedFor /\ \A s \in Ids, x \in Sources : InStep(s, x)

\* What a step may not take from a source that stays
Grows(s, x) ==
    s \in Live /\ x \in sources[s] \cap sources'[s] =>
        /\ rec[s][x].records \subseteq rec'[s][x].records
        /\ rec[s][x].state = "exhausted" => rec'[s][x].state = "exhausted"

\* A source whose rows and job are left alone
Steady(r, q) ==
    /\ q.jobToken = r.jobToken /\ q.jobRunning = r.jobRunning
    /\ q.cursor = r.cursor /\ q.buffer = r.buffer /\ q.records = r.records
    /\ \/ q.state = r.state
       \/ r.state \notin {"queued", "loading", "exhausted"} /\ q.state # "exhausted"

\* A step leaves a source alone, or takes it out of its search.
Left(s, x) ==
    /\ phase'[s] = "new" => phase[s] = "new" /\ rec'[s][x] = rec[s][x]
    /\ \/ /\ Steady(rec[s][x], rec'[s][x])
          /\ Wanted(s, x)' => Wanted(s, x) \/ phase[s] = "new"
          /\ s \in limited => s \in limited' \/ phase[s] = "new"
       \/ rec'[s][x] = NewSource(x) /\ x \notin sources'[s]

\* A step brings no new job of a source and tells it of none whose end it does not expect.
Calm(s, x) ==
    /\ \A e \in Coming' : At(e, s, x) => e \in Coming /\ Wanted(s, x)'
    /\ \A e \in Past' : At(e, s, x) => e \in Past \/ (e \in active /\ e \notin Coming')
    /\ \A f \in fetching' : At(f.e, s, x) => f \in fetching
    /\ \A d \in ended' \cup settled' : At(d.e, s, x) /\ ~Dead(d.e)' =>
           d \in ended \cup settled \/ d.result = "ok" \/ rec[s][x].state # "exhausted"
    /\ \A e \in active' \ starting' : At(e, s, x) /\ ~Dead(e)' => e \in active \ starting
    /\ \A d \in ended : At(d.e, s, x) => d \in ended' \/ d.e \notin active'

LEMMA Interval ==
    ASSUME NEW m \in Nat
    PROVE  Cardinality(1 .. m) = m
BY FS_Interval

LEMMA OrderIs ==
    ASSUME NEW x \in Sources, NEW r, r.cursor \in Nat
    PROVE  InOrder(x, r) <=> \/ r.records \cup r.buffer = 1 .. r.cursor
                             \/ r.records \cup r.buffer = 1 .. Rows[x]
<1>1. Rows[x] \in Nat
  BY SessionAssumption
<1> DEFINE got == r.records \cup r.buffer
<1>2. InOrder(x, r) <=> got = 1 .. Cardinality(got) /\ (got = 1 .. r.cursor \/ got = 1 .. Rows[x])
  BY DEF InOrder
<1> HIDE DEF got
<1>3. got = 1 .. r.cursor \/ got = 1 .. Rows[x] => got = 1 .. Cardinality(got)
  BY <1>1, Interval
<1>4. InOrder(x, r) <=> got = 1 .. r.cursor \/ got = 1 .. Rows[x]
  BY <1>2, <1>3
<1> QED
  BY <1>4 DEF got

LEMMA NewInOrder == ASSUME NEW x \in Sources PROVE InOrder(x, NewSource(x))
<1>1. NewSource(x).cursor = 0 /\ NewSource(x).records \cup NewSource(x).buffer = {}
  BY DEF NewSource
<1>2. 1 .. 0 = {}
  OBVIOUS
<1> QED
  BY <1>1, <1>2, OrderIs

LEMMA JobsTyped ==
    ASSUME IInv
    PROVE  /\ \A e \in Coming \cup Past \cup active : e \in Entries
           /\ \A e \in active \cup queued : phase[e.s] # "new"
           /\ \A e \in active : Alive(e) => e.n <= rec[e.s][e.x].jobToken
           /\ rec \in RecType /\ \A s \in Ids, x \in Sources : rec[s][x] \in SourceState
<1> USE Parts
<1>1. \A e \in Coming \cup Past \cup active : e \in Entries
  BY DEF Coming, Past, Told, CallTyped, SchedulerTypeOK
<1>2. rec \in RecType /\ \A s \in Ids, x \in Sources : rec[s][x] \in SourceState
  BY DEF SessionTyped, RecType
<1> QED
  BY <1>1, <1>2 DEF Linked

\* A source that a step leaves alone stays in step with its jobs.
LEMMA Weathered ==
    ASSUME IInv, NEW s \in Ids, NEW x \in Sources, InStep(s, x), Calm(s, x), Left(s, x)
    PROVE  InStep(s, x)' /\ Grows(s, x)
<1>1. CASE rec'[s][x] = NewSource(x) /\ x \notin sources'[s]
  <2>1. \A e \in Coming' : ~At(e, s, x)
    BY <1>1 DEF Calm, Wanted
  <2>2. \A e \in Past' : At(e, s, x) => phase'[s] # "new"
    BY JobsTyped DEF Calm, InStep, Left, At
  <2>3. ASSUME NEW e, At(e, s, x) PROVE Dead(e)'
    BY <1>1, <2>3 DEF Dead, At
  <2>4. InOrder(x, rec[s][x])'
    BY <1>1, NewInOrder
  <2> QED
    BY <1>1, <2>1, <2>2, <2>3, <2>4 DEF InStep, Grows, Calm, Wanted
<1>2. CASE /\ Steady(rec[s][x], rec'[s][x])
           /\ Wanted(s, x)' => Wanted(s, x) \/ phase[s] = "new"
           /\ s \in limited => s \in limited' \/ phase[s] = "new"
  <2>1. \A e \in Coming \cup Past \cup active : At(e, s, x) => phase[s] # "new"
    BY JobsTyped DEF InStep, At, Dead, Live
  <2>2. ASSUME NEW e \in Coming \cup Past \cup active, At(e, s, x), ~Dead(e)'
        PROVE  ~Dead(e)
    BY <1>2, <2>1, <2>2 DEF At, Dead, Wanted, Steady
  <2>3. ASSUME NEW e \in Coming', At(e, s, x)
        PROVE  ~Dead(e)' /\ rec'[s][x].jobRunning /\ rec'[s][x].state = "queued"
    BY <1>2, <2>3 DEF Calm, InStep, At, Dead, Wanted, Steady
  <2>4. ASSUME NEW e \in Past', At(e, s, x)
        PROVE  e \notin Coming' /\ phase'[s] # "new" /\ (Wanted(s, x)' => e.n <= rec'[s][x].jobToken)
    <3>1. e \in Past \/ (e \in active /\ e \notin Coming')
      BY <2>4 DEF Calm
    <3>2. e \notin Coming'
      BY <2>4, <3>1 DEF Calm, InStep
    <3>3. phase[s] # "new" /\ phase'[s] # "new"
      BY <2>1, <2>4, <3>1 DEF Left
    <3>4. Wanted(s, x) => e.n <= rec[s][x].jobToken
      BY <2>4, <3>1, JobsTyped DEF InStep, At, Alive, Wanted
    <3> QED
      BY <1>2, <3>2, <3>3, <3>4 DEF Steady
  <2>5. ASSUME NEW f \in fetching', At(f.e, s, x), ~Dead(f.e)'
        PROVE  rec'[s][x].state = "loading" /\ rec'[s][x].cursor = f.at /\ rec'[s][x].buffer = {}
    <3>1. f \in fetching /\ ~Dead(f.e)
      BY <2>2, <2>5 DEF Calm, Past
    <3> QED
      BY <1>2, <2>5, <3>1 DEF InStep, Steady
  <2>6. ASSUME NEW d \in ended' \cup settled', At(d.e, s, x), ~Dead(d.e)', d.result # "ok"
        PROVE  rec'[s][x].state # "exhausted"
    <3>1. CASE rec[s][x].state # "exhausted"
      BY <1>2, <3>1 DEF Steady
    <3>2. CASE d \in ended \cup settled
      <4>1. ~Dead(d.e)
        BY <2>2, <2>6, <3>2 DEF Past, Told
      <4> QED
        BY <2>6, <3>1, <3>2, <4>1 DEF InStep
    <3> QED
      BY <2>6, <3>1, <3>2 DEF Calm
  <2>7. ASSUME NEW e \in active' \ starting', At(e, s, x), ~Dead(e)', rec'[s][x].state = "exhausted"
        PROVE  \E d \in ended' : d.e = e
    <3>1. e \in active \ starting /\ ~Dead(e)
      BY <2>2, <2>7 DEF Calm
    <3>2. rec[s][x].state = "exhausted"
      BY <1>2, <2>7 DEF Steady
    <3>3. PICK d \in ended : d.e = e
      BY <2>7, <3>1, <3>2 DEF InStep
    <3> QED
      BY <2>7, <3>3 DEF Calm
  <2>8. phase'[s] = "new" => rec'[s][x] = NewSource(x)
    BY DEF Left, InStep
  <2>9. s \notin limited' => InOrder(x, rec[s][x])'
    BY <1>2, NewInOrder DEF InStep, InOrder, Steady
  <2>10. \A f, g \in fetching' : At(f.e, s, x) /\ f.e = g.e => f = g
    BY DEF Calm, InStep, At
  <2> QED
    BY <1>2, <2>3, <2>4, <2>5, <2>6, <2>7, <2>8, <2>9, <2>10 DEF InStep, Grows, Steady
<1> QED
  BY <1>1, <1>2 DEF Left

\* All that the pages of the sources need of a step
Moved == AskedFor' /\ \A s \in Ids, x \in Sources : InStep(s, x)' /\ Grows(s, x)

LEMMA CalmCall ==
    ASSUME IInv, IInv', starting = {}, starting' = {}, UNCHANGED <<active, fetching, ended, settled>>,
           queued' \subseteq queued, NEW s \in Ids, NEW x \in Sources
    PROVE  Calm(s, x)
<1>1. Coming' = queued' /\ Coming = queued /\ Past' = Past
  BY DEF Coming, Past, Told
<1>2. \A e \in queued' : At(e, s, x) => Wanted(s, x)'
  <2>1. \A e \in queued' : ~Dead(e)'
    BY DEF IInv, Linked
  <2> QED
    BY <2>1 DEF Dead, At, Wanted
<1>3. active' \ starting' = active \ starting /\ UNCHANGED <<fetching, ended, settled>>
  OBVIOUS
<1> QED
  BY <1>1, <1>2, <1>3 DEF Calm

\* A call, a timer or the answer to start() asks no job and hears of none.
LEMMA CallMoves ==
    ASSUME PInv, IInv', starting = {}, starting' = {}, UNCHANGED <<active, fetching, ended, settled>>,
           queued' \subseteq queued, AskedFor', \A s \in Ids, x \in Sources : Left(s, x)
    PROVE  Moved
BY CalmCall, Weathered DEF PInv, Moved

LEMMA CancelCalls ==
    ASSUME NEW E, Cancel(E)
    PROVE  UNCHANGED <<active, settled>> /\ queued' \subseteq queued /\ (~pumping => ~pumping')
BY DEF Cancel

LEMMA NothingAsked ==
    ASSUME \A i \in todo' : i.kind # "page"
    PROVE  AskedFor'
BY DEF AskedFor

LEMMA SteadyHere == \A r : Steady(r, r)
BY Zenon DEF Steady

LEMMA TurnoverLeaves ==
    ASSUME PInv, NEW D \in SUBSET Ids, NEW N \in SUBSET Ids,
           \A s \in N : phase[s] = "new", Turnover(D, N)
    PROVE  \A s \in Ids, x \in Sources :
              /\ Left(s, x)
              /\ s \in N => rec'[s][x] = NewSource(x)
<1> SUFFICES ASSUME NEW s \in Ids, NEW x \in Sources
             PROVE  Left(s, x) /\ (s \in N => rec'[s][x] = NewSource(x))
  OBVIOUS
<1>1. /\ phase'[s] = IF s \in N THEN "live" ELSE IF s \in D THEN "gone" ELSE phase[s]
      /\ sources'[s] = IF s \in N THEN SourcesOf[s] \cap allowed ELSE IF s \in D THEN {} ELSE sources[s]
      /\ rec'[s][x] = IF s \in D THEN NewSource(x) ELSE rec[s][x]
      /\ limited' = limited \ D
  BY DEF Turnover
<1>2. phase[s] = "new" => rec[s][x] = NewSource(x)
  BY DEF PInv, InStep
<1>3. CASE s \in N
  BY <1>1, <1>2, <1>3, SteadyHere DEF Left
<1>4. CASE s \notin N /\ s \in D
  BY <1>1, <1>4 DEF Left
<1>5. CASE s \notin N /\ s \notin D
  BY <1>1, <1>5, SteadyHere DEF Left, Wanted, Live
<1> QED
  BY <1>3, <1>4, <1>5

LEMMA WithoutLeaves ==
    ASSUME PInv, NEW R, NEW r, Without(R, r),
           \A s \in Ids, x \in Sources : Steady(rec[s][x], r[s][x])
                                         /\ (phase[s] = "new" => r[s][x] = rec[s][x])
    PROVE  \A s \in Ids, x \in Sources : Left(s, x)
<1> SUFFICES ASSUME NEW s \in Ids, NEW x \in Sources
             PROVE  Left(s, x)
  OBVIOUS
<1>1. /\ phase' = phase /\ limited' = limited /\ sources'[s] = sources[s] \ R[s]
      /\ rec'[s][x] = IF x \in R[s] THEN NewSource(x) ELSE r[s][x]
  BY DEF Without
<1>2. phase[s] = "new" => rec[s][x] = NewSource(x)
  BY DEF PInv, InStep
<1> QED
  BY <1>1, <1>2 DEF Left, Wanted, Live

LEMMA CallCalls ==
    ASSUME PInv, NEW s \in Ids, NEW r, Call(s, r),
           \A k \in Ids, x \in Sources : Steady(rec[k][x], r[k][x])
                                         /\ (phase[k] = "new" => r[k][x] = rec[k][x])
    PROVE  /\ starting = {} /\ UNCHANGED <<active, settled>> /\ queued' \subseteq queued /\ ~pumping'
           /\ \A k \in Ids, x \in Sources : Left(k, x)
<1>1. Without(Disallowed(s), r) /\ starting = {} /\ ~pumping
  BY DEF Call, Remove, Idle, Returned
<1> QED
  BY <1>1, WithoutLeaves, CancelCalls DEF Without

LEMMA RequestMoves ==
    ASSUME PInv, IInv', NEW s \in Ids, Look(s) \/ PageAll(s)
    PROVE  Moved
<1>1. Call(s, rec) /\ UNCHANGED <<starting, fetching, ended>>
  BY DEF Look, PageAll
<1>2. \A i \in todo' : i.kind # "page"
  BY DEF Look, PageAll, Call, Idle, Returned, Item
<1> QED
  BY <1>1, <1>2, CallCalls, SteadyHere, NothingAsked, CallMoves

LEMMA DestroyMoves ==
    ASSUME PInv, IInv', NEW D \in SUBSET Ids, Destroy(D), Returned, UNCHANGED <<todo, starting, fetching, ended>>
    PROVE  Moved
<1>1. Turnover(D, {})
  BY DEF Destroy
<1>2. UNCHANGED <<active, settled>> /\ queued' \subseteq queued
  BY <1>1, CancelCalls DEF Turnover
<1>3. AskedFor'
  BY NothingAsked DEF Returned
<1> QED
  BY <1>1, <1>2, <1>3, TurnoverLeaves, CallMoves DEF Returned

LEMMA StartMoves ==
    ASSUME PInv, IInv', NEW id \in Ids, Start(id)
    PROVE  Moved
<1> DEFINE existing == {slots[SlotOf[id]]} \ {0}
<1>1. existing \in SUBSET Ids
  BY Parts, SessionAssumption DEF PInv, SessionTyped
<1>2. PICK victims \in SUBSET Live : Turnover(existing \cup victims, {id})
  BY DEF Start
<1>3. /\ starting = {} /\ UNCHANGED <<starting, fetching, ended>> /\ phase[id] = "new"
      /\ todo' = {Item("page", id, x) : x \in sources'[id]}
  BY DEF Start, Idle, Returned
<1>4. existing \cup victims \in SUBSET Ids
  BY <1>1 DEF Live
<1> HIDE DEF existing
<1>5. \A s \in Ids, x \in Sources : Left(s, x) /\ (s = id => rec'[s][x] = NewSource(x))
  BY <1>2, <1>3, <1>4, TurnoverLeaves
<1>6. UNCHANGED <<active, settled>> /\ queued' \subseteq queued
  BY <1>2, CancelCalls DEF Turnover
<1>7. AskedFor'
  <2>1. \A i \in todo' : i.kind = "page" /\ i.s = id /\ i.x \in sources'[id]
    BY <1>3 DEF Item
  <2>2. sources'[id] \subseteq Sources
    BY DEF IInv, TypeOK
  <2>3. \A x \in Sources : NewSource(x).state = "queued" /\ ~NewSource(x).jobRunning
    BY DEF NewSource
  <2> QED
    BY <1>5, <2>1, <2>2, <2>3 DEF AskedFor
<1> QED
  BY <1>3, <1>5, <1>6, <1>7, CallMoves

LEMMA RetryMoves ==
    ASSUME PInv, IInv', NEW s \in Ids, NEW x \in Sources, Retry(s, x)
    PROVE  Moved
<1> DEFINE q == Retried(x, rec[s][x])
           r == [rec EXCEPT ![s][x] = q]
<1>1. rec \in RecType /\ rec[s][x] \in SourceState
  BY RecTyped DEF PInv
<1>2. /\ Call(s, r) /\ todo' = {Item("page", s, x)} /\ UNCHANGED <<starting, fetching, ended>>
      /\ x \in allowed /\ Retryable(rec[s][x].state) /\ s \in Live
  BY DEF Retry, Call
<1>3. Steady(rec[s][x], q) /\ q.state = "queued"
  BY <1>1, <1>2 DEF Steady, Retried, Retryable, SourceState
<1> HIDE DEF q
<1>4. \A k \in Ids, y \in Sources : r[k][y] = IF k = s /\ y = x THEN q ELSE rec[k][y]
  BY <1>1 DEF RecType
<1> HIDE DEF r
<1>5. \A k \in Ids, y \in Sources : Steady(rec[k][y], r[k][y]) /\ (phase[k] = "new" => r[k][y] = rec[k][y])
  BY <1>2, <1>3, <1>4, SteadyHere DEF Live
<1>6. /\ starting = {} /\ UNCHANGED <<active, settled>> /\ queued' \subseteq queued /\ ~pumping'
      /\ \A k \in Ids, y \in Sources : Left(k, y)
  BY <1>2, <1>5, CallCalls
<1>7. rec'[s][x].state = "queued"
  <2>1. Without(Disallowed(s), r) /\ x \notin Disallowed(s)[s]
    BY <1>2 DEF Call, Remove, Disallowed
  <2>2. rec'[s][x] = r[s][x]
    BY <2>1 DEF Without
  <2> QED
    BY <1>3, <1>4, <2>2
<1>8. AskedFor'
  <2>1. \A i \in todo' : i.kind = "page" /\ i.s = s /\ i.x = x /\ todo' = {i}
    BY <1>2 DEF Item
  <2> QED
    BY <1>2, <1>6, <1>7, <2>1 DEF AskedFor
<1> QED
  BY <1>2, <1>6, <1>8, CallMoves

LEMMA InvalidateMoves ==
    ASSUME PInv, IInv', InvalidateContent
    PROVE  Moved
<1> DEFINE R == [s \in Ids |-> IF s \in Live THEN sources[s] \ allowed ELSE {}]
<1>1. /\ Without(R, rec) /\ UNCHANGED <<todo, starting, fetching, ended>> /\ starting = {} /\ todo = {}
  BY DEF InvalidateContent, Remove, Idle, Returned
<1> HIDE DEF R
<1>2. UNCHANGED <<active, settled>> /\ queued' \subseteq queued
  BY <1>1, CancelCalls DEF Without
<1> QED
  BY <1>1, <1>2, WithoutLeaves, SteadyHere, NothingAsked, CallMoves

\* The sources are as they were.
LEMMA LeftAlone ==
    ASSUME UNCHANGED <<phase, sources, rec>>, limited' = limited
    PROVE  \A s \in Ids, x \in Sources : Left(s, x)
BY SteadyHere DEF Left, Wanted, Live

LEMMA TimeMoves ==
    ASSUME PInv, IInv', LoseRights \/ \E s \in Ids : InitialTimeout(s)
    PROVE  Moved
<1>1. /\ UNCHANGED <<schedulerVars, phase, sources, rec, limited, todo, starting, fetching, ended>>
      /\ starting = {} /\ todo = {}
  BY DEF LoseRights, InitialTimeout, Idle, Returned, sessionVars
<1> QED
  BY <1>1, LeftAlone, NothingAsked, CallMoves DEF schedulerVars, queues

LEMMA PublishMoves ==
    ASSUME PInv, IInv', Publish
    PROVE  Moved
<1>1. /\ UNCHANGED <<schedulerVars, phase, sources, limited, starting, fetching, ended>> /\ starting = {}
      /\ rec' = [s \in Ids |-> [x \in Sources |-> [rec[s][x] EXCEPT !.subscribed = FALSE]]]
      /\ \A i \in todo' : i.kind # "page"
  BY DEF Publish, Idle, Returned, Item
<1>2. ASSUME NEW s \in Ids, NEW x \in Sources
      PROVE  Left(s, x)
  <2>1. rec[s][x] \in SourceState /\ rec'[s][x] = [rec[s][x] EXCEPT !.subscribed = FALSE]
    BY <1>1, RecTyped DEF PInv
  <2>2. Steady(rec[s][x], rec'[s][x])
    BY <2>1 DEF Steady, SourceState
  <2>3. phase[s] = "new" => rec'[s][x] = rec[s][x]
    <3>1. [NewSource(x) EXCEPT !.subscribed = FALSE] = NewSource(x)
      <4>1. \A r \in SourceState : r.subscribed = FALSE => [r EXCEPT !.subscribed = FALSE] = r
        BY DEF SourceState
      <4>2. NewSource(x).subscribed = FALSE
        BY DEF NewSource
      <4> QED
        BY <4>1, <4>2, NewSourceTyped
    <3> QED
      BY <2>1, <3>1 DEF PInv, InStep
  <2> QED
    BY <1>1, <2>2, <2>3 DEF Left, Wanted, Live
<1> QED
  BY <1>1, <1>2, NothingAsked, CallMoves DEF schedulerVars, queues

LEMMA AnswerMoves ==
    ASSUME PInv, IInv', NEW s \in Ids, Answer(s)
    PROVE  Moved
<1>1. UNCHANGED <<todo, starting, fetching, ended>> /\ Returned
  BY DEF Answer
<1>2. CASE Without(Disallowed(s), rec)
  <2>1. UNCHANGED <<active, settled>> /\ queued' \subseteq queued
    BY <1>2, CancelCalls DEF Without
  <2> QED
    BY <1>1, <1>2, <2>1, WithoutLeaves, SteadyHere, NothingAsked, CallMoves DEF Returned
<1>3. CASE Destroy({s})
  BY <1>1, <1>3, DestroyMoves
<1>4. CASE UNCHANGED <<schedulerVars, phase, slots, sources, rec, limited>>
  BY <1>1, <1>4, LeftAlone, NothingAsked, CallMoves DEF Returned, schedulerVars, queues
<1> QED
  BY <1>2, <1>3, <1>4 DEF Answer

\* A source knows one job at a time.
LEMMA OneAlive ==
    ASSUME NEW c \in Entries, NEW e \in Entries, ~Dead(c), ~Dead(e), c.s = e.s, c.x = e.x
    PROVE  c = e
BY EntryIs DEF Dead

\* A source that takes a new job, or hears of the end of the one it has, knows of no other: what
\* still runs, is asked or has ended is dead to it.
LEMMA TokenMoves ==
    ASSUME PInv, NEW s \in Ids, NEW x \in Sources, Wanted(s, x), UNCHANGED <<phase, sources, limited>>,
           rec'[s][x].jobToken = rec[s][x].jobToken + 1, rec'[s][x].cursor = rec[s][x].cursor,
           rec'[s][x].buffer = rec[s][x].buffer, rec'[s][x].records = rec[s][x].records,
           \A e \in Coming' : At(e, s, x) =>
               rec'[s][x].jobRunning /\ rec'[s][x].state = "queued" /\ e.n = rec'[s][x].jobToken,
           UNCHANGED <<fetching, ended>>, settled' \subseteq settled, active' \subseteq active
    PROVE  InStep(s, x)'
<1>1. phase[s] = "live" /\ Wanted(s, x)'
  BY DEF Wanted, Live
<1>2. rec[s][x].jobToken \in Nat
  BY JobsTyped DEF PInv, SourceState
<1>3. ASSUME NEW e \in Past \cup active, At(e, s, x)
      PROVE  e.n <= rec[s][x].jobToken /\ e.n \in Nat
  <2>1. e \in Entries
    BY JobsTyped DEF PInv
  <2>2. CASE e \in Past
    BY <1>3, <2>1, <2>2 DEF PInv, InStep, Entries
  <2>3. CASE e \in active
    BY <1>3, <2>1, <2>3, JobsTyped DEF PInv, Alive, At, Wanted, Entries
  <2> QED
    BY <2>2, <2>3
<1>4. ASSUME NEW e \in Past \cup active, At(e, s, x)
      PROVE  Dead(e)' /\ e \notin Coming' /\ e.n <= rec'[s][x].jobToken
  BY <1>2, <1>3, <1>4 DEF Dead, At
<1>5. Past' \subseteq Past
  BY DEF Past, Told
<1>6. \A e \in Coming' : At(e, s, x) => ~Dead(e)'
  BY <1>1 DEF At, Dead, Wanted
<1>7. s \notin limited => InOrder(x, rec[s][x])'
  <2>1. s \notin limited => InOrder(x, rec[s][x])
    BY DEF PInv, InStep
  <2> QED
    BY <2>1 DEF InOrder
<1>8. \A d \in ended \cup settled : d.e \in Past
  BY DEF Past, Told
<1>9. \A f \in fetching : f.e \in Past
  BY DEF Past
<1>10. /\ \A f, g \in fetching : At(f.e, s, x) /\ f.e = g.e => f = g
  BY DEF PInv, InStep
<1> QED
  BY <1>1, <1>4, <1>5, <1>6, <1>7, <1>8, <1>9, <1>10 DEF InStep

LEMMA SchedulePageMoves ==
    ASSUME PInv, IInv', SchedulePage
    PROVE  Moved
<1>1. PICK i \in todo :
        /\ starting = {} /\ ~pumping /\ todo' = todo \ {i}
        /\ IF Schedules(i)
           THEN /\ rec' = [rec EXCEPT ![i.s][i.x] = Asked(rec[i.s][i.x])]
                /\ Enqueue([s |-> i.s, x |-> i.x, n |-> Asked(rec[i.s][i.x]).jobToken])
           ELSE /\ rec' = IF Wakes(i) THEN [rec EXCEPT ![i.s][i.x].state = "queued"] ELSE rec
                /\ UNCHANGED schedulerVars
        /\ UNCHANGED <<phase, slots, sources, limited, initial, starting, fetching, ended, worldVars>>
  BY DEF SchedulePage
<1>2. i.s \in Ids /\ i.x \in Sources /\ i.kind \in {"page", "more", "ready"}
      /\ \A k \in todo : k \in [kind : {"page", "more", "ready"}, s : Ids, x : Sources]
  BY Parts DEF PInv, CallTyped
<1>3. rec \in RecType /\ rec[i.s][i.x] \in SourceState
  BY <1>2, RecTyped DEF PInv
<1>4. AskedFor /\ IInv
  BY DEF PInv
<1>5. ASSUME \A s \in Ids, x \in Sources : (s = i.s /\ x = i.x) \/ rec'[s][x] = rec[s][x]
      PROVE  AskedFor'
  <2>1. ASSUME NEW j \in todo', NEW k \in todo', j.kind = "page"
        PROVE  k.kind = "page" /\ rec'[j.s][j.x].state # "exhausted" /\ ~rec'[j.s][j.x].jobRunning
    <3>1. j \in todo /\ k \in todo /\ j # i
      BY <1>1
    <3>2. k.kind = "page" /\ i.kind = "page" /\ rec[j.s][j.x].state # "exhausted" /\ ~rec[j.s][j.x].jobRunning
      BY <1>4, <2>1, <3>1 DEF AskedFor
    <3>3. j.s # i.s \/ j.x # i.x
      BY <1>2, <2>1, <3>1, <3>2
    <3> QED
      BY <1>2, <1>5, <3>1, <3>2, <3>3
  <2> QED
    BY <2>1 DEF AskedFor
<1>6. CASE Schedules(i)
  <2> DEFINE q == Asked(rec[i.s][i.x])
             e == [s |-> i.s, x |-> i.x, n |-> q.jobToken]
  <2>1. /\ rec' = [rec EXCEPT ![i.s][i.x] = q] /\ Enqueue(e)
    BY <1>1, <1>6
  <2>2. /\ q.jobToken = rec[i.s][i.x].jobToken + 1 /\ q.jobRunning /\ q.state = "queued"
        /\ q.cursor = rec[i.s][i.x].cursor /\ q.buffer = rec[i.s][i.x].buffer
        /\ q.records = rec[i.s][i.x].records
    BY <1>3 DEF Asked, SourceState
  <2>3. e.s = i.s /\ e.x = i.x /\ e.n = q.jobToken
    OBVIOUS
  <2> HIDE DEF q, e
  <2>4. \A s \in Ids, x \in Sources : rec'[s][x] = IF s = i.s /\ x = i.x THEN q ELSE rec[s][x]
    BY <1>2, <1>3, <2>1 DEF RecType
  <2>5. /\ Wanted(i.s, i.x) /\ ~rec[i.s][i.x].jobRunning /\ rec[i.s][i.x].state # "exhausted"
    BY <1>2, <1>4, <1>6 DEF Schedules, Dead, Wanted, HasMore, AskedFor
  <2>6. /\ Coming' = Coming \cup {e} /\ Past' = Past /\ UNCHANGED <<active, settled>>
    BY <1>1, <2>1 DEF Enqueue, Coming, Past, Told
  <2>7. InStep(i.s, i.x)'
    <3>1. \A c \in Coming : ~At(c, i.s, i.x)
      BY <1>2, <2>5 DEF PInv, InStep
    <3>2. rec'[i.s][i.x] = q
      BY <1>2, <2>4
    <3>3. \A c \in Coming' : At(c, i.s, i.x) =>
             rec'[i.s][i.x].jobRunning /\ rec'[i.s][i.x].state = "queued" /\ c.n = rec'[i.s][i.x].jobToken
      BY <2>2, <2>3, <2>6, <3>1, <3>2
    <3> QED
      BY <1>1, <1>2, <2>2, <2>5, <2>6, <3>2, <3>3, TokenMoves
  <2>8. Grows(i.s, i.x)
    BY <1>2, <2>2, <2>4, <2>5 DEF Grows
  <2>9. ASSUME NEW s \in Ids, NEW x \in Sources, s # i.s \/ x # i.x
        PROVE  InStep(s, x)' /\ Grows(s, x)
    <3>1. Left(s, x)
      BY <1>1, <2>4, <2>9, SteadyHere DEF Left, Wanted, Live
    <3>2. \A c \in Coming' : At(c, s, x) => c \in Coming /\ Wanted(s, x)'
      <4>1. \A c \in Coming : At(c, s, x) => Wanted(s, x)
        BY DEF PInv, InStep, Dead, At, Wanted
      <4> QED
        BY <1>1, <2>3, <2>6, <2>9, <4>1 DEF At, Wanted, Live
    <3>3. Calm(s, x)
      <4>1. \A p \in Past' : At(p, s, x) => p \in Past
        BY <2>6
      <4> QED
        BY <1>1, <2>6, <3>2, <4>1 DEF Calm
    <3> QED
      BY <1>4, <3>1, <3>3, Weathered DEF PInv
  <2>10. AskedFor'
    BY <1>5, <2>4
  <2> QED
    BY <2>7, <2>8, <2>9, <2>10 DEF Moved
<1>7. CASE ~Schedules(i)
  <2>1. UNCHANGED <<active, fetching, ended, settled, phase, sources, limited>> /\ queued' = queued
        /\ starting = {} /\ starting' = {}
    BY <1>1, <1>7 DEF schedulerVars, queues
  <2>2. ASSUME NEW s \in Ids, NEW x \in Sources
        PROVE  /\ (s = i.s /\ x = i.x) \/ rec'[s][x] = rec[s][x]
               /\ rec'[s][x] = rec[s][x] \/ (Wakes(i) /\ rec[s][x].state = "indexing"
                                            /\ rec'[s][x] = [rec[s][x] EXCEPT !.state = "queued"])
    BY <1>1, <1>2, <1>3, <1>7 DEF RecType, Wakes
  <2>3. ASSUME NEW s \in Ids, NEW x \in Sources
        PROVE  Left(s, x)
    <3>1. rec[s][x] \in SourceState
      BY RecTyped DEF PInv
    <3>2. Steady(rec[s][x], rec'[s][x])
      BY <2>2, <3>1, SteadyHere DEF Steady, SourceState
    <3>3. phase[s] = "new" => rec'[s][x] = rec[s][x]
      <4>1. phase[s] = "new" => rec[s][x].state = "queued"
        <5>1. phase[s] = "new" => rec[s][x] = NewSource(x)
          BY DEF PInv, InStep
        <5> QED
          BY <5>1 DEF NewSource
      <4> QED
        BY <2>2, <4>1
    <3> QED
      BY <2>1, <3>2, <3>3 DEF Left, Wanted, Live
  <2> QED
    BY <1>5, <2>1, <2>2, <2>3, CallMoves
<1> QED
  BY <1>6, <1>7

LEMMA PumpMoves ==
    ASSUME PInv, IInv', Pump
    PROVE  Moved
<1>1. PICK e \in Runnable : Admit(e) /\ starting' = {e}
  BY DEF Pump
<1>2. starting = {} /\ UNCHANGED <<phase, sources, rec, limited, todo, fetching, ended>>
  BY DEF Pump, sessionVars
<1>3. e \in queued /\ queued' = queued \ {e} /\ active' = active \cup {e} /\ settled' = settled /\ pumping
  BY <1>1 DEF Runnable, Admit
<1>4. e \notin active
  BY <1>3, Parts DEF PInv, SchedulerTypeOK
<1>5. Coming' = Coming /\ Past' = Past /\ active' \ starting' = active \ starting
  BY <1>1, <1>2, <1>3, <1>4 DEF Coming, Past, Told
<1>6. \A s \in Ids, x \in Sources : Calm(s, x)
  <2>1. ASSUME NEW s \in Ids, NEW x \in Sources, NEW c \in Coming, At(c, s, x)
        PROVE  Wanted(s, x)'
    BY <1>2, <2>1 DEF PInv, InStep, Dead, At, Wanted, Live
  <2> QED
    BY <1>2, <1>3, <1>5, <2>1 DEF Calm
<1>7. \A s \in Ids, x \in Sources : Left(s, x)
  BY <1>2, LeftAlone
<1>8. AskedFor'
  BY <1>2, <1>3 DEF PInv, AskedFor
<1> QED
  BY <1>6, <1>7, <1>8, Weathered DEF PInv, Moved

\* The one job of a source goes a step on.
LEMMA JobMoves ==
    ASSUME PInv, NEW e \in Entries, ~Dead(e), UNCHANGED <<phase, sources>>, active' = active,
           rec'[e.s][e.x].jobToken = rec[e.s][e.x].jobToken,
           e \notin Coming', Coming' \subseteq Coming, Past' \subseteq Past \cup {e},
           \A f \in fetching' : f \in fetching \/ f.e = e,
           \A f \in fetching' : f.e = e =>
               /\ rec'[e.s][e.x].state = "loading" /\ rec'[e.s][e.x].cursor = f.at
               /\ rec'[e.s][e.x].buffer = {}
               /\ \A g \in fetching' : g.e = e => f = g,
           rec'[e.s][e.x].state = "exhausted" =>
               /\ \A d \in ended' \cup settled' : d.e = e => d.result = "ok"
               /\ e \in active => \E d \in ended' : d.e = e,
           e.s \notin limited' => InOrder(e.x, rec'[e.s][e.x])
    PROVE  InStep(e.s, e.x)'
<1> DEFINE s == e.s
           x == e.x
<1>1. s \in Ids /\ x \in Sources /\ phase[s] = "live" /\ Wanted(s, x) /\ Wanted(s, x)'
      /\ e.n = rec[s][x].jobToken
  BY DEF Entries, Dead, Wanted, Live
<1>2. InStep(s, x)
  BY <1>1 DEF PInv
<1>3. ASSUME NEW c \in Coming' \cup Past' \cup active, At(c, s, x), ~Dead(c)'
      PROVE  c = e
  <2>1. c \in Entries
    BY JobsTyped DEF PInv
  <2>2. ~Dead(c)
    BY <1>1, <1>3 DEF Dead, At, Wanted, Live
  <2> QED
    BY <1>3, <2>1, <2>2, OneAlive DEF At
<1>4. \A c \in Coming' : ~At(c, s, x)
  <2>1. ASSUME NEW c \in Coming', At(c, s, x)
        PROVE  FALSE
    <3>1. c \in Entries /\ ~Dead(c)
      BY <1>2, <2>1, JobsTyped DEF PInv, InStep
    <3> QED
      BY <2>1, <3>1, OneAlive DEF At
  <2> QED
    BY <2>1
<1>5. \A p \in Past' : At(p, s, x) => p.n <= rec'[s][x].jobToken
  <2>1. e.n <= rec[s][x].jobToken
    BY <1>1 DEF Entries
  <2>2. \A p \in Past : At(p, s, x) => p.n <= rec[s][x].jobToken
    BY <1>1, <1>2 DEF InStep
  <2> QED
    BY <2>1, <2>2
<1>6. \A f \in fetching' : f.e \in Past' /\ (At(f.e, s, x) /\ ~Dead(f.e)' => f.e = e)
  BY <1>3 DEF Past
<1>7. \A d \in ended' \cup settled' : d.e \in Past' /\ (At(d.e, s, x) /\ ~Dead(d.e)' => d.e = e)
  BY <1>3 DEF Past, Told
<1>8. \A c \in active' \ starting' : At(c, s, x) /\ ~Dead(c)' => c = e /\ e \in active
  BY <1>3
<1>9. \A f, g \in fetching' : At(f.e, s, x) /\ f.e = g.e => f = g
  BY <1>2 DEF InStep
<1> HIDE DEF s, x
<1>10. /\ \A f \in fetching' : f.e = e =>
               rec'[s][x].state = "loading" /\ rec'[s][x].cursor = f.at /\ rec'[s][x].buffer = {}
       /\ rec'[s][x].state = "exhausted" =>
               /\ \A d \in ended' \cup settled' : d.e = e => d.result = "ok"
               /\ e \in active => \E d \in ended' : d.e = e
       /\ s \notin limited' => InOrder(x, rec'[s][x])
  BY DEF s, x
<1>11. InStep(s, x)'
  BY <1>1, <1>4, <1>5, <1>6, <1>7, <1>8, <1>9, <1>10 DEF InStep
<1> QED
  BY <1>11 DEF s, x

\* The run of one job begins, or one job ends: the others do not hear of it.
LEMMA CalmRun ==
    ASSUME PInv, IInv', NEW e \in active, starting' = {}, starting \in {{}, {e}}, UNCHANGED <<active, settled>>,
           queued' \subseteq queued, ended \subseteq ended', \A d \in ended' : d \in ended \/ d.e = e,
           NEW s \in Ids, NEW x \in Sources, ~At(e, s, x) \/ Dead(e)',
           \A f \in fetching' : f \in fetching \/ (f.e = e /\ ~At(e, s, x))
    PROVE  Calm(s, x)
<1>1. Coming' = queued' /\ queued' \subseteq Coming
  BY DEF Coming
<1>2. \A c \in queued' : At(c, s, x) => Wanted(s, x)'
  <2>1. \A c \in queued' : ~Dead(c)'
    BY DEF IInv, Linked
  <2> QED
    BY <2>1 DEF Dead, At, Wanted
<1>3. e \notin queued'
  BY Parts DEF PInv, SchedulerTypeOK
<1>4. \A p \in Past' : p \in Past \/ p = e
  BY DEF Past, Told
<1>5. \A d \in ended' \cup settled' : At(d.e, s, x) /\ ~Dead(d.e)' => d \in ended \cup settled
  OBVIOUS
<1>6. \A c \in active' \ starting' : At(c, s, x) /\ ~Dead(c)' => c \in active \ starting
  OBVIOUS
<1>7. \A f \in fetching' : At(f.e, s, x) => f \in fetching
  OBVIOUS
<1> QED
  BY <1>1, <1>2, <1>3, <1>4, <1>5, <1>6, <1>7 DEF Calm

\* q has what was in r, and the rows of the batch too unless they hit the limit.
Takes(s, x, r, batch, q) ==
    /\ q.jobToken = r.jobToken /\ q.cursor = r.cursor /\ q.buffer = r.buffer
    /\ r.records \subseteq q.records
    /\ ~LimitHit(s, x, batch) => q.records = r.records \cup batch

LEMMA AppliedTakes ==
    ASSUME NEW s, NEW x, NEW r \in SourceState, NEW batch
    PROVE  Takes(s, x, r, batch, Applied(s, x, r, batch))
<1> DEFINE hit == LimitHit(s, x, batch)
           misses == IF batch \cap Fresh[x] # {} /\ ~hit THEN 0 ELSE r.noProgress + 1
           stalls == misses >= StallAfter
           blocked == IF stalls THEN "blocked" ELSE r.continuation
           taken == IF hit THEN r.records ELSE r.records \cup batch
           state == IF stalls THEN "stalled"
                    ELSE IF hit \/ s \in limited \/ r.continuation = "unsupported" THEN "ready"
                    ELSE IF r.exhausted /\ r.buffer = {} THEN "exhausted"
                    ELSE "ready"
           q == [r EXCEPT !.noProgress = misses, !.records = taken, !.continuation = blocked, !.state = state]
<1>1. Applied(s, x, r, batch) = q
  BY DEF Applied
<1> HIDE DEF misses, stalls, blocked, taken, state
<1>2. q.jobToken = r.jobToken /\ q.cursor = r.cursor /\ q.buffer = r.buffer /\ q.records = taken
  BY DEF SourceState
<1> HIDE DEF q
<1>3. Takes(s, x, r, batch, q)
  BY <1>2 DEF Takes, taken
<1> QED
  BY <1>1, <1>3

\* A job that begins to run is the one its source waits for.
LEMMA Begins ==
    ASSUME PInv, NEW e \in starting
    PROVE  /\ e \in active /\ e \in Coming /\ e \notin Past /\ e \in Entries
           /\ e.s \in Ids /\ e.x \in Sources /\ ~Dead(e) /\ phase[e.s] = "live"
           /\ rec \in RecType /\ rec[e.s][e.x] \in SourceState
           /\ rec[e.s][e.x].jobRunning /\ rec[e.s][e.x].state = "queued"
           /\ \A d \in ended \cup settled : d.e # e
           /\ \A f \in fetching : f.e # e
<1>1. e \in active /\ e \in Coming /\ e \in Entries
  BY Parts, JobsTyped DEF PInv, CallTyped, Coming
<1>2. e.s \in Ids /\ e.x \in Sources /\ InStep(e.s, e.x)
  BY <1>1, ClassOfEntry DEF PInv
<1>3. ~Dead(e) /\ rec[e.s][e.x].jobRunning /\ rec[e.s][e.x].state = "queued" /\ e \notin Past
  BY <1>1, <1>2 DEF InStep, At
<1> QED
  BY <1>1, <1>2, <1>3, JobsTyped DEF PInv, Dead, Live, Past, Told

\* No page that is still to be scheduled is one of a source whose job begins to run.
LEMMA RunAsksNothing ==
    ASSUME PInv, NEW e \in starting, todo' = todo,
           \A s \in Ids, x \in Sources : At(e, s, x) \/ rec'[s][x] \in {rec[s][x], NewSource(x)}
    PROVE  AskedFor'
<1>1. ASSUME NEW i \in todo, NEW k \in todo, i.kind = "page"
      PROVE  k.kind = "page" /\ rec'[i.s][i.x].state # "exhausted" /\ ~rec'[i.s][i.x].jobRunning
  <2>1. k.kind = "page" /\ rec[i.s][i.x].state # "exhausted" /\ ~rec[i.s][i.x].jobRunning
    BY <1>1 DEF PInv, AskedFor
  <2>2. i.s \in Ids /\ i.x \in Sources
    BY Parts DEF PInv, CallTyped
  <2>3. ~At(e, i.s, i.x)
    BY <2>1, Begins DEF At
  <2>4. NewSource(i.x).state # "exhausted" /\ ~NewSource(i.x).jobRunning
    BY DEF NewSource
  <2> QED
    BY <2>1, <2>2, <2>3, <2>4
<1> QED
  BY <1>1 DEF AskedFor

LEMMA LivingMoves ==
    ASSUME PInv, IInv', NEW e \in starting, starting = {e}, starting' = {},
           UNCHANGED <<schedulerVars, phase, sources, todo>>, limited \subseteq limited',
           NEW q, rec' = [rec EXCEPT ![e.s][e.x] = q], q.jobToken = rec[e.s][e.x].jobToken,
           rec[e.s][e.x].records \subseteq q.records,
           ended \subseteq ended', \A d \in ended' : d \in ended \/ (d.e = e /\ d.result = "ok"),
           \A f \in fetching' : \/ f \in fetching
                                \/ /\ f.e = e /\ q.state = "loading" /\ q.cursor = f.at /\ q.buffer = {}
                                   /\ \A g \in fetching' : g.e = e => f = g,
           q.state = "exhausted" => \E d \in ended' : d.e = e,
           e.s \notin limited' => InOrder(e.x, q)
    PROVE  Moved
<1>1. /\ e \in active /\ e \in Coming /\ e \notin Past /\ e \in Entries
      /\ e.s \in Ids /\ e.x \in Sources /\ ~Dead(e)
      /\ rec \in RecType /\ rec[e.s][e.x].state = "queued"
      /\ \A d \in ended \cup settled : d.e # e
      /\ \A f \in fetching : f.e # e
  BY Begins
<1>2. \A s \in Ids, x \in Sources : rec'[s][x] = IF s = e.s /\ x = e.x THEN q ELSE rec[s][x]
  BY <1>1 DEF RecType
<1>3. UNCHANGED <<queued, active, settled>>
  BY DEF schedulerVars, queues
<1>4. rec'[e.s][e.x] = q
  BY <1>1, <1>2
<1>5. InStep(e.s, e.x)'
  <2>1. e \notin Coming' /\ Coming' \subseteq Coming /\ Past' \subseteq Past \cup {e}
    <3>1. e \notin queued
      BY <1>1, Parts DEF PInv, SchedulerTypeOK
    <3> QED
      BY <1>3, <3>1 DEF Coming, Past, Told
  <2>2. \A f \in fetching' : f \in fetching \/ f.e = e
    OBVIOUS
  <2>3. \A f \in fetching' : f.e = e =>
           /\ rec'[e.s][e.x].state = "loading" /\ rec'[e.s][e.x].cursor = f.at
           /\ rec'[e.s][e.x].buffer = {}
           /\ \A g \in fetching' : g.e = e => f = g
    BY <1>1, <1>4
  <2>4. rec'[e.s][e.x].state = "exhausted" =>
           /\ \A d \in ended' \cup settled' : d.e = e => d.result = "ok"
           /\ e \in active => \E d \in ended' : d.e = e
    BY <1>1, <1>3, <1>4
  <2> HIDE DEF Coming, Past
  <2> QED
    BY <1>1, <1>3, <1>4, <2>1, <2>2, <2>3, <2>4, JobMoves
<1>6. Grows(e.s, e.x)
  BY <1>1, <1>4 DEF Grows
<1>7. ASSUME NEW s \in Ids, NEW x \in Sources, ~At(e, s, x)
      PROVE  InStep(s, x)' /\ Grows(s, x)
  <2>1. Left(s, x)
    BY <1>2, <1>7, SteadyHere DEF Left, Wanted, Live, At
  <2>2. /\ \A f \in fetching' : f \in fetching \/ (f.e = e /\ ~At(e, s, x))
        /\ \A d \in ended' : d \in ended \/ d.e = e
    BY <1>7
  <2>3. Calm(s, x)
    BY <1>1, <1>3, <1>7, <2>2, CalmRun
  <2> QED
    BY <2>1, <2>3, Weathered DEF PInv
<1>8. AskedFor'
  BY <1>2, RunAsksNothing DEF At
<1> QED
  BY <1>5, <1>6, <1>7, <1>8 DEF Moved, At

\* A run that finds its session or its source without rights ends them.
LEMMA RunEnds ==
    ASSUME PInv, IInv', NEW e \in starting, starting = {e}, starting' = {}, UNCHANGED <<fetching, todo>>,
           Ends(e, "cancelled"),
           Destroy({e.s}) \/ Remove([s \in Ids |-> IF s = e.s THEN {e.x} ELSE {}], rec)
    PROVE  Moved
<1> DEFINE R == [s \in Ids |-> IF s = e.s THEN {e.x} ELSE {}]
<1>1. e \in active /\ e.s \in Ids /\ e.x \in Sources /\ phase[e.s] = "live"
  BY Begins
<1>2. ended \subseteq ended' /\ \A d \in ended' : d \in ended \/ d.e = e
  BY DEF Ends
<1>3. /\ UNCHANGED <<active, settled>> /\ queued' \subseteq queued /\ Dead(e)'
      /\ \A s \in Ids, x \in Sources : Left(s, x) /\ rec'[s][x] \in {rec[s][x], NewSource(x)}
  <2>1. CASE Destroy({e.s})
    <3>1. Turnover({e.s}, {})
      BY <2>1 DEF Destroy
    <3>2. phase'[e.s] = "gone"
      BY <1>1, <3>1 DEF Turnover
    <3>3. /\ UNCHANGED <<active, settled>> /\ queued' \subseteq queued
          /\ rec' = [s \in Ids |-> IF s \in {e.s} THEN [x \in Sources |-> NewSource(x)] ELSE rec[s]]
      <4>1. Cancel({c \in queued \cup active : c.s \in {e.s}})
        BY <3>1 DEF Turnover
      <4> QED
        BY <3>1, <4>1, CancelCalls DEF Turnover
    <3>4. Dead(e)'
      BY <3>2 DEF Dead, Live
    <3>5. \A s \in Ids, x \in Sources : rec'[s][x] \in {rec[s][x], NewSource(x)}
      BY <3>3
    <3>6. \A s \in Ids, x \in Sources : Left(s, x)
      <4>1. {e.s} \in SUBSET Ids /\ {} \in SUBSET Ids /\ \A s \in {} : phase[s] = "new"
        BY <1>1
      <4> QED
        BY <3>1, <4>1, TurnoverLeaves
    <3> QED
      BY <3>3, <3>4, <3>5, <3>6
  <2>2. CASE Remove(R, rec)
    <3>1. Without(R, rec)
      BY <2>2 DEF Remove
    <3>2. e.x \notin sources'[e.s]
      BY <1>1, <3>1 DEF Without
    <3>3. UNCHANGED <<active, settled>> /\ queued' \subseteq queued
      BY <3>1, CancelCalls DEF Without
    <3>4. \A s \in Ids, x \in Sources : rec'[s][x] \in {rec[s][x], NewSource(x)}
      BY <3>1 DEF Without
    <3> HIDE DEF R
    <3>5. \A s \in Ids, x \in Sources : Left(s, x)
      BY <3>1, SteadyHere, WithoutLeaves
    <3> QED
      BY <3>2, <3>3, <3>4, <3>5 DEF Dead
  <2> QED
    BY <2>1, <2>2
<1>4. \A s \in Ids, x \in Sources : Calm(s, x)
  BY <1>1, <1>2, <1>3, CalmRun
<1>5. AskedFor'
  BY <1>3, RunAsksNothing
<1> QED
  BY <1>3, <1>4, <1>5, Weathered DEF PInv, Moved

LEMMA RunMoves ==
    ASSUME PInv, IInv', NEW e \in starting, Run(e)
    PROVE  Moved
<1> DEFINE r == rec[e.s][e.x]
           R == [s \in Ids |-> IF s = e.s THEN {e.x} ELSE {}]
<1>1. /\ e \in active /\ ~Dead(e) /\ e.s \in Ids /\ e.x \in Sources
      /\ rec \in RecType /\ r \in SourceState /\ r.state = "queued"
      /\ \A f \in fetching : f.e # e
  BY Begins
<1>2. starting = {e} /\ starting' = {} /\ todo' = todo
  BY DEF Run
<1>3. /\ e.s \notin limited => InOrder(e.x, r)
      /\ r.cursor \in Nat
  BY <1>1 DEF PInv, InStep, SourceState
<1>4. CASE (Destroy({e.s}) \/ Remove(R, rec)) /\ Ends(e, "cancelled") /\ UNCHANGED fetching
  BY <1>2, <1>4, RunEnds
<1>5. CASE /\ e.s \in limited /\ rec' = [rec EXCEPT ![e.s][e.x].state = "ready"]
           /\ Ends(e, "ok") /\ UNCHANGED <<limited, fetching, schedulerVars, phase, sources>>
  <2> DEFINE q == [r EXCEPT !.state = "ready"]
  <2>1. rec' = [rec EXCEPT ![e.s][e.x] = q]
    <3>1. rec' = [rec EXCEPT ![e.s] = [rec[e.s] EXCEPT ![e.x] = [rec[e.s][e.x] EXCEPT !.state = "ready"]]]
      BY <1>5, Zenon
    <3> QED
      BY <3>1, Zenon
  <2>2. q.jobToken = r.jobToken /\ q.records = r.records /\ q.state = "ready"
    BY <1>1 DEF SourceState
  <2>3. ended \subseteq ended' /\ \A d \in ended' : d \in ended \/ (d.e = e /\ d.result = "ok")
    BY <1>5 DEF Ends
  <2>4. UNCHANGED <<schedulerVars, phase, sources, todo, limited, fetching>> /\ e.s \in limited
    BY <1>2, <1>5
  <2> HIDE DEF q
  <2> QED
    BY <1>2, <2>1, <2>2, <2>3, <2>4, LivingMoves
<1>6. CASE /\ e.s \notin limited /\ \E b \in r.buffer : Apply(e.s, e.x, [r EXCEPT !.buffer = @ \ {b}], {b})
           /\ Ends(e, "ok") /\ UNCHANGED <<fetching, schedulerVars, phase, sources>>
  <2>1. PICK b \in r.buffer : Apply(e.s, e.x, [r EXCEPT !.buffer = @ \ {b}], {b})
    BY <1>6
  <2> DEFINE p == [r EXCEPT !.buffer = @ \ {b}]
             q == Applied(e.s, e.x, p, {b})
  <2>2. /\ p \in SourceState /\ p.jobToken = r.jobToken /\ p.cursor = r.cursor
        /\ p.buffer = r.buffer \ {b} /\ p.records = r.records /\ b \in Nat
    BY <1>1 DEF SourceState
  <2>3. /\ rec' = [rec EXCEPT ![e.s][e.x] = q]
        /\ limited' = IF LimitHit(e.s, e.x, {b}) THEN limited \cup {e.s} ELSE limited
    BY <2>1, Zenon DEF Apply
  <2> HIDE DEF p
  <2>4. /\ q.jobToken = r.jobToken /\ q.cursor = r.cursor /\ q.buffer = r.buffer \ {b}
        /\ r.records \subseteq q.records
        /\ ~LimitHit(e.s, e.x, {b}) => q.records = r.records \cup {b}
    <3>1. Takes(e.s, e.x, p, {b}, q)
      BY <2>2, AppliedTakes
    <3> HIDE DEF q
    <3> QED
      BY <2>2, <3>1 DEF Takes
  <2> HIDE DEF q
  <2>5. /\ ended \subseteq ended'
        /\ \A d \in ended' : d \in ended \/ (d.e = e /\ d.result = "ok")
        /\ \E d \in ended' : d.e = e
    <3> DEFINE d0 == [e |-> e, result |-> "ok"]
    <3>1. ended' = ended \cup {d0} /\ d0.e = e /\ d0.result = "ok"
      BY <1>1, <1>6 DEF Ends
    <3> HIDE DEF d0
    <3> QED
      BY <3>1
  <2>6. e.s \notin limited' => InOrder(e.x, q)
    <3>1. SUFFICES ASSUME ~LimitHit(e.s, e.x, {b})
                   PROVE  InOrder(e.x, q)
      BY <1>1, <2>3
    <3>2. q.records \cup q.buffer = r.records \cup r.buffer
      BY <2>4, <3>1
    <3>3. InOrder(e.x, r)
      BY <1>3, <1>6
    <3> QED
      BY <2>4, <3>2, <3>3 DEF InOrder
  <2>7. r.records \subseteq q.records /\ limited \subseteq limited' /\ todo' = todo
        /\ UNCHANGED <<schedulerVars, phase, sources, todo, fetching>>
    BY <1>2, <1>6, <2>3, <2>4
  <2> QED
    BY <1>2, <2>3, <2>4, <2>5, <2>6, <2>7, LivingMoves
<1>7. CASE /\ e.s \notin limited /\ r.buffer = {} /\ rec' = [rec EXCEPT ![e.s][e.x].state = "loading"]
           /\ fetching' = fetching \cup {[e |-> e, at |-> r.cursor, cold |-> Class[e.x] = Local /\ ~ready]}
           /\ UNCHANGED <<limited, ended, schedulerVars, phase, sources>>
  <2> DEFINE q == [r EXCEPT !.state = "loading"]
             n == [e |-> e, at |-> r.cursor, cold |-> Class[e.x] = Local /\ ~ready]
  <2>1. rec' = [rec EXCEPT ![e.s][e.x] = q]
    <3>1. rec' = [rec EXCEPT ![e.s] = [rec[e.s] EXCEPT ![e.x] = [rec[e.s][e.x] EXCEPT !.state = "loading"]]]
      BY <1>7, Zenon
    <3> QED
      BY <3>1, Zenon
  <2>2. q.jobToken = r.jobToken /\ q.records = r.records /\ q.state = "loading" /\ q.cursor = r.cursor
        /\ q.buffer = r.buffer
    BY <1>1 DEF SourceState
  <2>3. fetching' = fetching \cup {n} /\ n.e = e /\ n.at = r.cursor
    BY <1>7
  <2> HIDE DEF q, n
  <2>4. \A f \in fetching' : \/ f \in fetching
                             \/ /\ f.e = e /\ q.state = "loading" /\ q.cursor = f.at /\ q.buffer = {}
                                /\ \A g \in fetching' : g.e = e => f = g
    BY <1>1, <1>7, <2>2, <2>3
  <2>5. InOrder(e.x, q)
    <3>1. InOrder(e.x, r)
      BY <1>3, <1>7
    <3> QED
      BY <2>2, <3>1 DEF InOrder
  <2>6. UNCHANGED <<schedulerVars, phase, sources, todo, limited, ended>>
    BY <1>2, <1>7
  <2> QED
    BY <1>2, <2>1, <2>2, <2>4, <2>5, <2>6, LivingMoves
<1> QED
  BY <1>1, <1>4, <1>5, <1>6, <1>7 DEF Run

\* A page asked for is of the one job of its source, if that still lives.
LEMMA Asks ==
    ASSUME PInv, NEW f \in fetching
    PROVE  /\ f.e \in Entries /\ f.e.s \in Ids /\ f.e.x \in Sources /\ f.e \in Past /\ f.e \notin Coming
           /\ f.at \in Nat /\ rec \in RecType /\ rec[f.e.s][f.e.x] \in SourceState
           /\ ~Dead(f.e) => /\ rec[f.e.s][f.e.x].state = "loading" /\ rec[f.e.s][f.e.x].cursor = f.at
                            /\ rec[f.e.s][f.e.x].buffer = {}
           /\ \A g \in fetching : g.e = f.e => g = f
<1>1. f.e \in Entries /\ f.e \in Past /\ f.at \in Nat
  BY Parts DEF PInv, CallTyped, Past
<1>2. f.e.s \in Ids /\ f.e.x \in Sources /\ InStep(f.e.s, f.e.x)
  BY <1>1, ClassOfEntry DEF PInv
<1>3. f.e \notin Coming
  BY <1>1, <1>2 DEF InStep, At
<1>4. ~Dead(f.e) => /\ rec[f.e.s][f.e.x].state = "loading" /\ rec[f.e.s][f.e.x].cursor = f.at
                    /\ rec[f.e.s][f.e.x].buffer = {}
  BY <1>2 DEF InStep, At
<1>5. \A g \in fetching : g.e = f.e => g = f
  BY <1>2 DEF InStep, At
<1> QED
  BY <1>1, <1>2, <1>3, <1>4, <1>5, JobsTyped DEF PInv

\* A page comes back, or fails.
LEMMA CalmAnswer ==
    ASSUME PInv, IInv', Returned, UNCHANGED <<queued, active, settled, starting>>, NEW f \in fetching,
           fetching' \subseteq fetching, ended \subseteq ended',
           \A d \in ended' : d \in ended \/ (d.e = f.e /\ (\/ d.result = "ok" \/ Dead(f.e)'
                                                         \/ rec[f.e.s][f.e.x].state # "exhausted")),
           NEW s \in Ids, NEW x \in Sources
    PROVE  Calm(s, x)
<1>1. Coming' = queued' /\ Coming = queued
  BY DEF Coming, Returned
<1>2. \A c \in queued' : At(c, s, x) => Wanted(s, x)'
  <2>1. \A c \in queued' : ~Dead(c)'
    BY DEF IInv, Linked
  <2> QED
    BY <2>1 DEF Dead, At, Wanted
<1>3. \A p \in Past' : p \in Past
  BY DEF Past, Told
<1>4. \A d \in ended' \cup settled' : At(d.e, s, x) /\ ~Dead(d.e)' =>
         d \in ended \cup settled \/ d.result = "ok" \/ rec[s][x].state # "exhausted"
  BY DEF At
<1> QED
  BY <1>1, <1>2, <1>3, <1>4 DEF Calm

LEMMA FetchMoves ==
    ASSUME PInv, IInv', NEW f \in fetching, ~Dead(f.e), Returned, Ends(f.e, "ok"), fetching' = fetching \ {f},
           UNCHANGED <<schedulerVars, phase, sources, todo, starting>>, limited \subseteq limited',
           NEW q, rec' = [rec EXCEPT ![f.e.s][f.e.x] = q], q.jobToken = rec[f.e.s][f.e.x].jobToken,
           rec[f.e.s][f.e.x].records \subseteq q.records,
           q.state = "exhausted" => ended = {} /\ settled = {},
           f.e.s \notin limited' => InOrder(f.e.x, q)
    PROVE  Moved
<1> DEFINE e == f.e
<1>1. /\ e \in Entries /\ e.s \in Ids /\ e.x \in Sources /\ e \in Past /\ e \notin Coming
      /\ rec \in RecType /\ rec[e.s][e.x].state = "loading"
      /\ \A g \in fetching : g.e = e => g = f
  BY Asks
<1>2. \A s \in Ids, x \in Sources : rec'[s][x] = IF s = e.s /\ x = e.x THEN q ELSE rec[s][x]
  BY <1>1 DEF RecType
<1>3. UNCHANGED <<queued, active, settled>>
  BY DEF schedulerVars, queues
<1>4. rec'[e.s][e.x] = q
  BY <1>1, <1>2
<1>5. /\ ended \subseteq ended' /\ \A d \in ended' : d \in ended \/ (d.e = e /\ d.result = "ok")
      /\ e \in active => \E d \in ended' : d.e = e
  <2> DEFINE d0 == [e |-> e, result |-> "ok"]
  <2>1. /\ ended' = IF e \notin active THEN ended ELSE ended \cup {d0}
        /\ d0.e = e /\ d0.result = "ok"
    BY DEF Ends
  <2> HIDE DEF d0
  <2> QED
    BY <2>1
<1>6. ~Dead(e) /\ fetching' = fetching \ {f} /\ q.jobToken = rec[e.s][e.x].jobToken
      /\ rec[e.s][e.x].records \subseteq q.records /\ (e.s \notin limited' => InOrder(e.x, q))
      /\ (\A d \in ended : d.e = e => q.state # "exhausted")
  OBVIOUS
<1>7. Past' \subseteq Past \cup {e}
  BY <1>1, <1>3, <1>5 DEF Past, Told
<1> HIDE DEF e
<1>8. InStep(e.s, e.x)'
  <2>1. e \notin Coming' /\ Coming' \subseteq Coming
    BY <1>1, <1>3 DEF Coming
  <2>2. \A g \in fetching' : g \in fetching /\ g.e # e
    BY <1>1, <1>6
  <2>3. rec'[e.s][e.x].state = "exhausted" =>
           /\ \A d \in ended' \cup settled' : d.e = e => d.result = "ok"
           /\ e \in active => \E d \in ended' : d.e = e
    BY <1>3, <1>4, <1>5
  <2> QED
    BY <1>1, <1>3, <1>4, <1>6, <1>7, <2>1, <2>2, <2>3, JobMoves
<1>9. Grows(e.s, e.x)
  BY <1>1, <1>4, <1>6 DEF Grows
<1>10. ASSUME NEW s \in Ids, NEW x \in Sources, ~At(e, s, x)
       PROVE  InStep(s, x)' /\ Grows(s, x)
  <2>1. Left(s, x)
    BY <1>2, <1>10, SteadyHere DEF Left, Wanted, Live, At
  <2>2. \A d \in ended' : d \in ended \/ (d.e = f.e /\ d.result = "ok")
    BY <1>5 DEF e
  <2>3. Calm(s, x)
    BY <1>3, <1>5, <2>2, CalmAnswer
  <2> QED
    BY <2>1, <2>3, Weathered DEF PInv
<1>11. AskedFor'
  BY NothingAsked DEF Returned
<1> QED
  BY <1>8, <1>9, <1>10, <1>11 DEF Moved, At

\* What a dead job brings changes nothing, and neither does a failure before it is told.
LEMMA DropMoves ==
    ASSUME PInv, IInv', NEW f \in fetching, Returned, fetching' = fetching \ {f},
           UNCHANGED <<schedulerVars, phase, sources, rec, limited, todo, starting>>,
           \E result \in Results : Ends(f.e, result)
    PROVE  Moved
<1>1. ended \subseteq ended' /\ \A d \in ended' : d \in ended \/ d.e = f.e
  BY DEF Ends
<1>2. Dead(f.e)' \/ rec[f.e.s][f.e.x].state # "exhausted"
  BY Asks DEF Dead, Live
<1>3. \A s \in Ids, x \in Sources : Calm(s, x)
  BY <1>1, <1>2, CalmAnswer DEF schedulerVars, queues
<1>4. AskedFor'
  BY NothingAsked DEF Returned
<1> QED
  BY <1>3, <1>4, LeftAlone, Weathered DEF PInv, Moved

\* The rows a page brings follow those that were there.
LEMMA PageInOrder ==
    ASSUME NEW x \in Sources, NEW r, InOrder(x, r), r.buffer = {}, r.cursor \in Nat,
           NEW n \in 0 .. 2, r.cursor + n <= Rows[x],
           NEW q, q.cursor = NextCursor(x, r.cursor, n), q.buffer = {b \in {r.cursor + 2} : n > 1},
           q.records = r.records \cup {b \in {r.cursor + 1} : n > 0}
    PROVE  InOrder(x, q)
<1> DEFINE at == r.cursor
<1>1. Rows[x] \in Nat /\ at \in Nat /\ at + n \in Nat /\ at + n <= Rows[x]
  BY SessionAssumption
<1>2. q.records \cup q.buffer = r.records \cup ((at + 1) .. (at + n))
  BY <1>1
<1>3. r.records = 1 .. at \/ r.records = 1 .. Rows[x]
  BY OrderIs
<1>4. q.cursor = at + n \/ (q.cursor = 0 /\ at + n = Rows[x])
  BY DEF NextCursor, LastPage, Remote, Catalog
<1>5. q.cursor \in Nat
  BY <1>1, <1>4
<1>6. (1 .. at) \cup ((at + 1) .. (at + n)) = 1 .. (at + n)
  BY <1>1
<1>7. (1 .. Rows[x]) \cup ((at + 1) .. (at + n)) = 1 .. Rows[x]
  BY <1>1
<1>8. q.records \cup q.buffer = 1 .. (at + n) \/ q.records \cup q.buffer = 1 .. Rows[x]
  BY <1>2, <1>3, <1>6, <1>7
<1> HIDE DEF at
<1> QED
  BY <1>4, <1>5, <1>8, OrderIs

LEMMA FetchIsEarlyMoves ==
    ASSUME PInv, IInv', NEW f \in fetching, FetchIsEarly(f)
    PROVE  Moved
<1> DEFINE r == rec[f.e.s][f.e.x]
<1>1. /\ Returned /\ fetching' = fetching \ {f} /\ Ends(f.e, "ok") /\ "ok" \in Results
      /\ UNCHANGED <<schedulerVars, phase, sources, limited, todo, starting>>
  BY DEF FetchIsEarly, Results
<1>2. CASE Dropped(f)
  <2>1. UNCHANGED rec
    BY <1>2 DEF FetchIsEarly
  <2> QED
    BY <1>1, <2>1, DropMoves
<1>3. CASE ~Dropped(f)
  <2> DEFINE q == [r EXCEPT !.state = "indexing", !.subscribed = TRUE]
  <2>1. /\ f.e.s \in Ids /\ f.e.x \in Sources /\ rec \in RecType /\ r \in SourceState
    BY Asks
  <2>2. rec' = [rec EXCEPT ![f.e.s][f.e.x].state = "indexing", ![f.e.s][f.e.x].subscribed = TRUE]
    BY <1>3 DEF FetchIsEarly
  <2>3. rec' = [rec EXCEPT ![f.e.s][f.e.x] = q]
    <3>1. rec' = [rec EXCEPT ![f.e.s] = [rec[f.e.s] EXCEPT ![f.e.x] = [[r EXCEPT !.state = "indexing"] EXCEPT !.subscribed = TRUE]]]
      BY <2>1, <2>2 DEF RecType
    <3> QED
      BY <3>1
  <2>4. q.jobToken = r.jobToken /\ q.records = r.records /\ q.state = "indexing" /\ q.cursor = r.cursor
        /\ q.buffer = r.buffer
    BY <2>1 DEF SourceState
  <2> HIDE DEF q
  <2>5. f.e.s \notin limited => InOrder(f.e.x, q)
    <3>1. f.e.s \notin limited => InOrder(f.e.x, r)
      BY <2>1 DEF PInv, InStep
    <3> QED
      BY <2>4, <3>1 DEF InOrder
  <2>6. ~Dead(f.e)
    BY <1>3 DEF Dropped
  <2> QED
    BY <1>1, <2>3, <2>4, <2>5, <2>6, FetchMoves
<1> QED
  BY <1>2, <1>3

LEMMA FetchReturnsMoves ==
    ASSUME PInv, IInv', NEW f \in fetching, FetchReturns(f)
    PROVE  Moved
<1> DEFINE s == f.e.s
           x == f.e.x
           r == rec[s][x]
<1>1. /\ Returned /\ fetching' = fetching \ {f} /\ Ends(f.e, "ok") /\ "ok" \in Results
      /\ ended = {} /\ settled = {}
      /\ UNCHANGED <<schedulerVars, phase, sources, todo, starting>>
  BY DEF FetchReturns, Idle, Results
<1>2. CASE Dropped(f)
  <2>1. UNCHANGED <<rec, limited>>
    BY <1>2 DEF FetchReturns
  <2> QED
    BY <1>1, <2>1, DropMoves
<1>3. CASE ~Dropped(f)
  <2>1. PICK n \in 0 .. 2 :
           /\ f.at + n <= Rows[x]
           /\ Apply(s, x,
                    [r EXCEPT !.cursor = NextCursor(x, f.at, n), !.buffer = @ \cup {b \in {f.at + 2} : n > 1},
                              !.exhausted = LastPage(x, f.at, n)],
                    {b \in {f.at + 1} : n > 0})
    BY <1>3 DEF FetchReturns
  <2>2. /\ s \in Ids /\ x \in Sources /\ rec \in RecType /\ r \in SourceState /\ f.at \in Nat
        /\ r.cursor = f.at /\ r.buffer = {} /\ ~Dead(f.e) /\ s \notin limited
    BY <1>3, Asks DEF Dropped
  <2> DEFINE first == {b \in {f.at + 1} : n > 0}
             rest == {b \in {f.at + 2} : n > 1}
             c == NextCursor(x, f.at, n)
             l == LastPage(x, f.at, n)
             p == [r EXCEPT !.cursor = c, !.buffer = @ \cup rest, !.exhausted = l]
             q == Applied(s, x, p, first)
  <2>3. c \in Nat /\ first \in SUBSET Nat /\ rest \in SUBSET Nat
    BY <2>2 DEF NextCursor
  <2>4. l \in BOOLEAN
    BY DEF LastPage
  <2>5. Apply(s, x, p, first)
    BY <2>1
  <2>6. InOrder(x, r)
    BY <2>2 DEF PInv, InStep
  <2>7. /\ rec' = [rec EXCEPT ![s][x] = q]
        /\ limited' = IF LimitHit(s, x, first) THEN limited \cup {s} ELSE limited
    BY <2>5, Zenon DEF Apply
  <2>8. \A t : /\ t.cursor = c /\ t.buffer = rest /\ t.records = r.records \cup first => InOrder(x, t)
    <3> SUFFICES ASSUME NEW t, t.cursor = c, t.buffer = rest, t.records = r.records \cup first
                 PROVE  InOrder(x, t)
      OBVIOUS
    <3>1. /\ t.cursor = NextCursor(x, r.cursor, n) /\ t.buffer = {b \in {r.cursor + 2} : n > 1}
          /\ t.records = r.records \cup {b \in {r.cursor + 1} : n > 0}
      BY <2>2
    <3>2. x \in Sources /\ r.buffer = {} /\ r.cursor \in Nat /\ n \in 0 .. 2 /\ r.cursor + n <= Rows[x]
      BY <2>1, <2>2
    <3> HIDE DEF c, l, first, rest, p, q, r
    <3> QED
      BY <2>6, <3>1, <3>2, PageInOrder
  <2> HIDE DEF c, l, first, rest
  <2>9. /\ p \in SourceState /\ p.jobToken = r.jobToken /\ p.cursor = c /\ p.buffer = rest
        /\ p.records = r.records
    BY <2>2, <2>3, <2>4 DEF SourceState
  <2> HIDE DEF p
  <2>10. Takes(s, x, p, first, q)
    BY <2>9, AppliedTakes
  <2> HIDE DEF q
  <2>11. /\ q.jobToken = r.jobToken /\ q.cursor = c /\ q.buffer = rest /\ r.records \subseteq q.records
         /\ ~LimitHit(s, x, first) => q.records = r.records \cup first
    BY <2>9, <2>10 DEF Takes
  <2>14. r.records \subseteq q.records /\ limited \subseteq limited'
    BY <2>7, <2>11
  <2>15. s \notin limited' => InOrder(x, q)
    BY <2>2, <2>7, <2>8, <2>11
  <2> QED
    BY <1>1, <2>2, <2>7, <2>11, <2>14, <2>15, FetchMoves
<1> QED
  BY <1>2, <1>3

LEMMA FetchFailsMoves ==
    ASSUME PInv, IInv', NEW f \in fetching, FetchFails(f)
    PROVE  Moved
<1>1. /\ Returned /\ fetching' = fetching \ {f}
      /\ UNCHANGED <<schedulerVars, phase, sources, rec, limited, todo, starting>>
  BY DEF FetchFails, Idle, sessionVars
<1>2. \E result \in Results : Ends(f.e, result)
  BY DEF FetchFails, Results
<1> QED
  BY <1>1, <1>2, DropMoves

\* A slot is given back, because its run has ended or because its time is up.
LEMMA ReleaseMoves ==
    ASSUME PInv, IInv', NEW e \in active, NEW result, Release(e, result), Returned,
           UNCHANGED <<sessionVars, todo, starting>>, fetching' \subseteq fetching, ended' \subseteq ended,
           \A d \in ended : d.e # e => d \in ended',
           \/ \E d \in ended : d.e = e /\ d.result = result
           \/ ended = {}
    PROVE  Moved
<1>1. /\ queued' = queued /\ active' = active \ {e} /\ e \notin queued
      /\ \A t \in settled' : t \in settled \/ (t.e = e /\ t.result = result)
  BY Parts DEF PInv, SchedulerTypeOK, Release
<1>2. Coming' = queued' /\ Coming = queued /\ starting = {} /\ starting' = {}
  BY DEF Coming, Returned
<1>3. UNCHANGED <<phase, sources, rec, limited>>
  BY DEF sessionVars
<1>4. ASSUME NEW s \in Ids, NEW x \in Sources
      PROVE  Calm(s, x)
  <2>1. \A c \in Coming' : At(c, s, x) => c \in Coming /\ Wanted(s, x)'
    <3>1. \A c \in queued' : ~Dead(c)'
      BY DEF IInv, Linked
    <3> QED
      BY <1>1, <1>2, <3>1 DEF Dead, At, Wanted
  <2>2. \A p \in Past' : p \in Past \/ (p \in active /\ p \notin Coming')
    BY <1>1, <1>2 DEF Past, Told
  <2>3. ASSUME NEW d \in ended' \cup settled', At(d.e, s, x), ~Dead(d.e)'
        PROVE  d \in ended \cup settled \/ d.result = "ok" \/ rec[s][x].state # "exhausted"
    <3>1. CASE d \in ended \cup settled
      BY <3>1
    <3>2. CASE d.e = e /\ d.result = result
      <4>1. ~Dead(e)
        BY <1>3, <2>3, <3>2 DEF Dead, Live
      <4>2. InStep(s, x) /\ At(e, s, x)
        BY <2>3, <3>2 DEF PInv
      <4>3. CASE ended = {}
        <5>1. e \in active \ starting
          BY <1>2
        <5> QED
          BY <4>1, <4>2, <4>3, <5>1 DEF InStep
      <4>4. CASE \E k \in ended : k.e = e /\ k.result = result
        BY <3>2, <4>1, <4>2, <4>4 DEF InStep
      <4> QED
        BY <4>3, <4>4
    <3> QED
      BY <1>1, <3>1, <3>2
  <2> QED
    BY <1>1, <1>2, <2>1, <2>2, <2>3 DEF Calm
<1>5. AskedFor'
  BY NothingAsked DEF Returned
<1> QED
  BY <1>3, <1>4, <1>5, LeftAlone, Weathered DEF PInv, Moved

LEMMA FinishMoves ==
    ASSUME PInv, IInv', NEW d \in ended, Finish(d)
    PROVE  Moved
<1>1. /\ Returned /\ ended' = ended \ {d} /\ Release(d.e, d.result) /\ d.e \in active
      /\ UNCHANGED <<sessionVars, todo, starting, fetching>>
  BY DEF Finish, Release
<1>2. \A k \in ended : k.e # d.e => k \in ended'
  BY <1>1
<1> QED
  BY <1>1, <1>2, ReleaseMoves

LEMMA HardLimitMoves ==
    ASSUME PInv, IInv', NEW e \in active, HardLimit(e)
    PROVE  Moved
<1>1. /\ Returned /\ ended = {} /\ Release(e, "hardLimit") /\ fetching' \subseteq fetching
      /\ UNCHANGED <<sessionVars, todo, starting, ended>>
  BY DEF HardLimit, Idle
<1> QED
  BY <1>1, ReleaseMoves

LEMMA FinishPageJobMoves ==
    ASSUME PInv, IInv', NEW t \in settled, FinishPageJob(t)
    PROVE  Moved
<1> DEFINE s == t.e.s
           x == t.e.x
           q == Finished(s, rec[s][x], t.result)
<1>1. /\ t.e \in Entries /\ t.e \in Past /\ s \in Ids /\ x \in Sources
      /\ rec \in RecType /\ rec[s][x] \in SourceState
  <2>1. t.e \in Entries /\ t.e \in Past
    BY Parts DEF PInv, SchedulerTypeOK, Past, Told
  <2> QED
    BY <2>1, ClassOfEntry, RecTyped DEF PInv
<1>2. /\ starting = {} /\ starting' = {} /\ todo' = {} /\ settled' \subseteq settled
      /\ UNCHANGED <<queued, active, phase, sources, limited, fetching, ended>>
  BY DEF FinishPageJob, Returned, queues
<1>3. Coming' = Coming /\ Past' \subseteq Past
  BY <1>2 DEF Coming, Past, Told
<1>4. \A k \in Ids, y \in Sources : Calm(k, y)
  <2>1. ASSUME NEW k \in Ids, NEW y \in Sources, NEW c \in Coming', At(c, k, y)
        PROVE  c \in Coming /\ Wanted(k, y)'
    BY <1>2, <1>3, <2>1 DEF PInv, InStep, Dead, At, Wanted, Live
  <2> QED
    BY <1>2, <1>3, <2>1 DEF Calm
<1>5. AskedFor'
  BY <1>2, NothingAsked
<1>6. CASE Dead(t.e)
  <2>1. UNCHANGED rec
    BY <1>6 DEF FinishPageJob
  <2> QED
    BY <1>2, <1>4, <1>5, <2>1, LeftAlone, Weathered DEF PInv, Moved
<1>7. CASE ~Dead(t.e)
  <2>1. rec' = [rec EXCEPT ![s][x] = q]
    BY <1>7, Zenon DEF FinishPageJob
  <2>2. /\ q.jobToken = rec[s][x].jobToken + 1 /\ q.cursor = rec[s][x].cursor
        /\ q.buffer = rec[s][x].buffer /\ q.records = rec[s][x].records
        /\ q.state = "exhausted" \/ rec[s][x].state # "exhausted" \/ t.result # "ok"
    BY <1>1 DEF Finished, SourceState
  <2> HIDE DEF q
  <2>3. \A k \in Ids, y \in Sources : rec'[k][y] = IF k = s /\ y = x THEN q ELSE rec[k][y]
    BY <1>1, <2>1 DEF RecType
  <2>4. InStep(s, x) /\ At(t.e, s, x) /\ Wanted(s, x)
    BY <1>1, <1>7 DEF PInv, At, Dead, Wanted
  <2>5. \A c \in Coming' : ~At(c, s, x)
    <3>1. ASSUME NEW c \in Coming, At(c, s, x)
          PROVE  FALSE
      <4>1. ~Dead(c) /\ c \in Entries
        BY <2>4, <3>1, JobsTyped DEF PInv, InStep
      <4>2. c = t.e
        BY <1>1, <1>7, <3>1, <4>1, OneAlive DEF At
      <4> QED
        BY <1>1, <2>4, <3>1, <4>2 DEF InStep
    <3> QED
      BY <1>3, <3>1
  <2>6. rec'[s][x] = q
    BY <1>1, <2>3
  <2>7. InStep(s, x)'
    BY <1>1, <1>2, <2>2, <2>4, <2>5, <2>6, TokenMoves
  <2>8. Grows(s, x)
    <3>1. rec[s][x].state = "exhausted" => t.result = "ok"
      BY <1>7, <2>4 DEF InStep
    <3> QED
      BY <2>2, <2>6, <3>1 DEF Grows
  <2>9. ASSUME NEW k \in Ids, NEW y \in Sources, ~(k = s /\ y = x)
        PROVE  InStep(k, y)' /\ Grows(k, y)
    <3>1. Left(k, y)
      BY <1>2, <2>3, <2>9, SteadyHere DEF Left, Wanted, Live
    <3> QED
      BY <1>4, <3>1, Weathered DEF PInv
  <2> QED
    BY <1>5, <2>7, <2>8, <2>9 DEF Moved
<1> QED
  BY <1>6, <1>7

LEMMA InitInStep == Init => PInv
<1> SUFFICES ASSUME Init
             PROVE  PInv
  OBVIOUS
<1>1. todo = {} /\ Coming = {} /\ Past = {} /\ fetching = {} /\ ended = {} /\ settled = {} /\ active = {}
  BY DEF Init, SchedulerInit, Coming, Past, Told
<1>2. ASSUME NEW s \in Ids, NEW x \in Sources
      PROVE  InStep(s, x)
  <2>1. rec[s][x] = NewSource(x)
    BY DEF Init
  <2> QED
    BY <1>1, <2>1, NewInOrder DEF InStep
<1> QED
  BY <1>1, <1>2, InitSound DEF PInv, AskedFor

LEMMA NextMoves ==
    ASSUME PInv, [Next]_vars
    PROVE  IInv' /\ Moved
<1>0. IInv'
  BY NextKeeps DEF PInv
<1>1. CASE UNCHANGED vars
  <2>1. UNCHANGED <<queued, active, settled, pumping, starting, fetching, ended, phase, sources, rec, limited, todo>>
    BY <1>1 DEF vars, schedulerVars, queues, sessionVars
  <2>2. Coming' = Coming /\ Past' = Past
    BY <2>1 DEF Coming, Past, Told
  <2>3. ASSUME NEW s \in Ids, NEW x \in Sources
        PROVE  Calm(s, x)
    <3>1. ASSUME NEW c \in Coming', At(c, s, x)
          PROVE  c \in Coming /\ Wanted(s, x)'
      BY <2>1, <2>2, <3>1 DEF PInv, InStep, Dead, At, Wanted, Live
    <3> QED
      BY <2>1, <2>2, <3>1 DEF Calm
  <2>4. AskedFor'
    BY <2>1 DEF PInv, AskedFor
  <2> QED
    BY <1>0, <2>1, <2>3, <2>4, LeftAlone, Weathered DEF PInv, Moved
<1>2. CASE Sync
  BY <1>0, <1>2, SchedulePageMoves, PumpMoves, RunMoves DEF Sync
<1>3. CASE Callback
  BY <1>0, <1>3, FetchIsEarlyMoves, FinishMoves, FinishPageJobMoves, AnswerMoves DEF Callback
<1>4. CASE Request
  <2>1. ASSUME NEW s \in Ids, Refuse(s) \/ Delete(s)
        PROVE  Moved
    <3>1. Destroy({s}) /\ Returned /\ UNCHANGED <<todo, starting, fetching, ended>>
      BY <2>1 DEF Refuse, Delete, Idle
    <3> QED
      BY <1>0, <3>1, DestroyMoves
  <2> QED
    BY <1>0, <1>4, <2>1, StartMoves, RequestMoves, RetryMoves, InvalidateMoves, TimeMoves DEF Request
<1>5. CASE Timer \/ Publish
  BY <1>0, <1>5, TimeMoves, PublishMoves DEF Timer
<1>6. CASE \/ \E f \in fetching : FetchReturns(f) \/ FetchFails(f)
           \/ \E e \in active : HardLimit(e)
  BY <1>0, <1>6, FetchReturnsMoves, FetchFailsMoves, HardLimitMoves
<1> QED
  BY <1>0, <1>1, <1>2, <1>3, <1>4, <1>5, <1>6 DEF Next

\* applyRecords() and the end of a job keep the rows of a source in order for any sessions,
\* sources, pages and limits: none is skipped between two pages, none that was shown
\* goes, and a source that is exhausted stays so, whatever answers late.
THEOREM SearchInOrder == Spec => PagesInOrder
<1> DEFINE Shown == \A s \in Live \ limited : \A x \in sources[s] : InOrder(x, rec[s][x])
           Kept == \A s \in Live : \A x \in sources[s] \cap sources'[s] :
                      /\ rec[s][x].records \subseteq rec'[s][x].records
                      /\ rec[s][x].state = "exhausted" => rec'[s][x].state = "exhausted"
<1>1. Init => PInv
  BY InitInStep
<1>2. PInv /\ [Next]_vars => PInv' /\ Kept
  <2> SUFFICES ASSUME PInv, [Next]_vars
               PROVE  PInv' /\ Kept
    OBVIOUS
  <2>1. IInv' /\ Moved
    BY NextMoves
  <2>2. \A s \in Live : s \in Ids /\ sources[s] \subseteq Sources
    BY Parts DEF PInv, SessionTyped, Live
  <2> QED
    BY <2>1, <2>2 DEF PInv, Moved, Grows
<1>3. PInv => Shown
  <2> SUFFICES ASSUME PInv
               PROVE  Shown
    OBVIOUS
  <2>1. \A s \in Live : s \in Ids /\ sources[s] \subseteq Sources
    BY Parts DEF PInv, SessionTyped, Live
  <2>2. \A s \in Ids, x \in Sources : s \notin limited => InOrder(x, rec[s][x])
    BY DEF PInv, InStep
  <2> QED
    BY <2>1, <2>2
<1>4. PInv /\ [Next]_vars => [Kept]_vars
  BY <1>2
<1> HIDE DEF Shown, Kept
<1>5. Spec => []Shown /\ [][Kept]_vars
  BY <1>1, <1>2, <1>3, <1>4, PTL DEF Spec
<1> QED
  BY <1>5 DEF PagesInOrder, Shown, Kept
=============================================================================
