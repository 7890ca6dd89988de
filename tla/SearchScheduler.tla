-------------------------- MODULE SearchScheduler --------------------------
(***************************************************************************)
(* The scheduler every search shares (server/src/search-scheduler.ts): the *)
(* jobs that wait, the jobs that hold a slot, and the rotation over        *)
(* sessions, classes and pools by which pump() hands slots out.            *)
(*                                                                         *)
(* The operators below are the parts of a step that touch the scheduler;   *)
(* SearchSession composes them with what the jobs do. pump() is a loop of  *)
(* steps here, one per admission; nothing but what it starts happens while *)
(* it has more to admit (pumping).                                         *)
(***************************************************************************)
EXTENDS Integers, FiniteSets

CONSTANTS
    Ids,      \* session ids, in the order the scheduler sorts them
    Sources,  \* the sources of a search, in target order
    Class,    \* of each source
    Pool,     \* of each source: the host, the local disk or the connection
    JobsServerWide, PerSession, PerPool \* the limits

Classes == 1 .. 3 \* catalog, local, remote
Remote == 3
Pools == {Pool[x] : x \in Sources}

ASSUME SchedulerAssumption ==
    /\ Ids \subseteq Nat \ {0} /\ Sources \subseteq Nat \ {0}
    /\ Class \in [Sources -> Classes] /\ Pool \in [Sources -> Nat \ {0}]
    /\ JobsServerWide \in Nat /\ PerPool \in Nat
    /\ PerSession \in [Classes -> Nat]

VARIABLES
    queued, active,     \* entries by state
    cancelRequested,    \* active entries that were cancelled
    sessionClassActive, poolActive,
    lastSession, lastClass, lastPool,
    pumping,            \* pump() is running
    settled             \* results whose promise has resolved and whose callback has not run

queues == <<queued, active, cancelRequested>>
counts == <<sessionClassActive, poolActive>>
rotation == <<lastSession, lastClass, lastPool>>
schedulerVars == <<queues, counts, rotation, pumping, settled>>

\* The n-th job of a source of a session.
Entries == [s : Ids, x : Sources, n : Nat]
Results == {"ok", "failed", "timedOut", "cancelled", "hardLimit"}

SchedulerInit ==
    /\ queued = {} /\ active = {} /\ cancelRequested = {} /\ settled = {}
    /\ sessionClassActive = [s \in Ids |-> [c \in Classes |-> 0]]
    /\ poolActive = [p \in Pools |-> 0]
    /\ lastSession = 0 /\ lastClass = [s \in Ids |-> 0]
    /\ lastPool = [s \in Ids |-> [c \in Classes |-> 0]]
    /\ pumping = FALSE

------------------------------------------------------------------------------
CanRun(e) ==
    /\ sessionClassActive[e.s][Class[e.x]] < PerSession[Class[e.x]]
    /\ Class[e.x] = Remote => poolActive[Pool[e.x]] < PerPool

Runnable == {e \in queued : CanRun(e)}

\* pump() has another entry to admit.
Admits == Cardinality(active) < JobsServerWide /\ Runnable # {}

Least(S) == CHOOSE i \in S : \A k \in S : i <= k

\* The first of the good ones, taking all of them in order from the one after the last; a last
\* that is not among them has no place to go on from, and the order starts over.
FirstAfter(all, last, good) ==
    LET later == {i \in good : last \in all /\ last < i}
    IN IF later # {} THEN Least(later) ELSE Least(good)

\* The entry to admit, where any can run.
Choose ==
    LET s == FirstAfter({e.s : e \in queued}, lastSession, {e.s : e \in Runnable})
        mine == {e \in queued : e.s = s}
        c == FirstAfter(Classes, lastClass[s], {Class[e.x] : e \in mine \cap Runnable})
        candidates == {e \in mine : Class[e.x] = c}
        p == FirstAfter({Pool[e.x] : e \in candidates}, lastPool[s][c],
                        {Pool[e.x] : e \in candidates \cap Runnable})
        pooled == {e \in candidates \cap Runnable : Pool[e.x] = p}
    IN CHOOSE e \in pooled : \A f \in pooled : e.x <= f.x

\* enqueue()
Enqueue(e) ==
    /\ queued' = queued \cup {e}
    /\ UNCHANGED <<active, cancelRequested, counts, rotation, settled>>
    /\ pumping' = Admits'

\* cancelEntry(): a waiting entry leaves, one that runs keeps its slot until its run ends. Who
\* cancels is gone by the time the callback runs, so its result is not kept here.
Cancel(E) ==
    /\ queued' = queued \ E
    /\ cancelRequested' = cancelRequested \cup (active \cap E)
    /\ UNCHANGED <<active, counts, rotation, settled>>
    /\ pumping' = (pumping /\ Admits')

\* admit()
Admit(e) ==
    /\ pumping /\ e = Choose
    /\ queued' = queued \ {e} /\ active' = active \cup {e}
    /\ lastSession' = e.s
    /\ lastClass' = [lastClass EXCEPT ![e.s] = Class[e.x]]
    /\ lastPool' = [lastPool EXCEPT ![e.s][Class[e.x]] = Pool[e.x]]
    /\ sessionClassActive' = [sessionClassActive EXCEPT ![e.s][Class[e.x]] = @ + 1]
    /\ poolActive' = IF Class[e.x] = Remote THEN [poolActive EXCEPT ![Pool[e.x]] = @ + 1] ELSE poolActive
    /\ UNCHANGED <<cancelRequested, settled>>
    /\ pumping' = Admits'

\* Slip: an entry that was cancelled does not give its slots back.
Release_Leaks(e, result) ==
    /\ e \in active
    /\ active' = active \ {e} /\ cancelRequested' = cancelRequested \ {e}
    /\ settled' = IF e \in cancelRequested THEN settled ELSE settled \cup {[e |-> e, result |-> result]}
    /\ IF e \in cancelRequested THEN UNCHANGED counts
       ELSE /\ sessionClassActive' = [sessionClassActive EXCEPT ![e.s][Class[e.x]] = @ - 1]
            /\ poolActive' = IF Class[e.x] = Remote THEN [poolActive EXCEPT ![Pool[e.x]] = @ - 1]
                             ELSE poolActive
    /\ UNCHANGED <<queued, rotation>>
    /\ pumping' = Admits'

\* settle() and release()
Release(e, result) ==
    /\ e \in active
    /\ active' = active \ {e} /\ cancelRequested' = cancelRequested \ {e}
    /\ settled' = IF e \in cancelRequested THEN settled ELSE settled \cup {[e |-> e, result |-> result]}
    /\ sessionClassActive' = [sessionClassActive EXCEPT ![e.s][Class[e.x]] = @ - 1]
    /\ poolActive' = IF Class[e.x] = Remote THEN [poolActive EXCEPT ![Pool[e.x]] = @ - 1] ELSE poolActive
    /\ UNCHANGED <<queued, rotation>>
    /\ pumping' = Admits'

------------------------------------------------------------------------------
Running(s, c) == {e \in active : e.s = s /\ Class[e.x] = c}
Connected(p) == {e \in active : Class[e.x] = Remote /\ Pool[e.x] = p}

SchedulerTypeOK ==
    /\ queued \subseteq Entries /\ active \subseteq Entries /\ queued \cap active = {}
    /\ IsFiniteSet(active)
    /\ cancelRequested \subseteq active
    /\ settled \subseteq [e : Entries, result : Results]
    /\ sessionClassActive \in [Ids -> [Classes -> Nat]] /\ poolActive \in [Pools -> Nat]
    /\ lastSession \in Ids \cup {0} /\ lastClass \in [Ids -> Classes \cup {0}]
    /\ lastPool \in [Ids -> [Classes -> Pools \cup {0}]]
    /\ pumping \in BOOLEAN

\* The counters say what runs, so no cancelled, expired or abandoned job is forgotten in them.
CountsMatch ==
    /\ \A s \in Ids, c \in Classes : sessionClassActive[s][c] = Cardinality(Running(s, c))
    /\ \A p \in Pools : poolActive[p] = Cardinality(Connected(p))

LimitsKept ==
    /\ Cardinality(active) <= JobsServerWide
    /\ \A s \in Ids, c \in Classes : Cardinality(Running(s, c)) <= PerSession[c]
    /\ \A p \in Pools : Cardinality(Connected(p)) <= PerPool

\* No job that may run waits beside a free slot.
NoIdleSlot == ~pumping /\ Cardinality(active) < JobsServerWide => Runnable = {}
=============================================================================
