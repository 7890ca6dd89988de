--------------------------- MODULE SearchSession ---------------------------
(***************************************************************************)
(* The searches of Search Everywhere (server/src/search-session.ts) over   *)
(* the shared scheduler: a session per search, a page job at a time per    *)
(* source, the answer to the first request, and the local index that may   *)
(* still be building when a search begins.                                 *)
(*                                                                         *)
(* One call, timer or answer from outside (Idle) runs to the end of what   *)
(* it causes: the rest of its own call (todo, pumping, starting) and then  *)
(* the callbacks of the promises it resolved (ended, settled, resolved).   *)
(* Time, the rows themselves and their clustering are left out: rows come  *)
(* in batches of what one page job may accept, numbered by the source. So  *)
(* are the revision and the poll that waits for a new one, the expansion   *)
(* jobs and the tombstones.                                                *)
(***************************************************************************)
EXTENDS SearchScheduler

CONSTANTS
    Slots, SlotOf,   \* the slot each session id is started for
    Owners, OwnerOf, \* the browser session of each slot
    Seats, ServerWide, \* limits: sessions of one owner, sessions
    SourcesOf,       \* what discovery finds for each session id
    Rows, Fresh,     \* of each source: how many batches it has, and those with rows not seen before
    Paged,           \* the sources whose continuation is "supported"
    StallAfter, RecordLimit, \* limits: pages without progress, batches of a session
    Revocable,       \* bound: the sources that may lose their rights
    MaxMishaps       \* bound: answers that fail, rights that are lost and retries

ASSUME SessionAssumption ==
    /\ SlotOf \in [Ids -> Slots] /\ OwnerOf \in [Slots -> Owners]
    /\ Seats \in Nat \ {0} /\ ServerWide \in Nat /\ StallAfter \in Nat \ {0} /\ RecordLimit \in Nat
    /\ SourcesOf \in [Ids -> SUBSET Sources] /\ Rows \in [Sources -> Nat]
    /\ Fresh \in [Sources -> SUBSET (Nat \ {0})] /\ Paged \subseteq Sources
    /\ Revocable \subseteq Sources /\ MaxMishaps \in Nat

Catalog == 1
Local == 2

VARIABLES
    phase,     \* of each session id: "new", "live" or "gone"
    slots,     \* the session of each slot, 0 for none
    sources,   \* of each session: the sources it still has
    rec,       \* of each session and source: SourceState
    limited,   \* sessions with limitReached
    initial,   \* of each session: how its start() stands
    todo,      \* the pages the current call has still to schedule
    starting,  \* the entry whose run() begins
    fetching,  \* pages asked of sources, also those nobody waits for any more
    ended,     \* runs whose promise has resolved, before the scheduler knows
    current,   \* owners whose authority is current
    allowed,   \* sources that are still allowed
    ready,     \* the local index has been published
    mishaps

sessionVars == <<phase, slots, sources, rec, limited, initial>>
worldVars == <<current, allowed, ready, mishaps>>
vars == <<schedulerVars, sessionVars, todo, starting, fetching, ended, worldVars>>

Live == {s \in Ids : phase[s] = "live"}
Owner(s) == OwnerOf[SlotOf[s]]

NewSource(x) ==
    [state |-> "queued", cursor |-> 0, exhausted |-> FALSE,
     buffer |-> {}, records |-> {}, noProgress |-> 0, firstSettled |-> FALSE,
     continuation |-> IF x \in Paged THEN "supported" ELSE "unsupported",
     jobRunning |-> FALSE, jobToken |-> 0, subscribed |-> FALSE, before |-> "queued", cut |-> FALSE]

Init ==
    /\ SchedulerInit
    /\ phase = [s \in Ids |-> "new"] /\ slots = [k \in Slots |-> 0]
    /\ sources = [s \in Ids |-> {}] /\ rec = [s \in Ids |-> [x \in Sources |-> NewSource(x)]]
    /\ limited = {} /\ initial = [s \in Ids |-> "none"]
    /\ todo = {} /\ starting = {} /\ fetching = {} /\ ended = {}
    /\ current = Owners /\ allowed = Sources /\ ready = FALSE /\ mishaps = 0

------------------------------------------------------------------------------
\* Nothing of the current call is left to do.
Returned == todo = {} /\ starting = {} /\ ~pumping

\* No callback is left to run either: the next call, timer or answer may come.
Idle ==
    /\ Returned /\ ended = {} /\ settled = {} /\ \A f \in fetching : ~f.cold
    /\ \A s \in Ids : initial[s] # "resolved"

Dead(e) == e.s \notin Live \/ e.x \notin sources[e.s] \/ rec[e.s][e.x].jobToken # e.n

Retryable(state) == state \in {"stalled", "failed", "timedOut"}

HasMore(s, x) ==
    /\ rec[s][x].state = "ready" /\ rec[s][x].continuation = "supported" /\ s \notin limited
    /\ rec[s][x].buffer # {} \/ ~rec[s][x].exhausted

\* finishInitialWait() of the sessions in S, once all their sources X have answered
InitialDone(S, X, r) ==
    [s \in Ids |-> IF s \in S /\ initial[s] = "waiting" /\ \A x \in X[s] : r[s][x].firstSettled
                   THEN "resolved" ELSE initial[s]]

\* destroy() of the sessions in D, and start() of those in N
Turnover(D, N) ==
    /\ phase' = [s \in Ids |-> IF s \in N THEN "live" ELSE IF s \in D THEN "gone" ELSE phase[s]]
    /\ slots' = [k \in Slots |-> IF \E s \in N : SlotOf[s] = k THEN CHOOSE s \in N : SlotOf[s] = k
                                 ELSE IF slots[k] \in D THEN 0 ELSE slots[k]]
    /\ sources' = [s \in Ids |-> IF s \in N THEN SourcesOf[s] \cap allowed
                                 ELSE IF s \in D THEN {} ELSE sources[s]]
    /\ rec' = [s \in Ids |-> IF s \in D THEN [x \in Sources |-> NewSource(x)] ELSE rec[s]]
    /\ limited' = limited \ D
    /\ initial' = [s \in Ids |-> IF s \in N THEN (IF sources'[s] = {} THEN "resolved" ELSE "waiting")
                                 ELSE IF s \in D /\ initial[s] = "waiting" THEN "resolved" ELSE initial[s]]
    /\ Cancel({e \in queued \cup active : e.s \in D})

Destroy(D) == Turnover(D, {})

\* removeSource() of the sources R[s] of each session; r is what the call makes of the others
Without(R, r) ==
    /\ sources' = [s \in Ids |-> sources[s] \ R[s]]
    /\ rec' = [s \in Ids |-> [x \in Sources |->
                 IF x \in R[s] THEN NewSource(x) ELSE r[s][x]]]
    /\ Cancel({e \in queued \cup active : e.x \in R[e.s]})
    /\ UNCHANGED <<phase, slots, limited>>

Remove(R, r) ==
    /\ Without(R, r)
    /\ initial' = InitialDone({s \in Ids : R[s] # {}}, sources', r)

Disallowed(s) == [k \in Ids |-> IF k = s THEN sources[s] \ allowed ELSE {}]

\* getSession() and revalidate() at the head of a call, which itself makes r of the sources
Call(s, r) ==
    /\ Idle /\ s \in Live /\ Owner(s) \in current
    /\ Remove(Disallowed(s), r)

Item(kind, s, x) == [kind |-> kind, s |-> s, x |-> x]

------------------------------------------------------------------------------
\* start() with a new generation: it replaces the session of its slot and, if its browser session
\* has no seat left, the one that was used least recently; any may be that one here. A search that
\* gives one up has room then, so the refusal at ServerWide finds nothing destroyed.
Start(id) ==
    LET existing == {slots[SlotOf[id]]} \ {0}
        owned == {s \in Live \ existing : Owner(s) = Owner(id)}
    IN /\ Idle /\ phase[id] = "new" /\ Owner(id) \in current
       /\ \E victims \in SUBSET owned :
            /\ IF Cardinality(owned) < Seats THEN victims = {}
               ELSE Cardinality(owned \ victims) = Seats - 1
            /\ Cardinality(Live \ (existing \cup victims)) < ServerWide
            /\ Turnover(existing \cup victims, {id})
       /\ todo' = {Item("page", id, x) : x \in sources'[id]}
       /\ UNCHANGED <<starting, fetching, ended, worldVars>>

\* A call that only looks, or a start() with the generation of the session it finds
Look(s) ==
    /\ Call(s, rec) /\ Disallowed(s)[s] # {}
    /\ UNCHANGED <<todo, starting, fetching, ended, worldVars>>

\* Any call of an owner that is no longer current
Refuse(s) ==
    /\ Idle /\ s \in Live /\ Owner(s) \notin current
    /\ Destroy({s})
    /\ UNCHANGED <<todo, starting, fetching, ended, worldVars>>

\* delete(), dropSession(), dropUser(), the expiry in sweep()
Delete(s) ==
    /\ Idle /\ s \in Live /\ Destroy({s})
    /\ UNCHANGED <<todo, starting, fetching, ended, worldVars>>

PageAll(s) ==
    /\ Call(s, rec)
    /\ todo' = {Item("more", s, x) : x \in {x \in sources'[s] : HasMore(s, x) /\ ~rec[s][x].jobRunning}}
    /\ UNCHANGED <<starting, fetching, ended, worldVars>>

\* What retry() makes of the source
Retried(x, r) ==
    [r EXCEPT !.state = "queued", !.noProgress = 0, !.continuation = NewSource(x).continuation]

Retry(s, x) ==
    /\ x \in sources[s] \cap allowed /\ Retryable(rec[s][x].state)
    /\ mishaps < MaxMishaps /\ mishaps' = mishaps + 1
    /\ Call(s, [rec EXCEPT ![s][x] = Retried(x, @)])
    /\ todo' = {Item("page", s, x)}
    /\ UNCHANGED <<starting, fetching, ended, current, allowed, ready>>

InvalidateContent ==
    LET R == [s \in Ids |-> IF s \in Live THEN sources[s] \ allowed ELSE {}]
    IN /\ Idle /\ \E s \in Ids : R[s] # {}
       /\ Remove(R, rec)
       /\ UNCHANGED <<todo, starting, fetching, ended, worldVars>>

\* The timer of the first answer
InitialTimeout(s) ==
    /\ Idle /\ initial[s] = "waiting" /\ initial' = [initial EXCEPT ![s] = "resolved"]
    /\ UNCHANGED <<schedulerVars, phase, slots, sources, rec, limited, todo, starting,
                   fetching, ended, worldVars>>

------------------------------------------------------------------------------
\* schedulePage(), and the loops and listeners that call it
Schedules(i) ==
    /\ ~Dead([s |-> i.s, x |-> i.x, n |-> rec[i.s][i.x].jobToken]) /\ i.s \notin limited
    /\ ~rec[i.s][i.x].jobRunning
    /\ i.kind = "more" => HasMore(i.s, i.x)
    /\ i.kind = "ready" => rec[i.s][i.x].state = "indexing"

\* The listener of an index that is ready has put the source back to "queued" by then.
Wakes(i) == i.kind = "ready" /\ i.x \in sources[i.s] /\ rec[i.s][i.x].state = "indexing"

\* The source has a new job, which is the only one it knows from now on; a page is asked for of a
\* source that is ready, or of one that is queued (again) by then.
Asked(r) ==
    [r EXCEPT !.jobRunning = TRUE, !.jobToken = @ + 1, !.state = "queued",
              !.before = IF r.state = "ready" THEN "ready" ELSE "queued", !.cut = FALSE]

SchedulePage ==
    \E i \in todo :
        LET r == rec[i.s][i.x]
        IN /\ ~pumping /\ starting = {}
           /\ i.kind # "ready" => \A k \in todo : i.x <= k.x
           /\ todo' = todo \ {i}
           /\ IF Schedules(i)
              THEN /\ rec' = [rec EXCEPT ![i.s][i.x] = Asked(r)]
                   /\ Enqueue([s |-> i.s, x |-> i.x, n |-> Asked(r).jobToken])
              ELSE /\ rec' = IF Wakes(i) THEN [rec EXCEPT ![i.s][i.x].state = "queued"] ELSE rec
                   /\ UNCHANGED schedulerVars
           /\ UNCHANGED <<phase, slots, sources, limited, initial, starting, fetching, ended, worldVars>>

\* One turn of pump(): the run of the entry begins within it.
Pump ==
    /\ starting = {}
    /\ \E e \in Runnable : Admit(e) /\ starting' = {e}
    /\ UNCHANGED <<sessionVars, todo, fetching, ended, worldVars>>

Loaded(s) == UNION {{<<x, b>> : b \in rec[s][x].records \cap Fresh[x]} : x \in sources[s]}

\* applyRecords(): one batch, or an empty page. A batch of new rows that would cross the record
\* limit is not taken and stops the search.
LimitHit(s, x, batch) == batch \cap Fresh[x] # {} /\ Cardinality(Loaded(s)) >= RecordLimit

Applied(s, x, r, batch) ==
    LET hit == LimitHit(s, x, batch)
        misses == IF batch \cap Fresh[x] # {} /\ ~hit THEN 0 ELSE r.noProgress + 1
        stalls == misses >= StallAfter
    IN [r EXCEPT !.noProgress = misses,
                 !.records = IF hit THEN @ ELSE @ \cup batch,
                 !.continuation = IF stalls THEN "blocked" ELSE @,
                 !.state = IF stalls THEN "stalled"
                           ELSE IF hit \/ s \in limited \/ r.continuation = "unsupported" THEN "ready"
                           ELSE IF r.exhausted /\ r.buffer = {} THEN "exhausted"
                           ELSE "ready"]

\* applyRecords() of the batch of source x, of which r is what the fetch has made
Apply(s, x, r, batch) ==
    /\ rec' = [rec EXCEPT ![s][x] = Applied(s, x, r, batch)]
    /\ limited' = IF LimitHit(s, x, batch) THEN limited \cup {s} ELSE limited

\* A run whose slot was given back ends unseen.
Ends(e, result) == ended' = IF e \notin active THEN ended ELSE ended \cup {[e |-> e, result |-> result]}

\* The head of run(): its job may be dead, its owner or its source may have lost their rights,
\* the limit may have been reached or rows may be waiting; else a page is asked for.
Run(e) ==
    LET r == rec[e.s][e.x] IN
    /\ starting = {e} /\ starting' = {}
    /\ \/ /\ Dead(e) /\ Ends(e, "cancelled")
          /\ UNCHANGED <<schedulerVars, sessionVars, fetching>>
       \/ /\ ~Dead(e) /\ Owner(e.s) \notin current
          /\ Destroy({e.s}) /\ Ends(e, "cancelled")
          /\ UNCHANGED fetching
       \/ /\ ~Dead(e) /\ Owner(e.s) \in current /\ e.x \notin allowed
          /\ Remove([s \in Ids |-> IF s = e.s THEN {e.x} ELSE {}], rec)
          /\ Ends(e, "cancelled")
          /\ UNCHANGED fetching
       \/ /\ ~Dead(e) /\ Owner(e.s) \in current /\ e.x \in allowed
          /\ \/ /\ e.s \in limited
                /\ rec' = [rec EXCEPT ![e.s][e.x].state = "ready"]
                /\ Ends(e, "ok")
                /\ UNCHANGED <<limited, fetching>>
             \/ /\ e.s \notin limited /\ r.buffer # {}
                /\ \E b \in r.buffer :
                      /\ \A k \in r.buffer : b <= k
                      /\ Apply(e.s, e.x, [r EXCEPT !.buffer = @ \ {b}], {b})
                /\ Ends(e, "ok")
                /\ UNCHANGED fetching
             \/ /\ e.s \notin limited /\ r.buffer = {}
                /\ rec' = [rec EXCEPT ![e.s][e.x].state = "loading"]
                /\ fetching' = fetching \cup {[e |-> e, at |-> r.cursor, cold |-> Class[e.x] = Local /\ ~ready]}
                /\ UNCHANGED <<limited, ended>>
          /\ UNCHANGED <<schedulerVars, phase, slots, sources, initial>>
    /\ UNCHANGED <<todo, worldVars>>

\* Slip: the answer is taken from whoever brings it.
Dropped_Never(f) == f.e.s \notin Live \/ f.e.x \notin sources[f.e.s] \/ f.e.s \in limited

\* The rest of fetchPage(). What a dead job, or one of a session at its limit, brings is dropped.
Dropped(f) == Dead(f.e) \/ f.e.s \in limited

\* The local index was not there when the page was asked for; the callback that says so runs
\* before anything else can happen.
FetchIsEarly(f) ==
    /\ Returned /\ f.cold /\ fetching' = fetching \ {f} /\ Ends(f.e, "ok")
    /\ IF Dropped(f) THEN UNCHANGED rec
       ELSE rec' = [rec EXCEPT ![f.e.s][f.e.x].state = "indexing", ![f.e.s][f.e.x].subscribed = TRUE]
    /\ UNCHANGED <<schedulerVars, phase, slots, sources, limited, initial, todo, starting, worldVars>>

\* A catalog has come to its end when it answers an empty page, the others say so with their
\* last one.
LastPage(x, at, n) == IF Class[x] = Catalog THEN n = 0 \/ x \notin Paged ELSE at + n = Rows[x]

\* A server has no cursor to give with its last page: whoever asks again begins again.
NextCursor(x, at, n) == IF Class[x] = Remote /\ LastPage(x, at, n) THEN 0 ELSE at + n

\* A page of n batches
FetchReturns(f) ==
    /\ Idle /\ fetching' = fetching \ {f} /\ Ends(f.e, "ok")
    /\ IF Dropped(f) THEN UNCHANGED <<rec, limited>>
       ELSE \E n \in 0 .. 2 :
            /\ f.at + n <= Rows[f.e.x] /\ (n = 0 => f.at = Rows[f.e.x])
            /\ LET first == {b \in {f.at + 1} : n > 0}
                   rest == {b \in {f.at + 2} : n > 1}
               IN Apply(f.e.s, f.e.x,
                        [rec[f.e.s][f.e.x] EXCEPT !.cursor = NextCursor(f.e.x, f.at, n), !.buffer = @ \cup rest,
                                                  !.exhausted = LastPage(f.e.x, f.at, n)],
                        first)
    /\ UNCHANGED <<schedulerVars, phase, slots, sources, initial, todo, starting, worldVars>>

\* A local source fails only when it is told to stop. "failed" stands for "unavailable" too. The
\* request to a server is also cancelled from elsewhere, when its connection is dropped.
FetchFails(f) ==
    /\ Idle /\ (Class[f.e.x] # Local \/ Dead(f.e)) /\ fetching' = fetching \ {f}
    /\ IF Dead(f.e) THEN Ends(f.e, "failed") /\ UNCHANGED mishaps
       ELSE /\ mishaps < MaxMishaps /\ mishaps' = mishaps + 1
            /\ \E result \in {"failed", "timedOut", "cancelled"} :
                 /\ result = "cancelled" => Class[f.e.x] = Remote
                 /\ Ends(f.e, result)
    /\ UNCHANGED <<schedulerVars, sessionVars, todo, starting, current, allowed, ready>>

------------------------------------------------------------------------------
\* finish(): the scheduler hears of a run that ended.
Finish(d) ==
    /\ Returned /\ ended' = ended \ {d}
    /\ Release(d.e, d.result)
    /\ UNCHANGED <<sessionVars, todo, starting, fetching, worldVars>>

\* hardLimit(): the slot is given back though the run goes on, unseen if its session is gone.
HardLimit(e) ==
    /\ Idle /\ Release(e, "hardLimit")
    /\ fetching' = {f \in fetching : f.e # e \/ e.s \in Live}
    /\ UNCHANGED <<sessionVars, todo, starting, ended, worldVars>>

\* Slip: a job whose time was up leaves its source as it was.
Finished_Unset(s, r, result) ==
    [r EXCEPT !.jobRunning = FALSE, !.jobToken = @ + 1, !.firstSettled = TRUE,
              !.state = CASE result \in {"failed", "timedOut"} -> result
                          [] result = "cancelled" -> r.before
                          [] result = "ok" /\ s \in limited /\ r.state = "loading" -> "ready"
                          [] OTHER -> r.state,
              !.cut = (result = "cancelled")]

\* What finishPageJob() makes of the source: one whose request was cancelled is what it was before.
Finished(s, r, result) ==
    [r EXCEPT !.jobRunning = FALSE, !.jobToken = @ + 1, !.firstSettled = TRUE,
              !.state = CASE result \in {"failed", "timedOut"} -> result
                          [] result = "hardLimit" -> "timedOut"
                          [] result = "cancelled" -> r.before
                          [] result = "ok" /\ s \in limited /\ r.state = "loading" -> "ready"
                          [] OTHER -> r.state,
              !.cut = (result = "cancelled")]

\* finishPageJob(), with its guard
FinishPageJob(t) ==
    LET s == t.e.s
        after == [rec EXCEPT ![s][t.e.x] = Finished(s, @, t.result)]
    IN /\ Returned /\ t \in settled /\ settled' = settled \ {t}
       /\ IF Dead(t.e) THEN UNCHANGED <<rec, initial>>
          ELSE /\ rec' = after
               /\ initial' = InitialDone({s}, sources, after)
       /\ UNCHANGED <<queues, counts, rotation, pumping, phase, slots, sources, limited, todo, starting,
                      fetching, ended, worldVars>>

\* start() goes on after its first wait: the snapshot, or the news that the session is gone
Answer(s) ==
    /\ Returned /\ initial[s] = "resolved"
    /\ \/ /\ s \in Live /\ Owner(s) \in current
          /\ Without(Disallowed(s), rec)
          /\ initial' = [initial EXCEPT ![s] = "none"]
       \/ s \in Live /\ Owner(s) \notin current /\ Destroy({s})
       \/ /\ s \notin Live /\ initial' = [initial EXCEPT ![s] = "none"]
          /\ UNCHANGED <<schedulerVars, phase, slots, sources, rec, limited>>
    /\ UNCHANGED <<todo, starting, fetching, ended, worldVars>>

------------------------------------------------------------------------------
\* The first index is published: LocalSearchIndex.build() tells its listeners.
Publish ==
    /\ Idle /\ ~ready /\ ready' = TRUE
    /\ todo' = {i \in {Item("ready", s, x) : s \in Live, x \in Sources} : rec[i.s][i.x].subscribed}
    /\ rec' = [s \in Ids |-> [x \in Sources |-> [rec[s][x] EXCEPT !.subscribed = FALSE]]]
    /\ UNCHANGED <<schedulerVars, phase, slots, sources, limited, initial, starting, fetching,
                   ended, current, allowed, mishaps>>

\* An add-on is switched off or a library hidden; an account is disabled or logged out elsewhere.
LoseRights ==
    /\ Idle /\ mishaps < MaxMishaps /\ mishaps' = mishaps + 1
    /\ \/ \E x \in Revocable \cap allowed : allowed' = allowed \ {x} /\ UNCHANGED current
       \/ \E o \in current : current' = current \ {o} /\ UNCHANGED allowed
    /\ UNCHANGED <<schedulerVars, sessionVars, todo, starting, fetching, ended, ready>>

\* The rest of a call, and the callbacks
Sync == SchedulePage \/ Pump \/ \E e \in starting : Run(e)
Callback ==
    \/ \E f \in fetching : FetchIsEarly(f)
    \/ \E d \in ended : Finish(d)
    \/ \E t \in settled : FinishPageJob(t)
    \/ \E s \in Ids : Answer(s)

Timer == \E s \in Ids : InitialTimeout(s)

Request ==
    \/ \E s \in Ids : Start(s) \/ Look(s) \/ Refuse(s) \/ Delete(s) \/ PageAll(s)
    \/ \E s \in Ids, x \in Sources : Retry(s, x)
    \/ InvalidateContent \/ LoseRights

Next ==
    \/ Sync \/ Callback \/ Request \/ Timer \/ Publish
    \/ \E f \in fetching : FetchReturns(f) \/ FetchFails(f)
    \/ \E e \in active : HardLimit(e)

Spec == Init /\ [][Next]_vars

\* What the process runs by itself is run: the rest of a call, the callbacks, the timers.
Fairness ==
    /\ WF_vars(Sync) /\ WF_vars(Callback)
    /\ \A s \in Ids : \A x \in SourcesOf[s] : WF_vars(\E e \in active : e.s = s /\ e.x = x /\ HardLimit(e))

FairSpec == Spec /\ Fairness

------------------------------------------------------------------------------
SourceStates == {"queued", "loading", "ready", "exhausted", "stalled", "failed", "timedOut", "indexing"}

SourceState ==
    [state : SourceStates, cursor : Nat, exhausted : BOOLEAN,
     buffer : SUBSET Nat, records : SUBSET Nat, noProgress : Nat, firstSettled : BOOLEAN,
     continuation : {"supported", "unsupported", "blocked"},
     jobRunning : BOOLEAN, jobToken : Nat, subscribed : BOOLEAN,
     before : {"queued", "ready"}, cut : BOOLEAN]

TypeOK ==
    /\ SchedulerTypeOK
    /\ phase \in [Ids -> {"new", "live", "gone"}] /\ slots \in [Slots -> Ids \cup {0}]
    /\ sources \in [Ids -> SUBSET Sources] /\ rec \in [Ids -> [Sources -> SourceState]]
    /\ limited \subseteq Ids
    /\ initial \in [Ids -> {"none", "waiting", "resolved"}]
    /\ todo \subseteq [kind : {"page", "more", "ready"}, s : Ids, x : Sources]
    /\ starting \subseteq active
    /\ fetching \subseteq [e : Entries, at : Nat, cold : BOOLEAN]
    /\ ended \subseteq [e : Entries, result : Results]
    /\ current \subseteq Owners /\ allowed \subseteq Sources /\ ready \in BOOLEAN
    /\ mishaps \in Nat

\* A job waits for a slot only while its session lives and still wants it, and one that holds a
\* slot for a session that is gone was told to stop, so no search outlives its session there.
GoneLeavesNothing ==
    /\ \A e \in queued : ~Dead(e)
    /\ \A e \in active \ cancelRequested : e.s \in Live

SchedulerSound == SchedulerTypeOK /\ CountsMatch /\ LimitsKept /\ NoIdleSlot /\ GoneLeavesNothing

\* What a source has got are its first batches, and it goes on where they end unless it has
\* got them all.
InOrder(x, r) ==
    LET got == r.records \cup r.buffer
    IN got = 1 .. Cardinality(got) /\ (got = 1 .. r.cursor \/ got = 1 .. Rows[x])

\* A source shows what it was asked for in order, loses no batch between two pages and, once
\* it is exhausted, stays so, whatever answers after its time was up.
PagesInOrder ==
    /\ [](\A s \in Live \ limited : \A x \in sources[s] : InOrder(x, rec[s][x]))
    /\ [][\A s \in Live : \A x \in sources[s] \cap sources'[s] :
             /\ rec[s][x].records \subseteq rec'[s][x].records
             /\ rec[s][x].state = "exhausted" => rec'[s][x].state = "exhausted"]_vars

Pending(s, x) == x \in sources[s] /\ rec[s][x].state \in {"queued", "loading"} /\ s \notin limited

\* A source that is queued or loading does not stay so: it gets an answer, a failure or a
\* timeout, however little the sources answer, unless the search ends or has reached its limit.
\* One whose request was cancelled at the server is not asked again by itself: a first page leaves
\* its source queued for as long as the search lives (applyFailure, stateBeforePage).
PendingEnds == \A s \in Ids : \A x \in SourcesOf[s] : Pending(s, x) ~> ~Pending(s, x) \/ rec[s][x].cut
=============================================================================
