---------------------------- MODULE DownloadQueue ---------------------------
(***************************************************************************)
(* The scheduling half of the download queue (server/src/downloads.ts):    *)
(* which row runs, what pauses it, what a failure leads to, and what the   *)
(* people, the library watch and the space watch do to rows whose runs are *)
(* between two awaits.                                                     *)
(*                                                                         *)
(* One run of download() is a walk over the stages below; between two of   *)
(* them it awaits, and anything else may happen. What a stage does without *)
(* awaiting is one step. The database and its failures are in QueueStore,  *)
(* the bytes of the partial file in PartFile; torrents that wait for       *)
(* Real-Debrid are left out. A save that only has to be awaited is part of *)
(* the stage that awaits it.                                               *)
(***************************************************************************)
EXTENDS Naturals, FiniteSets, SequencesExt

CONSTANTS
    Jobs,           \* the rows
    Stored,         \* the rows the queue was loaded with, in their order
    Kind,           \* of a row: "direct", "lazy" or "profile"
    Host,           \* of a direct row: the host of its address
    Hosts,          \* the hosts sources live on
    None,           \* no source is chosen yet: the bucket "?" of provider()
    Limit,          \* concurrency()
    PerProvider,    \* perProvider()
    RetryLimit,     \* attempts after a dropped connection (3 in the code)
    SourceLimit,    \* sources a row without an address of its own can try before it gives up
    MaxFaults,      \* bound: transfers and lookups that break off
    MaxStorage,     \* bound: writes that meet a full or failing disk
    MaxPauses,      \* bound: pauses by a person
    MaxResumes,     \* bound: resumes and retries by a person
    MaxRemovals,    \* bound: removals
    MaxKept,        \* bound: removals whose write fails
    MaxSweeps,      \* bound: withdrawals of a right, and changes of the library's type
    MaxRestarts     \* bound: orderly restarts

Kinds == {"direct", "lazy", "profile"}

ASSUME QueueAssumption ==
    /\ IsFiniteSet(Jobs) /\ Stored \in Seq(Jobs) /\ IsInjective(Stored)
    /\ Kind \in [Jobs -> Kinds]
    /\ None \notin Hosts /\ Host \in [Jobs -> Hosts]
    /\ Limit \in Nat \ {0} /\ PerProvider \in Nat \ {0}
    /\ RetryLimit \in Nat /\ SourceLimit \in Nat \ {0}
    /\ {MaxFaults, MaxStorage, MaxPauses, MaxResumes, MaxRemovals, MaxKept, MaxSweeps, MaxRestarts} \subseteq Nat

VARIABLES
    jobs,           \* the list, in the order the pump reads it
    status, reason, \* of each row, and who holds a paused one
    stream,         \* the host of the chosen source, or None
    bound,          \* the rows that name the library they go to
    tried,          \* the sources a row has given up on
    retry,          \* retryCount
    later,          \* the rows whose notBefore has not come
    at,             \* the stage the run of a row awaits in, or "idle"
    why,            \* what a failing run met
    aborted,        \* runs whose controller was aborted
    pauseRequested, \* pauseRequested
    halt,           \* the queue is halted for storage
    room,           \* the disk has room
    library,        \* "accepts" or "refuses" the kind of the rows that go to it
    allowed,        \* the rows whose owner may still download them
    resuming,       \* resumes between their request and their last await: the row, and whether it named a library
    waking,         \* rows the library watch has listed and not looked at yet
    out,            \* the removal whose write is under way: the row and its place, or Nothing
    pumpDue,        \* a pump is requested, or a closing run is about to request it
    retryTimer,     \* the timer that pumps after a retry delay
    spent,          \* what the bounds have been spent on
    userPaused      \* history: rows a person paused and nobody resumed

row == <<status, reason>>
choice == <<stream, bound, tried>>
runs == <<at, why, aborted, pauseRequested>>
disk == <<halt, room>>
rights == <<library, allowed>>
asks == <<resuming, waking, out>>
timers == <<pumpDue, retryTimer>>
vars == <<jobs, row, choice, retry, later, runs, disk, rights, asks, timers, spent, userPaused>>

Statuses == {"queued", "checking", "downloading", "paused", "completed", "failed"}
Reasons == {"none", "user", "storage", "library", "permission"}
Stages == {"idle", "starting", "resolving", "chosen", "moving", "failing", "tidying", "publishing", "announcing"}
Errors == {"transient", "stale", "noranges", "source", "storage"}
Tidyings == {"busy", "again", "next", "exhausted", "stale", "noranges", "storage"}
Nothing == [job |-> None]
Bounds == {"faults", "storage", "pauses", "resumes", "removals", "kept", "sweeps", "restarts"}

Listed == {jobs[i] : i \in DOMAIN jobs}
Active == {j \in Jobs : at[j] # "idle"}
Profile(j) == Kind[j] = "profile"

Spend(kind, most) == spent[kind] < most /\ spent' = [spent EXCEPT ![kind] = @ + 1]

-----------------------------------------------------------------------------
(* What changes a row.                                                     *)

SetStatus(j, s) == status' = [status EXCEPT ![j] = s]
Row(j, s, r) == SetStatus(j, s) /\ reason' = [reason EXCEPT ![j] = r]

\* clearLazyChoice(): the row has no source any more, and names no library.
Drop(j) ==
    /\ stream' = [stream EXCEPT ![j] = None]
    /\ bound' = bound \ {j}
    /\ UNCHANGED tried

\* discardProfileSelection(): the budgets of the source go with it.
Chosen(j) == Profile(j) /\ stream[j] # None
NoRetries(S) == retry' = [j \in Jobs |-> IF j \in S THEN 0 ELSE retry[j]]
Discard(j) == Drop(j) /\ NoRetries({j})

\* What ownerRefusal() answers, from the library and the rights as they are now.
LibraryRefuses(j) == library = "refuses" /\ j \in bound
Refusal(j) ==
    IF LibraryRefuses(j) THEN "library" ELSE IF j \notin allowed THEN "permission" ELSE "none"

\* pauseForRefusal(): a row whose source is still being looked for gives it up.
Searching(j) == status[j] = "checking" /\ Kind[j] # "direct"
GivesUp(j, r) == r = "permission" /\ Searching(j)
PauseFor(j, r) ==
    /\ Row(j, "paused", r)
    /\ stream' = IF GivesUp(j, r) THEN [stream EXCEPT ![j] = None] ELSE stream
    /\ bound' = IF r = "library" THEN bound \union {j} ELSE IF GivesUp(j, r) THEN bound \ {j} ELSE bound
    /\ UNCHANGED tried

\* Slip: the run is left to find out by itself.
Stop_Later(S) == pauseRequested' = pauseRequested \union (S \intersect Active) /\ UNCHANGED aborted
\* Aborting the run of a row and remembering that a pause was asked of it.
Stop(S) ==
    /\ aborted' = aborted \union (S \intersect Active)
    /\ pauseRequested' = pauseRequested \union (S \intersect Active)

-----------------------------------------------------------------------------
(* pump(): rows are taken in order while a slot is free, and no more from  *)
(* one host than it is allowed.                                            *)

HostLimit(h) == IF h = None THEN 1 ELSE PerProvider
From(h, S) == Cardinality({j \in S : stream[j] = h})

Ready(j) == status[j] = "queued" /\ j \notin Active /\ j \notin later

\* Slip: the rows taken by this very pump are not counted.
Fits_AtStart(j, taken) ==
    /\ Cardinality(Active) < Limit
    /\ From(stream[j], Active \intersect Listed) < HostLimit(stream[j])
Fits(j, taken) ==
    /\ Cardinality(Active) + Cardinality(taken) < Limit
    /\ From(stream[j], Active \intersect Listed) + From(stream[j], taken) < HostLimit(stream[j])

\* The loop stops at the first row that does not find a free slot, but passes over a row
\* whose host is taken: S is what it has started when it ends.
Picked(S) ==
    \A i \in DOMAIN jobs :
        jobs[i] \in S <=> Ready(jobs[i]) /\ Fits(jobs[i], S \intersect {jobs[k] : k \in 1..(i - 1)})

\* Slip: the halt is not looked at.
Halted_Ignored == FALSE
Halted == halt

\* The first stretch of download(), up to its first save.
Started(S) ==
    /\ at' = [j \in Jobs |-> IF j \in S THEN "starting" ELSE at[j]]
    /\ status' = [j \in Jobs |-> IF j \notin S THEN status[j]
                                 ELSE IF stream[j] = None THEN "checking" ELSE "downloading"]
    /\ reason' = [j \in Jobs |-> IF j \in S THEN "none" ELSE reason[j]]

Rearm == retryTimer \/ \E j \in Listed : status[j] = "queued" /\ j \notin Active /\ j \in later

Pump ==
    /\ pumpDue /\ pumpDue' = FALSE
    /\ \/ Halted /\ UNCHANGED <<row, at, retryTimer>>
       \/ /\ ~Halted
          /\ \E S \in SUBSET Listed : Picked(S) /\ Started(S)
          /\ retryTimer' = Rearm
    /\ UNCHANGED <<jobs, choice, retry, later, why, aborted, pauseRequested, disk, rights, asks, spent, userPaused>>

RetryTimer ==
    /\ retryTimer /\ retryTimer' = FALSE /\ pumpDue' = TRUE
    /\ UNCHANGED <<jobs, row, choice, retry, later, runs, disk, rights, asks, spent, userPaused>>

Elapsed(j) ==
    /\ j \in later /\ later' = later \ {j}
    /\ UNCHANGED <<jobs, row, choice, retry, runs, disk, rights, asks, timers, spent, userPaused>>

-----------------------------------------------------------------------------
(* How a run ends: the finally of download(). A run that has set the retry *)
(* timer does not pump.                                                    *)

\* Slip: the pause that was asked for outlives the run.
Idle_Keeps(j) == at' = [at EXCEPT ![j] = "idle"] /\ aborted' = aborted \ {j} /\ UNCHANGED <<why, pauseRequested>>
Idle(j) ==
    /\ at' = [at EXCEPT ![j] = "idle"]
    /\ aborted' = aborted \ {j}
    /\ pauseRequested' = pauseRequested \ {j}
    /\ UNCHANGED why
\* Slip: a run that did not set the timer does not pump either.
Close_Quietly(j) == Idle(j) /\ UNCHANGED timers
Close(j) == Idle(j) /\ pumpDue' = TRUE /\ UNCHANGED retryTimer
CloseLater(j) == Idle(j) /\ retryTimer' = TRUE /\ UNCHANGED pumpDue

Goto(j, stage) ==
    /\ at' = [at EXCEPT ![j] = stage]
    /\ UNCHANGED <<why, aborted, pauseRequested, timers>>
Meet(j, stage, e) ==
    /\ at' = [at EXCEPT ![j] = stage] /\ why' = [why EXCEPT ![j] = e]
    /\ UNCHANGED <<aborted, pauseRequested, timers>>

\* What a stage of a run leaves alone.
Others == UNCHANGED <<jobs, disk, rights, asks, userPaused>>

\* throwIfAborted(), or a transfer that the abort cut: AbortError, to the catch.
Stopped(j) ==
    /\ at[j] \in {"starting", "resolving", "moving"} /\ j \in aborted
    /\ Meet(j, "failing", "transient")
    /\ UNCHANGED <<row, choice, retry, later, spent>> /\ Others

\* The right or the library is refused at one of the checks along the way.
Refused(j) ==
    /\ \/ at[j] = "starting"
       \/ at[j] = "resolving"
       \/ at[j] = "moving" /\ Profile(j)
    /\ j \notin aborted /\ Refusal(j) # "none"
    /\ PauseFor(j, Refusal(j)) /\ Close(j)
    /\ UNCHANGED <<retry, later, spent>> /\ Others

-----------------------------------------------------------------------------
(* resolve(): a row without a source asks for one.                         *)

Resolve(j) ==
    /\ at[j] = "starting" /\ j \notin aborted /\ Refusal(j) = "none" /\ stream[j] = None
    /\ \/ Profile(j) /\ tried[j] = SourceLimit /\ SetStatus(j, "failed") /\ Close(j)
       \/ ~(Profile(j) /\ tried[j] = SourceLimit) /\ Goto(j, "resolving") /\ UNCHANGED status
    /\ UNCHANGED <<reason, choice, retry, later, spent>> /\ Others

NoneFound(j) ==
    /\ at[j] = "resolving" /\ j \notin aborted
    /\ \/ Kind[j] = "lazy" /\ Refusal(j) = "none" /\ Meet(j, "failing", "source") /\ UNCHANGED status
       \/ Profile(j) /\ SetStatus(j, "failed") /\ Close(j)
    /\ UNCHANGED <<reason, choice, retry, later, spent>> /\ Others

\* The lookup broke off: a profile row saves that it asks again after a delay.
LookupBreaks(j) ==
    /\ at[j] = "resolving" /\ j \notin aborted /\ Spend("faults", MaxFaults)
    /\ \/ Meet(j, "failing", "transient")
       \/ Profile(j) /\ Meet(j, "tidying", "again")
    /\ UNCHANGED <<row, choice, retry, later>> /\ Others

SourceFound(j, h) ==
    /\ at[j] = "resolving" /\ j \notin aborted /\ tried[j] < SourceLimit
    /\ library = "accepts" /\ j \in allowed
    /\ stream' = [stream EXCEPT ![j] = h] /\ bound' = bound \union {j}
    /\ Goto(j, "chosen")
    /\ UNCHANGED <<row, tried, retry, later, spent>> /\ Others

\* resolveLibrary() throws, and the catch pauses the row before anything is awaited.
NoLibrary(j) ==
    /\ at[j] = "resolving" /\ j \notin aborted /\ library = "refuses"
    /\ PauseFor(j, "library") /\ Close(j)
    /\ UNCHANGED <<retry, later, spent>> /\ Others

\* The choice is saved; a pause or a refusal that came meanwhile drops it again.
ChoiceDropped(j) ==
    /\ at[j] = "chosen" /\ (j \in aborted \/ Refusal(j) # "none")
    /\ stream' = [stream EXCEPT ![j] = None] /\ UNCHANGED tried
    /\ IF Refusal(j) = "none" THEN UNCHANGED row ELSE Row(j, "paused", Refusal(j))
    /\ bound' = IF Refusal(j) = "library" THEN bound ELSE bound \ {j}
    /\ NoRetries({j} \intersect {k \in Jobs : Profile(k)})
    /\ Close(j)
    /\ UNCHANGED <<later, spent>> /\ Others

-----------------------------------------------------------------------------
(* The transfer.                                                           *)

HostBusy(j) == From(stream[j], (Active \intersect Listed) \ {j}) >= HostLimit(stream[j])

Known(j) ==
    /\ at[j] = "chosen" \/ (at[j] = "starting" /\ stream[j] # None)
    /\ j \notin aborted /\ Refusal(j) = "none"

Transfer(j) ==
    /\ Known(j) /\ ~HostBusy(j) /\ stream[j] # None
    /\ SetStatus(j, "downloading") /\ Goto(j, "moving")
    /\ UNCHANGED <<reason, choice, retry, later, spent>> /\ Others

\* The library watch took the source away meanwhile.
SourceGone(j) ==
    /\ Known(j) /\ ~HostBusy(j) /\ stream[j] = None
    /\ SetStatus(j, "downloading") /\ Meet(j, "failing", "transient")
    /\ UNCHANGED <<reason, choice, retry, later, spent>> /\ Others

\* The host is at its limit: the row goes back to the queue, a profile row without its source.
HostTaken(j) ==
    /\ Known(j) /\ HostBusy(j)
    /\ \/ Profile(j) /\ SetStatus(j, "downloading") /\ Discard(j) /\ Meet(j, "tidying", "busy")
       \/ ~Profile(j) /\ SetStatus(j, "queued") /\ Close(j) /\ UNCHANGED <<choice, retry>>
    /\ UNCHANGED <<reason, later, spent>> /\ Others

\* Once enough has moved the earlier drops are settled.
Recover(j) ==
    /\ at[j] = "moving" /\ retry[j] > 0 /\ retry' = [retry EXCEPT ![j] = 0]
    /\ UNCHANGED <<row, choice, later, runs, timers, spent>> /\ Others

\* publicationLive(): nothing stopped the run meanwhile.
Live(j) ==
    j \notin aborted /\ j \in Listed /\ status[j] = "downloading" /\ j \notin pauseRequested

\* A connection, an answer or a write fails, or the rename of the finished file.
TransferBreaks(j, e) ==
    /\ j \notin aborted
    /\ at[j] = "moving" \/ (at[j] = "publishing" /\ Live(j) /\ e \in {"transient", "storage"})
    /\ Meet(j, "failing", e)
    /\ IF e = "storage" THEN Spend("storage", MaxStorage) /\ room' \in BOOLEAN
                        ELSE Spend("faults", MaxFaults) /\ UNCHANGED room
    /\ UNCHANGED <<jobs, row, choice, retry, later, halt, rights, asks, userPaused>>

TransferEnds(j) ==
    /\ at[j] = "moving" /\ j \notin aborted
    /\ Goto(j, "publishing")
    /\ UNCHANGED <<row, choice, retry, later, spent>> /\ Others

-----------------------------------------------------------------------------
(* commit(): the file is published only while the run is live.             *)

Withdrawn(j) == LibraryRefuses(j) \/ (Profile(j) /\ j \notin allowed)

PublicationStopped(j) ==
    /\ at[j] = "publishing" /\ ~Live(j) /\ Close(j)
    /\ UNCHANGED <<row, choice, retry, later, spent>> /\ Others

PublicationRefused(j) ==
    /\ at[j] = "publishing" /\ Live(j) /\ Withdrawn(j)
    /\ PauseFor(j, Refusal(j)) /\ Close(j)
    /\ UNCHANGED <<retry, later, spent>> /\ Others

Publish(j) ==
    /\ at[j] = "publishing" /\ Live(j) /\ ~Withdrawn(j)
    /\ SetStatus(j, "completed") /\ retry' = [retry EXCEPT ![j] = 0]
    /\ Goto(j, "announcing")
    /\ UNCHANGED <<reason, choice, later, spent>> /\ Others

\* onCompleted has answered.
Announced(j) ==
    /\ at[j] = "announcing" /\ Close(j)
    /\ UNCHANGED <<row, choice, retry, later, spent>> /\ Others

-----------------------------------------------------------------------------
(* The catch of download(): the rights are asked again, then the failure   *)
(* is classified, and what it leads to may await the deletion of a file.   *)

\* haltForStorage(): every row that runs is paused and stopped, whatever it is doing.
HaltFor(j) ==
    LET hit == {k \in Listed : k \in Active \/ status[k] = "downloading"} IN
    /\ halt' = TRUE /\ UNCHANGED room
    /\ status' = [k \in Jobs |-> IF k \in hit THEN "paused" ELSE status[k]]
    /\ reason' = [k \in Jobs |-> IF k \in hit THEN "storage" ELSE reason[k]]
    /\ at' = [at EXCEPT ![j] = "idle"]
    /\ aborted' = (aborted \union (hit \intersect Active)) \ {j}
    /\ pauseRequested' = (pauseRequested \union (hit \intersect Active)) \ {j}
    /\ pumpDue' = TRUE /\ UNCHANGED <<why, retryTimer>>

KeptReason(j) == IF reason[j] = "none" THEN "user" ELSE reason[j]

CatchRefused(j) ==
    /\ at[j] = "failing"
    /\ \/ LibraryRefuses(j) /\ PauseFor(j, "library")
       \/ ~LibraryRefuses(j) /\ Profile(j) /\ j \notin allowed /\ PauseFor(j, "permission")
    /\ Close(j)
    /\ UNCHANGED <<retry, later, spent>> /\ Others

\* Slip: the pause is taken for a dropped connection.
PauseAsked_Never(j) == FALSE
PauseAsked(j) == j \in pauseRequested

CatchPaused(j) ==
    /\ at[j] = "failing" /\ ~Withdrawn(j) /\ PauseAsked(j)
    /\ Row(j, "paused", KeptReason(j)) /\ Close(j)
    /\ UNCHANGED <<choice, retry, later, spent>> /\ Others

Caught(j) == at[j] = "failing" /\ ~Withdrawn(j) /\ ~PauseAsked(j)

CatchStorage(j) ==
    /\ Caught(j) /\ why[j] = "storage"
    /\ \/ Chosen(j) /\ Discard(j) /\ Meet(j, "tidying", "storage") /\ UNCHANGED <<row, disk>>
       \/ ~Chosen(j) /\ HaltFor(j) /\ UNCHANGED <<choice, retry>>
    /\ UNCHANGED <<jobs, later, rights, asks, spent, userPaused>>

\* A profile row gives its source up whatever the failure was.
CatchProfile(j) ==
    /\ Caught(j) /\ why[j] # "storage" /\ Chosen(j)
    /\ stream' = [stream EXCEPT ![j] = None] /\ bound' = bound \ {j}
    /\ tried' = [tried EXCEPT ![j] = @ + 1] /\ NoRetries({j})
    /\ Meet(j, "tidying", IF tried[j] + 1 = SourceLimit THEN "exhausted" ELSE "next")
    /\ UNCHANGED <<row, later, spent>> /\ Others

Dropped(j) == why[j] \in {"transient", "stale"} /\ retry[j] < RetryLimit

\* The part file does not fit what the source serves, and is deleted first.
CatchUnfit(j) ==
    /\ Caught(j) /\ ~Chosen(j)
    /\ \/ why[j] = "noranges"
       \/ why[j] = "stale" /\ Dropped(j)
    /\ Meet(j, "tidying", why[j])
    /\ UNCHANGED <<row, choice, retry, later, spent>> /\ Others

Budget(j) == retry' = [retry EXCEPT ![j] = @ + 1]

CatchRetry(j) ==
    /\ Caught(j) /\ ~Chosen(j) /\ why[j] = "transient" /\ Dropped(j)
    /\ Budget(j) /\ later' = later \union {j}
    /\ SetStatus(j, "queued") /\ CloseLater(j)
    /\ UNCHANGED <<reason, choice, spent>> /\ Others

Spent(j) == ~Chosen(j) /\ ~Dropped(j) /\ why[j] \notin {"storage", "noranges"}
CanTryNext(j) == Kind[j] = "lazy" /\ stream[j] # None

CatchNext(j) ==
    /\ Caught(j) /\ Spent(j) /\ CanTryNext(j)
    /\ tried' = [tried EXCEPT ![j] = @ + 1] /\ UNCHANGED <<stream, bound>>
    /\ Meet(j, "tidying", "next")
    /\ UNCHANGED <<row, retry, later, spent>> /\ Others

CatchFailed(j) ==
    /\ Caught(j) /\ Spent(j) /\ ~CanTryNext(j)
    /\ SetStatus(j, "failed") /\ Close(j)
    /\ UNCHANGED <<reason, choice, retry, later, spent>> /\ Others

\* The files are gone. What follows does not look at what came meanwhile.
TidiedHalt(j) ==
    /\ at[j] = "tidying" /\ why[j] = "storage" /\ HaltFor(j)
    /\ UNCHANGED <<jobs, choice, retry, later, rights, asks, spent, userPaused>>

TidiedFailed(j) ==
    /\ at[j] = "tidying" /\ why[j] = "exhausted"
    /\ SetStatus(j, "failed") /\ Close(j)
    /\ UNCHANGED <<reason, choice, retry, later, spent>> /\ Others

TidiedQueued(j) ==
    /\ at[j] = "tidying" /\ why[j] \in {"busy", "again", "next", "stale", "noranges"}
    /\ SetStatus(j, "queued")
    /\ stream' = IF why[j] = "next" THEN [stream EXCEPT ![j] = None] ELSE stream
    /\ IF why[j] = "stale" THEN Budget(j) ELSE IF why[j] = "next" THEN NoRetries({j}) ELSE UNCHANGED retry
    /\ later' = IF why[j] \in {"again", "stale"} \/ (why[j] = "next" /\ Profile(j)) THEN later \union {j} ELSE later
    /\ IF why[j] \in {"busy", "again"} THEN Close(j) ELSE CloseLater(j)
    /\ UNCHANGED <<reason, bound, tried, spent>> /\ Others

-----------------------------------------------------------------------------
(* What people do.                                                         *)

Pause(j) ==
    /\ j \in Listed /\ status[j] # "completed" /\ Spend("pauses", MaxPauses)
    /\ Row(j, "paused", "user") /\ Stop({j})
    /\ userPaused' = userPaused \union {j}
    /\ UNCHANGED <<jobs, choice, retry, later, at, why, disk, rights, asks, timers>>

Resuming == {r[1] : r \in resuming}

\* retry() is a resume of a failed row with its budgets restored.
AskResume(j, anew) ==
    /\ j \in Listed /\ j \notin Resuming /\ Spend("resumes", MaxResumes)
    /\ status[j] \in (IF anew THEN {"failed"} ELSE {"paused", "failed"})
    /\ resuming' = resuming \union {<<j, j \in bound>>}
    /\ LET profile == {j} \intersect {k \in Jobs : Chosen(k)} IN
        /\ stream' = IF Chosen(j) THEN [stream EXCEPT ![j] = None] ELSE stream
        /\ bound' = bound \ profile
        /\ NoRetries(IF anew THEN {j} ELSE profile)
    /\ tried' = IF anew THEN [tried EXCEPT ![j] = 0] ELSE tried
    /\ later' = IF anew THEN later \ {j} ELSE later
    /\ UNCHANGED <<jobs, row, runs, disk, rights, waking, out, timers, userPaused>>

\* Slip: only the row that was resumed leaves the halt.
Group_One == {}
\* releaseStorageHalt(): the halted rows go back to the queue together.
Group == {k \in Listed : status[k] = "paused" /\ reason[k] = "storage"}

Requeue(S) ==
    /\ status' = [k \in Jobs |-> IF k \in S THEN "queued" ELSE status[k]]
    /\ reason' = [k \in Jobs |-> IF k \in S THEN "none" ELSE reason[k]]
    /\ later' = later \ S

\* A row that waited for its library names it again before the room on the disk is asked for.
Waited(j) == <<j, TRUE>> \in resuming /\ reason[j] = "library"
NoHome(j) == Waited(j) /\ library = "refuses"
NoRoom(j) == (halt \/ reason[j] = "storage") /\ ~room
Named(j) == bound' = IF Waited(j) THEN bound \union {j} ELSE bound

Resume(j) ==
    /\ j \in Resuming /\ resuming' = {r \in resuming : r[1] # j}
    /\ \/ /\ Refusal(j) # "none" /\ PauseFor(j, Refusal(j))
          /\ UNCHANGED <<later, pauseRequested, disk, timers, userPaused>>
       \/ /\ Refusal(j) = "none" /\ (NoHome(j) \/ NoRoom(j))
          /\ IF NoHome(j) THEN UNCHANGED bound ELSE Named(j)
          /\ UNCHANGED <<row, stream, tried, later, pauseRequested, disk, timers, userPaused>>
       \/ /\ Refusal(j) = "none" /\ ~NoHome(j) /\ ~NoRoom(j) /\ Named(j)
          /\ LET free == IF halt \/ reason[j] = "storage" THEN Group ELSE {}
                 mine == IF status[j] \in {"paused", "failed"} THEN {j} ELSE {} IN
                /\ Requeue(free \union mine)
                /\ halt' = FALSE
                /\ userPaused' = userPaused \ {j}
          /\ pauseRequested' = pauseRequested \ {j}
          /\ pumpDue' = TRUE
          /\ UNCHANGED <<stream, tried, room, retryTimer>>
    /\ UNCHANGED <<jobs, retry, at, why, aborted, rights, waking, out, spent>>

Place(j) == CHOOSE i \in DOMAIN jobs : jobs[i] = j

\* remove(): the row leaves the list when its write takes its turn.
AskRemove(j) ==
    /\ j \in Listed /\ out = Nothing /\ Spend("removals", MaxRemovals)
    /\ out' = [job |-> j, place |-> Place(j)]
    /\ jobs' = RemoveAt(jobs, Place(j))
    /\ UNCHANGED <<row, choice, retry, later, runs, disk, rights, resuming, waking, timers, userPaused>>

\* Slip: the run of the row is not stopped.
Removed_Running ==
    /\ out # Nothing /\ out' = Nothing /\ pumpDue' = TRUE
    /\ UNCHANGED <<jobs, row, choice, retry, later, runs, disk, rights, resuming, waking,
                   retryTimer, spent, userPaused>>
Removed ==
    /\ out # Nothing /\ out' = Nothing
    /\ aborted' = aborted \union ({out.job} \intersect Active)
    /\ pumpDue' = TRUE
    /\ UNCHANGED <<jobs, row, choice, retry, later, at, why, pauseRequested, disk, rights, resuming, waking,
                   retryTimer, spent, userPaused>>

Kept ==
    /\ out # Nothing /\ out' = Nothing /\ Spend("kept", MaxKept)
    /\ jobs' = InsertAt(jobs, IF out.place > Len(jobs) THEN Len(jobs) + 1 ELSE out.place, out.job)
    /\ UNCHANGED <<row, choice, retry, later, runs, disk, rights, resuming, waking, timers, userPaused>>

\* move(): a row changes places with a neighbour.
Move(i) ==
    /\ i \in 1..(Len(jobs) - 1)
    /\ jobs' = [jobs EXCEPT ![i] = jobs[i + 1], ![i + 1] = jobs[i]]
    /\ pumpDue' = TRUE
    /\ UNCHANGED <<row, choice, retry, later, runs, disk, rights, asks, retryTimer, spent, userPaused>>

-----------------------------------------------------------------------------
(* Rights and the library. A right that is withdrawn, or a library that    *)
(* changes its type, is followed by a sweep over the rows it concerns.     *)

InPlay == {j \in Listed : status[j] \in {"queued", "checking", "downloading"}}

\* Slip: the sweep does not look at what a row is doing.
Swept_All(S) == S \intersect Listed
Swept(S) == S \intersect InPlay

Withdraw(j) ==
    /\ j \in allowed /\ Spend("sweeps", MaxSweeps) /\ allowed' = allowed \ {j}
    /\ UNCHANGED <<jobs, row, choice, retry, later, runs, disk, library, asks, timers, userPaused>>

Grant(j) ==
    /\ j \notin allowed /\ allowed' = allowed \union {j}
    /\ UNCHANGED <<jobs, row, choice, retry, later, runs, disk, library, asks, timers, spent, userPaused>>

\* pauseMatching() over the rows that lost their right.
PauseMatching ==
    LET hit == Swept(Jobs \ allowed)
        searching == {j \in hit : Searching(j)} IN
    /\ hit # {}
    /\ status' = [j \in Jobs |-> IF j \in hit THEN "paused" ELSE status[j]]
    /\ reason' = [j \in Jobs |-> IF j \in hit THEN "permission" ELSE reason[j]]
    /\ stream' = [j \in Jobs |-> IF j \in searching THEN None ELSE stream[j]]
    /\ bound' = bound \ searching
    /\ Stop(hit) /\ pumpDue' = TRUE
    /\ UNCHANGED <<jobs, tried, retry, later, at, why, disk, rights, asks, retryTimer, spent, userPaused>>

ChangeType ==
    /\ \/ library = "accepts" /\ Spend("sweeps", MaxSweeps) /\ library' = "refuses"
       \/ library = "refuses" /\ library' = "accepts" /\ UNCHANGED spent
    /\ UNCHANGED <<jobs, row, choice, retry, later, runs, disk, allowed, asks, timers, userPaused>>

\* pauseIncompatibleLibraryJobs().
PauseIncompatible ==
    LET hit == Swept(bound) IN
    /\ library = "refuses" /\ hit # {}
    /\ status' = [j \in Jobs |-> IF j \in hit THEN "paused" ELSE status[j]]
    /\ reason' = [j \in Jobs |-> IF j \in hit THEN "library" ELSE reason[j]]
    /\ Stop(hit) /\ pumpDue' = TRUE
    /\ UNCHANGED <<jobs, choice, retry, later, at, why, disk, rights, asks, retryTimer, spent, userPaused>>

\* The library watch lists the rows that wait, and then asks for each of them: what came in
\* between is not looked at (wakeLibraries()).
WatchLibraries ==
    /\ waking = {}
    /\ waking' = {j \in Listed \intersect bound : status[j] = "paused" /\ reason[j] = "library"}
    /\ waking' # {}
    /\ UNCHANGED <<jobs, row, choice, retry, later, runs, disk, rights, resuming, out, timers, spent, userPaused>>

Wake(j) ==
    /\ j \in waking /\ waking' = waking \ {j}
    /\ \/ library = "refuses" /\ UNCHANGED <<row, choice, retry, timers>>
       \/ /\ library = "accepts" /\ Row(j, "queued", "none")
          /\ stream' = IF Chosen(j) THEN [stream EXCEPT ![j] = None] ELSE stream
          /\ NoRetries({j} \intersect {k \in Jobs : Chosen(k)})
          /\ pumpDue' = TRUE /\ UNCHANGED <<bound, tried, retryTimer>>
    /\ UNCHANGED <<jobs, later, runs, disk, rights, resuming, out, spent, userPaused>>

-----------------------------------------------------------------------------
(* The space watch, and an orderly restart.                                *)

RoomBack ==
    /\ ~room /\ room' = TRUE
    /\ UNCHANGED <<jobs, row, choice, retry, later, runs, halt, rights, asks, timers, spent, userPaused>>

CheckSpace ==
    /\ halt /\ room /\ halt' = FALSE /\ UNCHANGED room
    /\ Requeue(Group)
    /\ pumpDue' = TRUE
    /\ UNCHANGED <<jobs, choice, retry, runs, rights, asks, retryTimer, spent, userPaused>>

\* Slip: rows that were running are loaded as they were stored.
Reloaded_AsIs(j) == status[j]
Reloaded(j) == IF status[j] \in {"checking", "downloading"} THEN "queued" ELSE status[j]

\* A row that has noted its source as tried and not let go of it yet is stored with both: the
\* source is the next one again, and noting it a second time adds nothing.
GivenUp(j) == at[j] = "tidying" /\ why[j] = "next" /\ stream[j] # None

\* The process is told to end, its state is flushed, and load() reads it again.
Restart ==
    /\ out = Nothing /\ Spend("restarts", MaxRestarts)
    /\ status' = [j \in Jobs |-> Reloaded(j)] /\ UNCHANGED reason
    /\ LET anew == {j \in Listed : Chosen(j) /\ status[j] # "completed"} IN
        /\ stream' = [j \in Jobs |-> IF j \in anew THEN None ELSE stream[j]]
        /\ bound' = bound \ anew /\ NoRetries(anew)
    /\ at' = [j \in Jobs |-> "idle"] /\ aborted' = {} /\ pauseRequested' = {}
    /\ later' = {} /\ resuming' = {} /\ waking' = {}
    /\ halt' = (Group # {})
    /\ pumpDue' = TRUE /\ retryTimer' = FALSE
    /\ tried' = [j \in Jobs |-> IF GivenUp(j) THEN tried[j] - 1 ELSE tried[j]]
    /\ UNCHANGED <<jobs, why, room, rights, out, userPaused>>

-----------------------------------------------------------------------------

Init ==
    /\ jobs = Stored
    /\ status = [j \in Jobs |-> "queued"] /\ reason = [j \in Jobs |-> "none"]
    /\ stream = [j \in Jobs |-> IF Kind[j] = "direct" THEN Host[j] ELSE None]
    /\ bound = {j \in Jobs : Kind[j] = "direct"}
    /\ tried = [j \in Jobs |-> 0] /\ retry = [j \in Jobs |-> 0] /\ later = {}
    /\ at = [j \in Jobs |-> "idle"] /\ why = [j \in Jobs |-> "transient"]
    /\ aborted = {} /\ pauseRequested = {}
    /\ halt = FALSE /\ room = TRUE /\ library = "accepts" /\ allowed = Jobs
    /\ resuming = {} /\ waking = {} /\ out = Nothing
    /\ pumpDue = TRUE /\ retryTimer = FALSE
    /\ spent = [k \in Bounds |-> 0]
    /\ userPaused = {}

\* The steps of the run of a row.
Run(j) ==
    \/ Stopped(j) \/ Refused(j) \/ Resolve(j) \/ NoneFound(j) \/ NoLibrary(j) \/ ChoiceDropped(j)
    \/ LookupBreaks(j)
    \/ \E h \in Hosts : SourceFound(j, h)
    \/ Transfer(j) \/ SourceGone(j) \/ HostTaken(j) \/ TransferEnds(j)
    \/ \E e \in Errors : TransferBreaks(j, e)
    \/ PublicationStopped(j) \/ PublicationRefused(j) \/ Publish(j) \/ Announced(j)
    \/ CatchRefused(j) \/ CatchPaused(j) \/ CatchStorage(j) \/ CatchProfile(j) \/ CatchUnfit(j)
    \/ CatchRetry(j) \/ CatchNext(j) \/ CatchFailed(j)
    \/ TidiedHalt(j) \/ TidiedFailed(j) \/ TidiedQueued(j)

People(j) ==
    \/ Pause(j) \/ AskRemove(j) \/ Resume(j)
    \/ \E anew \in BOOLEAN : AskResume(j, anew)

Next ==
    \/ Pump \/ RetryTimer
    \/ \E j \in Jobs : Elapsed(j) \/ Run(j) \/ Recover(j) \/ People(j) \/ Withdraw(j) \/ Grant(j) \/ Wake(j)
    \/ \E i \in DOMAIN jobs : Move(i)
    \/ Removed \/ Kept
    \/ PauseMatching \/ ChangeType \/ PauseIncompatible \/ WatchLibraries
    \/ RoomBack \/ CheckSpace \/ Restart

Spec == Init /\ [][Next]_vars

\* Every await ends, timers fire, retry delays pass and the watches keep looking. Nothing is
\* assumed of people, of the library or of the rights; a full disk is emptied.
Fairness ==
    /\ WF_vars(Pump) /\ WF_vars(RetryTimer)
    /\ \A j \in Jobs : WF_vars(Elapsed(j)) /\ WF_vars(Run(j)) /\ WF_vars(Resume(j)) /\ WF_vars(Wake(j))
    /\ WF_vars(Removed \/ Kept)
    /\ WF_vars(WatchLibraries) /\ WF_vars(CheckSpace) /\ WF_vars(RoomBack)

FairSpec == Spec /\ Fairness

-----------------------------------------------------------------------------
(* Properties.                                                             *)

TypeOK ==
    /\ jobs \in Seq(Jobs)
    /\ status \in [Jobs -> Statuses] /\ reason \in [Jobs -> Reasons]
    /\ stream \in [Jobs -> Hosts \union {None}] /\ bound \subseteq Jobs
    /\ tried \in [Jobs -> 0..SourceLimit] /\ retry \in [Jobs -> 0..RetryLimit] /\ later \subseteq Jobs
    /\ at \in [Jobs -> Stages] /\ why \in [Jobs -> Errors \union Tidyings]
    /\ aborted \subseteq Active /\ pauseRequested \subseteq Active
    /\ halt \in BOOLEAN /\ room \in BOOLEAN
    /\ library \in {"accepts", "refuses"} /\ allowed \subseteq Jobs
    /\ resuming \subseteq Jobs \X BOOLEAN /\ waking \subseteq Jobs
    /\ out \in {Nothing} \union [job : Jobs, place : Nat \ {0}]
    /\ pumpDue \in BOOLEAN /\ retryTimer \in BOOLEAN
    /\ spent \in [Bounds -> Nat] /\ userPaused \subseteq Jobs

Transfers == {j \in Jobs : at[j] = "moving" /\ j \notin aborted}

\* No more transfers than the settings allow run at once, and no more than they allow from
\* one host, although the host of a row may become known only after it was started (pump(),
\* busy(), the check before a transfer).
SettingsAreKept ==
    /\ Cardinality(Active) <= Limit
    /\ \A h \in Hosts : From(h, Transfers) <= PerProvider

\* A row that is shown as running has a run: nothing leaves it behind as "downloading" when
\* its run has ended.
ShownRunningIsRunning ==
    \A j \in Listed : status[j] \in {"checking", "downloading"} => j \in Active

\* A paused row has no live run: whoever paused it has stopped the run as well.
PausedIsStopped == \A j \in Listed : status[j] = "paused" /\ at[j] \in {"moving", "publishing"} => j \in aborted

\* A removed row has no live run that would still write or publish a file for it.
RemovedIsStopped ==
    \A j \in Jobs \ (Listed \union {out.job}) : at[j] \in {"moving", "publishing"} => j \in aborted

\* While the queue is halted for storage every run has been told to stop.
HaltStopsAll == halt => Active \intersect Listed \subseteq aborted

\* A row that the halt paused is not left behind: the halt, and with it the space watch, is
\* there as long as such a row is.
HaltedRowsAreWatched == \A j \in Listed : status[j] = "paused" /\ reason[j] = "storage" => halt

\* A pause by a person holds until a person resumes the row.
PauseHolds == \A j \in userPaused \intersect Listed : status[j] = "paused" /\ reason[j] = "user"

\* What may take a row out of a person's pause: a resume, the library watch that listed the
\* row before, a halt or a refusal met by its unwinding run, and a run that was already
\* deleting files when the pause came. Nothing else: not the pump, the retry timer, the
\* space watch, a sweep, a lookup, a transfer or a restart.
PauseIsLeftBy ==
    [][\A j \in Jobs :
        status[j] = "paused" /\ reason[j] = "user" /\ ~(status'[j] = "paused" /\ reason'[j] = "user")
            => \/ resuming' # resuming /\ j \in Resuming
               \/ j \in waking \ waking'
               \/ at[j] = "tidying" /\ at'[j] = "idle"
               \/ j \in Active /\ halt'
               \/ at[j] \in {"failing", "chosen"} /\ Refusal(j) # "none"]_vars

\* A finished row stays finished.
CompletedIsFinal == [][\A j \in Listed : status[j] = "completed" => status'[j] = "completed"]_vars

\* A row that could start is waited for: something that will pump is under way, or the run of
\* a row whose source was looked for. That one leaves a host, or the bucket of the rows without
\* one, when it lets go of its source or learns it, and pumps only when it ends.
PumpComes == pumpDue \/ retryTimer \/ out # Nothing \/ resuming # {}
CanStart == \E j \in Listed : Ready(j) /\ Fits(j, {})
QueuedWaitsForASlot == CanStart /\ ~halt => PumpComes \/ \E k \in Active : Kind[k] # "direct"

\* Every row comes to rest: it is not queued, looked up, retried and handed back for ever, and
\* no lost pump leaves it queued.
EveryRowSettles ==
    \A j \in Jobs : []<>(j \notin Listed \/ status[j] \in {"completed", "failed", "paused"})

\* No row stays paused for the storage: the watch of the disk ends every such pause. A row whose
\* run unwinds only after that may be labelled as paused by a person (the catch of download()),
\* and then a person has to resume it.
StoragePausesEnd ==
    \A j \in Jobs : []<>~(j \in Listed /\ status[j] = "paused" /\ reason[j] = "storage")

\* A row that waits for its library goes on once the library takes it again.
WaitingRowsGoOn ==
    \A j \in Jobs : []<>(library = "refuses" \/ ~(j \in Listed /\ status[j] = "paused" /\ reason[j] = "library"))

=============================================================================
