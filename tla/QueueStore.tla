----------------------------- MODULE QueueStore -----------------------------
(***************************************************************************)
(* The durable half of the download queue (server/src/downloads.ts):       *)
(* every change of the job list goes to storage through one chain of       *)
(* writes, an admission or a removal is answered by its own write, and     *)
(* everything else is saved on a best-effort basis and tried again.        *)
(*                                                                         *)
(* A write takes its turn, makes its change in memory, takes an image of   *)
(* the list and hands it to the database (or to a temporary file and a     *)
(* rename). What the image replaces, it replaces whole: a batch is one     *)
(* transaction and a rename is atomic. The order of the rows and the       *)
(* fields of a job beyond its phase and its byte count are left out. A     *)
(* count may be higher or lower than the one before it, for a partial file *)
(* that is dropped takes its count along. Storage has to tell the later    *)
(* from the earlier, not the higher from the lower, so a record holds      *)
(* which of its counts, in the order memory took them, the job has (rev).  *)
(***************************************************************************)
EXTENDS Naturals, Sequences, FiniteSets

CONSTANTS
    Jobs,         \* the requests clients may make, each becoming a job with an id of its own
    Sources,      \* the addresses a job may be downloaded from
    SourceOf,     \* the address each request names
    Owners,       \* the accounts
    OwnerOf,      \* the account that makes each request
    MaxRevs,      \* bound: byte counts one job takes, one after another
    MaxWaiting,   \* bound: writes waiting their turn when a client or a run adds one
    MaxFailures,  \* bound: writes that fail
    MaxCrashes,   \* bound: process deaths
    MaxFlushes    \* bound: flushes of one shutdown

ASSUME StoreAssumption ==
    /\ SourceOf \in [Jobs -> Sources] /\ OwnerOf \in [Jobs -> Owners]
    /\ MaxRevs \in Nat /\ MaxWaiting \in Nat
    /\ MaxFailures \in Nat /\ MaxCrashes \in Nat /\ MaxFlushes \in Nat

VARIABLES
    jobs,        \* the rows in memory
    rec,         \* what memory holds about each job object, listed or not
    disk,        \* what storage holds: a record for every stored row
    chain,       \* the writes waiting their turn
    writing,     \* the write in progress, or Idle
    answer,      \* what each client knows of its request
    admission,   \* the admissions waiting for the previous one to settle
    removal,     \* what a client knows of the removal it asked for
    run,         \* what a run of download() is doing with the job: idle, running or aborted
    saveFailing, \* the last best-effort save failed
    retryTimer,  \* a failed save is due again
    checkpoint,  \* a progress save is due
    server,      \* up, flushing, flushed, frozen or down
    flushLeft,   \* the writes a flush still waits for
    noted,       \* history: the last count of a job that was to be stored: a save or a checkpoint followed it
    flushMark,   \* history: the counts that were noted when a flush began
    failures, crashes, flushes,
    reopened,    \* history: jobs resumed after they failed
    restored,    \* history: jobs a failed removal put back
    cleared      \* history: jobs a stored clearing of the history took out

store == <<jobs, disk, chain, writing>>
clients == <<answer, admission, removal>>
timers == <<saveFailing, retryTimer, checkpoint>>
shutdown == <<server, flushLeft, flushMark>>
bounds == <<failures, crashes, flushes>>
history == <<reopened, restored, cleared>>
objects == <<rec, noted>>
vars == <<store, objects, clients, run, timers, shutdown, bounds, history>>

Phases == {"open", "failed", "completed"}
Record == [phase : Phases, rev : 0..MaxRevs]
Fresh == [phase |-> "open", rev |-> 0]

Answers == {"none", "asked", "checked", "admitting", "accepted", "refused", "duplicate", "unheard"}
Removals == {"none", "guard", "removing", "removed", "absent", "kept", "unheard"}

Save == [kind |-> "save", of |-> {}]
Add(j) == [kind |-> "add", of |-> {j}]
Remove(j) == [kind |-> "remove", of |-> {j}]
Clear(S) == [kind |-> "clear", of |-> S]
Request == [kind : {"save", "add", "remove", "clear"}, of : SUBSET Jobs]
Runs == {"idle", "running", "aborted"}

Idle == [kind |-> "idle"]
Images == UNION {[S -> Record] : S \in SUBSET Jobs}
Write == [req : Request, touched : SUBSET Jobs, image : Images]

Up == server # "down"
Open(j) == j \in jobs /\ rec[j].phase = "open"
Admitting(j) == answer[j] = "admitting"

-----------------------------------------------------------------------------
(* write(): the change is made when its turn comes and undone when its own *)
(* write fails.                                                            *)

Applied(req) == IF req.kind = "add" THEN jobs \union req.of ELSE jobs \ req.of
\* Slip: the change does not remember what it took out.
Touched_Forgotten(req) == IF req.kind = "add" THEN req.of ELSE {}
Touched(req) == IF req.kind = "add" THEN req.of ELSE req.of \intersect jobs
\* Slip: only an admission is undone, or only a removal.
Reverted_AddOnly(w) == IF w.req.kind = "add" THEN jobs \ w.touched ELSE jobs
Reverted_RemovalOnly(w) == IF w.req.kind = "add" THEN jobs ELSE jobs \union w.touched
Reverted(w) == IF w.req.kind = "add" THEN jobs \ w.touched ELSE jobs \union w.touched

ImageOf(S) == [j \in S |-> rec[j]]

\* Slip: a row is stored without its byte count.
StoredImage_Uncounted(req) == [j \in Applied(req) |-> [phase |-> rec[j].phase]]
\* Slip: the image is taken before the change is made.
StoredImage_Early(req) == ImageOf(jobs)
StoredImage(req) == ImageOf(Applied(req))

WriteBegin ==
    /\ Up /\ writing = Idle /\ chain # <<>>
    /\ LET req == Head(chain) IN
        /\ jobs' = Applied(req)
        /\ writing' = [req |-> req, touched |-> Touched(req), image |-> StoredImage(req)]
    /\ chain' = Tail(chain)
    /\ UNCHANGED <<objects, disk, clients, run, timers, shutdown, bounds, history>>

Cleared(w) == cleared' = IF w.req.kind = "clear" THEN cleared \union w.touched ELSE cleared

FlushCounts == flushLeft' = IF flushLeft > 0 THEN flushLeft - 1 ELSE 0

\* The caller of a persist continues in the same turn of the event loop: an
\* admission releases the next one, a removal aborts the run of its job.
WriteOk ==
    /\ Up /\ writing # Idle
    /\ disk' = writing.image
    /\ LET req == writing.req IN
        /\ answer' = [j \in Jobs |-> IF req.kind = "add" /\ j \in req.of THEN "accepted" ELSE answer[j]]
        /\ admission' = IF req.kind = "add" THEN Tail(admission) ELSE admission
        /\ removal' = [j \in Jobs |-> IF req.kind = "remove" /\ j \in req.of THEN "removed" ELSE removal[j]]
        /\ run' = [j \in Jobs |-> IF req.kind = "remove" /\ j \in writing.touched /\ run[j] # "idle"
                                  THEN "aborted" ELSE run[j]]
        /\ saveFailing' = IF req.kind = "save" THEN FALSE ELSE saveFailing
    /\ Cleared(writing)
    /\ writing' = Idle
    /\ FlushCounts
    /\ UNCHANGED <<jobs, objects, chain, retryTimer, checkpoint, server, flushMark, bounds, reopened, restored>>

\* Slip: a failed save is not tried again.
RetryDue_Never(req) == retryTimer
RetryDue(req) == retryTimer \/ req.kind = "save"

WriteFail ==
    /\ Up /\ writing # Idle
    /\ failures < MaxFailures
    /\ failures' = failures + 1
    /\ jobs' = Reverted(writing)
    /\ LET req == writing.req IN
        /\ answer' = [j \in Jobs |-> IF req.kind = "add" /\ j \in req.of THEN "refused" ELSE answer[j]]
        /\ admission' = IF req.kind = "add" THEN Tail(admission) ELSE admission
        /\ removal' = [j \in Jobs |-> IF req.kind = "remove" /\ j \in req.of THEN "kept" ELSE removal[j]]
        /\ saveFailing' = (saveFailing \/ req.kind = "save")
        /\ retryTimer' = RetryDue(req)
    /\ restored' = IF writing.req.kind = "remove" THEN restored \union writing.touched ELSE restored
    /\ writing' = Idle
    /\ FlushCounts
    /\ UNCHANGED <<objects, disk, chain, run, checkpoint, server, flushMark, crashes, flushes, reopened, cleared>>

-----------------------------------------------------------------------------
(* save() and its callers.                                                 *)

Saved == IF server = "frozen" THEN chain ELSE Append(chain, Save)
Room == Len(chain) < MaxWaiting

RetrySave ==
    /\ Up /\ retryTimer
    /\ retryTimer' = FALSE
    /\ chain' = Saved
    /\ UNCHANGED <<jobs, objects, disk, writing, clients, run, saveFailing, checkpoint, shutdown, bounds, history>>

CheckpointSave ==
    /\ Up /\ checkpoint
    /\ checkpoint' = FALSE
    /\ chain' = Saved
    /\ UNCHANGED <<jobs, objects, disk, writing, clients, run, saveFailing, retryTimer, shutdown, bounds, history>>

-----------------------------------------------------------------------------
(* Admissions run one after another; the duplicate check is made on the    *)
(* list as it is when the admission's turn comes, and a library and a free *)
(* file name are looked up before the job is handed to its write.          *)

Ask(j) ==
    /\ Up /\ answer[j] = "none"
    /\ answer' = [answer EXCEPT ![j] = "asked"]
    /\ admission' = Append(admission, j)
    /\ UNCHANGED <<store, objects, removal, run, timers, shutdown, bounds, history>>

\* Each account has its own queue of sources; who else downloads an address is not told.
Same(j, k) == SourceOf[j] = SourceOf[k] /\ OwnerOf[j] = OwnerOf[k]
Twin(j) == \E k \in jobs : Same(j, k) /\ rec[k].phase = "open"

\* The file is there already, and whoever asks sees the library it is in, or does not.
Fetched(j) == \E k \in jobs : SourceOf[k] = SourceOf[j] /\ rec[k].phase = "completed"

\* Slip: admissions do not wait for one another.
ItsTurn_Always(j) == TRUE
ItsTurn(j) == admission # <<>> /\ j = Head(admission)

CheckDuplicate(j) ==
    /\ Up /\ ItsTurn(j) /\ answer[j] = "asked"
    /\ \/ /\ Twin(j) \/ Fetched(j)
          /\ answer' = [answer EXCEPT ![j] = "duplicate"]
          /\ admission' = Tail(admission)
       \/ /\ ~Twin(j)
          /\ answer' = [answer EXCEPT ![j] = "checked"]
          /\ UNCHANGED admission
    /\ UNCHANGED <<store, objects, removal, run, timers, shutdown, bounds, history>>

AdmitJob(j) ==
    /\ Up /\ Room /\ answer[j] = "checked"
    /\ answer' = [answer EXCEPT ![j] = "admitting"]
    /\ chain' = Append(chain, Add(j))
    /\ UNCHANGED <<jobs, objects, disk, writing, admission, removal, run, timers, shutdown, bounds, history>>

-----------------------------------------------------------------------------
(* remove() and clearCompleted(): a guard is asked first, and the row may  *)
(* be gone when it answers.                                                *)

AskRemove(j) ==
    /\ Up /\ j \in jobs /\ removal[j] \in {"none", "absent", "kept", "unheard"}
    /\ removal' = [removal EXCEPT ![j] = "guard"]
    /\ UNCHANGED <<store, objects, answer, admission, run, timers, shutdown, bounds, history>>

RemoveJob(j) ==
    /\ Up /\ Room /\ removal[j] = "guard"
    /\ IF j \in jobs
       THEN removal' = [removal EXCEPT ![j] = "removing"] /\ chain' = Append(chain, Remove(j))
       ELSE removal' = [removal EXCEPT ![j] = "absent"] /\ UNCHANGED chain
    /\ UNCHANGED <<jobs, objects, disk, writing, answer, admission, run, timers, shutdown, bounds, history>>

ClearCompleted ==
    /\ Up /\ Room
    /\ LET done == {j \in jobs : rec[j].phase = "completed"} IN
        /\ done # {}
        /\ chain' = Append(chain, Clear(done))
    /\ UNCHANGED <<jobs, objects, disk, writing, clients, run, timers, shutdown, bounds, history>>

-----------------------------------------------------------------------------
(* The runs: what they change in memory, and the save that follows.        *)

StartRun(j) ==
    /\ Up /\ Room
    /\ Open(j) /\ run[j] = "idle" /\ ~Admitting(j)
    /\ run' = [run EXCEPT ![j] = "running"]
    /\ chain' = Saved
    /\ UNCHANGED <<jobs, objects, disk, writing, clients, timers, shutdown, bounds, history>>

\* The counts a job may have once its run has ended or it is queued again: the one it has, or
\* a new one, because its partial file or its choice of a source was dropped.
Counts(j) == {r \in {rec[j].rev, rec[j].rev + 1} : r <= MaxRevs}

\* What arrives between two notes of the progress; the note makes a save due.
Progress(j) ==
    /\ Up /\ run[j] = "running" /\ rec[j].phase = "open" /\ rec[j].rev < MaxRevs
    /\ rec' = [rec EXCEPT ![j].rev = @ + 1]
    /\ noted' = [noted EXCEPT ![j] = rec[j].rev + 1]
    /\ checkpoint' = TRUE
    /\ UNCHANGED <<store, clients, run, saveFailing, retryTimer, shutdown, bounds, history>>

\* A transfer begins with what its file holds or without a plan that no longer fits: the job
\* takes another count, and nothing saves it before the next note.
Recount(j) ==
    /\ Up /\ run[j] = "running" /\ rec[j].phase = "open" /\ rec[j].rev < MaxRevs
    /\ rec' = [rec EXCEPT ![j].rev = @ + 1]
    /\ UNCHANGED <<store, noted, clients, run, timers, shutdown, bounds, history>>

\* commit() marks the job completed and then waits for the library to be told.
CompleteRun(j) ==
    /\ Up /\ run[j] = "running" /\ rec[j].phase = "open"
    /\ rec' = [rec EXCEPT ![j].phase = "completed"]
    /\ UNCHANGED <<store, noted, clients, run, timers, shutdown, bounds, history>>

\* The catch and the finally: the file may have been dropped, and the row is saved.
EndRun(j, phase, rev) ==
    /\ Up /\ Room /\ run[j] # "idle"
    /\ phase # rec[j].phase => rec[j].phase = "open" /\ phase = "failed"
    /\ rev # rec[j].rev => rec[j].phase = "open"
    /\ rec' = [rec EXCEPT ![j] = [phase |-> phase, rev |-> rev]]
    /\ noted' = [noted EXCEPT ![j] = rev]
    /\ run' = [run EXCEPT ![j] = "idle"]
    /\ chain' = Saved
    /\ UNCHANGED <<jobs, disk, writing, clients, timers, shutdown, bounds, history>>

\* A person, or for a paused row the library watch, queues a paused or failed row again.
Resume(j, rev) ==
    /\ Up /\ Room /\ j \in jobs /\ rec[j].phase # "completed" /\ run[j] = "idle"
    /\ rec' = [rec EXCEPT ![j] = [phase |-> "open", rev |-> rev]]
    /\ noted' = [noted EXCEPT ![j] = rev]
    /\ reopened' = IF rec[j].phase = "failed" THEN reopened \union {j} ELSE reopened
    /\ chain' = Saved
    /\ UNCHANGED <<jobs, disk, writing, clients, run, timers, shutdown, bounds, restored, cleared>>

-----------------------------------------------------------------------------
(* The shutdown flushes, perhaps more than once, freezes the best-effort   *)
(* saves and lets the process end; a crash ends it anywhere. A write that  *)
(* was under way has landed or has not.                                    *)

\* Slip: a checkpoint on its timer is not written.
FlushDue_NoCheckpoint == saveFailing
FlushDue == checkpoint \/ saveFailing

Flush ==
    /\ server \in {"up", "flushed"}
    /\ flushes < MaxFlushes /\ flushes' = flushes + 1
    /\ LET queue == IF FlushDue THEN Append(chain, Save) ELSE chain IN
           /\ chain' = queue
           /\ flushLeft' = Len(queue) + (IF writing = Idle THEN 0 ELSE 1)
    /\ flushMark' = noted
    /\ checkpoint' = FALSE
    /\ server' = "flushing"
    /\ UNCHANGED <<jobs, objects, disk, writing, clients, run, saveFailing, retryTimer, failures, crashes, history>>

FlushDone ==
    /\ server = "flushing" /\ flushLeft = 0
    /\ server' = "flushed"
    /\ UNCHANGED <<store, objects, clients, run, timers, flushLeft, flushMark, bounds, history>>

Freeze ==
    /\ server = "flushed"
    /\ server' = "frozen"
    /\ UNCHANGED <<store, objects, clients, run, timers, flushLeft, flushMark, bounds, history>>

Unheard(asked, pending) == [j \in Jobs |-> IF asked[j] \in pending THEN "unheard" ELSE asked[j]]

Die ==
    /\ \/ UNCHANGED <<disk, cleared>>
       \/ writing # Idle /\ disk' = writing.image /\ Cleared(writing)
    /\ server' = "down"
    /\ chain' = <<>> /\ writing' = Idle /\ jobs' = {} /\ run' = [j \in Jobs |-> "idle"]
    /\ answer' = Unheard(answer, {"asked", "checked", "admitting"})
    /\ removal' = Unheard(removal, {"guard", "removing"})
    /\ admission' = <<>>
    /\ saveFailing' = FALSE /\ retryTimer' = FALSE /\ checkpoint' = FALSE
    /\ flushLeft' = 0 /\ flushes' = 0
    /\ flushMark' = [j \in Jobs |-> 0]
    /\ UNCHANGED <<objects, failures, reopened, restored>>

Exit == server = "frozen" /\ Die /\ UNCHANGED crashes

Crash ==
    /\ Up /\ crashes < MaxCrashes
    /\ Die
    /\ crashes' = crashes + 1

\* A row is read back with the count that was stored, or with a new one where it has to choose
\* its source again; one that may not choose any more fails.
Reread(j) ==
    LET old == disk[j]
        phases == IF old.phase = "open" THEN {"open", "failed"} ELSE {old.phase}
        revs == IF old.phase = "completed" THEN {old.rev} ELSE {old.rev, old.rev + 1}
    IN  [phase : phases, rev : revs \intersect 0..MaxRevs]
\* Slip: a restart forgets how far a job had come.
Loaded_Anew(j) == {Fresh}
Loaded(j) == IF j \in DOMAIN disk THEN Reread(j) ELSE {Fresh}

\* load(): the rows are read back and saved once.
Start ==
    /\ server = "down"
    /\ server' = "up"
    /\ jobs' = DOMAIN disk
    /\ rec' \in {f \in [Jobs -> Record] : \A j \in Jobs : f[j] \in Loaded(j)}
    /\ noted' = [j \in Jobs |-> rec'[j].rev]
    /\ chain' = <<Save>>
    /\ UNCHANGED <<disk, writing, clients, run, timers, flushLeft, flushMark, bounds, history>>

-----------------------------------------------------------------------------
Init ==
    /\ jobs = {} /\ rec = [j \in Jobs |-> Fresh] /\ disk = [j \in {} |-> Fresh]
    /\ chain = <<>> /\ writing = Idle
    /\ answer = [j \in Jobs |-> "none"] /\ admission = <<>>
    /\ removal = [j \in Jobs |-> "none"]
    /\ run = [j \in Jobs |-> "idle"]
    /\ saveFailing = FALSE /\ retryTimer = FALSE /\ checkpoint = FALSE
    /\ server = "up" /\ flushLeft = 0
    /\ noted = [j \in Jobs |-> 0] /\ flushMark = [j \in Jobs |-> 0]
    /\ failures = 0 /\ crashes = 0 /\ flushes = 0
    /\ reopened = {} /\ restored = {} /\ cleared = {}

Client(j) ==
    \/ Ask(j) \/ CheckDuplicate(j) \/ AdmitJob(j)
    \/ AskRemove(j) \/ RemoveJob(j)
    \/ \E rev \in Counts(j) : Resume(j, rev)

Run(j) ==
    \/ StartRun(j) \/ Progress(j) \/ Recount(j) \/ CompleteRun(j)
    \/ \E phase \in Phases, rev \in Counts(j) : EndRun(j, phase, rev)

Next ==
    \/ WriteBegin \/ WriteOk \/ WriteFail \/ RetrySave \/ CheckpointSave
    \/ \E j \in Jobs : Client(j) \/ Run(j)
    \/ ClearCompleted
    \/ Flush \/ FlushDone \/ Freeze \/ Exit \/ Crash \/ Start

Spec == Init /\ [][Next]_vars

\* The event loop runs what is due: the write whose turn it is, the answer of
\* the storage to it (never both are), and the timers.
Fairness ==
    /\ WF_vars(WriteBegin \/ WriteOk \/ WriteFail)
    /\ WF_vars(RetrySave) /\ WF_vars(CheckpointSave)

FairSpec == Spec /\ Fairness

-----------------------------------------------------------------------------
(* What the queue promises.                                                *)

\* Every variable holds a value of its kind.
TypeOK ==
    /\ jobs \subseteq Jobs /\ rec \in [Jobs -> Record]
    /\ disk \in Images
    /\ chain \in Seq(Request) /\ writing \in Write \union {Idle}
    /\ answer \in [Jobs -> Answers] /\ admission \in Seq(Jobs)
    /\ removal \in [Jobs -> Removals] /\ run \in [Jobs -> Runs]
    /\ saveFailing \in BOOLEAN /\ retryTimer \in BOOLEAN /\ checkpoint \in BOOLEAN
    /\ server \in {"up", "flushing", "flushed", "frozen", "down"}
    /\ flushLeft \in Nat
    /\ noted \in [Jobs -> 0..MaxRevs] /\ flushMark \in [Jobs -> 0..MaxRevs]
    /\ failures \in 0..MaxFailures /\ crashes \in 0..MaxCrashes
    /\ flushes \in 0..MaxFlushes
    /\ reopened \subseteq Jobs /\ restored \subseteq Jobs /\ cleared \subseteq Jobs

\* The job has left the queue: its removal was stored, or a clearing of the history was.
Left(j) == removal[j] \in {"removed", "unheard"} \/ j \in cleared

\* A request that was answered with a place in the queue stays in storage, through failed
\* removals, clearings and crashes, until a removal or a clearing of its own is stored.
AcceptedIsStored == \A j \in Jobs : answer[j] = "accepted" /\ ~Left(j) => j \in DOMAIN disk

\* A request that was refused because its write failed is nowhere: no other write stored
\* it meanwhile and no restart brings it back (the revert in write()).
RefusedIsNowhere == \A j \in Jobs : answer[j] \in {"refused", "duplicate"} => j \notin jobs \union DOMAIN disk

\* A removal that was confirmed stays one, across failed writes, later saves and restarts.
RemovedStaysRemoved == \A j \in Jobs : removal[j] = "removed" => j \notin jobs \union DOMAIN disk

\* An account downloads a source once: two open jobs of one account and one address exist only
\* where a failed job was resumed, or a removal whose write failed brought a job back.
OneOpenJobPerSource ==
    \A j, k \in jobs : j # k /\ Same(j, k) /\ Open(j) /\ Open(k)
        => j \in reopened \union restored \/ k \in reopened \union restored

\* A flush whose saves went through has stored, of every row that is in storage, the count that
\* was noted when it began or one the job took later (flush() waits for the writes ahead of it).
FlushedIsStored ==
    server \in {"flushed", "frozen"} /\ ~saveFailing
        => \A j \in DOMAIN disk : disk[j].rev >= flushMark[j]

\* Writes land in the order they were taken: no write, retry, crash or restart puts an older
\* count of a row in the place of a newer one. The newer one may be lower.
StoredCountsFollow ==
    [][\A j \in DOMAIN disk \intersect DOMAIN disk' : disk'[j].rev >= disk[j].rev]_vars

\* The list in memory and the rows in storage are the same whenever no write is under way:
\* a write that fails leaves no trace, and no save stores or drops a row.
ListMatchesStorage == Up /\ writing = Idle => jobs = DOMAIN disk

\* What a client knows of its request, as the abstract queue sees it.
Known == [j \in Jobs |->
    CASE answer[j] \in {"none", "asked", "checked", "admitting"} -> "pending"
      [] answer[j] \in {"refused", "duplicate"} -> "refused"
      [] OTHER -> answer[j]]

Erased == {j \in Jobs : removal[j] = "removed"}

\* The chain of writes implements the queue that stores and answers in one step.
Durable == INSTANCE DurableQueue WITH stored <- DOMAIN disk, told <- Known, erased <- Erased

ImplementsDurableQueue == Durable!DSpec

\* Storage catches up with what was noted, again and again, while the process lives and the job
\* is listed, although saves fail: a failed save is tried again on its own. A job takes at most
\* MaxRevs counts, so each that was noted reaches storage, or one the job took later does.
NotedReachesStorage ==
    \A j \in Jobs :
        []<>(\/ server \in {"frozen", "down"} \/ j \notin jobs
             \/ j \in DOMAIN disk /\ disk[j].rev >= noted[j])

-----------------------------------------------------------------------------
(* Why the promises hold: what is true of the chain between any two steps. *)

\* Each pending write of a client is the one its client waits for.
Awaited(req) ==
    /\ req.kind = "save" => req.of = {}
    /\ req.kind = "add" => \E j \in Jobs : req = Add(j) /\ answer[j] = "admitting"
    /\ req.kind = "remove" => \E j \in Jobs : req = Remove(j) /\ removal[j] = "removing"

Once(req) == req.kind \in {"add", "remove"}

ChainInv ==
    /\ \A p \in 1..Len(chain) : Awaited(chain[p])
    /\ \A p, q \in 1..Len(chain) : p # q /\ Once(chain[p]) => chain[p] # chain[q]
    /\ writing # Idle => Awaited(writing.req)
    /\ writing # Idle /\ Once(writing.req) => \A p \in 1..Len(chain) : chain[p] # writing.req

\* Only the admission at the head of its queue has gone past the duplicate check.
AdmissionInv ==
    /\ \A i \in 1..Len(admission) : answer[admission[i]] \in {"asked", "checked", "admitting"}
    /\ \A i, k \in 1..Len(admission) : i # k => admission[i] # admission[k]
    /\ \A i \in 2..Len(admission) : answer[admission[i]] = "asked"
    /\ \A j \in Jobs : answer[j] \in {"checked", "admitting"} => admission # <<>> /\ admission[1] = j

\* A write holds the memory it has changed, the image of it, and the way back to storage.
WritingInv ==
    writing # Idle =>
        /\ Up
        /\ DOMAIN writing.image = jobs
        /\ Reverted(writing) = DOMAIN disk
        /\ writing.touched \subseteq writing.req.of
        /\ writing.req.kind = "add" => writing.touched = writing.req.of /\ writing.req.of \subseteq jobs
        /\ writing.req.kind # "add" => writing.req.of \intersect jobs = {}

\* A job is in memory or in storage only once its own write has begun.
Written(j) == writing # Idle /\ writing.req = Add(j)
UnwrittenInv ==
    \A j \in Jobs :
        answer[j] \in {"none", "asked", "checked", "admitting", "refused", "duplicate"} /\ ~Written(j)
            => j \notin jobs \union DOMAIN disk

\* Removed jobs took no new place, and the process that is down holds nothing.
RemovedInv ==
    \A j \in Jobs :
        /\ removal[j] = "removed" => answer[j] \notin {"none", "asked", "checked", "admitting"}
        /\ removal[j] # "none" /\ answer[j] \in {"none", "asked", "checked", "admitting"} => Written(j)
        /\ removal[j] = "removed" => j \notin jobs \union DOMAIN disk

DownInv == ~Up => jobs = {} /\ chain = <<>> /\ writing = Idle /\ admission = <<>>

IInv ==
    /\ TypeOK /\ ChainInv /\ AdmissionInv /\ WritingInv /\ UnwrittenInv /\ RemovedInv
    /\ DownInv /\ ListMatchesStorage /\ AcceptedIsStored
=============================================================================
