----------------------------- MODULE LibraryOps -----------------------------
(***************************************************************************)
(* The queue of library operations (server/src/library-ops.ts): jobs of    *)
(* several items carried out by one pump, one item at a time, with a       *)
(* journal that lets the next start finish the item a crash stopped in the *)
(* middle of, and the hook that points a library at its new folder once a  *)
(* re-root has moved everything (library-admin.ts). The items move as      *)
(* LibraryTransfer says, next to the direct requests.                      *)
(*                                                                         *)
(* The state file is one image of all jobs, written whole through a chain  *)
(* of saves. A save resolves or rejects for whoever waits for it; `owner`  *)
(* of a pending save is that caller. The trimming of old jobs, the byte    *)
(* counts and the messages are left out.                                   *)
(***************************************************************************)
EXTENDS LibraryTransfer, Sequences, FiniteSetsExt

CONSTANTS
    Jobs,     \* 1..n, in the order they are asked for
    ItemsOf,  \* the items of each job, in order
    Budget,    \* bound: how often each of Mishaps may happen
    MaxMishaps \* bound: and how many of them in one behaviour, the crashes aside

Mishaps == {"crash", "cancel", "unsaved", "blocked", "taken", "thrown", "broken", "left", "unkept"}

ASSUME OpsAssumption ==
    /\ Jobs = 1 .. Cardinality(Jobs) /\ Budget \in [Mishaps -> Nat] /\ MaxMishaps \in Nat
    /\ ItemsOf \in [Jobs -> Seq(Items)]
    /\ \A j \in Jobs : ItemsOf[j] # <<>>

VARIABLES
    jobs,      \* the jobs in memory
    stored,    \* the state file
    saves,     \* the chain of saves
    refused,   \* callers whose last save was refused
    run,       \* the pump
    ending,    \* how far finish() is with each job
    wakes,     \* blocked jobs with a timer
    clients,   \* what the clients know: of the job and of its cancel
    moved,     \* re-root jobs whose library points at the new folder
    spent,     \* bound: mishaps so far
    wedged     \* history: a refused save has stopped the pump or a finish()

opsVars == <<jobs, stored, saves, refused, run, ending, wakes, clients, moved, spent, wedged>>
vars == <<transferVars, opsVars>>

Absent == [status |-> "absent", reason |-> "none", good |-> {}, bad |-> {}, cancel |-> FALSE,
           step |-> "none", notify |-> FALSE, error |-> FALSE]
Enqueued == [Absent EXCEPT !.status = "paused", !.reason = "queue", !.notify = TRUE]
NoRun == [pc |-> "idle", job |-> 0]

Terminal(job) == job.status \in {"completed", "failed", "cancelled"}
Ready(job) == job.status = "paused" /\ job.reason = "queue"
Handled(job) == Cardinality(job.good) + Cardinality(job.bad)
Exhausted(j, job) == Handled(job) = Len(ItemsOf[j])
Current(j) == ItemsOf[j][Handled(jobs[j]) + 1]
\* The verdict of a job whose items are all handled.
Verdict(j, job) == IF Cardinality(job.bad) = Len(ItemsOf[j]) THEN "failed" ELSE "completed"

Owners == {<<"run", 0>>} \cup ({"enqueue", "cancel", "finish"} \X Jobs)
Runner == <<"run", 0>>

\* Slip: a reason of its own that nobody looks for.
Restored_Interrupted(job) ==
    IF job.status \in {"running", "paused"} THEN [job EXCEPT !.status = "paused", !.reason = "interrupted"] ELSE job
\* Slip: a paused job keeps its reason, whose timer is gone.
Restored_Parked(job) ==
    IF job.status = "running" THEN [job EXCEPT !.status = "paused", !.reason = "queue"] ELSE job

\* load() reads what was stored: whatever was under way waits for the pump again.
Restored(job) ==
    IF job.status \in {"running", "paused"} THEN [job EXCEPT !.status = "paused", !.reason = "queue"] ELSE job

JobRecord == [status : {"absent", "paused", "running", "completed", "failed", "cancelled"},
              reason : {"none", "queue", "blocked"}, good : SUBSET Items, bad : SUBSET Items,
              cancel : BOOLEAN, step : {"none", "moving", "published"}, notify : BOOLEAN, error : BOOLEAN]

TypeOK ==
    /\ TransferTypeOK
    /\ jobs \in [Jobs -> JobRecord] /\ stored \in [Jobs -> JobRecord]
    /\ saves \in Seq([image : [Jobs -> JobRecord], owner : Owners])
    /\ refused \subseteq Owners
    /\ run \in [pc : {"idle", "next", "asking", "parking", "starting", "working", "resting", "finishing", "loading", "down"},
                job : Jobs \cup {0}]
    /\ ending \in [Jobs -> {"no", "saving", "hook", "closing", "done", "threw"}]
    /\ wakes \subseteq Jobs /\ moved \subseteq Jobs
    /\ clients \in [Jobs -> [asked : {"no", "waiting", "accepted", "refused"},
                             cancel : {"no", "saving", "finishing", "answered"}]]
    /\ spent \in [Mishaps -> Nat] /\ wedged \in BOOLEAN

Init ==
    /\ TransferInit
    /\ jobs = [j \in Jobs |-> Absent] /\ stored = jobs
    /\ saves = <<>> /\ refused = {}
    /\ run = NoRun
    /\ ending = [j \in Jobs |-> "no"]
    /\ wakes = {} /\ moved = {}
    /\ clients = [j \in Jobs |-> [asked |-> "no", cancel |-> "no"]]
    /\ spent = [m \in Mishaps |-> 0]
    /\ wedged = FALSE

Affordable(m) ==
    /\ spent[m] < Budget[m]
    /\ m = "crash" \/ MapThenSumSet(LAMBDA k : spent[k], Mishaps \ {"crash"}) < MaxMishaps
Spend(m) ==
    /\ Affordable(m)
    /\ spent' = [spent EXCEPT ![m] = @ + 1]

------------------------------------------------------------------------------
(* The state file. *)

\* save() returns at once when the file holds these jobs already.
Save(owner, image) ==
    /\ saves' = IF image = stored THEN saves ELSE Append(saves, [image |-> image, owner |-> owner])
    /\ refused' = refused \ {owner}
Pending(owner) == \E k \in 1 .. Len(saves) : saves[k].owner = owner
Saved(owner) == ~Pending(owner) /\ owner \notin refused
Unsaved(owner) == ~Pending(owner) /\ owner \in refused

SaveLands ==
    /\ saves # <<>>
    /\ stored' = Head(saves).image
    /\ saves' = Tail(saves)
    /\ UNCHANGED <<transferVars, jobs, refused, run, ending, wakes, clients, moved, spent, wedged>>
SaveFails ==
    /\ saves # <<>> /\ Spend("unsaved")
    /\ saves' = Tail(saves)
    /\ refused' = refused \cup {Head(saves).owner}
    /\ UNCHANGED <<transferVars, jobs, stored, run, ending, wakes, clients, moved, wedged>>

------------------------------------------------------------------------------
(* Requests. *)

Pump(r) == IF r.pc = "idle" THEN [pc |-> "next", job |-> 0] ELSE r
Up == run.pc \notin {"loading", "down"}

Enqueue(j) ==
    /\ Up /\ clients[j].asked = "no"
    /\ \A i \in 1 .. j - 1 : clients[i].asked # "no"
    /\ jobs' = [jobs EXCEPT ![j] = Enqueued]
    /\ clients' = [clients EXCEPT ![j].asked = "waiting"]
    /\ Save(<<"enqueue", j>>, jobs')
    /\ UNCHANGED <<transferVars, stored, run, ending, wakes, moved, spent, wedged>>
Accept(j) ==
    /\ Up /\ clients[j].asked = "waiting" /\ Saved(<<"enqueue", j>>)
    /\ clients' = [clients EXCEPT ![j].asked = "accepted"]
    /\ run' = Pump(run)
    /\ UNCHANGED <<transferVars, jobs, stored, saves, refused, ending, wakes, moved, spent, wedged>>
\* The job of a refused request stays in the list.
Refuse(j) ==
    /\ clients[j].asked = "waiting" /\ Unsaved(<<"enqueue", j>>)
    /\ clients' = [clients EXCEPT ![j].asked = "refused"]
    /\ UNCHANGED <<transferVars, jobs, stored, saves, refused, run, ending, wakes, moved, spent, wedged>>

Cancel(j) ==
    /\ Up /\ clients[j].asked = "accepted" /\ clients[j].cancel = "no"
    /\ jobs[j].status \in {"running", "paused"} /\ Spend("cancel")
    /\ clients' = [clients EXCEPT ![j].cancel = IF jobs[j].status = "running" THEN "saving" ELSE "finishing"]
    /\ IF jobs[j].status = "running"
       THEN /\ jobs' = [jobs EXCEPT ![j].cancel = TRUE]
            /\ Save(<<"cancel", j>>, jobs')
            /\ UNCHANGED ending
       ELSE /\ jobs' = [jobs EXCEPT ![j] = [@ EXCEPT !.cancel = TRUE, !.status = "cancelled", !.reason = "none"]]
            /\ Save(<<"finish", j>>, jobs')
            /\ ending' = [ending EXCEPT ![j] = "saving"]
    /\ UNCHANGED <<transferVars, stored, run, wakes, moved, wedged>>
\* Answered once the save, or all of finish(), is through.
CancelAnswered(j) ==
    /\ \/ clients[j].cancel = "saving" /\ Saved(<<"cancel", j>>)
       \/ clients[j].cancel = "finishing" /\ ending[j] \in {"done", "threw"}
    /\ clients' = [clients EXCEPT ![j].cancel = "answered"]
    /\ UNCHANGED <<transferVars, jobs, stored, saves, refused, run, ending, wakes, moved, spent, wedged>>

------------------------------------------------------------------------------
(* The pump. *)

RunAt(pc) == run.pc = pc
RunTo(pc) == run' = [run EXCEPT !.pc = pc]
J == run.job

\* The first job that waits for the pump; with none the pump rests.
Next1 ==
    /\ RunAt("next")
    /\ LET ready == {j \in Jobs : Ready(jobs[j])}
       IN  \/ ready = {} /\ run' = NoRun
           \/ \E j \in ready : (\A k \in ready : j <= k) /\ run' = [pc |-> "asking", job |-> j]
    /\ UNCHANGED <<transferVars, jobs, stored, saves, refused, ending, wakes, clients, moved, spent, wedged>>

\* finish() has begun; the pump waits for it.
StartFinish(job) ==
    /\ jobs' = [jobs EXCEPT ![J] = job]
    /\ Save(<<"finish", J>>, jobs')
    /\ ending' = [ending EXCEPT ![J] = "saving"]
    /\ RunTo("finishing")

\* The pause hook has answered; a cancel may have ended the job meanwhile.
Dropped ==
    /\ RunAt("asking") /\ Terminal(jobs[J])
    /\ run' = [pc |-> "next", job |-> 0]
    /\ UNCHANGED <<transferVars, jobs, stored, saves, refused, ending, wakes, clients, moved, spent, wedged>>
Blocked ==
    /\ RunAt("asking") /\ ~Terminal(jobs[J]) /\ Spend("blocked")
    /\ jobs' = [jobs EXCEPT ![J].reason = "blocked"]
    /\ Save(Runner, jobs') /\ RunTo("parking")
    /\ UNCHANGED <<transferVars, stored, ending, wakes, clients, moved, wedged>>
Parked ==
    /\ RunAt("parking") /\ Saved(Runner)
    /\ wakes' = wakes \cup {J} /\ run' = NoRun
    /\ UNCHANGED <<transferVars, jobs, stored, saves, refused, ending, clients, moved, spent, wedged>>
Wake(j) ==
    /\ j \in wakes
    /\ wakes' = wakes \ {j}
    /\ jobs' = IF jobs[j].status = "paused" THEN [jobs EXCEPT ![j].reason = "queue"] ELSE jobs
    /\ run' = Pump(run)
    /\ UNCHANGED <<transferVars, stored, saves, refused, ending, clients, moved, spent, wedged>>

Starts ==
    /\ RunAt("asking") /\ ~Terminal(jobs[J])
    /\ jobs' = [jobs EXCEPT ![J] = [@ EXCEPT !.status = "running", !.reason = "none"]]
    /\ Save(Runner, jobs') /\ RunTo("starting")
    /\ UNCHANGED <<transferVars, stored, ending, wakes, clients, moved, spent, wedged>>
\* A cancel that landed while that write was in flight: the item never starts.
StopsShort ==
    /\ RunAt("starting") /\ Saved(Runner) /\ jobs[J].cancel
    /\ StartFinish([jobs[J] EXCEPT !.status = "cancelled", !.step = "none"])
    /\ UNCHANGED <<transferVars, stored, wakes, clients, moved, spent, wedged>>
\* Slip: the cancel is not looked at again after the save.
Executes_Regardless ==
    /\ RunAt("starting") /\ Saved(Runner)
    /\ work' = [work EXCEPT ![Queue] = Begun(Current(J), IF jobs[J].step = "none" THEN "check" ELSE "resume")]
    /\ RunTo("working")
    /\ UNCHANGED <<at, known, kept, dirty, unkept, lost, jobs, stored, saves, refused, ending, wakes, clients, moved, spent, wedged>>

Executes ==
    /\ RunAt("starting") /\ Saved(Runner) /\ ~jobs[J].cancel
    /\ work' = [work EXCEPT ![Queue] = Begun(Current(J), IF jobs[J].step = "none" THEN "check" ELSE "resume")]
    /\ RunTo("working")
    /\ UNCHANGED <<at, known, kept, dirty, unkept, lost, jobs, stored, saves, refused, ending, wakes, clients, moved, spent, wedged>>

\* The record is on disk before the disk is touched, or the item fails untouched; that the
\* item has landed is recorded as well as it goes.
Record ==
    /\ RunAt("working")
    /\ \E pc \in {"record", "landed"} :
         /\ At(Queue, pc)
         /\ jobs' = [jobs EXCEPT ![J].step = IF pc = "record" THEN "moving" ELSE "published"]
         /\ Save(Runner, jobs')
         /\ GoTo(Queue, IF pc = "record" THEN "recording" ELSE "recordingLanding")
    /\ UNCHANGED <<at, known, kept, dirty, unkept, lost, stored, run, ending, wakes, clients, moved, spent, wedged>>
Recorded ==
    /\ RunAt("working") /\ ~Pending(Runner)
    /\ \/ At(Queue, "recording") /\ Saved(Runner)
          /\ GoTo(Queue, IF Moves(Item(Queue)) THEN "reserve" ELSE "copy")
       \/ At(Queue, "recording") /\ Unsaved(Runner) /\ GoTo(Queue, "failed")
       \/ At(Queue, "recordingLanding")
          /\ GoTo(Queue, IF OpOf[Item(Queue)] = "reroot" THEN "ok" ELSE "carry")
    /\ UNCHANGED <<at, known, kept, dirty, unkept, lost, opsVars>>

Counted(job, item, good) ==
    [job EXCEPT !.good = IF good THEN @ \cup {item} ELSE @, !.bad = IF good THEN @ ELSE @ \cup {item}, !.step = "none"]
Settle ==
    /\ RunAt("working") /\ (At(Queue, "ok") \/ At(Queue, "failed"))
    /\ work' = [work EXCEPT ![Queue] = Idle]
    /\ LET job == Counted(jobs[J], Item(Queue), At(Queue, "ok"))
       IN  IF job.cancel \/ Exhausted(J, job)
           THEN StartFinish([job EXCEPT !.status = IF job.cancel THEN "cancelled" ELSE Verdict(J, job)])
           ELSE /\ jobs' = [jobs EXCEPT ![J] = [job EXCEPT !.status = "paused", !.reason = "queue"]]
                /\ Save(Runner, jobs') /\ RunTo("resting")
                /\ UNCHANGED ending
    /\ UNCHANGED <<at, known, kept, dirty, unkept, lost, stored, wakes, clients, moved, spent, wedged>>
GoesOn ==
    /\ \/ RunAt("resting") /\ Saved(Runner)
       \/ RunAt("finishing") /\ ending[J] \in {"done", "threw"}
    /\ run' = [pc |-> "next", job |-> 0]
    /\ UNCHANGED <<transferVars, jobs, stored, saves, refused, ending, wakes, clients, moved, spent, wedged>>
\* A save of its own that is refused ends the pump and leaves the job as it stands; in
\* load() it ends the process.
Breaks ==
    /\ run.pc \in {"parking", "starting", "resting", "loading"} /\ Unsaved(Runner)
    /\ run' = IF RunAt("loading") THEN [run EXCEPT !.pc = "down"] ELSE NoRun
    /\ wedged' = TRUE
    /\ UNCHANGED <<transferVars, jobs, stored, saves, refused, ending, wakes, clients, moved, spent>>

------------------------------------------------------------------------------
(* finish(). *)

Reported(j) ==
    /\ ending[j] = "saving" /\ Saved(<<"finish", j>>)
    /\ ending' = [ending EXCEPT ![j] = "hook"]
    /\ UNCHANGED <<transferVars, jobs, stored, saves, refused, run, wakes, clients, moved, spent, wedged>>

\* Slip: the failed items are not looked at.
Switches_AllTried(j) == OpOf[ItemsOf[j][1]] = "reroot" /\ Exhausted(j, jobs[j]) /\ j \notin moved

\* The root follows the content, and only once all of it is across.
Switches(j) == OpOf[ItemsOf[j][1]] = "reroot" /\ jobs[j].bad = {} /\ Exhausted(j, jobs[j]) /\ j \notin moved
\* A job that failed only because the hook did gets the verdict it had.
Standing(j) ==
    IF ~jobs[j].error THEN jobs[j].status ELSE IF jobs[j].cancel THEN "cancelled" ELSE Verdict(j, jobs[j])
Hook(j) ==
    /\ ending[j] = "hook"
    /\ moved' = IF Switches(j) THEN moved \cup {j} ELSE moved
    /\ jobs' = [jobs EXCEPT ![j] = [@ EXCEPT !.notify = FALSE, !.error = FALSE, !.status = Standing(j)]]
    /\ Save(<<"finish", j>>, jobs')
    /\ ending' = [ending EXCEPT ![j] = "closing"]
    /\ UNCHANGED <<transferVars, stored, run, wakes, clients, spent, wedged>>
\* Another library took the folder: the job fails and the next start asks again.
HookFails(j) ==
    /\ ending[j] = "hook" /\ Switches(j) /\ Spend("taken")
    /\ jobs' = [jobs EXCEPT ![j] = [@ EXCEPT !.status = "failed", !.error = TRUE]]
    /\ Save(<<"finish", j>>, jobs')
    /\ ending' = [ending EXCEPT ![j] = "closing"]
    /\ UNCHANGED <<transferVars, stored, run, wakes, clients, moved, wedged>>
\* The hook throws, before the new folder is stored or after it: a warning in the log, and the
\* job keeps its flag for the next start.
HookThrows(j) ==
    /\ ending[j] = "hook" /\ Switches(j) /\ Spend("thrown")
    /\ moved' \in {moved, moved \cup {j}}
    /\ ending' = [ending EXCEPT ![j] = "threw"]
    /\ UNCHANGED <<transferVars, jobs, stored, saves, refused, run, wakes, clients, wedged>>
Closed(j) ==
    /\ ending[j] = "closing" /\ Saved(<<"finish", j>>)
    /\ ending' = [ending EXCEPT ![j] = "done"]
    /\ UNCHANGED <<transferVars, jobs, stored, saves, refused, run, wakes, clients, moved, spent, wedged>>
FinishBreaks(j) ==
    /\ ending[j] \in {"saving", "closing"} /\ Unsaved(<<"finish", j>>)
    /\ ending' = [ending EXCEPT ![j] = "no"]
    /\ run' = IF RunAt("loading") THEN [run EXCEPT !.pc = "down"]
              ELSE IF RunAt("finishing") /\ J = j THEN NoRun ELSE run
    /\ wedged' = TRUE
    /\ UNCHANGED <<transferVars, jobs, stored, saves, refused, wakes, clients, moved, spent>>

------------------------------------------------------------------------------
(* The process ends and another one starts. *)

Crash ==
    /\ Spend("crash")
    /\ TransferCrash
    /\ jobs' = [j \in Jobs |-> Restored(stored[j])]
    /\ saves' = IF jobs' = stored THEN <<>> ELSE <<[image |-> jobs', owner |-> Runner]>>
    /\ refused' = {}
    /\ ending' = [j \in Jobs |-> "no"] /\ wakes' = {}
    /\ clients' = [j \in Jobs |-> [asked |-> IF clients[j].asked = "waiting" THEN "refused" ELSE clients[j].asked,
                                   cancel |-> IF clients[j].cancel = "answered" THEN "answered" ELSE "no"]]
    /\ run' = [pc |-> "loading", job |-> 0] /\ wedged' = FALSE
    /\ UNCHANGED <<stored, moved>>
\* A job that ended while the process was going down is reported before the pump starts.
Load ==
    /\ RunAt("loading") /\ Saved(Runner)
    /\ \A j \in Jobs : ending[j] \in {"no", "done", "threw"}
    /\ LET owed == {j \in Jobs : Terminal(jobs[j]) /\ jobs[j].notify /\ ending[j] = "no"}
       IN  \/ owed = {} /\ run' = [pc |-> "next", job |-> 0] /\ UNCHANGED ending
           \/ /\ \E j \in owed : (\A k \in owed : j <= k) /\ ending' = [ending EXCEPT ![j] = "saving"]
              /\ UNCHANGED run
    /\ UNCHANGED <<transferVars, jobs, stored, saves, refused, wakes, clients, moved, spent, wedged>>

------------------------------------------------------------------------------
Bytes ==
    \/ \E w \in Workers : Moving(w)
    \/ Resume(Queue, jobs[J].step)
    \/ \E r \in Requests : NoJournal(r)
    \/ \E l \in Libraries : MetaWrite(l)
Jobwork ==
    \/ SaveLands \/ Next1 \/ Dropped \/ Parked \/ Starts \/ StopsShort \/ Executes
    \/ Record \/ Recorded \/ Settle \/ GoesOn \/ Breaks \/ Load
    \/ \E j \in Jobs : Accept(j) \/ Refuse(j) \/ CancelAnswered(j) \/ Wake(j)
                       \/ Reported(j) \/ Hook(j) \/ Closed(j) \/ FinishBreaks(j)
Progress == (Bytes /\ UNCHANGED opsVars) \/ Jobwork
Mishap ==
    \/ SaveFails \/ Blocked \/ Crash
    \/ \E j \in Jobs : HookFails(j) \/ HookThrows(j) \/ Cancel(j)
    \/ /\ \E w \in Workers : Copy(w, FALSE)
       /\ Spend("broken")
       /\ UNCHANGED <<jobs, stored, saves, refused, run, ending, wakes, clients, moved, wedged>>
    \/ /\ \E w \in Workers : SourceTears(w) \/ SourceStays(w)
       /\ Spend("left")
       /\ UNCHANGED <<jobs, stored, saves, refused, run, ending, wakes, clients, moved, wedged>>
    \/ /\ \E w \in Workers : FlushGivesUp(w)
       /\ Spend("unkept")
       /\ UNCHANGED <<jobs, stored, saves, refused, run, ending, wakes, clients, moved, wedged>>
Arrival ==
    \/ \E j \in Jobs : Enqueue(j)
    \/ \E r \in Requests : Up /\ Ask(r) /\ UNCHANGED opsVars

Next == Progress \/ Mishap \/ Arrival
Spec == Init /\ [][Next]_vars
\* Timers fire, promises settle and the pump is one loop: whatever it can do next, it does.
FairSpec == Spec /\ WF_vars(Progress)

------------------------------------------------------------------------------
(* Properties. *)

Contested(i) == \E k \in Items \ {i} : TargetOf[k] = TargetOf[i]
MovesRows(i) == OpOf[i] # "reroot" /\ ~Contested(i)
Done(image) == UNION {image[j].good : j \in Jobs}
Ended(j) == Terminal(jobs[j]) /\ (jobs[j].notify => jobs[j].error \/ ending[j] = "threw")

\* Whatever is interrupted, refused or repeated, by whoever races for a name: every item is
\* whole at its source or at its target (transferLibraryPath, resumeTransfer, rerootItem).
NothingLost == \A i \in Items : at[i] = i \/ at[TargetOf[i]] = i

\* An item a job reports as done is at its target, also when the report is all that is left
\* after a crash (resumeTransfer, placeholderOnly). A name that others want too is not in it.
ReportedIsThere ==
    \A i \in Done(jobs) \cup Done(stored) : ~Contested(i) => at[TargetOf[i]] = i

\* The title matched to an item is on disk under a path of the item all the way. Once the state
\* file reports the item as done it is under its target (the flush comes before the report,
\* finishTransfer), unless that flush gave up: then memory holds it for the next save, and it is
\* lost only if the process dies before that. For items that stay in their library; see IdentityCrosses.
IdentityKept ==
    \A i \in Items : MovesRows(i) /\ LibraryOf[i] = LibraryOf[TargetOf[i]] =>
        /\ kept[i] = i \/ kept[TargetOf[i]] = i
        /\ i \in Done(stored) =>
             \/ kept[TargetOf[i]] = i
             \/ i \in unkept /\ known[TargetOf[i]] = i /\ LibraryOf[TargetOf[i]] \in dirty
             \/ i \in lost

\* The same for an item that goes to another library, whose rows leave one file and land in
\* another: "two files have to change together or the move is half done" (relocate).
IdentityCrosses == \A i \in Items : MovesRows(i) => kept[i] = i \/ kept[TargetOf[i]] = i

\* A library points at its new folder only when all of its content is there.
RootFollowsContent ==
    \A j \in moved : \A k \in 1 .. Len(ItemsOf[j]) : at[TargetOf[ItemsOf[j][k]]] = ItemsOf[j][k]

\* Once a cancel has marked the job no further item of it begins, and once the cancel is
\* answered no restart forgets that (cancel, run, finish).
CancelHolds ==
    [][\A j \in Jobs : jobs[j].cancel \/ clients[j].cancel = "answered" =>
         ~(run.job = j /\ RunAt("starting") /\ run'.pc = "working")]_vars

\* Every accepted job ends and its hook has had its say, unless a refused save stopped the
\* pump: a job that waits for a disk, that was cancelled while it waited, or that a restart
\* found halfway too. A hook that throws has had it: the job rests until the next start asks
\* again.
JobsEnd == \A j \in Jobs : clients[j].asked = "accepted" ~> Ended(j) \/ wedged
=============================================================================
