-------------------------- MODULE LibraryOpsProofs --------------------------
(***************************************************************************)
(* What the queue of library operations keeps, whatever is interrupted,    *)
(* refused or repeated. The invariant joins what LibraryTransferProofs     *)
(* says of the items to what the jobs say of them: in memory, in the state *)
(* file and in every save on its way to it.                                *)
(***************************************************************************)
EXTENDS LibraryOps, LibraryTransferProofs, FiniteSetTheorems

SaveRecord == [image : [Jobs -> JobRecord], owner : Owners]
Written == {stored} \cup {saves[k].image : k \in 1 .. Len(saves)}

\* A job that can go on has an item left, and each one it has counted is good or bad.
Sane(j, job) ==
    /\ IsFiniteSet(job.good) /\ IsFiniteSet(job.bad)
    /\ Handled(job) <= Len(ItemsOf[j])
    /\ job.status \in {"paused", "running"} => Handled(job) < Len(ItemsOf[j])
    /\ \A k \in 1 .. Handled(job) : ItemsOf[j][k] \in job.good \cup job.bad

At1(j, job) == ItemsOf[j][Handled(job) + 1]
\* What it reports is so, and the record of its current item too.
Honest(j, job) ==
    /\ \A i \in job.good : /\ Alone(i) => at[TargetOf[i]] = i
                           /\ Keeps(i) => Held(i)
    /\ job.step = "published" /\ Handled(job) < Len(ItemsOf[j]) /\ Alone(At1(j, job))
         => at[TargetOf[At1(j, job)]] = At1(j, job)

ImagesInv ==
    \A image \in Written \cup {jobs} : \A j \in Jobs :
        /\ Sane(j, image[j]) /\ Honest(j, image[j])
        /\ clients[j].asked = "no" => image[j] = Absent

\* Where the pump is with its job, and the worker it drives.
RunInv ==
    /\ run.pc \in {"asking", "parking", "starting", "working", "resting", "finishing"} => J \in Jobs
    /\ run.pc = "asking" => jobs[J].status # "absent"
    /\ run.pc \in {"starting", "working"} => jobs[J].status = "running"
    /\ ~At(Queue, "idle") <=> run.pc = "working"
    /\ run.pc = "working" => Item(Queue) = Current(J)
    /\ \A j \in Jobs : ending[j] \in {"saving", "hook", "closing"} => Terminal(jobs[j])

OpsInv == TypeOK /\ TransferInv /\ ImagesInv /\ RunInv

------------------------------------------------------------------------------
(* The items of a job and its counts. *)

LEMMA ItemsTyped ==
    ASSUME NEW j \in Jobs
    PROVE  /\ ItemsOf[j] \in Seq(Items) /\ Len(ItemsOf[j]) \in Nat \ {0}
           /\ \A k \in 1 .. Len(ItemsOf[j]) : ItemsOf[j][k] \in Items
<1>1. ItemsOf \in [Jobs -> Seq(Items)] /\ ItemsOf[j] # <<>>
  BY OpsAssumption
<1> QED
  BY <1>1

LEMMA HandledCounts ==
    ASSUME NEW j \in Jobs, NEW job \in JobRecord, Sane(j, job)
    PROVE  /\ Handled(job) \in Nat
           /\ ~Exhausted(j, job) => Handled(job) < Len(ItemsOf[j])
           /\ Handled(job) < Len(ItemsOf[j]) => ~Exhausted(j, job) /\ At1(j, job) \in Items
<1>1. Cardinality(job.good) \in Nat /\ Cardinality(job.bad) \in Nat
  BY FS_CardinalityType DEF Sane
<1>2. Handled(job) \in Nat
  BY <1>1 DEF Handled
<1>3. Len(ItemsOf[j]) \in Nat /\ Handled(job) <= Len(ItemsOf[j])
  BY ItemsTyped DEF Sane
<1> QED
  BY <1>2, <1>3, ItemsTyped DEF Exhausted, At1

LEMMA AbsentIsSane ==
    ASSUME NEW j \in Jobs
    PROVE  /\ Absent \in JobRecord /\ Enqueued \in JobRecord
           /\ Sane(j, Absent) /\ Honest(j, Absent) /\ Sane(j, Enqueued) /\ Honest(j, Enqueued)
           /\ ~Terminal(Enqueued) /\ Absent.status = "absent"
<1>1. /\ Absent \in JobRecord /\ Absent.good = {} /\ Absent.bad = {} /\ Absent.step = "none" /\ Absent.status = "absent"
  BY DEF Absent, JobRecord
<1>2. /\ Enqueued \in JobRecord /\ Enqueued.good = {} /\ Enqueued.bad = {} /\ Enqueued.step = "none" /\ Enqueued.status = "paused"
  BY DEF Absent, Enqueued, JobRecord
<1>3. Cardinality({}) = 0 /\ IsFiniteSet({})
  BY FS_EmptySet
<1>4. Handled(Absent) = 0 /\ Handled(Enqueued) = 0
  BY <1>1, <1>2, <1>3 DEF Handled
<1>5. Sane(j, Absent) /\ Sane(j, Enqueued)
  BY <1>1, <1>2, <1>3, <1>4, ItemsTyped DEF Sane
<1> QED
  BY <1>1, <1>2, <1>5 DEF Honest, Terminal

\* A job that keeps its counts stays sane, and honest unless it takes on a record.
LEMMA SaneStays ==
    ASSUME NEW j \in Jobs, NEW job, NEW new, Sane(j, job), new.good = job.good, new.bad = job.bad,
           new.status \in {"paused", "running"} => job.status \in {"paused", "running"}
    PROVE  Sane(j, new) /\ Handled(new) = Handled(job)
BY DEF Sane, Handled

LEMMA HonestStays ==
    ASSUME NEW j \in Jobs, NEW job \in JobRecord, Sane(j, job), Honest(j, job), Lasting,
           NEW new, new.good = job.good, new.bad = job.bad, new.step = "published" => job.step = "published"
    PROVE  Honest(j, new)'
<1>1. Handled(new) = Handled(job) /\ At1(j, new) = At1(j, job)
  BY DEF Handled, At1
<1>2. \A i \in Items : (Alone(i) /\ at[TargetOf[i]] = i => at'[TargetOf[i]] = i)
                    /\ (Keeps(i) /\ Held(i) => Held(i)')
  BY Names DEF Lasting, Landing, Keeping
<1>3. job.good \subseteq Items
  BY DEF JobRecord
<1>4. \A i \in new.good : (Alone(i) => at'[TargetOf[i]] = i) /\ (Keeps(i) => Held(i)')
  BY <1>2, <1>3 DEF Honest
<1>5. new.step = "published" /\ Handled(new) < Len(ItemsOf[j]) /\ Alone(At1(j, new))
        => at'[TargetOf[At1(j, new)]] = At1(j, new)
  BY <1>1, <1>2, HandledCounts DEF Honest
<1> QED
  BY <1>4, <1>5 DEF Honest

------------------------------------------------------------------------------
(* The state file. *)

LEMMA WrittenTyped ==
    ASSUME TypeOK
    PROVE  \A image \in Written \cup {jobs} : image \in [Jobs -> JobRecord]
<1>1. saves \in Seq(SaveRecord) /\ stored \in [Jobs -> JobRecord] /\ jobs \in [Jobs -> JobRecord]
  BY DEF TypeOK, SaveRecord
<1>2. \A k \in 1 .. Len(saves) : saves[k] \in SaveRecord
  BY <1>1
<1> QED
  BY <1>1, <1>2 DEF Written, SaveRecord

LEMMA OwnersTyped == Runner \in Owners /\ \A j \in Jobs : {<<"enqueue", j>>, <<"cancel", j>>, <<"finish", j>>} \subseteq Owners
BY DEF Runner, Owners

\* What save() may leave in the chain, and what it may come to store.
LEMMA SaveWrites ==
    ASSUME TypeOK, NEW owner \in Owners, NEW image \in [Jobs -> JobRecord], Save(owner, image), stored' = stored
    PROVE  /\ saves' \in Seq(SaveRecord) /\ refused' \subseteq Owners
           /\ Written' \subseteq Written \cup {image}
<1>1. saves \in Seq(SaveRecord) /\ refused \subseteq Owners
  BY DEF TypeOK, SaveRecord
<1>2. refused' \subseteq Owners
  BY <1>1 DEF Save
<1>3. CASE saves' = saves
  BY <1>1, <1>2, <1>3 DEF Written
<1>4. CASE saves' = Append(saves, [image |-> image, owner |-> owner])
  <2> DEFINE new == [image |-> image, owner |-> owner]
  <2>1. new \in SaveRecord /\ new.image = image
    BY DEF SaveRecord
  <2>2. /\ saves' \in Seq(SaveRecord) /\ Len(saves') = Len(saves) + 1 /\ Len(saves) \in Nat
        /\ \A k \in 1 .. Len(saves) : saves'[k] = saves[k]
        /\ saves'[Len(saves) + 1] = new
    BY <1>1, <1>4, <2>1
  <2>3. ASSUME NEW k \in 1 .. Len(saves') PROVE saves'[k].image \in Written \cup {image}
    <3>1. CASE k \in 1 .. Len(saves)
      BY <2>2, <3>1 DEF Written
    <3>2. CASE k = Len(saves) + 1
      BY <2>1, <2>2, <3>2
    <3> QED
      BY <2>2, <3>1, <3>2
  <2> QED
    BY <1>2, <2>2, <2>3 DEF Written
<1> QED
  BY <1>3, <1>4 DEF Save

LEMMA SaveTaken ==
    ASSUME TypeOK, saves # <<>>
    PROVE  /\ Tail(saves) \in Seq(SaveRecord) /\ Head(saves) \in SaveRecord /\ Head(saves).image \in Written
           /\ \A k \in 1 .. Len(Tail(saves)) : Tail(saves)[k].image \in Written
<1>1. saves \in Seq(SaveRecord)
  BY DEF TypeOK, SaveRecord
<1>2. /\ Tail(saves) \in Seq(SaveRecord) /\ Head(saves) \in SaveRecord /\ Head(saves) = saves[1] /\ Len(saves) \in Nat \ {0}
      /\ Len(Tail(saves)) = Len(saves) - 1 /\ \A k \in 1 .. Len(saves) - 1 : Tail(saves)[k] = saves[k + 1]
  BY <1>1
<1>3. 1 \in 1 .. Len(saves) /\ \A k \in 1 .. Len(saves) - 1 : k + 1 \in 1 .. Len(saves)
  BY <1>2
<1> QED
  BY <1>2, <1>3 DEF Written

\* A step that writes the jobs as they become, and nothing else.
LEMMA ImagesStep ==
    ASSUME TypeOK, TransferInv, ImagesInv, Lasting,
           Written' \subseteq Written \cup {jobs, jobs'},
           \A j \in Jobs : jobs'[j] = jobs[j] \/ (Sane(j, jobs'[j]) /\ Honest(j, jobs[j])'),
           \A j \in Jobs : clients'[j].asked = "no" => clients[j].asked = "no" /\ jobs'[j] = jobs[j]
    PROVE  ImagesInv'
<1>1. ASSUME NEW image \in Written \cup {jobs}, NEW j \in Jobs PROVE Sane(j, image[j]) /\ Honest(j, image[j])'
  <2>1. image[j] \in JobRecord /\ Sane(j, image[j]) /\ Honest(j, image[j])
    BY WrittenTyped DEF ImagesInv
  <2> QED
    BY <2>1, HonestStays
<1>2. \A j \in Jobs : Sane(j, jobs'[j]) /\ Honest(j, jobs[j])'
  BY <1>1
<1>3. ASSUME NEW image \in Written' \cup {jobs'}, NEW j \in Jobs
      PROVE  Sane(j, image[j]) /\ Honest(j, image[j])' /\ (clients'[j].asked = "no" => image[j] = Absent)
  <2>1. CASE image \in Written \cup {jobs}
    BY <1>1, <2>1 DEF ImagesInv
  <2>2. CASE image = jobs'
    <3>1. clients'[j].asked = "no" => jobs[j] = Absent /\ jobs'[j] = jobs[j]
      BY DEF ImagesInv
    <3>2. image[j] = jobs'[j] /\ (Honest(j, jobs[j])' <=> Honest(j, image[j])')
      BY <2>2 DEF Honest, At1, Handled
    <3> QED
      BY <1>2, <3>1, <3>2
  <2> QED
    BY <2>1, <2>2
<1> QED
  BY <1>3 DEF ImagesInv

------------------------------------------------------------------------------
(* Steps of the transfers. The worker of the pump keeps its item until the  *)
(* pump takes it back.                                                      *)

QueueStays == Item(Queue)' = Item(Queue) /\ (At(Queue, "idle")' <=> At(Queue, "idle"))

LEMMA QueueWorks == Queue \in Workers /\ Queue \notin Requests /\ Requests \subseteq Workers
BY TransferAssumption DEF Workers

LEMMA WorkerStays ==
    ASSUME TransferInv, NEW w \in Workers, NEW next \in Worker, work' = [work EXCEPT ![w] = next],
           w # Queue \/ (next.item = Item(w) /\ next.pc # "idle" /\ ~At(w, "idle"))
    PROVE  QueueStays
<1>1. work \in [Workers -> Worker]
  BY DEF TransferInv, TransferTypeOK, Worker
<1>2. work'[w] = next /\ (w # Queue => work'[Queue] = work[Queue])
  BY <1>1, QueueWorks
<1> QED
  BY <1>2 DEF QueueStays, Item, At

LEMMA GoneStays ==
    ASSUME TransferInv, NEW w \in Workers, NEW pc \in PCs \ {"idle"}, GoTo(w, pc), ~At(w, "idle")
    PROVE  QueueStays
<1>1. PICK next \in Worker : work' = [work EXCEPT ![w] = next] /\ next.pc = pc /\ next.item = Item(w)
  BY GoneTo
<1> QED
  BY <1>1, WorkerStays

LEMMA ReplayStays ==
    ASSUME TransferInv, NEW w \in Workers, NEW pc \in {"ok", "carry", "landed"}, Replay(w, pc), ~At(w, "idle")
    PROVE  QueueStays
<1>1. work[w] \in Worker
  BY DEF TransferInv, TransferTypeOK, Worker
<1> DEFINE next == [work[w] EXCEPT !.pc = pc, !.replay = TRUE]
<1>2. next \in Worker /\ next.pc = pc /\ next.item = Item(w)
  BY <1>1 DEF Worker, PCs, Item
<1>3. work' = [work EXCEPT ![w] = next]
  BY DEF Replay
<1> HIDE DEF next
<1> QED
  BY <1>2, <1>3, WorkerStays

LEMMA MovingStays == ASSUME TransferInv, NEW w \in Workers, Moving(w) PROVE QueueStays
<1>1. \A pc \in {"check", "record", "failed", "rename", "swap", "copy", "landed", "claim", "remove", "ok", "flush"} :
        pc \in PCs \ {"idle"}
  BY DEF PCs
<1>2. CASE Carry(w)
  <2> DEFINE owing == dirty \cup (IF Carries(w) THEN Touched(Item(w)) ELSE {})
             next == [work[w] EXCEPT !.pc = "flush", !.owed = owing]
  <2>1. /\ ~At(w, "idle") /\ work' = [work EXCEPT ![w] = next] /\ work[w] \in Worker
        /\ dirty' = owing
    BY <1>2 DEF Carry, At, TransferInv, TransferTypeOK, Worker
  <2>2. dirty' \subseteq Libraries
    BY <1>2, CarryStep DEF TransferInv, TransferTypeOK
  <2>3. next \in Worker /\ next.pc = "flush" /\ next.item = Item(w)
    BY <2>1, <2>2 DEF Worker, PCs, Item
  <2> HIDE DEF next
  <2> QED
    BY <2>1, <2>3, WorkerStays
<1>3. ASSUME NEW pc \in {"check", "record", "failed", "rename", "swap", "copy", "landed", "claim", "remove", "ok"},
             GoTo(w, pc), ~At(w, "idle")
      PROVE  QueueStays
  BY <1>1, <1>3, GoneStays
<1>4. CASE Clear(w) \/ Check(w) \/ Copy(w, TRUE)
  BY <1>3, <1>4 DEF Clear, Check, Copy, Put, At
<1>5. CASE Reserve(w)
  BY <1>3, <1>5 DEF Reserve, At
<1>6. CASE Rename(w) \/ Swap(w)
  BY <1>3, <1>6 DEF Rename, Swap, At
<1>7. CASE RemoveSource(w) \/ Flushed(w)
  BY <1>3, <1>7 DEF RemoveSource, Flushed, Put, At
<1> QED
  BY <1>2, <1>4, <1>5, <1>6, <1>7 DEF Moving

LEMMA ResumeStays == ASSUME TransferInv, NEW phase, Resume(Queue, phase) PROVE QueueStays
<1>1. ~At(Queue, "idle")
  BY DEF Resume, At
<1>2. ASSUME NEW pc \in {"failed", "check", "clear"}, GoTo(Queue, pc) PROVE QueueStays
  <2>1. pc \in PCs \ {"idle"}
    BY DEF PCs
  <2> QED
    BY <1>1, <1>2, <2>1, QueueWorks, GoneStays
<1>3. ASSUME NEW pc \in {"ok", "carry", "landed"}, Replay(Queue, pc) PROVE QueueStays
  BY <1>1, <1>3, QueueWorks, ReplayStays
<1> QED
  BY <1>2, <1>3 DEF Resume

LEMMA OthersStay ==
    ASSUME TransferInv,
           \/ \E r \in Requests : NoJournal(r) \/ Ask(r)
           \/ \E l \in Libraries : MetaWrite(l)
           \/ \E w \in Workers : Copy(w, FALSE) \/ SourceTears(w) \/ SourceStays(w) \/ FlushGivesUp(w)
    PROVE  QueueStays
<1>0. \A pc \in {"claim", "failed", "landed", "reserve", "copy", "carry", "ok", "done"} : pc \in PCs \ {"idle"}
  BY DEF PCs
<1>1. ASSUME NEW r \in Requests, NoJournal(r) PROVE QueueStays
  BY <1>0, <1>1, QueueWorks, GoneStays DEF NoJournal, Put, At
<1>2. ASSUME NEW r \in Requests, Ask(r) PROVE QueueStays
  <2>1. r \in Items /\ "check" \in PCs
    BY TransferAssumption DEF PCs
  <2>2. Begun(r, "check") \in Worker /\ work' = [work EXCEPT ![r] = Begun(r, "check")]
    BY <1>2, <2>1, IdleIsWorker DEF Ask
  <2> QED
    BY <2>2, QueueWorks, WorkerStays
<1>3. ASSUME NEW l \in Libraries, MetaWrite(l) PROVE QueueStays
  <2>1. work[Queue] \in Worker /\ work'[Queue] = [work[Queue] EXCEPT !.owed = work[Queue].owed \ {l}]
    BY <1>3, QueueWorks DEF MetaWrite, TransferInv, TransferTypeOK, Worker
  <2>2. work'[Queue].pc = work[Queue].pc /\ work'[Queue].item = work[Queue].item
    BY <2>1 DEF Worker
  <2> QED
    BY <2>2 DEF QueueStays, Item, At
<1>4. ASSUME NEW w \in Workers, Copy(w, FALSE) \/ SourceStays(w) \/ FlushGivesUp(w) PROVE QueueStays
  BY <1>0, <1>4, GoneStays DEF Copy, SourceStays, FlushGivesUp, Put, At
<1>5. ASSUME NEW w \in Workers, SourceTears(w) PROVE QueueStays
  BY <1>5 DEF SourceTears, QueueStays, Item, At
<1> QED
  BY <1>1, <1>2, <1>3, <1>4, <1>5

LEMMA SpentTyped == ASSUME spent \in [Mishaps -> Nat], NEW m, Spend(m) PROVE spent' \in [Mishaps -> Nat]
<1>1. spent' = [spent EXCEPT ![m] = spent[m] + 1]
  BY DEF Spend
<1>2. m \in Mishaps => spent[m] + 1 \in Nat
  OBVIOUS
<1> QED
  BY <1>1, <1>2

\* The jobs take no notice.
LEMMA TransferOnly ==
    ASSUME OpsInv, TransferInv', Lasting, QueueStays,
           UNCHANGED <<jobs, stored, saves, refused, run, ending, wakes, clients, moved, wedged>>,
           spent' = spent \/ \E m \in Mishaps : Spend(m)
    PROVE  OpsInv'
<1>1. spent' \in [Mishaps -> Nat]
  BY SpentTyped DEF OpsInv, TypeOK
<1>2. TypeOK'
  BY <1>1 DEF OpsInv, TypeOK, TransferInv
<1>3. ImagesInv'
  BY ImagesStep DEF OpsInv, Written
<1>4. RunInv'
  BY DEF OpsInv, RunInv, QueueStays, Terminal, Current, Handled, J
<1> QED
  BY <1>2, <1>3, <1>4 DEF OpsInv

\* The record the pump resumes from tells where its item is.
LEMMA RecordHolds ==
    ASSUME OpsInv, ~At(Queue, "idle"), jobs[J].step = "published", Alone(Item(Queue))
    PROVE  at[To(Queue)] = Item(Queue)
<1>1. J \in Jobs /\ run.pc = "working" /\ jobs[J].status = "running" /\ Item(Queue) = Current(J)
  BY DEF OpsInv, RunInv
<1>2. Sane(J, jobs[J]) /\ Honest(J, jobs[J])
  BY <1>1 DEF OpsInv, ImagesInv
<1>3. Handled(jobs[J]) < Len(ItemsOf[J]) /\ At1(J, jobs[J]) = Item(Queue)
  BY <1>1, <1>2 DEF Sane, At1, Current
<1> QED
  BY <1>2, <1>3 DEF Honest, To

LEMMA BytesStep == ASSUME OpsInv, Bytes, UNCHANGED opsVars PROVE OpsInv' /\ Lasting
<1>1. TransferInv' /\ Lasting /\ QueueStays
  <2>1. TransferInv
    BY DEF OpsInv
  <2>2. ASSUME NEW w \in Workers, Moving(w) PROVE TransferInv' /\ Lasting /\ QueueStays
    BY <2>1, <2>2, MovingStep, MovingStays
  <2>3. CASE Resume(Queue, jobs[J].step)
    <3>1. ~At(Queue, "idle")
      BY <2>3 DEF Resume, At
    <3> QED
      BY <2>1, <2>3, <3>1, RecordHolds, QueueWorks, ResumeStep, ResumeStays
  <2>4. ASSUME NEW r \in Requests, NoJournal(r) PROVE TransferInv' /\ Lasting /\ QueueStays
    BY <2>1, <2>4, NoJournalStep, OthersStay
  <2>5. ASSUME NEW l \in Libraries, MetaWrite(l) PROVE TransferInv' /\ Lasting /\ QueueStays
    BY <2>1, <2>5, MetaWriteStep, OthersStay
  <2> QED
    BY <2>2, <2>3, <2>4, <2>5 DEF Bytes
<1> QED
  BY <1>1, TransferOnly DEF opsVars

LEMMA AskingStep == ASSUME OpsInv, NEW r \in Requests, Ask(r), UNCHANGED opsVars PROVE OpsInv' /\ Lasting
<1>1. TransferInv' /\ Lasting /\ QueueStays
  BY AskStep, OthersStay DEF OpsInv
<1> QED
  BY <1>1, TransferOnly DEF opsVars

LEMMA MishapStep ==
    ASSUME OpsInv, NEW w \in Workers, Copy(w, FALSE) \/ SourceTears(w) \/ SourceStays(w) \/ FlushGivesUp(w), NEW m \in Mishaps, Spend(m),
           UNCHANGED <<jobs, stored, saves, refused, run, ending, wakes, clients, moved, wedged>>
    PROVE  OpsInv' /\ Lasting
<1>1. TransferInv' /\ Lasting /\ QueueStays
  BY CopyStep, SourceTearsStep, SourceStaysStep, FlushGivesUpStep, OthersStay DEF OpsInv
<1> QED
  BY <1>1, TransferOnly

------------------------------------------------------------------------------
(* Steps of the queue. *)

LEMMA TransferRests ==
    ASSUME TransferInv, UNCHANGED transferVars
    PROVE  TransferInv' /\ Lasting /\ UNCHANGED <<at, known, kept, dirty, unkept, lost, work>>
<1>1. UNCHANGED <<at, known, kept, dirty, unkept, lost, work>>
  BY DEF transferVars
<1>2. Lasting
  BY <1>1 DEF Lasting, Landing, Keeping, Held
<1>3. TransferTypeOK' /\ PathsInv' /\ PlaceInv' /\ RowsInv'
  BY <1>1 DEF TransferInv, TransferTypeOK, PathsInv, PlaceInv, RowsInv
<1>4. WorkInv'
  BY <1>1 DEF TransferInv, WorkInv, Works, Flushes, Held
<1> QED
  BY <1>1, <1>2, <1>3, <1>4 DEF TransferInv

\* A step that changes no job.
LEMMA PlainStep ==
    ASSUME OpsInv, UNCHANGED <<transferVars, jobs, stored, saves>>, TypeOK', RunInv',
           \A j \in Jobs : clients'[j].asked = "no" => clients[j].asked = "no"
    PROVE  OpsInv' /\ Lasting
<1>1. TransferInv' /\ Lasting
  BY TransferRests DEF OpsInv
<1>2. ImagesInv'
  BY <1>1, ImagesStep DEF OpsInv, Written
<1> QED
  BY <1>1, <1>2 DEF OpsInv

LEMMA RunTyped ==
    ASSUME TypeOK
    PROVE  /\ run.job \in Jobs \cup {0}
           /\ \A pc \in {"next", "parking", "starting", "working", "resting", "finishing", "down"} :
                /\ [run EXCEPT !.pc = pc].pc = pc /\ [run EXCEPT !.pc = pc].job = run.job
                /\ [run EXCEPT !.pc = pc] \in [pc : {"idle", "next", "asking", "parking", "starting", "working", "resting",
                                                     "finishing", "loading", "down"}, job : Jobs \cup {0}]
           /\ NoRun.pc = "idle"
           /\ NoRun \in [pc : {"idle", "next", "asking", "parking", "starting", "working", "resting",
                               "finishing", "loading", "down"}, job : Jobs \cup {0}]
BY DEF TypeOK, NoRun

LEMMA ClientsTyped ==
    ASSUME TypeOK, NEW j \in Jobs
    PROVE  /\ \A a \in {"waiting", "accepted", "refused"} :
                /\ [clients[j] EXCEPT !.asked = a] \in [asked : {"no", "waiting", "accepted", "refused"},
                                                        cancel : {"no", "saving", "finishing", "answered"}]
                /\ [clients[j] EXCEPT !.asked = a].asked = a
                /\ [clients[j] EXCEPT !.asked = a].cancel = clients[j].cancel
           /\ \A c \in {"saving", "finishing", "answered"} :
                /\ [clients[j] EXCEPT !.cancel = c] \in [asked : {"no", "waiting", "accepted", "refused"},
                                                         cancel : {"no", "saving", "finishing", "answered"}]
                /\ [clients[j] EXCEPT !.cancel = c].asked = clients[j].asked
                /\ [clients[j] EXCEPT !.cancel = c].cancel = c
BY DEF TypeOK

\* One client written in its place, the others kept.
LEMMA ClientWritten ==
    ASSUME TypeOK, NEW j \in Jobs,
           NEW c \in [asked : {"no", "waiting", "accepted", "refused"}, cancel : {"no", "saving", "finishing", "answered"}],
           clients' = [clients EXCEPT ![j] = c]
    PROVE  /\ clients' \in [Jobs -> [asked : {"no", "waiting", "accepted", "refused"}, cancel : {"no", "saving", "finishing", "answered"}]]
           /\ clients'[j] = c /\ \A k \in Jobs \ {j} : clients'[k] = clients[k]
<1>1. clients \in [Jobs -> [asked : {"no", "waiting", "accepted", "refused"}, cancel : {"no", "saving", "finishing", "answered"}]]
  BY DEF TypeOK
<1> QED
  BY <1>1

LEMMA AcceptStep == ASSUME OpsInv, NEW j \in Jobs, Accept(j) PROVE OpsInv' /\ Lasting
<1>1. /\ UNCHANGED <<transferVars, jobs, stored, saves, refused, ending, wakes, moved, spent, wedged>>
      /\ run' = Pump(run) /\ clients' = [clients EXCEPT ![j] = [clients[j] EXCEPT !.asked = "accepted"]]
  BY DEF Accept
<1>2. TypeOK
  BY DEF OpsInv
<1>3. clients' \in [Jobs -> [asked : {"no", "waiting", "accepted", "refused"}, cancel : {"no", "saving", "finishing", "answered"}]]
      /\ \A k \in Jobs : clients'[k].asked = "no" => clients[k].asked = "no"
  <2>1. [clients[j] EXCEPT !.asked = "accepted"] \in [asked : {"no", "waiting", "accepted", "refused"}, cancel : {"no", "saving", "finishing", "answered"}]
        /\ [clients[j] EXCEPT !.asked = "accepted"].asked = "accepted"
    BY <1>2, ClientsTyped
  <2> QED
    BY <1>1, <1>2, <2>1, ClientWritten
<1>4. TypeOK'
  BY <1>1, <1>2, <1>3, TransferRests DEF TypeOK, Pump, OpsInv, TransferInv
<1>5. RunInv'
  BY <1>1, TransferRests DEF OpsInv, RunInv, Pump, J, Current, Handled, Terminal, At, Item
<1> QED
  BY <1>1, <1>3, <1>4, <1>5, PlainStep

LEMMA AnswerStep == ASSUME OpsInv, NEW j \in Jobs, Refuse(j) \/ CancelAnswered(j) PROVE OpsInv' /\ Lasting
<1>1. /\ UNCHANGED <<transferVars, jobs, stored, saves, refused, run, ending, wakes, moved, spent, wedged>>
      /\ \/ clients' = [clients EXCEPT ![j] = [clients[j] EXCEPT !.asked = "refused"]]
         \/ clients' = [clients EXCEPT ![j] = [clients[j] EXCEPT !.cancel = "answered"]]
  BY DEF Refuse, CancelAnswered
<1>2. TypeOK
  BY DEF OpsInv
<1>3. clients' \in [Jobs -> [asked : {"no", "waiting", "accepted", "refused"}, cancel : {"no", "saving", "finishing", "answered"}]]
      /\ \A k \in Jobs : clients'[k].asked = "no" => clients[k].asked = "no"
  <2>1. CASE clients' = [clients EXCEPT ![j] = [clients[j] EXCEPT !.asked = "refused"]]
    <3>1. [clients[j] EXCEPT !.asked = "refused"] \in [asked : {"no", "waiting", "accepted", "refused"}, cancel : {"no", "saving", "finishing", "answered"}]
          /\ [clients[j] EXCEPT !.asked = "refused"].asked = "refused"
      BY <1>2, ClientsTyped
    <3> QED
      BY <1>2, <2>1, <3>1, ClientWritten
  <2>2. CASE clients' = [clients EXCEPT ![j] = [clients[j] EXCEPT !.cancel = "answered"]]
    <3>1. [clients[j] EXCEPT !.cancel = "answered"] \in [asked : {"no", "waiting", "accepted", "refused"}, cancel : {"no", "saving", "finishing", "answered"}]
          /\ [clients[j] EXCEPT !.cancel = "answered"].asked = clients[j].asked
      BY <1>2, ClientsTyped
    <3> QED
      BY <1>2, <2>2, <3>1, ClientWritten
  <2> QED
    BY <1>1, <2>1, <2>2
<1>4. TypeOK'
  BY <1>1, <1>2, <1>3, TransferRests DEF TypeOK, OpsInv, TransferInv
<1>5. RunInv'
  BY <1>1, TransferRests DEF OpsInv, RunInv, J, Current, Handled, Terminal, At, Item
<1> QED
  BY <1>1, <1>3, <1>4, <1>5, PlainStep

\* The pump turns to a job or rests; Parked, GoesOn and Breaks end what it was doing.
LEMMA PumpStep ==
    ASSUME OpsInv, Next1 \/ Dropped \/ Parked \/ GoesOn \/ Breaks
    PROVE  OpsInv' /\ Lasting
<1>1. /\ UNCHANGED <<transferVars, jobs, stored, saves, refused, ending, clients, moved, spent>>
      /\ wakes' \subseteq wakes \cup (Jobs \cap {J}) /\ wedged' \in BOOLEAN
      /\ run.pc # "working"
      /\ \/ run' = NoRun \/ run' = [pc |-> "next", job |-> 0] \/ run' = [run EXCEPT !.pc = "down"]
         \/ \E j \in Jobs : Ready(jobs[j]) /\ run' = [pc |-> "asking", job |-> j]
  <2>1. TypeOK /\ (run.pc = "parking" => J \in Jobs)
    BY DEF OpsInv, RunInv
  <2>2. CASE Next1
    BY <2>1, <2>2 DEF Next1, RunAt, TypeOK
  <2>3. CASE Dropped \/ Parked
    BY <2>1, <2>3 DEF Dropped, Parked, RunAt, TypeOK
  <2>4. CASE GoesOn \/ Breaks
    BY <2>1, <2>4 DEF GoesOn, Breaks, RunAt, TypeOK
  <2> QED
    BY <2>2, <2>3, <2>4
<1>2. /\ run' \in [pc : {"idle", "next", "asking", "parking", "starting", "working", "resting", "finishing", "loading", "down"},
                   job : Jobs \cup {0}]
      /\ run'.pc \in {"idle", "next", "down", "asking"}
      /\ run'.pc = "asking" => run'.job \in Jobs /\ Ready(jobs[run'.job])
  BY <1>1, RunTyped DEF OpsInv
<1>3. TypeOK'
  BY <1>1, <1>2, TransferRests DEF TypeOK, OpsInv, TransferInv
<1>4. RunInv'
  BY <1>1, <1>2, TransferRests DEF OpsInv, RunInv, J, Terminal, Ready, At, Item
<1> QED
  BY <1>1, <1>3, <1>4, PlainStep

\* finish() goes on by itself; Load starts it for the jobs a crash left unreported.
LEMMA FinishStep ==
    ASSUME OpsInv, Load \/ \E j \in Jobs : Reported(j) \/ Closed(j) \/ FinishBreaks(j)
    PROVE  OpsInv' /\ Lasting
<1>1. /\ UNCHANGED <<transferVars, jobs, stored, saves, refused, wakes, clients, moved, spent>>
      /\ wedged' \in BOOLEAN
      /\ \/ run' = run \/ (run.pc # "working" /\ (run' = NoRun \/ run' = [pc |-> "next", job |-> 0] \/ run' = [run EXCEPT !.pc = "down"]))
      /\ \/ ending' = ending
         \/ \E j \in Jobs : Terminal(jobs[j]) /\ \E e \in {"saving", "hook", "done", "no"} : ending' = [ending EXCEPT ![j] = e]
  <2>1. TypeOK /\ \A j \in Jobs : ending[j] \in {"saving", "hook", "closing"} => Terminal(jobs[j])
    BY DEF OpsInv, RunInv
  <2>2. CASE Load
    BY <2>1, <2>2 DEF Load, RunAt, TypeOK
  <2>3. ASSUME NEW j \in Jobs, Reported(j) \/ Closed(j)
        PROVE  /\ UNCHANGED <<transferVars, jobs, stored, saves, refused, run, wakes, clients, moved, spent, wedged>>
               /\ Terminal(jobs[j]) /\ \E e \in {"hook", "done"} : ending' = [ending EXCEPT ![j] = e]
    BY <2>1, <2>3 DEF Reported, Closed
  <2>4. ASSUME NEW j \in Jobs, FinishBreaks(j)
        PROVE  /\ UNCHANGED <<transferVars, jobs, stored, saves, refused, wakes, clients, moved, spent>> /\ wedged' = TRUE
               /\ run' = run \/ (run.pc # "working" /\ (run' = NoRun \/ run' = [run EXCEPT !.pc = "down"]))
               /\ Terminal(jobs[j]) /\ ending' = [ending EXCEPT ![j] = "no"]
    BY <2>1, <2>4 DEF FinishBreaks, RunAt
  <2>5. wedged \in BOOLEAN
    BY <2>1 DEF TypeOK
  <2> QED
    BY <2>2, <2>3, <2>4, <2>5
<1>2. /\ run' \in [pc : {"idle", "next", "asking", "parking", "starting", "working", "resting", "finishing", "loading", "down"},
                   job : Jobs \cup {0}]
      /\ run' = run \/ (run.pc # "working" /\ run'.pc \in {"idle", "next", "down"})
  BY <1>1, RunTyped DEF OpsInv, TypeOK
<1>3. /\ ending' \in [Jobs -> {"no", "saving", "hook", "closing", "done", "threw"}]
      /\ \A j \in Jobs : ending'[j] \in {"saving", "hook", "closing"} => Terminal(jobs[j])
  <2>1. /\ ending \in [Jobs -> {"no", "saving", "hook", "closing", "done", "threw"}]
        /\ \A j \in Jobs : ending[j] \in {"saving", "hook", "closing"} => Terminal(jobs[j])
    BY DEF OpsInv, RunInv, TypeOK
  <2>2. CASE ending' = ending
    BY <2>1, <2>2
  <2>3. ASSUME NEW j \in Jobs, NEW e \in {"saving", "hook", "done", "no"}, Terminal(jobs[j]), ending' = [ending EXCEPT ![j] = e]
        PROVE  /\ ending' \in [Jobs -> {"no", "saving", "hook", "closing", "done", "threw"}]
               /\ \A k \in Jobs : ending'[k] \in {"saving", "hook", "closing"} => Terminal(jobs[k])
    BY <2>1, <2>3
  <2> QED
    BY <1>1, <2>2, <2>3
<1>4. TypeOK'
  BY <1>1, <1>2, <1>3, TransferRests DEF TypeOK, OpsInv, TransferInv
<1>5. RunInv'
  BY <1>1, <1>2, <1>3, TransferRests DEF OpsInv, RunInv, J, Terminal, Current, Handled, At, Item
<1> QED
  BY <1>1, <1>4, <1>5, PlainStep

LEMMA SavesStep == ASSUME OpsInv, SaveLands \/ SaveFails PROVE OpsInv' /\ Lasting
<1>1. /\ UNCHANGED <<transferVars, jobs, run, ending, wakes, clients, moved, wedged>> /\ saves # <<>> /\ saves' = Tail(saves)
      /\ \/ stored' = Head(saves).image /\ UNCHANGED <<refused, spent>>
         \/ stored' = stored /\ refused' = refused \cup {Head(saves).owner} /\ Spend("unsaved")
  BY DEF SaveLands, SaveFails
<1>2. TransferInv' /\ Lasting /\ UNCHANGED <<at, known, kept, dirty, unkept, lost, work>>
  BY <1>1, TransferRests DEF OpsInv
<1>3. /\ Tail(saves) \in Seq(SaveRecord) /\ Head(saves) \in SaveRecord /\ Head(saves).image \in Written
      /\ \A k \in 1 .. Len(Tail(saves)) : Tail(saves)[k].image \in Written
  BY <1>1, SaveTaken DEF OpsInv
<1>4. stored' \in Written /\ Written' \subseteq Written
  BY <1>1, <1>3 DEF Written
<1>5. spent' \in [Mishaps -> Nat]
  <2>1. spent \in [Mishaps -> Nat]
    BY DEF OpsInv, TypeOK
  <2> QED
    BY <1>1, <2>1, SpentTyped
<1>6. TypeOK'
  <2>1. refused' \subseteq Owners
    BY <1>1, <1>3 DEF OpsInv, TypeOK, SaveRecord
  <2>2. stored' \in [Jobs -> JobRecord]
    BY <1>4, WrittenTyped DEF OpsInv
  <2>3. saves' \in Seq([image : [Jobs -> JobRecord], owner : Owners])
    BY <1>1, <1>3 DEF SaveRecord
  <2> QED
    BY <1>1, <1>2, <1>5, <2>1, <2>2, <2>3 DEF OpsInv, TypeOK, TransferInv
<1>7. ImagesInv'
  BY <1>1, <1>2, <1>4, ImagesStep DEF OpsInv
<1>8. RunInv'
  BY <1>1, <1>2 DEF OpsInv, RunInv, J, Terminal, Current, Handled, At, Item
<1> QED
  BY <1>2, <1>6, <1>7, <1>8 DEF OpsInv

\* One job changes and the jobs are handed to save().
LEMMA JobWritten ==
    ASSUME OpsInv, TransferInv', Lasting, NEW j \in Jobs, NEW new \in JobRecord, NEW owner \in Owners,
           jobs' = [jobs EXCEPT ![j] = new], Save(owner, jobs'), stored' = stored,
           Sane(j, new), Honest(j, new)',
           \A k \in Jobs : clients'[k].asked = "no" => clients[k].asked = "no" /\ k # j
    PROVE  /\ jobs' \in [Jobs -> JobRecord] /\ stored' \in [Jobs -> JobRecord]
           /\ saves' \in Seq([image : [Jobs -> JobRecord], owner : Owners]) /\ refused' \subseteq Owners
           /\ ImagesInv'
<1>1. TypeOK /\ TransferInv /\ ImagesInv /\ jobs \in [Jobs -> JobRecord] /\ stored \in [Jobs -> JobRecord]
  BY DEF OpsInv, TypeOK
<1>2. jobs' \in [Jobs -> JobRecord] /\ jobs'[j] = new /\ \A k \in Jobs : k # j => jobs'[k] = jobs[k]
  BY <1>1
<1>3. saves' \in Seq(SaveRecord) /\ refused' \subseteq Owners /\ Written' \subseteq Written \cup {jobs'}
  BY <1>1, <1>2, SaveWrites
<1>4. Honest(j, jobs[j])' <=> Honest(j, new)'
  BY <1>2 DEF Honest, At1, Handled
<1>5. ImagesInv'
  BY <1>1, <1>2, <1>3, <1>4, ImagesStep
<1> QED
  BY <1>1, <1>2, <1>3, <1>5 DEF SaveRecord

\* The same for a job that keeps its counts and takes on no record.
LEMMA JobMarked ==
    ASSUME OpsInv, TransferInv', Lasting, NEW j \in Jobs, NEW new \in JobRecord, NEW owner \in Owners,
           jobs' = [jobs EXCEPT ![j] = new], Save(owner, jobs'), stored' = stored,
           new.good = jobs[j].good, new.bad = jobs[j].bad, new.step = "published" => jobs[j].step = "published",
           new.status \in {"paused", "running"} => jobs[j].status \in {"paused", "running"},
           \A k \in Jobs : clients'[k].asked = "no" => clients[k].asked = "no" /\ k # j
    PROVE  /\ jobs' \in [Jobs -> JobRecord] /\ stored' \in [Jobs -> JobRecord]
           /\ saves' \in Seq([image : [Jobs -> JobRecord], owner : Owners]) /\ refused' \subseteq Owners
           /\ ImagesInv'
<1>1. jobs[j] \in JobRecord /\ Sane(j, jobs[j]) /\ Honest(j, jobs[j])
  BY DEF OpsInv, TypeOK, ImagesInv
<1>2. Sane(j, new)
  BY <1>1, SaneStays
<1>3. Honest(j, new)'
  BY <1>1, HonestStays
<1> QED
  BY <1>2, <1>3, JobWritten

\* A job that has been asked for is not the next one to be asked for.
LEMMA AskedFor ==
    ASSUME OpsInv, NEW j \in Jobs, jobs[j].status # "absent"
    PROVE  clients[j].asked # "no"
<1>1. clients[j].asked = "no" => jobs[j] = Absent
  BY DEF OpsInv, ImagesInv
<1> QED
  BY <1>1, AbsentIsSane

\* What the pump is at, when one job changes and the pump stays where it is.
LEMMA RunStays ==
    ASSUME OpsInv, QueueStays, run' = run, NEW j \in Jobs, NEW new, jobs' = [jobs EXCEPT ![j] = new],
           new.good = jobs[j].good, new.bad = jobs[j].bad,
           j = J /\ run.pc = "asking" => new.status # "absent",
           j = J /\ run.pc \in {"starting", "working"} => new.status = "running",
           \A k \in Jobs : ending'[k] \in {"saving", "hook", "closing"} =>
                             \/ k # j /\ ending[k] \in {"saving", "hook", "closing"}
                             \/ k = j /\ Terminal(new)
    PROVE  RunInv'
<1>1. jobs \in [Jobs -> JobRecord] /\ RunInv
  BY DEF OpsInv, TypeOK
<1>2. jobs'[j] = new /\ \A k \in Jobs : k # j => jobs'[k] = jobs[k]
  BY <1>1
<1>3. \A k \in Jobs : Handled(jobs'[k]) = Handled(jobs[k])
  BY <1>2 DEF Handled
<1>4. \A k \in Jobs : ending'[k] \in {"saving", "hook", "closing"} => Terminal(jobs'[k])
  BY <1>1, <1>2 DEF RunInv
<1>5. J' = J
  BY DEF J
<1>6. \A k \in Jobs : ItemsOf[k][Handled(jobs'[k]) + 1] = ItemsOf[k][Handled(jobs[k]) + 1]
  BY <1>3
<1>7. /\ run.pc \in {"asking", "parking", "starting", "working", "resting", "finishing"} => J \in Jobs
      /\ run.pc = "asking" => jobs[J].status # "absent"
      /\ run.pc \in {"starting", "working"} => jobs[J].status = "running"
      /\ ~At(Queue, "idle") <=> run.pc = "working"
      /\ run.pc = "working" => Item(Queue) = ItemsOf[J][Handled(jobs[J]) + 1]
  BY <1>1 DEF RunInv, Current
<1>8. /\ run'.pc = "asking" => jobs'[J].status # "absent"
      /\ run'.pc \in {"starting", "working"} => jobs'[J].status = "running"
  BY <1>2, <1>7
<1>9. /\ ~At(Queue, "idle")' <=> run'.pc = "working"
      /\ run'.pc = "working" => Item(Queue)' = ItemsOf[J][Handled(jobs'[J]) + 1]
  BY <1>6, <1>7 DEF QueueStays
<1> QED
  BY <1>4, <1>5, <1>7, <1>8, <1>9 DEF RunInv, Current

LEMMA RestStays == ASSUME TransferInv, UNCHANGED transferVars PROVE QueueStays
BY TransferRests DEF QueueStays, Item, At

LEMMA EnqueueStep == ASSUME OpsInv, NEW j \in Jobs, Enqueue(j) PROVE OpsInv' /\ Lasting
<1>1. /\ UNCHANGED <<transferVars, stored, run, ending, wakes, moved, spent, wedged>> /\ clients[j].asked = "no"
      /\ jobs' = [jobs EXCEPT ![j] = Enqueued] /\ Save(<<"enqueue", j>>, jobs')
      /\ clients' = [clients EXCEPT ![j] = [clients[j] EXCEPT !.asked = "waiting"]]
  BY DEF Enqueue
<1>2. TypeOK /\ TransferInv /\ RunInv
  BY DEF OpsInv
<1>3. TransferInv' /\ Lasting /\ QueueStays
  BY <1>1, <1>2, TransferRests, RestStays
<1>4. jobs[j] = Absent
  BY <1>1 DEF OpsInv, ImagesInv
<1>5. clients' \in [Jobs -> [asked : {"no", "waiting", "accepted", "refused"}, cancel : {"no", "saving", "finishing", "answered"}]]
      /\ \A k \in Jobs : clients'[k].asked = "no" => clients[k].asked = "no" /\ k # j
  <2>1. [clients[j] EXCEPT !.asked = "waiting"] \in [asked : {"no", "waiting", "accepted", "refused"}, cancel : {"no", "saving", "finishing", "answered"}]
        /\ [clients[j] EXCEPT !.asked = "waiting"].asked = "waiting"
    BY <1>2, ClientsTyped
  <2> QED
    BY <1>1, <1>2, <2>1, ClientWritten
<1>6. Enqueued \in JobRecord /\ Sane(j, Enqueued) /\ Honest(j, Enqueued)'
  <2>1. Enqueued.good = {} /\ Enqueued.step = "none"
    BY DEF Enqueued, Absent
  <2> QED
    BY <2>1, AbsentIsSane DEF Honest
<1>7. <<"enqueue", j>> \in Owners
  BY OwnersTyped
<1>8. /\ jobs' \in [Jobs -> JobRecord] /\ stored' \in [Jobs -> JobRecord] /\ ImagesInv'
      /\ saves' \in Seq([image : [Jobs -> JobRecord], owner : Owners]) /\ refused' \subseteq Owners
  BY <1>1, <1>3, <1>5, <1>6, <1>7, JobWritten
<1>9. TypeOK'
  BY <1>1, <1>2, <1>3, <1>5, <1>8 DEF TypeOK, TransferInv
<1>10. RunInv'
  <2>1. Enqueued.good = jobs[j].good /\ Enqueued.bad = jobs[j].bad /\ Enqueued.status = "paused"
    BY <1>4 DEF Enqueued, Absent
  <2>2. ~(j = J /\ run.pc \in {"starting", "working"})
    BY <1>2, <1>4, AbsentIsSane DEF RunInv
  <2>3. \A k \in Jobs : ending[k] \in {"saving", "hook", "closing"} => k # j
    BY <1>2, <1>4, AbsentIsSane DEF RunInv, Terminal
  <2> QED
    BY <1>1, <1>3, <2>1, <2>2, <2>3, RunStays
<1> QED
  BY <1>3, <1>8, <1>9, <1>10 DEF OpsInv

LEMMA CancelStep == ASSUME OpsInv, NEW j \in Jobs, Cancel(j) PROVE OpsInv' /\ Lasting
<1> DEFINE running == jobs[j].status = "running"
           new == IF running THEN [jobs[j] EXCEPT !.cancel = TRUE]
                  ELSE [jobs[j] EXCEPT !.cancel = TRUE, !.status = "cancelled", !.reason = "none"]
           owner == IF running THEN <<"cancel", j>> ELSE <<"finish", j>>
           c == IF running THEN "saving" ELSE "finishing"
<1>1. /\ UNCHANGED <<transferVars, stored, run, wakes, moved, wedged>> /\ Spend("cancel")
      /\ jobs' = [jobs EXCEPT ![j] = new] /\ Save(owner, jobs') /\ jobs[j].status \in {"running", "paused"}
      /\ clients' = [clients EXCEPT ![j] = [clients[j] EXCEPT !.cancel = c]]
      /\ running => ending' = ending
      /\ ~running => ending' = [ending EXCEPT ![j] = "saving"]
  BY DEF Cancel
<1>2. TypeOK /\ TransferInv /\ RunInv /\ jobs[j] \in JobRecord
  BY DEF OpsInv, TypeOK
<1>3. TransferInv' /\ Lasting /\ QueueStays
  BY <1>1, <1>2, TransferRests, RestStays
<1>4. /\ new \in JobRecord /\ new.good = jobs[j].good /\ new.bad = jobs[j].bad /\ new.step = jobs[j].step
      /\ running => new.status = "running"
      /\ ~running => new.status = "cancelled"
  BY <1>2 DEF JobRecord
<1>5. owner \in Owners /\ c \in {"saving", "finishing"}
  BY OwnersTyped
<1> HIDE DEF new, owner, c
<1>6. clients[j].asked # "no"
  BY <1>1, AskedFor
<1>7. clients' \in [Jobs -> [asked : {"no", "waiting", "accepted", "refused"}, cancel : {"no", "saving", "finishing", "answered"}]]
      /\ \A k \in Jobs : clients'[k].asked = "no" => clients[k].asked = "no" /\ k # j
  <2>1. [clients[j] EXCEPT !.cancel = c] \in [asked : {"no", "waiting", "accepted", "refused"}, cancel : {"no", "saving", "finishing", "answered"}]
        /\ [clients[j] EXCEPT !.cancel = c].asked = clients[j].asked
    BY <1>2, <1>5, ClientsTyped
  <2> QED
    BY <1>1, <1>2, <1>6, <2>1, ClientWritten
<1>8. /\ jobs' \in [Jobs -> JobRecord] /\ stored' \in [Jobs -> JobRecord] /\ ImagesInv'
      /\ saves' \in Seq([image : [Jobs -> JobRecord], owner : Owners]) /\ refused' \subseteq Owners
  <2>1. /\ jobs' = [jobs EXCEPT ![j] = new] /\ Save(owner, jobs') /\ stored' = stored
        /\ new.step = "published" => jobs[j].step = "published"
        /\ new.status \in {"paused", "running"} => jobs[j].status \in {"paused", "running"}
    BY <1>1, <1>4
  <2> QED
    BY <1>3, <1>4, <1>5, <1>7, <2>1, JobMarked
<1>9. spent' \in [Mishaps -> Nat] /\ ending' \in [Jobs -> {"no", "saving", "hook", "closing", "done", "threw"}]
  BY <1>1, <1>2, SpentTyped DEF TypeOK
<1>10. TypeOK'
  BY <1>1, <1>2, <1>3, <1>7, <1>8, <1>9 DEF TypeOK, TransferInv
<1>11. RunInv'
  <2>1. \A k \in Jobs : ending[k] \in {"saving", "hook", "closing"} => k # j
    BY <1>1, <1>2 DEF RunInv, Terminal
  <2>2. j = J /\ run.pc \in {"starting", "working"} => running
    BY <1>2 DEF RunInv
  <2>3. ~running => Terminal(new)
    BY <1>4 DEF Terminal
  <2>4. \A k \in Jobs : k # j => ending'[k] = ending[k]
    BY <1>1, <1>2 DEF TypeOK
  <2>5. running => ending'[j] = ending[j]
    BY <1>1
  <2> QED
    BY <1>1, <1>3, <1>4, <2>1, <2>2, <2>3, <2>4, <2>5, RunStays
<1> QED
  BY <1>3, <1>8, <1>10, <1>11 DEF OpsInv

LEMMA BlockedStep == ASSUME OpsInv, Blocked PROVE OpsInv' /\ Lasting
<1> DEFINE new == [jobs[J] EXCEPT !.reason = "blocked"]
<1>1. /\ UNCHANGED <<transferVars, stored, ending, wakes, clients, moved, wedged>> /\ Spend("blocked")
      /\ jobs' = [jobs EXCEPT ![J] = new] /\ Save(Runner, jobs') /\ run.pc = "asking"
      /\ run' = [run EXCEPT !.pc = "parking"]
  BY DEF Blocked, RunAt, RunTo
<1>2. TypeOK /\ TransferInv /\ RunInv /\ J \in Jobs /\ jobs[J] \in JobRecord /\ jobs[J].status # "absent"
  BY <1>1 DEF OpsInv, TypeOK, RunInv
<1>3. TransferInv' /\ Lasting /\ UNCHANGED <<at, known, kept, dirty, unkept, lost, work>>
  BY <1>1, <1>2, TransferRests
<1>4. /\ new \in JobRecord /\ new.good = jobs[J].good /\ new.bad = jobs[J].bad /\ new.step = jobs[J].step
      /\ new.status = jobs[J].status
  BY <1>2 DEF JobRecord
<1> HIDE DEF new
<1>5. \A k \in Jobs : clients'[k].asked = "no" => clients[k].asked = "no" /\ k # J
  BY <1>1, <1>2, AskedFor
<1>6. /\ jobs' \in [Jobs -> JobRecord] /\ stored' \in [Jobs -> JobRecord] /\ ImagesInv'
      /\ saves' \in Seq([image : [Jobs -> JobRecord], owner : Owners]) /\ refused' \subseteq Owners
  <2>1. /\ new.step = "published" => jobs[J].step = "published"
        /\ new.status \in {"paused", "running"} => jobs[J].status \in {"paused", "running"}
        /\ stored' = stored
    BY <1>1, <1>4
  <2> QED
    BY <1>1, <1>2, <1>3, <1>4, <1>5, <2>1, OwnersTyped, JobMarked
<1>7. spent' \in [Mishaps -> Nat]
  BY <1>1, <1>2, SpentTyped DEF TypeOK
<1>8. /\ run' \in [pc : {"idle", "next", "asking", "parking", "starting", "working", "resting", "finishing", "loading", "down"},
                   job : Jobs \cup {0}]
      /\ run'.pc = "parking" /\ run'.job = run.job
  BY <1>1, <1>2, RunTyped
<1>9. TypeOK'
  BY <1>1, <1>2, <1>3, <1>6, <1>7, <1>8 DEF TypeOK, TransferInv
<1>10. RunInv'
  <2>1. jobs'[J] = new /\ \A k \in Jobs : k # J => jobs'[k] = jobs[k]
    BY <1>1, <1>2 DEF TypeOK
  <2>2. \A k \in Jobs : jobs'[k].status = jobs[k].status
    BY <1>4, <2>1
  <2> QED
    BY <1>1, <1>2, <1>3, <1>8, <2>2 DEF RunInv, J, Terminal, At, Item
<1> QED
  BY <1>3, <1>6, <1>9, <1>10 DEF OpsInv

\* A timer gives a waiting job back to the pump; what the file says comes later.
LEMMA WakeStep == ASSUME OpsInv, NEW j \in Jobs, Wake(j) PROVE OpsInv' /\ Lasting
<1> DEFINE woken == IF jobs[j].status = "paused" THEN [jobs[j] EXCEPT !.reason = "queue"] ELSE jobs[j]
<1>1. /\ UNCHANGED <<transferVars, stored, saves, refused, ending, clients, moved, spent, wedged>>
      /\ wakes' = wakes \ {j} /\ run' = Pump(run)
  BY DEF Wake
<1>2. TypeOK /\ TransferInv /\ RunInv /\ ImagesInv /\ jobs \in [Jobs -> JobRecord] /\ jobs[j] \in JobRecord
  BY DEF OpsInv, TypeOK
<1>3. jobs' = [jobs EXCEPT ![j] = woken]
  <2>1. CASE jobs[j].status = "paused"
    BY <2>1 DEF Wake
  <2>2. CASE jobs[j].status # "paused"
    BY <1>2, <2>2 DEF Wake
  <2> QED
    BY <2>1, <2>2
<1>4. TransferInv' /\ Lasting /\ UNCHANGED <<at, known, kept, dirty, unkept, lost, work>>
  BY <1>1, <1>2, TransferRests
<1>4a. /\ woken \in JobRecord /\ woken.good = jobs[j].good /\ woken.bad = jobs[j].bad /\ woken.step = jobs[j].step
      /\ woken.status = jobs[j].status /\ (jobs[j].status # "paused" => woken = jobs[j])
  BY <1>2 DEF JobRecord
<1>5. PICK new \in JobRecord :
        /\ new.good = jobs[j].good /\ new.bad = jobs[j].bad /\ new.step = jobs[j].step
        /\ new.status = jobs[j].status /\ (jobs[j].status # "paused" => new = jobs[j])
        /\ jobs' = [jobs EXCEPT ![j] = new]
  BY <1>3, <1>4a
<1>6. jobs' \in [Jobs -> JobRecord] /\ jobs'[j] = new /\ \A k \in Jobs : k # j => jobs'[k] = jobs[k]
  BY <1>2, <1>5
<1>7. Sane(j, jobs[j]) /\ Honest(j, jobs[j])
  BY <1>2 DEF ImagesInv
<1>8. Sane(j, new) /\ Honest(j, new)'
  BY <1>2, <1>4, <1>5, <1>7, SaneStays, HonestStays
<1>9. ImagesInv'
  <2>1. Honest(j, jobs[j])' <=> Honest(j, new)'
    BY <1>6 DEF Honest, At1, Handled
  <2>2. Written' \subseteq Written \cup {jobs, jobs'}
    BY <1>1 DEF Written
  <2>3. clients[j].asked = "no" => jobs'[j] = jobs[j]
    BY <1>2, <1>5, <1>6, AbsentIsSane DEF ImagesInv
  <2>4. \A k \in Jobs : clients'[k].asked = "no" => clients[k].asked = "no" /\ jobs'[k] = jobs[k]
    BY <1>1, <1>6, <2>3
  <2>5. \A k \in Jobs : jobs'[k] = jobs[k] \/ (Sane(k, jobs'[k]) /\ Honest(k, jobs[k])')
    BY <1>6, <1>8, <2>1
  <2> QED
    BY <1>2, <1>4, <2>2, <2>4, <2>5, ImagesStep
<1>10. /\ run' \in [pc : {"idle", "next", "asking", "parking", "starting", "working", "resting", "finishing", "loading", "down"},
                   job : Jobs \cup {0}]
       /\ run' = run \/ (run.pc = "idle" /\ run'.pc = "next")
  BY <1>1, <1>2 DEF Pump, TypeOK
<1>11. TypeOK'
  BY <1>1, <1>2, <1>4, <1>6, <1>10 DEF TypeOK, TransferInv
<1>12. RunInv'
  <2>1. \A k \in Jobs : jobs'[k].status = jobs[k].status /\ Handled(jobs'[k]) = Handled(jobs[k])
    BY <1>5, <1>6 DEF Handled
  <2>2. \A k \in Jobs : ItemsOf[k][Handled(jobs'[k]) + 1] = ItemsOf[k][Handled(jobs[k]) + 1]
    BY <2>1
  <2>3. CASE run' = run
    BY <1>1, <1>2, <1>4, <2>1, <2>2, <2>3 DEF RunInv, J, Terminal, At, Item, Current
  <2>4. CASE run.pc = "idle" /\ run'.pc = "next"
    BY <1>1, <1>2, <1>4, <2>1, <2>4 DEF RunInv, J, Terminal, At, Item
  <2> QED
    BY <1>10, <2>3, <2>4
<1> QED
  BY <1>4, <1>9, <1>11, <1>12 DEF OpsInv

LEMMA StartsStep == ASSUME OpsInv, Starts PROVE OpsInv' /\ Lasting
<1> DEFINE new == [jobs[J] EXCEPT !.status = "running", !.reason = "none"]
<1>1. /\ UNCHANGED <<transferVars, stored, ending, wakes, clients, moved, spent, wedged>> /\ ~Terminal(jobs[J])
      /\ jobs' = [jobs EXCEPT ![J] = new] /\ Save(Runner, jobs') /\ run.pc = "asking"
      /\ run' = [run EXCEPT !.pc = "starting"]
  BY DEF Starts, RunAt, RunTo
<1>2. TypeOK /\ TransferInv /\ RunInv /\ J \in Jobs /\ jobs[J] \in JobRecord /\ jobs[J].status # "absent"
  BY <1>1 DEF OpsInv, TypeOK, RunInv
<1>3. TransferInv' /\ Lasting /\ UNCHANGED <<at, known, kept, dirty, unkept, lost, work>>
  BY <1>1, <1>2, TransferRests
<1>4. jobs[J].status \in {"paused", "running"}
  BY <1>1, <1>2 DEF JobRecord, Terminal
<1>5. /\ new \in JobRecord /\ new.good = jobs[J].good /\ new.bad = jobs[J].bad /\ new.step = jobs[J].step
      /\ new.status = "running"
  BY <1>2 DEF JobRecord
<1> HIDE DEF new
<1>6. \A k \in Jobs : clients'[k].asked = "no" => clients[k].asked = "no" /\ k # J
  BY <1>1, <1>2, AskedFor
<1>7. /\ jobs' \in [Jobs -> JobRecord] /\ stored' \in [Jobs -> JobRecord] /\ ImagesInv'
      /\ saves' \in Seq([image : [Jobs -> JobRecord], owner : Owners]) /\ refused' \subseteq Owners
  <2>1. new.step = "published" => jobs[J].step = "published"
    BY <1>5
  <2>2. new.status \in {"paused", "running"} => jobs[J].status \in {"paused", "running"}
    BY <1>4
  <2>3. stored' = stored
    BY <1>1
  <2> QED
    BY <1>1, <1>2, <1>3, <1>5, <1>6, <2>1, <2>2, <2>3, OwnersTyped, JobMarked
<1>8. /\ run' \in [pc : {"idle", "next", "asking", "parking", "starting", "working", "resting", "finishing", "loading", "down"},
                   job : Jobs \cup {0}]
      /\ run'.pc = "starting" /\ run'.job = run.job
  BY <1>1, <1>2, RunTyped
<1>9. TypeOK'
  BY <1>1, <1>2, <1>3, <1>7, <1>8 DEF TypeOK, TransferInv
<1>10. RunInv'
  <2>1. jobs'[J] = new /\ \A k \in Jobs : k # J => jobs'[k] = jobs[k]
    BY <1>1, <1>2 DEF TypeOK
  <2>2. \A k \in Jobs : Terminal(jobs[k]) => Terminal(jobs'[k])
    BY <1>1, <2>1
  <2> QED
    BY <1>1, <1>2, <1>3, <1>5, <1>8, <2>1, <2>2 DEF RunInv, J, At, Item
<1> QED
  BY <1>3, <1>7, <1>9, <1>10 DEF OpsInv

LEMMA ExecutesStep == ASSUME OpsInv, Executes PROVE OpsInv' /\ Lasting
<1> DEFINE pc == IF jobs[J].step = "none" THEN "check" ELSE "resume"
<1>1. /\ UNCHANGED <<at, known, kept, dirty, unkept, lost, jobs, stored, saves, refused, ending, wakes, clients, moved, spent, wedged>>
      /\ work' = [work EXCEPT ![Queue] = Begun(Current(J), pc)] /\ run.pc = "starting"
      /\ run' = [run EXCEPT !.pc = "working"]
  BY DEF Executes, RunAt, RunTo
<1>2. TypeOK /\ TransferInv /\ RunInv /\ ImagesInv /\ J \in Jobs /\ jobs[J] \in JobRecord /\ jobs[J].status = "running"
  BY <1>1 DEF OpsInv, TypeOK, RunInv
<1>3. Current(J) \in Items
  <2>1. Sane(J, jobs[J])
    BY <1>2 DEF ImagesInv
  <2>2. Handled(jobs[J]) < Len(ItemsOf[J])
    BY <1>2, <2>1 DEF Sane
  <2> QED
    BY <1>2, <2>1, <2>2, HandledCounts DEF Current, At1
<1>4. pc \in {"check", "resume"} /\ pc \in PCs
  BY DEF PCs
<1>5. Begun(Current(J), pc) \in Worker /\ Begun(Current(J), pc).pc = pc /\ Begun(Current(J), pc).item = Current(J)
  BY <1>3, <1>4, IdleIsWorker
<1> HIDE DEF pc
<1>6. TransferInv' /\ Lasting
  BY <1>1, <1>2, <1>3, <1>4, <1>5, QueueWorks, WorkerGiven
<1>7. work'[Queue] = Begun(Current(J), pc)
  BY <1>1, <1>2, QueueWorks DEF TransferInv, TransferTypeOK
<1>8. /\ run' \in [pc : {"idle", "next", "asking", "parking", "starting", "working", "resting", "finishing", "loading", "down"},
                   job : Jobs \cup {0}]
      /\ run'.pc = "working" /\ run'.job = run.job
  BY <1>1, <1>2, RunTyped
<1>9. TypeOK'
  BY <1>1, <1>2, <1>6, <1>8 DEF TypeOK, TransferInv
<1>10. ImagesInv'
  BY <1>1, <1>2, <1>6, ImagesStep DEF Written
<1>11. RunInv'
  BY <1>1, <1>2, <1>4, <1>5, <1>7, <1>8 DEF RunInv, J, At, Item, Terminal, Current, Handled
<1> QED
  BY <1>6, <1>9, <1>10, <1>11 DEF OpsInv

\* The pump hands its job over to finish().
LEMMA FinishBegins ==
    ASSUME OpsInv, TransferInv', Lasting, At(Queue, "idle")', NEW j \in Jobs, j = J, jobs[j].status # "absent",
           NEW new \in JobRecord, Terminal(new), Sane(j, new), Honest(j, new)', StartFinish(new),
           UNCHANGED <<stored, wakes, clients, moved, spent, wedged>>
    PROVE  OpsInv'
<1>1. /\ jobs' = [jobs EXCEPT ![j] = new] /\ Save(<<"finish", j>>, jobs')
      /\ ending' = [ending EXCEPT ![j] = "saving"] /\ run' = [run EXCEPT !.pc = "finishing"]
  BY DEF StartFinish, RunTo
<1>2. TypeOK /\ RunInv
  BY DEF OpsInv
<1>3. \A k \in Jobs : clients'[k].asked = "no" => clients[k].asked = "no" /\ k # j
  BY AskedFor
<1>4. <<"finish", j>> \in Owners
  BY OwnersTyped
<1>5. /\ jobs' \in [Jobs -> JobRecord] /\ stored' \in [Jobs -> JobRecord] /\ ImagesInv'
      /\ saves' \in Seq([image : [Jobs -> JobRecord], owner : Owners]) /\ refused' \subseteq Owners
  BY <1>1, <1>3, <1>4, JobWritten
<1>6. /\ run' \in [pc : {"idle", "next", "asking", "parking", "starting", "working", "resting", "finishing", "loading", "down"},
                   job : Jobs \cup {0}]
      /\ run'.pc = "finishing" /\ run'.job = run.job
  BY <1>1, <1>2, RunTyped
<1>7. TypeOK'
  BY <1>1, <1>2, <1>5, <1>6 DEF TypeOK, TransferInv
<1>8. RunInv'
  <2>1. jobs'[j] = new /\ \A k \in Jobs : k # j => jobs'[k] = jobs[k] /\ ending'[k] = ending[k]
    BY <1>1, <1>2 DEF TypeOK
  <2>2. \A k \in Jobs : ending'[k] \in {"saving", "hook", "closing"} => Terminal(jobs'[k])
    BY <1>2, <2>1 DEF RunInv
  <2> QED
    BY <1>6, <2>2 DEF RunInv, J
<1> QED
  BY <1>5, <1>7, <1>8 DEF OpsInv

LEMMA StopsShortStep == ASSUME OpsInv, StopsShort PROVE OpsInv' /\ Lasting
<1>1. TypeOK /\ TransferInv /\ RunInv /\ ImagesInv /\ run.pc = "starting" /\ UNCHANGED transferVars
  BY DEF OpsInv, StopsShort, RunAt
<1>2. PICK j \in Jobs : j = J /\ jobs[j] \in JobRecord /\ jobs[j].status = "running" /\ At(Queue, "idle")
  BY <1>1 DEF RunInv, TypeOK
<1>3. TransferInv' /\ Lasting /\ At(Queue, "idle")'
  BY <1>1, <1>2, TransferRests DEF At
<1>4. PICK new \in JobRecord :
        /\ StartFinish(new) /\ new.status = "cancelled" /\ new.step = "none"
        /\ new.good = jobs[j].good /\ new.bad = jobs[j].bad
  <2>1. [jobs[j] EXCEPT !.status = "cancelled", !.step = "none"] \in JobRecord
    BY <1>2 DEF JobRecord
  <2> QED
    BY <1>2, <2>1 DEF StopsShort, JobRecord
<1>5. Sane(j, new) /\ Honest(j, new)'
  BY <1>1, <1>2, <1>3, <1>4, SaneStays, HonestStays DEF ImagesInv
<1>6. Terminal(new) /\ jobs[j].status # "absent"
  BY <1>2, <1>4 DEF Terminal
<1> QED
  BY <1>2, <1>3, <1>4, <1>5, <1>6, FinishBegins DEF StopsShort

\* The record is written before the disk is touched, and once the item has landed.
LEMMA RecordStep == ASSUME OpsInv, Record PROVE OpsInv' /\ Lasting
<1>0. PICK j \in Jobs : j = J
  BY DEF OpsInv, RunInv, Record, RunAt
<1>1. PICK pc \in {"record", "landed"} :
        /\ At(Queue, pc) /\ jobs' = [jobs EXCEPT ![j] = [jobs[j] EXCEPT !.step = IF pc = "record" THEN "moving" ELSE "published"]]
        /\ Save(Runner, jobs') /\ GoTo(Queue, IF pc = "record" THEN "recording" ELSE "recordingLanding")
  BY <1>0 DEF Record
<1>2. run.pc = "working" /\ UNCHANGED <<at, known, kept, dirty, unkept, lost, stored, run, ending, wakes, clients, moved, spent, wedged>>
  BY DEF Record, RunAt
<1>3. TypeOK /\ TransferInv /\ RunInv /\ ImagesInv /\ jobs[j] \in JobRecord /\ jobs[j].status = "running"
      /\ Item(Queue) = Current(j)
  BY <1>0, <1>2 DEF OpsInv, TypeOK, RunInv
<1>4. /\ ~At(Queue, "idle") /\ ~At(Queue, "done")
      /\ pc = "landed" /\ Alone(Item(Queue)) => at[To(Queue)] = Item(Queue)
  BY <1>1, <1>3, QueueWorks DEF At, TransferInv, WorkInv, Works, Past, Item, To
<1>5. PICK next \in {"recording", "recordingLanding"} :
        GoTo(Queue, next) /\ next \in PCs \ {"idle", "flush", "remove"} /\ (next \in Past => pc = "landed") /\ next # "ok"
  BY <1>1 DEF PCs, Past
<1>6. TransferInv' /\ Lasting
  BY <1>2, <1>3, <1>4, <1>5, QueueWorks, PutGoes DEF Put
<1>7. QueueStays
  BY <1>3, <1>4, <1>5, QueueWorks, GoneStays
<1>8. PICK new \in JobRecord :
        /\ jobs' = [jobs EXCEPT ![j] = new] /\ new.status = "running"
        /\ new.good = jobs[j].good /\ new.bad = jobs[j].bad /\ (new.step = "published" => pc = "landed")
  <2>1. /\ [jobs[j] EXCEPT !.step = IF pc = "record" THEN "moving" ELSE "published"] \in JobRecord
        /\ [jobs[j] EXCEPT !.step = IF pc = "record" THEN "moving" ELSE "published"].status = "running"
        /\ [jobs[j] EXCEPT !.step = IF pc = "record" THEN "moving" ELSE "published"].good = jobs[j].good
        /\ [jobs[j] EXCEPT !.step = IF pc = "record" THEN "moving" ELSE "published"].bad = jobs[j].bad
        /\ [jobs[j] EXCEPT !.step = IF pc = "record" THEN "moving" ELSE "published"].step = "published" => pc = "landed"
    BY <1>3 DEF JobRecord
  <2> QED
    BY <1>1, <2>1
<1>9. Sane(j, jobs[j]) /\ Honest(j, jobs[j]) /\ Sane(j, new) /\ Handled(new) = Handled(jobs[j])
  BY <1>3, <1>8, SaneStays DEF ImagesInv
<1>10. Honest(j, new)'
  <2>1. At1(j, new) = Item(Queue)
    BY <1>3, <1>9 DEF At1, Current
  <2>2. new.step = "published" /\ Alone(At1(j, new)) => at'[TargetOf[At1(j, new)]] = At1(j, new)
    BY <1>2, <1>4, <1>8, <2>1 DEF To
  <2>3. \A i \in new.good : (Alone(i) => at'[TargetOf[i]] = i) /\ (Keeps(i) => Held(i)')
    BY <1>2, <1>8, <1>9 DEF Honest, Held
  <2> QED
    BY <2>2, <2>3 DEF Honest
<1>11. \A k \in Jobs : clients'[k].asked = "no" => clients[k].asked = "no" /\ k # j
  BY <1>2, <1>3, AskedFor
<1>12. /\ jobs' \in [Jobs -> JobRecord] /\ stored' \in [Jobs -> JobRecord] /\ ImagesInv'
       /\ saves' \in Seq([image : [Jobs -> JobRecord], owner : Owners]) /\ refused' \subseteq Owners
  <2>1. stored' = stored /\ Runner \in Owners
    BY <1>2, OwnersTyped
  <2> QED
    BY <1>1, <1>3, <1>6, <1>8, <1>9, <1>10, <1>11, <2>1, JobWritten
<1>13. TypeOK'
  BY <1>2, <1>3, <1>6, <1>12 DEF TypeOK, TransferInv
<1>14. RunInv'
  <2>1. \A k \in Jobs : ending'[k] \in {"saving", "hook", "closing"} => k # j /\ ending[k] \in {"saving", "hook", "closing"}
    BY <1>2, <1>3 DEF RunInv, Terminal
  <2> QED
    BY <1>2, <1>3, <1>7, <1>8, <2>1, RunStays
<1> QED
  BY <1>6, <1>12, <1>13, <1>14 DEF OpsInv

LEMMA RecordedStep == ASSUME OpsInv, Recorded PROVE OpsInv' /\ Lasting
<1>1. UNCHANGED <<at, known, kept, dirty, unkept, lost, opsVars>> /\ TransferInv
  BY DEF Recorded, OpsInv
<1>2. PICK pc \in {"reserve", "copy", "failed", "ok", "carry"} :
        GoTo(Queue, pc) /\ ~At(Queue, "idle") /\ ~At(Queue, "done")
        /\ (pc \in {"ok", "carry"} => At(Queue, "recordingLanding"))
        /\ (pc = "ok" => OpOf[Item(Queue)] = "reroot")
  <2>1. CASE At(Queue, "recording")
    BY <2>1 DEF Recorded, At
  <2>2. CASE At(Queue, "recordingLanding") /\ OpOf[Item(Queue)] = "reroot"
    BY <2>2 DEF Recorded, At
  <2>3. CASE At(Queue, "recordingLanding") /\ OpOf[Item(Queue)] # "reroot"
    BY <2>3 DEF Recorded, At
  <2> QED
    BY <2>1, <2>2, <2>3 DEF Recorded
<1>3. pc \in PCs \ {"idle", "flush", "remove"} /\ (pc \in Past => pc \in {"ok", "carry"})
  BY DEF PCs, Past
<1>4. At(Queue, "recordingLanding") /\ Alone(Item(Queue)) => at[To(Queue)] = Item(Queue)
  BY <1>1, QueueWorks DEF At, TransferInv, WorkInv, Works, Past, Item, To
<1>5. pc = "ok" => ~Keeps(Item(Queue))
  BY <1>2 DEF Keeps
<1>6. TransferInv' /\ Lasting
  BY <1>1, <1>2, <1>3, <1>4, <1>5, QueueWorks, PutGoes DEF Put
<1>7. QueueStays
  BY <1>1, <1>2, <1>3, QueueWorks, GoneStays
<1> QED
  BY <1>1, <1>6, <1>7, TransferOnly DEF opsVars

\* One more item of the job is counted, as good or as bad.
LEMMA CountedKeeps ==
    ASSUME NEW j \in Jobs, NEW job \in JobRecord, Sane(j, job), Handled(job) < Len(ItemsOf[j]), NEW good \in BOOLEAN,
           NEW item, item = At1(j, job)
    PROVE  LET new == Counted(job, item, good)
           IN  /\ new \in JobRecord /\ new.step = "none" /\ new.cancel = job.cancel
               /\ new.good \subseteq job.good \cup (IF good THEN {item} ELSE {})
               /\ IsFiniteSet(new.good) /\ IsFiniteSet(new.bad) /\ Handled(new) \in Nat
               /\ Handled(new) <= Len(ItemsOf[j])
               /\ \A k \in 1 .. Handled(new) : ItemsOf[j][k] \in new.good \cup new.bad
<1> DEFINE new == Counted(job, item, good)
<1>1. item \in Items /\ Handled(job) \in Nat /\ Len(ItemsOf[j]) \in Nat
  BY HandledCounts, ItemsTyped
<1>2. /\ new \in JobRecord /\ new.step = "none" /\ new.cancel = job.cancel
      /\ new.good = IF good THEN job.good \cup {item} ELSE job.good
      /\ new.bad = IF good THEN job.bad ELSE job.bad \cup {item}
  BY <1>1 DEF Counted, JobRecord
<1> HIDE DEF new
<1>3. IsFiniteSet(job.good) /\ IsFiniteSet(job.bad)
  BY DEF Sane
<1>4. /\ Cardinality(job.good) \in Nat /\ Cardinality(job.bad) \in Nat
      /\ Handled(job) = Cardinality(job.good) + Cardinality(job.bad)
  BY <1>3, FS_CardinalityType DEF Handled
<1>5. \A S : IsFiniteSet(S) => /\ IsFiniteSet(S \cup {item}) /\ Cardinality(S) \in Nat
                               /\ Cardinality(S \cup {item}) \in {Cardinality(S), Cardinality(S) + 1}
  BY FS_AddElement, FS_CardinalityType
<1>6. /\ IsFiniteSet(new.good) /\ IsFiniteSet(new.bad) /\ Cardinality(new.good) \in Nat /\ Cardinality(new.bad) \in Nat
      /\ Cardinality(new.good) + Cardinality(new.bad) \in {Handled(job), Handled(job) + 1}
  <2>1. CASE good
    <3>1. new.good = job.good \cup {item} /\ new.bad = job.bad
      BY <1>2, <2>1
    <3>2. Cardinality(new.good) \in {Cardinality(job.good), Cardinality(job.good) + 1} /\ IsFiniteSet(new.good)
      BY <1>3, <1>5, <3>1
    <3> QED
      BY <1>3, <1>4, <3>1, <3>2
  <2>2. CASE ~good
    <3>1. new.good = job.good /\ new.bad = job.bad \cup {item}
      BY <1>2, <2>2
    <3>2. Cardinality(new.bad) \in {Cardinality(job.bad), Cardinality(job.bad) + 1} /\ IsFiniteSet(new.bad)
      BY <1>3, <1>5, <3>1
    <3> QED
      BY <1>3, <1>4, <3>1, <3>2
  <2> QED
    BY <2>1, <2>2
<1>7. Handled(new) \in {Handled(job), Handled(job) + 1}
  BY <1>6 DEF Handled
<1>8. ASSUME NEW k \in 1 .. Handled(new) PROVE ItemsOf[j][k] \in new.good \cup new.bad
  <2>1. job.good \subseteq new.good /\ job.bad \subseteq new.bad /\ item \in new.good \cup new.bad
    BY <1>2
  <2>2. k \in 1 .. Handled(job) \/ k = Handled(job) + 1
    BY <1>1, <1>7
  <2>3. k = Handled(job) + 1 => ItemsOf[j][k] = item
    BY DEF At1
  <2>4. k \in 1 .. Handled(job) => ItemsOf[j][k] \in job.good \cup job.bad
    BY DEF Sane
  <2> QED
    BY <2>1, <2>2, <2>3, <2>4
<1>9. new.good \subseteq job.good \cup (IF good THEN {item} ELSE {})
  BY <1>2
<1>10. Handled(new) \in Nat /\ Handled(new) <= Len(ItemsOf[j])
  BY <1>1, <1>7
<1> QED
  BY <1>2, <1>6, <1>8, <1>9, <1>10 DEF new

\* What has been counted, under another status.
LEMMA CountedStays ==
    ASSUME NEW j \in Jobs, NEW job, NEW new, new.good = job.good, new.bad = job.bad, new.step = "none",
           IsFiniteSet(job.good), IsFiniteSet(job.bad), Handled(job) <= Len(ItemsOf[j]),
           \A k \in 1 .. Handled(job) : ItemsOf[j][k] \in job.good \cup job.bad,
           new.status \in {"paused", "running"} => Handled(job) < Len(ItemsOf[j]),
           \A i \in job.good : (Alone(i) => at'[TargetOf[i]] = i) /\ (Keeps(i) => Held(i)')
    PROVE  Sane(j, new) /\ Honest(j, new)'
<1>1. Handled(new) = Handled(job)
  BY DEF Handled
<1>2. Sane(j, new)
  BY <1>1 DEF Sane
<1>3. Honest(j, new)'
  BY DEF Honest
<1> QED
  BY <1>2, <1>3

\* The pump takes its worker back and counts the item.
LEMMA SettleStep == ASSUME OpsInv, Settle PROVE OpsInv' /\ Lasting
<1>0. PICK j \in Jobs : j = J
  BY DEF OpsInv, RunInv, Settle, RunAt
<1> DEFINE good == At(Queue, "ok")
           counted == Counted(jobs[j], Item(Queue), good)
           ended == [counted EXCEPT !.status = IF counted.cancel THEN "cancelled" ELSE Verdict(j, counted)]
           going == [counted EXCEPT !.status = "paused", !.reason = "queue"]
<1>1. /\ run.pc = "working" /\ (At(Queue, "ok") \/ At(Queue, "failed")) /\ work' = [work EXCEPT ![Queue] = Idle]
      /\ UNCHANGED <<at, known, kept, dirty, unkept, lost, stored, wakes, clients, moved, spent, wedged>>
      /\ \/ StartFinish(ended)
         \/ /\ ~Exhausted(j, counted) /\ jobs' = [jobs EXCEPT ![j] = going] /\ Save(Runner, jobs')
            /\ run' = [run EXCEPT !.pc = "resting"] /\ ending' = ending
  BY <1>0 DEF Settle, RunAt, RunTo
<1>2. TypeOK /\ TransferInv /\ RunInv /\ ImagesInv /\ jobs[j] \in JobRecord /\ jobs[j].status = "running"
      /\ Item(Queue) = Current(j)
  BY <1>0, <1>1 DEF OpsInv, TypeOK, RunInv
<1>3. Sane(j, jobs[j]) /\ Honest(j, jobs[j])
  BY <1>2 DEF ImagesInv
<1>4. Handled(jobs[j]) < Len(ItemsOf[j]) /\ Item(Queue) = At1(j, jobs[j]) /\ Item(Queue) \in Items
  <2>1. Handled(jobs[j]) < Len(ItemsOf[j])
    BY <1>2, <1>3 DEF Sane
  <2> QED
    BY <1>2, <1>3, <2>1, HandledCounts DEF At1, Current
<1>5. good \in BOOLEAN
  BY DEF At
<1>6. /\ good /\ Alone(Item(Queue)) => at[TargetOf[Item(Queue)]] = Item(Queue)
      /\ good /\ Keeps(Item(Queue)) => Held(Item(Queue))
  BY <1>2, <1>4, QueueWorks DEF At, TransferInv, WorkInv, Works, Flushes, Past, Item
<1>7. TransferInv' /\ Lasting
  BY <1>1, <1>2, IdleIsWorker, QueueWorks, WorkerGiven
<1>8. At(Queue, "idle")'
  BY <1>1, <1>2, IdleIsWorker, QueueWorks DEF At, TransferInv, TransferTypeOK
<1>9. /\ counted \in JobRecord /\ counted.step = "none"
      /\ counted.good \subseteq jobs[j].good \cup (IF good THEN {Item(Queue)} ELSE {})
      /\ IsFiniteSet(counted.good) /\ IsFiniteSet(counted.bad) /\ Handled(counted) \in Nat
      /\ Handled(counted) <= Len(ItemsOf[j])
      /\ \A k \in 1 .. Handled(counted) : ItemsOf[j][k] \in counted.good \cup counted.bad
  BY <1>2, <1>3, <1>4, <1>5, CountedKeeps
<1> HIDE DEF good, counted
<1>10. \A i \in counted.good : (Alone(i) => at'[TargetOf[i]] = i) /\ (Keeps(i) => Held(i)')
  <2>1. \A i \in jobs[j].good : (Alone(i) => at[TargetOf[i]] = i) /\ (Keeps(i) => Held(i))
    BY <1>3 DEF Honest
  <2>2. \A i \in counted.good : i \in jobs[j].good \/ (good /\ i = Item(Queue))
    BY <1>9
  <2>3. \A i : Held(i) => Held(i)'
    BY <1>1 DEF Held
  <2> QED
    BY <1>1, <1>6, <2>1, <2>2, <2>3
<1>11. jobs[j].status # "absent"
  BY <1>2
<1>12. CASE StartFinish(ended)
  <2>1. PICK new \in JobRecord : /\ StartFinish(new) /\ Terminal(new)
                                 /\ new.good = counted.good /\ new.bad = counted.bad /\ new.step = "none"
    <3>1. Verdict(j, counted) \in {"failed", "completed"}
      BY DEF Verdict
    <3>2. ended \in JobRecord /\ ended.status \in {"failed", "completed", "cancelled"}
          /\ ended.good = counted.good /\ ended.bad = counted.bad /\ ended.step = "none"
      BY <1>9, <3>1 DEF JobRecord
    <3>3. Terminal(ended)
      BY <3>2 DEF Terminal
    <3> QED
      BY <1>12, <3>2, <3>3
  <2>2. new.status \notin {"paused", "running"}
    BY <2>1 DEF Terminal
  <2>3. Sane(j, new) /\ Honest(j, new)'
    BY <1>2, <1>9, <1>10, <2>1, <2>2, CountedStays
  <2>4. UNCHANGED <<stored, wakes, clients, moved, spent, wedged>>
    BY <1>1
  <2>5. OpsInv'
    BY <1>0, <1>7, <1>8, <1>11, <2>1, <2>3, <2>4, FinishBegins
  <2> QED
    BY <1>7, <2>5
<1>13. CASE /\ ~Exhausted(j, counted) /\ jobs' = [jobs EXCEPT ![j] = going] /\ Save(Runner, jobs')
            /\ run' = [run EXCEPT !.pc = "resting"] /\ ending' = ending
  <2>1. PICK new \in JobRecord : /\ jobs' = [jobs EXCEPT ![j] = new] /\ new.status = "paused"
                                 /\ new.good = counted.good /\ new.bad = counted.bad /\ new.step = "none"
    <3>1. going \in JobRecord /\ going.status = "paused"
          /\ going.good = counted.good /\ going.bad = counted.bad /\ going.step = "none"
      BY <1>9 DEF JobRecord
    <3> QED
      BY <1>13, <3>1
  <2>2. Handled(counted) < Len(ItemsOf[j])
    BY <1>2, <1>9, <1>13, ItemsTyped DEF Exhausted
  <2>3. Sane(j, new) /\ Honest(j, new)'
    BY <1>2, <1>9, <1>10, <2>1, <2>2, CountedStays
  <2>4. \A k \in Jobs : clients'[k].asked = "no" => clients[k].asked = "no" /\ k # j
    BY <1>1, <1>2, <1>11, AskedFor
  <2>5. stored' = stored /\ Runner \in Owners
    BY <1>1, OwnersTyped
  <2>6. /\ jobs' \in [Jobs -> JobRecord] /\ stored' \in [Jobs -> JobRecord] /\ ImagesInv'
        /\ saves' \in Seq([image : [Jobs -> JobRecord], owner : Owners]) /\ refused' \subseteq Owners
    BY <1>2, <1>7, <1>13, <2>1, <2>3, <2>4, <2>5, JobWritten
  <2>7. /\ run' \in [pc : {"idle", "next", "asking", "parking", "starting", "working", "resting", "finishing", "loading", "down"},
                     job : Jobs \cup {0}]
        /\ run'.pc = "resting" /\ run'.job = run.job
    BY <1>2, <1>13, RunTyped
  <2>8. TypeOK'
    BY <1>1, <1>2, <1>7, <1>13, <2>6, <2>7 DEF TypeOK, TransferInv
  <2>9. RunInv'
    <3>1. \A k \in Jobs : k # j => jobs'[k] = jobs[k]
      BY <1>2, <2>1 DEF TypeOK
    <3>2. ending[j] \notin {"saving", "hook", "closing"}
      BY <1>2 DEF RunInv, Terminal
    <3>3. \A k \in Jobs : ending'[k] \in {"saving", "hook", "closing"} => Terminal(jobs'[k])
      BY <1>2, <1>13, <3>1, <3>2 DEF RunInv
    <3> QED
      BY <1>0, <1>2, <1>8, <2>7, <3>3 DEF RunInv, J
  <2> QED
    BY <1>7, <2>6, <2>8, <2>9 DEF OpsInv
<1> QED
  BY <1>1, <1>12, <1>13

\* The hook has had its say, or was refused; the job ended before.
LEMMA HookStep == ASSUME OpsInv, NEW j \in Jobs, Hook(j) \/ HookFails(j) PROVE OpsInv' /\ Lasting
<1>1. /\ UNCHANGED <<transferVars, stored, run, wakes, clients, wedged>> /\ ending[j] = "hook"
      /\ Save(<<"finish", j>>, jobs') /\ ending' = [ending EXCEPT ![j] = "closing"]
      /\ moved' \in {moved, moved \cup {j}} /\ (spent' = spent \/ Spend("taken"))
  BY DEF Hook, HookFails
<1>2. TypeOK /\ TransferInv /\ RunInv /\ jobs[j] \in JobRecord /\ Terminal(jobs[j])
  BY <1>1 DEF OpsInv, TypeOK, RunInv
<1>3. TransferInv' /\ Lasting /\ QueueStays
  BY <1>1, <1>2, TransferRests, RestStays
<1>4. PICK new \in JobRecord : /\ jobs' = [jobs EXCEPT ![j] = new] /\ Terminal(new)
                               /\ new.good = jobs[j].good /\ new.bad = jobs[j].bad /\ new.step = jobs[j].step
  <2>1. Verdict(j, jobs[j]) \in {"failed", "completed"} /\ jobs[j].status \in {"completed", "failed", "cancelled"}
    BY <1>2 DEF Verdict, Terminal
  <2>2. CASE Hook(j)
    <3> DEFINE nw == [jobs[j] EXCEPT !.notify = FALSE, !.error = FALSE, !.status = Standing(j)]
    <3>1. Standing(j) \in {"completed", "failed", "cancelled"}
      BY <2>1 DEF Standing
    <3>2. nw \in JobRecord /\ nw.good = jobs[j].good /\ nw.bad = jobs[j].bad /\ nw.step = jobs[j].step /\ nw.status = Standing(j)
      BY <1>2, <3>1 DEF JobRecord
    <3>3. jobs' = [jobs EXCEPT ![j] = nw]
      BY <2>2 DEF Hook
    <3> QED
      BY <3>1, <3>2, <3>3 DEF Terminal
  <2>3. CASE HookFails(j)
    <3> DEFINE nw == [jobs[j] EXCEPT !.status = "failed", !.error = TRUE]
    <3>1. nw \in JobRecord /\ nw.good = jobs[j].good /\ nw.bad = jobs[j].bad /\ nw.step = jobs[j].step /\ nw.status = "failed"
      BY <1>2 DEF JobRecord
    <3>2. jobs' = [jobs EXCEPT ![j] = nw]
      BY <2>3 DEF HookFails
    <3> QED
      BY <3>1, <3>2 DEF Terminal
  <2> QED
    BY <2>2, <2>3
<1>5. \A k \in Jobs : clients'[k].asked = "no" => clients[k].asked = "no" /\ k # j
  <2>1. jobs[j].status # "absent"
    BY <1>2 DEF Terminal
  <2> QED
    BY <1>1, <2>1, AskedFor
<1>6. /\ jobs' \in [Jobs -> JobRecord] /\ stored' \in [Jobs -> JobRecord] /\ ImagesInv'
      /\ saves' \in Seq([image : [Jobs -> JobRecord], owner : Owners]) /\ refused' \subseteq Owners
  <2>1. /\ new.step = "published" => jobs[j].step = "published"
        /\ new.status \in {"paused", "running"} => jobs[j].status \in {"paused", "running"}
    BY <1>4 DEF Terminal
  <2>2. stored' = stored /\ <<"finish", j>> \in Owners
    BY <1>1, OwnersTyped
  <2> QED
    BY <1>1, <1>3, <1>4, <1>5, <2>1, <2>2, JobMarked
<1>7. /\ spent' \in [Mishaps -> Nat] /\ ending' \in [Jobs -> {"no", "saving", "hook", "closing", "done", "threw"}]
      /\ moved' \subseteq Jobs
  BY <1>1, <1>2, SpentTyped DEF TypeOK
<1>8. TypeOK'
  BY <1>1, <1>2, <1>3, <1>6, <1>7 DEF TypeOK, TransferInv
<1>9. RunInv'
  <2>1. \A k \in Jobs : k # j => ending'[k] = ending[k]
    BY <1>1, <1>2 DEF TypeOK
  <2>2. ~(j = J /\ run.pc \in {"starting", "working"}) /\ new.status # "absent"
    BY <1>2, <1>4 DEF RunInv, Terminal
  <2>3. \A k \in Jobs : ending'[k] \in {"saving", "hook", "closing"} =>
                            \/ k # j /\ ending[k] \in {"saving", "hook", "closing"}
                            \/ k = j /\ Terminal(new)
    BY <1>4, <2>1
  <2>4. run' = run
    BY <1>1
  <2> QED
    BY <1>3, <1>4, <2>2, <2>3, <2>4, RunStays
<1> QED
  BY <1>3, <1>6, <1>8, <1>9 DEF OpsInv

\* The hook threw: the job stays as it ended.
LEMMA HookThrowsStep == ASSUME OpsInv, NEW j \in Jobs, HookThrows(j) PROVE OpsInv' /\ Lasting
<1>1. /\ UNCHANGED <<transferVars, jobs, stored, saves, refused, run, wakes, clients, wedged>>
      /\ ending' = [ending EXCEPT ![j] = "threw"] /\ moved' \in {moved, moved \cup {j}} /\ Spend("thrown")
  BY DEF HookThrows
<1>2. TypeOK /\ TransferInv /\ RunInv
  BY DEF OpsInv
<1>3. spent' \in [Mishaps -> Nat] /\ moved' \subseteq Jobs
      /\ ending' \in [Jobs -> {"no", "saving", "hook", "closing", "done", "threw"}]
      /\ \A k \in Jobs : ending'[k] \in {"saving", "hook", "closing"} => ending'[k] = ending[k]
  BY <1>1, <1>2, SpentTyped DEF TypeOK
<1>4. TypeOK'
  BY <1>1, <1>2, <1>3, TransferRests DEF TypeOK, TransferInv
<1>5. RunInv'
  BY <1>1, <1>2, <1>3, TransferRests DEF RunInv, J, Terminal, Current, Handled, At, Item
<1> QED
  BY <1>1, <1>4, <1>5, PlainStep

\* The next start reads what was stored, and pauses what was under way.
LEMMA RestoredStays ==
    ASSUME NEW job \in JobRecord
    PROVE  LET new == Restored(job)
           IN  /\ new \in JobRecord /\ new.good = job.good /\ new.bad = job.bad /\ new.step = job.step
               /\ new.status \in {"paused", "running"} => job.status \in {"paused", "running"}
               /\ job = Absent => new = Absent
<1>1. CASE job.status \in {"running", "paused"}
  <2>1. Restored(job) = [job EXCEPT !.status = "paused", !.reason = "queue"]
    BY <1>1 DEF Restored
  <2>2. job # Absent
    BY <1>1 DEF Absent
  <2> QED
    BY <1>1, <2>1, <2>2 DEF JobRecord
<1>2. CASE job.status \notin {"running", "paused"}
  BY <1>2 DEF Restored
<1> QED
  BY <1>1, <1>2

LEMMA OpsCrashStep == ASSUME OpsInv, Crash PROVE OpsInv' /\ Lasting
<1>1. /\ TransferCrash /\ jobs' = [k \in Jobs |-> Restored(stored[k])] /\ Spend("crash")
      /\ saves' = IF jobs' = stored THEN <<>> ELSE <<[image |-> jobs', owner |-> Runner]>>
      /\ refused' = {} /\ ending' = [k \in Jobs |-> "no"] /\ wakes' = {}
      /\ clients' = [k \in Jobs |-> [asked |-> IF clients[k].asked = "waiting" THEN "refused" ELSE clients[k].asked,
                                     cancel |-> IF clients[k].cancel = "answered" THEN "answered" ELSE "no"]]
      /\ run' = [pc |-> "loading", job |-> 0] /\ wedged' = FALSE /\ stored' = stored /\ moved' = moved
  BY DEF Crash
<1>2. TypeOK /\ TransferInv /\ ImagesInv /\ stored \in [Jobs -> JobRecord] /\ stored \in Written
  BY DEF OpsInv, TypeOK, Written
<1>3. TransferInv' /\ Lasting
  BY <1>1, <1>2, CrashStep
<1>4. At(Queue, "idle")'
  BY <1>1, QueueWorks, IdleIsWorker DEF TransferCrash, At
<1>5. \A k \in Jobs : /\ jobs'[k] \in JobRecord /\ jobs'[k].good = stored[k].good /\ jobs'[k].bad = stored[k].bad
                      /\ jobs'[k].step = stored[k].step
                      /\ jobs'[k].status \in {"paused", "running"} => stored[k].status \in {"paused", "running"}
                      /\ stored[k] = Absent => jobs'[k] = Absent
  BY <1>1, <1>2, RestoredStays
<1>6. jobs' \in [Jobs -> JobRecord]
  BY <1>1, <1>5
<1>7. saves' \in Seq([image : [Jobs -> JobRecord], owner : Owners]) /\ Written' \subseteq Written \cup {jobs'}
  <2>1. CASE jobs' = stored
    BY <1>1, <1>2, <2>1 DEF Written
  <2>2. CASE jobs' # stored
    <3>1. saves' = <<[image |-> jobs', owner |-> Runner]>> /\ Runner \in Owners
      BY <1>1, <2>2, OwnersTyped
    <3>2. Len(saves') = 1 /\ saves'[1].image = jobs' /\ saves' \in Seq([image : [Jobs -> JobRecord], owner : Owners])
      BY <1>6, <3>1
    <3>3. \A k \in 1 .. Len(saves') : saves'[k].image = jobs'
      BY <3>2
    <3> QED
      BY <1>1, <1>2, <3>2, <3>3 DEF Written
  <2> QED
    BY <2>1, <2>2
<1>8. clients' \in [Jobs -> [asked : {"no", "waiting", "accepted", "refused"}, cancel : {"no", "saving", "finishing", "answered"}]]
      /\ \A k \in Jobs : clients'[k].asked = "no" => clients[k].asked = "no"
  BY <1>1, <1>2 DEF TypeOK
<1>9. spent' \in [Mishaps -> Nat]
  BY <1>1, <1>2, SpentTyped DEF TypeOK
<1>10. TypeOK'
  BY <1>1, <1>2, <1>3, <1>6, <1>7, <1>8, <1>9 DEF TypeOK, TransferInv
<1>11. ImagesInv'
  <2>1. ASSUME NEW k \in Jobs PROVE Sane(k, jobs'[k]) /\ Honest(k, jobs[k])'
    <3>1. Sane(k, stored[k]) /\ Honest(k, stored[k]) /\ stored[k] \in JobRecord
      BY <1>2 DEF ImagesInv
    <3>2. PICK new : new = jobs'[k]
      OBVIOUS
    <3>3. Sane(k, new) /\ Honest(k, new)'
      BY <1>3, <1>5, <3>1, <3>2, SaneStays, HonestStays
    <3> QED
      BY <3>2, <3>3 DEF Honest, At1, Handled
  <2>2. ASSUME NEW k \in Jobs, clients'[k].asked = "no" PROVE clients[k].asked = "no" /\ jobs'[k] = jobs[k]
    <3>1. clients[k].asked = "no"
      BY <1>8, <2>2
    <3>2. stored[k] = Absent /\ jobs[k] = Absent
      BY <1>2, <3>1 DEF ImagesInv
    <3> QED
      BY <1>5, <3>1, <3>2
  <2> QED
    BY <1>2, <1>3, <1>7, <2>1, <2>2, ImagesStep
<1>12. RunInv'
  BY <1>1, <1>4 DEF RunInv
<1> QED
  BY <1>3, <1>10, <1>11, <1>12 DEF OpsInv

LEMMA OpsStep == ASSUME OpsInv, Next PROVE OpsInv' /\ Lasting
<1>1. CASE Progress
  <2>1. CASE Bytes /\ UNCHANGED opsVars
    BY <2>1, BytesStep
  <2>2. CASE Jobwork
    BY <2>2, SavesStep, PumpStep, StartsStep, StopsShortStep, ExecutesStep, RecordStep, RecordedStep, SettleStep, FinishStep,
       AcceptStep, AnswerStep, WakeStep, HookStep
       DEF Jobwork
  <2> QED
    BY <1>1, <2>1, <2>2 DEF Progress
<1>2. CASE Mishap
  <2>1. ASSUME NEW w \in Workers, Copy(w, FALSE), Spend("broken"),
               UNCHANGED <<jobs, stored, saves, refused, run, ending, wakes, clients, moved, wedged>>
        PROVE  OpsInv' /\ Lasting
    BY <2>1, MishapStep DEF Mishaps
  <2>2. ASSUME NEW w \in Workers, SourceTears(w) \/ SourceStays(w), Spend("left"),
               UNCHANGED <<jobs, stored, saves, refused, run, ending, wakes, clients, moved, wedged>>
        PROVE  OpsInv' /\ Lasting
    BY <2>2, MishapStep DEF Mishaps
  <2>3. ASSUME NEW j \in Jobs, HookFails(j) \/ HookThrows(j) \/ Cancel(j) PROVE OpsInv' /\ Lasting
    BY <2>3, HookStep, HookThrowsStep, CancelStep
  <2>4. CASE SaveFails \/ Blocked \/ Crash
    BY <2>4, SavesStep, BlockedStep, OpsCrashStep
  <2>5. ASSUME NEW w \in Workers, FlushGivesUp(w), Spend("unkept"),
               UNCHANGED <<jobs, stored, saves, refused, run, ending, wakes, clients, moved, wedged>>
        PROVE  OpsInv' /\ Lasting
    BY <2>5, MishapStep DEF Mishaps
  <2> QED
    BY <1>2, <2>1, <2>2, <2>3, <2>4, <2>5 DEF Mishap
<1>3. CASE Arrival
  BY <1>3, EnqueueStep, AskingStep DEF Arrival
<1> QED
  BY <1>1, <1>2, <1>3 DEF Next

LEMMA OpsStays == ASSUME OpsInv, UNCHANGED vars PROVE OpsInv' /\ Lasting
<1>1. UNCHANGED <<transferVars, jobs, stored, saves, refused, run, ending, wakes, clients, moved, spent, wedged>>
  BY DEF vars, opsVars
<1>2. TransferInv' /\ Lasting /\ QueueStays
  BY <1>1, TransferRests, RestStays DEF OpsInv
<1> QED
  BY <1>1, <1>2, TransferOnly

LEMMA OpsStart == Init => OpsInv
<1> SUFFICES ASSUME Init PROVE OpsInv
  OBVIOUS
<1>1. /\ TransferInit /\ jobs = [j \in Jobs |-> Absent] /\ stored = jobs /\ saves = <<>> /\ refused = {} /\ run = NoRun
      /\ ending = [j \in Jobs |-> "no"] /\ wakes = {} /\ moved = {} /\ wedged = FALSE /\ spent = [m \in Mishaps |-> 0]
      /\ clients = [j \in Jobs |-> [asked |-> "no", cancel |-> "no"]]
  BY DEF Init
<1>2. TransferInv
  BY <1>1, TransferStart
<1>3. \A j \in Jobs : jobs[j] = Absent /\ Absent \in JobRecord /\ Sane(j, Absent) /\ Honest(j, Absent)
  BY <1>1, AbsentIsSane
<1>4. TypeOK
  <2>1. jobs \in [Jobs -> JobRecord] /\ stored \in [Jobs -> JobRecord]
    BY <1>1, <1>3
  <2>2. saves \in Seq([image : [Jobs -> JobRecord], owner : Owners])
    BY <1>1
  <2>3. clients \in [Jobs -> [asked : {"no", "waiting", "accepted", "refused"}, cancel : {"no", "saving", "finishing", "answered"}]]
        /\ spent \in [Mishaps -> Nat] /\ ending \in [Jobs -> {"no", "saving", "hook", "closing", "done", "threw"}]
    BY <1>1
  <2> QED
    BY <1>1, <1>2, <2>1, <2>2, <2>3 DEF TypeOK, NoRun, TransferInv
<1>5. Written \cup {jobs} = {jobs}
  BY <1>1 DEF Written
<1>6. ImagesInv
  BY <1>3, <1>5 DEF ImagesInv
<1>7. At(Queue, "idle")
  BY <1>1, IdleIsWorker, QueueWorks DEF TransferInit, At
<1>8. RunInv
  BY <1>1, <1>7 DEF RunInv, NoRun
<1> QED
  BY <1>2, <1>4, <1>6, <1>8 DEF OpsInv

------------------------------------------------------------------------------
(* Theorems. *)

\* The invariant of the queue of operations holds in every reachable state.
THEOREM LibraryInvariant == Spec => []OpsInv
<1>1. OpsInv /\ [Next]_vars => OpsInv'
  BY OpsStep, OpsStays
<1> QED
  BY <1>1, OpsStart, PTL DEF Spec

\* Every variable has its type: what is in memory, stored or on its way to the file is a list of jobs.
THEOREM LibraryTyped == Spec => []TypeOK
<1>1. OpsInv => TypeOK
  BY DEF OpsInv
<1> QED
  BY <1>1, LibraryInvariant, PTL

\* Items that are sent to one name are folders. rename(2) does not replace a folder that holds
\* something, but it replaces a file, and the copy of the loser goes with it: library_name_lost.
SharedNamesAreFolders == \A i \in Items : Safe(TargetOf[i])

\* Every item is whole at its source or at its target at all times, whatever crashes, breaks off, is
\* refused or repeated, and whoever races for its name (transferLibraryPath(), resumeTransfer()).
THEOREM NothingIsLost == ASSUME SharedNamesAreFolders PROVE Spec => []NothingLost
<1>1. OpsInv => NothingLost
  BY DEF OpsInv, TransferInv, PlaceInv, NothingLost, SharedNamesAreFolders
<1> QED
  BY <1>1, LibraryInvariant, PTL

LEMMA AloneIsUncontested ==
    ASSUME NEW i \in Items
    PROVE  (Alone(i) <=> ~Contested(i)) /\ (MovesRows(i) /\ LibraryOf[i] = LibraryOf[TargetOf[i]] => Keeps(i))
BY DEF Alone, Contested, MovesRows, Keeps

LEMMA DoneIsHonest ==
    ASSUME OpsInv, NEW image \in {jobs, stored}, NEW i \in Done(image)
    PROVE  i \in Items /\ (Alone(i) => at[TargetOf[i]] = i) /\ (Keeps(i) => Held(i))
<1>1. image \in Written \cup {jobs} /\ image \in [Jobs -> JobRecord]
  BY DEF Written, OpsInv, TypeOK
<1>2. PICK j \in Jobs : i \in image[j].good
  BY DEF Done
<1>3. Honest(j, image[j])
  BY <1>1 DEF OpsInv, ImagesInv
<1> QED
  BY <1>1, <1>2, <1>3 DEF Honest, JobRecord

\* What a job reports as done is at its target, in memory and in the state file, also when that report
\* is all a crash left (finishTransfer(), resumeTransfer()): the record precedes the disk, the report
\* follows it.
THEOREM ReportsAreTrue == Spec => []ReportedIsThere
<1>1. OpsInv => ReportedIsThere
  BY DoneIsHonest, AloneIsUncontested DEF ReportedIsThere
<1> QED
  BY <1>1, LibraryInvariant, PTL

\* The rows of an item that stays in its library are stored under its old path or its new one all the
\* way, and under the new one once the item is reported: relocate() is flushed before the report. If
\* that flush gave up they are in memory and due to be written, and only the process takes them along.
THEOREM IdentitiesAreKept == Spec => []IdentityKept
<1>1. ASSUME OpsInv, NEW i \in Items, MovesRows(i), LibraryOf[i] = LibraryOf[TargetOf[i]]
      PROVE  /\ kept[i] = i \/ kept[TargetOf[i]] = i
             /\ i \in Done(stored) =>
                  \/ kept[TargetOf[i]] = i
                  \/ i \in unkept /\ known[TargetOf[i]] = i /\ LibraryOf[TargetOf[i]] \in dirty
                  \/ i \in lost
  <2>1. Keeps(i) /\ TargetOf[i] \in Paths
    BY <1>1, AloneIsUncontested, Names
  <2>2. /\ kept[i] = i \/ kept[TargetOf[i]] = i
        /\ known[TargetOf[i]] # kept[TargetOf[i]] => LibraryOf[TargetOf[i]] \in dirty
    BY <1>1, <2>1 DEF OpsInv, TransferInv, RowsInv
  <2>3. i \in Done(stored) => Held(i)
    BY <1>1, <2>1, DoneIsHonest
  <2> QED
    BY <2>2, <2>3 DEF Held
<1>2. OpsInv => IdentityKept
  BY <1>1 DEF IdentityKept
<1> QED
  BY <1>2, LibraryInvariant, PTL

------------------------------------------------------------------------------
(* A library follows its content. *)

\* The items of a re-root are wanted by nobody else. The new folder belongs to no other library
\* (libraryRootTaken()), and resumeTransfer() takes what it finds at a name for what it sent there.
RerootsStandAlone ==
    \A j \in Jobs : OpOf[ItemsOf[j][1]] = "reroot" =>
        \A k \in 1 .. Len(ItemsOf[j]) : Alone(ItemsOf[j][k])

\* What a library that points at its new folder finds there.
MovedInv ==
    \A j \in moved : OpOf[ItemsOf[j][1]] = "reroot" /\ \A k \in 1 .. Len(ItemsOf[j]) : at[TargetOf[ItemsOf[j][k]]] = ItemsOf[j][k]

\* What the hook switches on: nothing failed and everything is handled, so all of it is there.
LEMMA SwitchedIsThere ==
    ASSUME OpsInv, RerootsStandAlone, NEW j \in Jobs, Switches(j)
    PROVE  \A k \in 1 .. Len(ItemsOf[j]) : at[TargetOf[ItemsOf[j][k]]] = ItemsOf[j][k]
<1>1. Sane(j, jobs[j]) /\ Honest(j, jobs[j])
  BY DEF OpsInv, ImagesInv
<1>2. jobs[j].bad = {} /\ Handled(jobs[j]) = Len(ItemsOf[j]) /\ OpOf[ItemsOf[j][1]] = "reroot"
  BY DEF Switches, Exhausted
<1>3. \A k \in 1 .. Len(ItemsOf[j]) : ItemsOf[j][k] \in jobs[j].good
  BY <1>1, <1>2 DEF Sane
<1> QED
  BY <1>1, <1>2, <1>3 DEF Honest, RerootsStandAlone

LEMMA MovedStays ==
    ASSUME OpsInv, RerootsStandAlone, MovedInv, Lasting, moved' = moved
    PROVE  MovedInv'
<1>1. moved \subseteq Jobs
  BY DEF OpsInv, TypeOK
<1>2. ASSUME NEW j \in moved, NEW k \in 1 .. Len(ItemsOf[j]) PROVE at'[TargetOf[ItemsOf[j][k]]] = ItemsOf[j][k]
  <2>1. ItemsOf[j][k] \in Items /\ Alone(ItemsOf[j][k]) /\ at[TargetOf[ItemsOf[j][k]]] = ItemsOf[j][k]
    BY <1>1, ItemsTyped DEF MovedInv, RerootsStandAlone
  <2> QED
    BY <2>1, Names DEF Lasting, Landing
<1> QED
  BY <1>2 DEF MovedInv

\* Only the hook adds to them.
LEMMA OnlyTheHookMoves == ASSUME Next PROVE moved' = moved \/ \E j \in Jobs : Hook(j) \/ HookThrows(j)
<1>1. CASE Progress
  <2>1. CASE Bytes /\ UNCHANGED opsVars
    BY <2>1 DEF opsVars
  <2>2. CASE SaveLands \/ Next1 \/ Dropped \/ Parked \/ Starts \/ StopsShort \/ Executes \/ Record
    BY <2>2 DEF SaveLands, Next1, Dropped, Parked, Starts, StopsShort, Executes, Record
  <2>3. CASE Recorded \/ Settle \/ GoesOn \/ Breaks \/ Load
    BY <2>3 DEF Recorded, Settle, GoesOn, Breaks, Load, opsVars
  <2>4. ASSUME NEW j \in Jobs, Accept(j) \/ Refuse(j) \/ CancelAnswered(j) \/ Wake(j) \/ Reported(j) \/ Closed(j) \/ FinishBreaks(j)
        PROVE  moved' = moved
    BY <2>4 DEF Accept, Refuse, CancelAnswered, Wake, Reported, Closed, FinishBreaks
  <2> QED
    BY <1>1, <2>1, <2>2, <2>3, <2>4 DEF Progress, Jobwork
<1>2. CASE Mishap
  <2>1. CASE SaveFails \/ Blocked \/ Crash
    BY <2>1 DEF SaveFails, Blocked, Crash
  <2>2. ASSUME NEW j \in Jobs, HookFails(j) \/ Cancel(j) PROVE moved' = moved
    BY <2>2 DEF HookFails, Cancel
  <2> QED
    BY <1>2, <2>1, <2>2 DEF Mishap
<1>3. CASE Arrival
  BY <1>3 DEF Arrival, Enqueue, opsVars
<1> QED
  BY <1>1, <1>2, <1>3 DEF Next

LEMMA MovedStep == ASSUME OpsInv, RerootsStandAlone, MovedInv, [Next]_vars PROVE MovedInv'
<1>1. Lasting
  BY OpsStep, OpsStays
<1>2. CASE moved' = moved
  BY <1>1, <1>2, MovedStays
<1>3. ASSUME NEW j \in Jobs, Hook(j) \/ HookThrows(j) PROVE MovedInv'
  <2>1. UNCHANGED at /\ (moved' = moved \/ (Switches(j) /\ moved' = moved \cup {j}))
    BY <1>3 DEF Hook, HookThrows, transferVars
  <2>2. CASE Switches(j) /\ moved' = moved \cup {j}
    <3>1. \A k \in 1 .. Len(ItemsOf[j]) : at[TargetOf[ItemsOf[j][k]]] = ItemsOf[j][k]
      BY <2>2, SwitchedIsThere
    <3> QED
      BY <2>1, <2>2, <3>1 DEF MovedInv, Switches
  <2>3. CASE moved' = moved
    BY <1>1, <2>3, MovedStays
  <2> QED
    BY <2>1, <2>2, <2>3
<1>4. CASE UNCHANGED vars
  BY <1>2, <1>4 DEF vars, opsVars
<1> QED
  BY <1>2, <1>3, <1>4, OnlyTheHookMoves

\* A library points at its new folder only when all of its content is there, also if the hook failed
\* once and the next start asks again (finish(), library-admin.ts).
THEOREM RootsFollow == ASSUME RerootsStandAlone PROVE Spec => []RootFollowsContent
<1>1. Init => MovedInv
  BY DEF Init, MovedInv
<1>2. OpsInv /\ MovedInv /\ [Next]_vars => MovedInv'
  BY MovedStep
<1>3. MovedInv => RootFollowsContent
  BY DEF MovedInv, RootFollowsContent
<1> QED
  BY <1>1, <1>2, <1>3, LibraryInvariant, PTL DEF Spec

------------------------------------------------------------------------------
(* A cancel holds. *)

\* The mark is on its way to the state file, unless that save is refused.
Promised(j, owner) ==
    \/ stored[j].cancel
    \/ owner \in refused
    \/ \E k \in 1 .. Len(saves) : saves[k].owner = owner /\ saves[k].image[j].cancel

\* What one image says of a cancel the later ones say too.
MarksInv ==
    \A j \in Jobs :
        /\ stored[j].cancel => jobs[j].cancel /\ \A k \in 1 .. Len(saves) : saves[k].image[j].cancel
        /\ \A k \in 1 .. Len(saves) : saves[k].image[j].cancel =>
             jobs[j].cancel /\ \A l \in k .. Len(saves) : saves[l].image[j].cancel

CancelInv ==
    /\ MarksInv
    /\ \A j \in Jobs :
        /\ clients[j].cancel = "saving" => Promised(j, <<"cancel", j>>)
        /\ clients[j].cancel = "finishing" =>
             /\ Terminal(jobs[j])
             /\ ending[j] = "saving" => Promised(j, <<"finish", j>>)
             /\ ending[j] \in {"hook", "closing", "done", "threw"} => stored[j].cancel
        /\ clients[j].cancel = "answered" => stored[j].cancel
        /\ run.pc = "loading" => clients[j].cancel \notin {"saving", "finishing"}

\* The answer of finish() has not overtaken its save.
EndingGoes(j) ==
    \/ ending'[j] = ending[j]
    \/ ending'[j] = "no"
    \/ ending[j] = "saving" /\ Saved(<<"finish", j>>)
    \/ ending[j] \in {"hook", "closing"} /\ ending'[j] \in {"hook", "closing", "done", "threw"}

\* A step that leaves the chain alone.
LEMMA CancelRests ==
    ASSUME OpsInv, CancelInv, UNCHANGED <<stored, saves, refused>>,
           \A j \in Jobs : jobs[j].cancel => jobs'[j].cancel,
           \A j \in Jobs : Terminal(jobs[j]) => Terminal(jobs'[j]),
           \A j \in Jobs : clients'[j].cancel = clients[j].cancel \/ (clients'[j].cancel = "answered" /\ stored[j].cancel),
           \A j \in Jobs : clients[j].cancel = "finishing" => EndingGoes(j),
           run'.pc = "loading" => run.pc = "loading"
    PROVE  CancelInv'
<1>1. \A j \in Jobs : /\ stored'[j] = stored[j]
                      /\ \A owner : Promised(j, owner) => Promised(j, owner)'
  BY DEF Promised
<1>2. MarksInv'
  BY DEF CancelInv, MarksInv
<1>3. ASSUME NEW j \in Jobs, clients[j].cancel = "finishing"
      PROVE  /\ Terminal(jobs'[j])
             /\ ending'[j] = "saving" => Promised(j, <<"finish", j>>)'
             /\ ending'[j] \in {"hook", "closing", "done", "threw"} => stored[j].cancel
  <2>1. /\ Terminal(jobs[j])
        /\ ending[j] = "saving" => Promised(j, <<"finish", j>>)
        /\ ending[j] \in {"hook", "closing", "done", "threw"} => stored[j].cancel
    BY <1>3 DEF CancelInv
  <2>2. Saved(<<"finish", j>>) /\ Promised(j, <<"finish", j>>) => stored[j].cancel
    BY DEF Saved, Pending, Promised
  <2>3. EndingGoes(j) /\ Terminal(jobs'[j])
    BY <1>3, <2>1
  <2>4. CASE ending'[j] = ending[j]
    BY <1>1, <2>1, <2>3, <2>4
  <2>5. CASE ending'[j] = "no"
    BY <2>3, <2>5
  <2>6. CASE ending[j] = "saving" /\ Saved(<<"finish", j>>)
    BY <1>1, <2>1, <2>2, <2>3, <2>6
  <2>7. CASE ending[j] \in {"hook", "closing"} /\ ending'[j] \in {"hook", "closing", "done", "threw"}
    BY <2>1, <2>3, <2>7
  <2> QED
    BY <2>3, <2>4, <2>5, <2>6, <2>7 DEF EndingGoes
<1>4. ASSUME NEW j \in Jobs
      PROVE  /\ clients'[j].cancel = "saving" => Promised(j, <<"cancel", j>>)'
             /\ clients'[j].cancel = "answered" => stored'[j].cancel
             /\ run'.pc = "loading" => clients'[j].cancel \notin {"saving", "finishing"}
             /\ clients'[j].cancel = "finishing" => clients[j].cancel = "finishing"
  BY <1>1 DEF CancelInv
<1> QED
  BY <1>1, <1>2, <1>3, <1>4 DEF CancelInv

\* A step that hands the jobs to save().
LEMMA CancelSaved ==
    ASSUME OpsInv, CancelInv, stored' = stored, NEW owner \in Owners, Save(owner, jobs'), jobs' \in [Jobs -> JobRecord],
           \A j \in Jobs : jobs[j].cancel => jobs'[j].cancel,
           \A j \in Jobs : Terminal(jobs[j]) => Terminal(jobs'[j]),
           \A j \in Jobs : \/ clients'[j].cancel = clients[j].cancel
                           \/ clients'[j].cancel = "saving" /\ owner = <<"cancel", j>> /\ jobs'[j].cancel
                           \/ /\ clients'[j].cancel = "finishing" /\ owner = <<"finish", j>> /\ jobs'[j].cancel
                              /\ Terminal(jobs'[j]) /\ ending'[j] = "saving",
           \A j \in Jobs : clients[j].cancel = "saving" => owner # <<"cancel", j>>,
           \A j \in Jobs : clients[j].cancel = "finishing" =>
                               \/ ending'[j] = ending[j] /\ owner # <<"finish", j>>
                               \/ ending[j] \in {"hook", "closing"} /\ ending'[j] = "closing",
           run'.pc = "loading" => run.pc = "loading" /\ \A j \in Jobs : clients'[j].cancel = clients[j].cancel
    PROVE  CancelInv'
<1>1. saves \in Seq(SaveRecord) /\ Len(saves) \in Nat
  BY DEF OpsInv, TypeOK, SaveRecord
<1>2. /\ saves' \in Seq(SaveRecord) /\ Len(saves') \in Nat /\ refused' = refused \ {owner}
      /\ \A k \in 1 .. Len(saves) : k \in 1 .. Len(saves') /\ saves'[k] = saves[k]
      /\ \A k \in 1 .. Len(saves') : k \in 1 .. Len(saves) \/ (saves'[k].image = jobs' /\ saves'[k].owner = owner)
      /\ jobs' = stored \/ \E k \in 1 .. Len(saves') : saves'[k].image = jobs' /\ saves'[k].owner = owner
  <2>1. CASE saves' = saves /\ jobs' = stored
    BY <1>1, <2>1 DEF Save
  <2>2. CASE saves' = Append(saves, [image |-> jobs', owner |-> owner])
    <3> DEFINE last == [image |-> jobs', owner |-> owner]
    <3>1. last \in SaveRecord /\ last.image = jobs' /\ last.owner = owner
      BY DEF SaveRecord
    <3>2. /\ saves' \in Seq(SaveRecord) /\ Len(saves') = Len(saves) + 1
          /\ \A k \in 1 .. Len(saves) : saves'[k] = saves[k]
          /\ saves'[Len(saves) + 1] = last
      BY <1>1, <2>2, <3>1
    <3> HIDE DEF last
    <3>3. /\ \A k \in 1 .. Len(saves) : k \in 1 .. Len(saves')
          /\ \A k \in 1 .. Len(saves') : k \in 1 .. Len(saves) \/ k = Len(saves) + 1
          /\ Len(saves) + 1 \in 1 .. Len(saves')
      BY <1>1, <3>2
    <3>4. refused' = refused \ {owner}
      BY DEF Save
    <3> QED
      BY <1>1, <3>1, <3>2, <3>3, <3>4
  <2> QED
    BY <2>1, <2>2 DEF Save
<1>3. MarksInv'
  <2> SUFFICES ASSUME NEW j \in Jobs
               PROVE  /\ stored'[j].cancel => jobs'[j].cancel /\ \A k \in 1 .. Len(saves') : saves'[k].image[j].cancel
                      /\ \A k \in 1 .. Len(saves') : saves'[k].image[j].cancel =>
                           jobs'[j].cancel /\ \A l \in k .. Len(saves') : saves'[l].image[j].cancel
    BY DEF MarksInv
  <2>1. /\ stored[j].cancel => jobs[j].cancel /\ \A k \in 1 .. Len(saves) : saves[k].image[j].cancel
        /\ \A k \in 1 .. Len(saves) : saves[k].image[j].cancel =>
             jobs[j].cancel /\ \A l \in k .. Len(saves) : saves[l].image[j].cancel
        /\ jobs[j].cancel => jobs'[j].cancel
    BY DEF CancelInv, MarksInv
  <2>2. stored[j].cancel => jobs'[j].cancel /\ \A k \in 1 .. Len(saves') : saves'[k].image[j].cancel
    BY <1>2, <2>1
  <2>3. ASSUME NEW k \in 1 .. Len(saves'), saves'[k].image[j].cancel
        PROVE  jobs'[j].cancel /\ \A l \in k .. Len(saves') : saves'[l].image[j].cancel
    <3>1. jobs'[j].cancel
      BY <1>2, <2>1, <2>3
    <3>2. ASSUME NEW l \in k .. Len(saves') PROVE saves'[l].image[j].cancel
      <4>1. l \in 1 .. Len(saves')
        BY <1>2
      <4>2. CASE l \in 1 .. Len(saves)
        <5>1. k \in 1 .. Len(saves) /\ l \in k .. Len(saves)
          BY <1>1, <4>2
        <5> QED
          BY <1>2, <2>1, <2>3, <4>2, <5>1
      <4>3. CASE saves'[l].image = jobs'
        BY <3>1, <4>3
      <4> QED
        BY <1>2, <4>1, <4>2, <4>3
    <3> QED
      BY <3>1, <3>2
  <2> QED
    BY <2>2, <2>3
<1>4. \A j \in Jobs : \A o : o # owner /\ Promised(j, o) => Promised(j, o)'
  BY <1>2 DEF Promised
<1>5. \A j \in Jobs : jobs'[j].cancel => Promised(j, owner)'
  BY <1>2 DEF Promised
<1>6. ASSUME NEW j \in Jobs
      PROVE  /\ clients'[j].cancel = "saving" => Promised(j, <<"cancel", j>>)'
             /\ clients'[j].cancel = "answered" => stored'[j].cancel
             /\ run'.pc = "loading" => clients'[j].cancel \notin {"saving", "finishing"}
  BY <1>4, <1>5 DEF CancelInv
<1>7. ASSUME NEW j \in Jobs, clients'[j].cancel = "finishing"
      PROVE  /\ Terminal(jobs'[j])
             /\ ending'[j] = "saving" => Promised(j, <<"finish", j>>)'
             /\ ending'[j] \in {"hook", "closing", "done", "threw"} => stored[j].cancel
  <2>1. CASE clients[j].cancel = "finishing"
    <3>1. /\ Terminal(jobs[j])
          /\ ending[j] = "saving" => Promised(j, <<"finish", j>>)
          /\ ending[j] \in {"hook", "closing", "done", "threw"} => stored[j].cancel
      BY <2>1 DEF CancelInv
    <3> QED
      BY <1>4, <2>1, <3>1
  <2>2. CASE owner = <<"finish", j>> /\ jobs'[j].cancel /\ Terminal(jobs'[j]) /\ ending'[j] = "saving"
    BY <1>5, <2>2
  <2> QED
    BY <1>7, <2>1, <2>2
<1> QED
  BY <1>3, <1>6, <1>7 DEF CancelInv

LEMMA CancelChain == ASSUME OpsInv, CancelInv, SaveLands \/ SaveFails PROVE CancelInv'
<1>1. /\ UNCHANGED <<jobs, run, ending, clients>> /\ saves # <<>> /\ saves' = Tail(saves)
      /\ \/ stored' = Head(saves).image /\ refused' = refused
         \/ stored' = stored /\ refused' = refused \cup {Head(saves).owner}
  BY DEF SaveLands, SaveFails
<1>2. saves \in Seq(SaveRecord)
  BY DEF OpsInv, TypeOK, SaveRecord
<1>3. /\ Len(saves) \in Nat \ {0} /\ Len(saves') = Len(saves) - 1 /\ Head(saves) = saves[1] /\ 1 \in 1 .. Len(saves)
      /\ \A k \in 1 .. Len(saves') : saves'[k] = saves[k + 1] /\ k + 1 \in 1 .. Len(saves) /\ k + 1 \in 1 + 1 .. Len(saves)
      /\ \A k \in 1 .. Len(saves) : k = 1 \/ (k - 1 \in 1 .. Len(saves') /\ saves'[k - 1] = saves[k])
  BY <1>1, <1>2
<1>4. ASSUME NEW j \in Jobs
      PROVE  /\ stored'[j].cancel => jobs'[j].cancel /\ \A k \in 1 .. Len(saves') : saves'[k].image[j].cancel
             /\ \A k \in 1 .. Len(saves') : saves'[k].image[j].cancel =>
                  jobs'[j].cancel /\ \A l \in k .. Len(saves') : saves'[l].image[j].cancel
             /\ stored[j].cancel => stored'[j].cancel
  <2>1. /\ stored[j].cancel => jobs[j].cancel /\ \A k \in 1 .. Len(saves) : saves[k].image[j].cancel
        /\ \A k \in 1 .. Len(saves) : saves[k].image[j].cancel =>
             jobs[j].cancel /\ \A l \in k .. Len(saves) : saves[l].image[j].cancel
    BY DEF CancelInv, MarksInv
  <2>2. saves[1].image[j].cancel => jobs[j].cancel /\ \A k \in 1 .. Len(saves') : saves'[k].image[j].cancel
    <3>1. saves[1].image[j].cancel => jobs[j].cancel /\ \A l \in 1 .. Len(saves) : saves[l].image[j].cancel
      BY <1>3, <2>1
    <3> QED
      BY <1>3, <3>1
  <2>3. stored[j].cancel => stored'[j].cancel /\ jobs[j].cancel /\ \A k \in 1 .. Len(saves') : saves'[k].image[j].cancel
    BY <1>1, <1>3, <2>1
  <2>4. ASSUME NEW k \in 1 .. Len(saves'), saves'[k].image[j].cancel
        PROVE  jobs[j].cancel /\ \A l \in k .. Len(saves') : saves'[l].image[j].cancel
    <3>1. jobs[j].cancel /\ \A l \in k + 1 .. Len(saves) : saves[l].image[j].cancel
      BY <1>3, <2>1, <2>4
    <3>2. \A l \in k .. Len(saves') : l \in 1 .. Len(saves') /\ l + 1 \in k + 1 .. Len(saves)
      BY <1>3
    <3> QED
      BY <1>3, <3>1, <3>2
  <2> QED
    BY <1>1, <1>3, <2>2, <2>3, <2>4
<1>5. ASSUME NEW j \in Jobs, NEW owner, Promised(j, owner) PROVE Promised(j, owner)'
  <2>1. CASE stored[j].cancel \/ owner \in refused
    BY <1>1, <1>4, <2>1 DEF Promised
  <2>2. ASSUME NEW k \in 1 .. Len(saves), saves[k].owner = owner, saves[k].image[j].cancel PROVE Promised(j, owner)'
    <3>1. CASE k = 1
      BY <1>1, <1>3, <2>2, <3>1 DEF Promised
    <3>2. CASE k # 1
      BY <1>3, <2>2, <3>2 DEF Promised
    <3> QED
      BY <3>1, <3>2
  <2> QED
    BY <1>5, <2>1, <2>2 DEF Promised
<1>6. MarksInv'
  BY <1>4 DEF MarksInv
<1> QED
  BY <1>1, <1>4, <1>5, <1>6 DEF CancelInv

LEMMA CancelCrash == ASSUME OpsInv, CancelInv, Crash PROVE CancelInv'
<1>1. /\ jobs' = [k \in Jobs |-> Restored(stored[k])] /\ stored' = stored /\ run'.pc = "loading"
      /\ saves' = <<>> \/ saves' = <<[image |-> jobs', owner |-> Runner]>>
      /\ \A k \in Jobs : clients'[k].cancel = IF clients[k].cancel = "answered" THEN "answered" ELSE "no"
  BY DEF Crash
<1>2. \A k \in Jobs : jobs'[k].cancel = stored[k].cancel
  <2>1. \A job \in JobRecord : Restored(job).cancel = job.cancel
    BY DEF Restored, JobRecord
  <2> QED
    BY <1>1, <2>1 DEF OpsInv, TypeOK
<1>3. \A k \in 1 .. Len(saves') : saves'[k].image = jobs' /\ k \in 1 .. 1
  <2>1. CASE saves' = <<>>
    BY <2>1
  <2>2. CASE saves' = <<[image |-> jobs', owner |-> Runner]>>
    BY <2>2
  <2> QED
    BY <1>1, <2>1, <2>2
<1>4. Len(saves') \in 0 .. 1
  BY <1>1
<1>5. MarksInv'
  BY <1>1, <1>2, <1>3, <1>4 DEF MarksInv
<1> QED
  BY <1>1, <1>5 DEF CancelInv

\* What a step of the queue that saves nothing does to the cancels.
LEMMA CancelPlain ==
    ASSUME OpsInv, CancelInv, UNCHANGED <<jobs, stored, saves, refused>>,
           \A j \in Jobs : clients'[j].cancel = clients[j].cancel, ending' = ending,
           run'.pc = "loading" => run.pc = "loading"
    PROVE  CancelInv'
BY CancelRests DEF EndingGoes

LEMMA CancelPump ==
    ASSUME OpsInv, CancelInv,
           Next1 \/ Dropped \/ Parked \/ Executes \/ Recorded \/ GoesOn \/ Breaks \/ \E j \in Jobs : Accept(j) \/ Refuse(j)
    PROVE  CancelInv'
<1>1. TypeOK
  BY DEF OpsInv
<1>2. UNCHANGED <<jobs, stored, saves, refused, ending>>
  BY DEF Next1, Dropped, Parked, Executes, Recorded, GoesOn, Breaks, Accept, Refuse, opsVars
<1>3. run'.pc = "loading" => run.pc = "loading"
  <2>1. CASE Next1 \/ Dropped \/ Parked \/ GoesOn
    BY <2>1 DEF Next1, Dropped, Parked, GoesOn, NoRun
  <2>2. CASE Executes \/ Breaks
    BY <1>1, <2>2, RunTyped DEF Executes, Breaks, RunTo, NoRun
  <2>3. CASE Recorded \/ \E j \in Jobs : Refuse(j)
    BY <2>3 DEF Recorded, Refuse, opsVars
  <2>4. ASSUME NEW j \in Jobs, Accept(j) PROVE run'.pc = "loading" => run.pc = "loading"
    BY <2>4 DEF Accept, Pump
  <2> QED
    BY <2>1, <2>2, <2>3, <2>4
<1>4. \A j \in Jobs : clients'[j].cancel = clients[j].cancel
  <2>1. CASE Next1 \/ Dropped \/ Parked \/ Executes \/ Recorded \/ GoesOn \/ Breaks
    BY <2>1 DEF Next1, Dropped, Parked, Executes, Recorded, GoesOn, Breaks, opsVars
  <2>2. ASSUME NEW k \in Jobs, NEW a \in {"accepted", "refused"}, clients' = [clients EXCEPT ![k] = [clients[k] EXCEPT !.asked = a]]
        PROVE  \A j \in Jobs : clients'[j].cancel = clients[j].cancel
    <3>1. [clients[k] EXCEPT !.asked = a].cancel = clients[k].cancel
      BY <1>1, ClientsTyped
    <3> QED
      BY <1>1, <2>2, <3>1 DEF TypeOK
  <2>3. ASSUME NEW k \in Jobs, Accept(k) \/ Refuse(k)
        PROVE  \E a \in {"accepted", "refused"} : clients' = [clients EXCEPT ![k] = [clients[k] EXCEPT !.asked = a]]
    BY <2>3 DEF Accept, Refuse
  <2> QED
    BY <2>1, <2>2, <2>3
<1> QED
  BY <1>2, <1>3, <1>4, CancelPlain

\* Save answered: what was promised is stored.
LEMMA CancelAnswers == ASSUME OpsInv, CancelInv, NEW j \in Jobs, CancelAnswered(j) PROVE CancelInv'
<1>1. /\ UNCHANGED <<jobs, stored, saves, refused, run, ending>>
      /\ clients' = [clients EXCEPT ![j] = [clients[j] EXCEPT !.cancel = "answered"]]
      /\ \/ clients[j].cancel = "saving" /\ Saved(<<"cancel", j>>)
         \/ clients[j].cancel = "finishing" /\ ending[j] \in {"done", "threw"}
  BY DEF CancelAnswered
<1>2. stored[j].cancel
  <2>1. CASE clients[j].cancel = "saving" /\ Saved(<<"cancel", j>>)
    BY <2>1 DEF CancelInv, Promised, Saved, Pending
  <2>2. CASE clients[j].cancel = "finishing" /\ ending[j] \in {"done", "threw"}
    BY <2>2 DEF CancelInv
  <2> QED
    BY <1>1, <2>1, <2>2
<1>3. TypeOK /\ [clients[j] EXCEPT !.cancel = "answered"].cancel = "answered"
  BY ClientsTyped DEF OpsInv
<1>4. \A k \in Jobs : clients'[k].cancel = clients[k].cancel \/ (clients'[k].cancel = "answered" /\ stored[k].cancel)
  BY <1>1, <1>2, <1>3 DEF TypeOK
<1>5. \A k \in Jobs : EndingGoes(k)
  BY <1>1 DEF EndingGoes
<1> QED
  BY <1>1, <1>4, <1>5, CancelRests

LEMMA CancelFinish ==
    ASSUME OpsInv, CancelInv, Load \/ \E j \in Jobs : Reported(j) \/ Closed(j) \/ FinishBreaks(j)
    PROVE  CancelInv'
<1>1. TypeOK /\ UNCHANGED <<jobs, stored, saves, refused, clients>>
  BY DEF OpsInv, Load, Reported, Closed, FinishBreaks
<1>2. run'.pc = "loading" => run.pc = "loading"
  BY <1>1, RunTyped DEF Load, Reported, Closed, FinishBreaks, NoRun, RunAt
<1>3. ASSUME NEW j \in Jobs, clients[j].cancel = "finishing" PROVE EndingGoes(j)
  <2>1. CASE Load
    BY <1>3, <2>1 DEF CancelInv, Load, RunAt
  <2>2. ASSUME NEW k \in Jobs, Reported(k) \/ Closed(k) \/ FinishBreaks(k) PROVE EndingGoes(j)
    <3>1. CASE k # j
      BY <1>1, <2>2, <3>1 DEF TypeOK, Reported, Closed, FinishBreaks, EndingGoes
    <3>2. CASE k = j
      BY <1>1, <2>2, <3>2 DEF TypeOK, Reported, Closed, FinishBreaks, EndingGoes
    <3> QED
      BY <3>1, <3>2
  <2> QED
    BY <2>1, <2>2
<1> QED
  BY <1>1, <1>2, <1>3, CancelRests

\* One job changes, keeps its mark and stays ended if it was; the clients hear nothing.
LEMMA CancelMarked ==
    ASSUME OpsInv, OpsInv', CancelInv, stored' = stored, NEW j \in Jobs, NEW new, jobs' = [jobs EXCEPT ![j] = new],
           jobs[j].cancel => new.cancel, Terminal(jobs[j]) => Terminal(new),
           NEW owner \in Owners, Save(owner, jobs'), \A k \in Jobs : owner # <<"cancel", k>>,
           \A k \in Jobs : clients'[k].cancel = clients[k].cancel,
           \A k \in Jobs : clients[k].cancel = "finishing" =>
                               \/ ending'[k] = ending[k] /\ owner # <<"finish", k>>
                               \/ ending[k] \in {"hook", "closing"} /\ ending'[k] = "closing",
           run'.pc = "loading" => run.pc = "loading"
    PROVE  CancelInv'
<1>1. jobs \in [Jobs -> JobRecord] /\ jobs' \in [Jobs -> JobRecord]
  BY DEF OpsInv, TypeOK
<1>2. jobs'[j] = new /\ \A k \in Jobs : k # j => jobs'[k] = jobs[k]
  BY <1>1
<1>3. \A k \in Jobs : (jobs[k].cancel => jobs'[k].cancel) /\ (Terminal(jobs[k]) => Terminal(jobs'[k]))
  BY <1>2
<1> QED
  BY <1>1, <1>3, CancelSaved

\* The pump saves its job under a name of its own.
LEMMA CancelRuns == ASSUME OpsInv, OpsInv', CancelInv, Blocked \/ Starts \/ Record PROVE CancelInv'
<1>1. PICK j \in Jobs : j = J /\ jobs[j] \in JobRecord
  BY DEF OpsInv, RunInv, TypeOK, Blocked, Starts, Record, RunAt
<1>2. /\ Save(Runner, jobs') /\ UNCHANGED <<stored, ending, clients>> /\ run.pc \in {"asking", "working"}
      /\ run' = run \/ run'.pc \in {"parking", "starting"}
  <2>1. CASE Blocked \/ Starts
    BY <2>1, RunTyped DEF OpsInv, Blocked, Starts, RunAt, RunTo
  <2>2. CASE Record
    BY <2>2 DEF Record, RunAt
  <2> QED
    BY <2>1, <2>2
<1>3. PICK new : jobs' = [jobs EXCEPT ![j] = new] /\ new.cancel = jobs[j].cancel /\ (Terminal(jobs[j]) => Terminal(new))
  <2>1. CASE Blocked
    <3>1. [jobs[j] EXCEPT !.reason = "blocked"].cancel = jobs[j].cancel /\ ~Terminal(jobs[j])
      BY <1>1, <2>1 DEF JobRecord, Blocked
    <3> QED
      BY <1>1, <2>1, <3>1 DEF Blocked
  <2>2. CASE Starts
    <3>1. [jobs[j] EXCEPT !.status = "running", !.reason = "none"].cancel = jobs[j].cancel /\ ~Terminal(jobs[j])
      BY <1>1, <2>2 DEF JobRecord, Starts
    <3> QED
      BY <1>1, <2>2, <3>1 DEF Starts
  <2>3. ASSUME NEW step, jobs' = [jobs EXCEPT ![J] = [jobs[J] EXCEPT !.step = step]]
        PROVE  \E new : jobs' = [jobs EXCEPT ![j] = new] /\ new.cancel = jobs[j].cancel /\ (Terminal(jobs[j]) => Terminal(new))
    <3>1. [jobs[j] EXCEPT !.step = step].cancel = jobs[j].cancel /\ [jobs[j] EXCEPT !.step = step].status = jobs[j].status
      BY <1>1 DEF JobRecord
    <3> QED
      BY <1>1, <2>3, <3>1 DEF Terminal
  <2>4. CASE Record
    BY <2>3, <2>4 DEF Record
  <2> QED
    BY <2>1, <2>2, <2>4
<1>4. Runner \in Owners /\ \A k \in Jobs : Runner # <<"cancel", k>> /\ Runner # <<"finish", k>>
  BY OwnersTyped DEF Runner
<1>5. run'.pc # "loading"
  BY <1>2
<1> QED
  BY <1>2, <1>3, <1>4, <1>5, CancelMarked

\* finish() is the pump's own, of a job nobody has cancelled while it waited.
LEMMA CancelEnds == ASSUME OpsInv, OpsInv', CancelInv, StopsShort \/ Settle PROVE CancelInv'
<1>1. PICK j \in Jobs : j = J /\ jobs[j] \in JobRecord /\ jobs[j].status = "running"
  BY DEF OpsInv, RunInv, TypeOK, StopsShort, Settle, RunAt
<1>2. UNCHANGED <<stored, clients>> /\ TypeOK /\ ~Terminal(jobs[j])
  BY <1>1 DEF StopsShort, Settle, OpsInv, Terminal
<1>3. clients[j].cancel # "finishing"
  BY <1>2 DEF CancelInv
<1>4. ASSUME NEW new, StartFinish(new), new.cancel = jobs[j].cancel PROVE CancelInv'
  <2>1. /\ jobs' = [jobs EXCEPT ![j] = new] /\ Save(<<"finish", j>>, jobs') /\ ending' = [ending EXCEPT ![j] = "saving"]
        /\ run' = [run EXCEPT !.pc = "finishing"]
    BY <1>1, <1>4 DEF StartFinish, RunTo
  <2>2. run'.pc # "loading" /\ \A k \in Jobs : k # j => ending'[k] = ending[k]
    BY <1>2, <2>1, RunTyped DEF TypeOK
  <2>3. <<"finish", j>> \in Owners /\ \A k \in Jobs : <<"finish", j>> # <<"cancel", k>> /\ (k # j => <<"finish", j>> # <<"finish", k>>)
    BY OwnersTyped
  <2> QED
    BY <1>2, <1>3, <1>4, <2>1, <2>2, <2>3, CancelMarked
<1>5. \A good \in BOOLEAN : \A item : Counted(jobs[j], item, good).cancel = jobs[j].cancel
                                      /\ DOMAIN Counted(jobs[j], item, good) = DOMAIN jobs[j]
  BY <1>1 DEF Counted, JobRecord
<1>6. CASE StopsShort
  <2>1. [jobs[j] EXCEPT !.status = "cancelled", !.step = "none"].cancel = jobs[j].cancel
    BY <1>1 DEF JobRecord
  <2> QED
    BY <1>1, <1>4, <1>6, <2>1 DEF StopsShort
<1>7. CASE Settle
  <2> DEFINE counted == Counted(jobs[J], Item(Queue), At(Queue, "ok"))
             status == IF counted.cancel THEN "cancelled" ELSE Verdict(J, counted)
             going == [counted EXCEPT !.status = "paused", !.reason = "queue"]
  <2>1. \/ StartFinish([counted EXCEPT !.status = status])
        \/ jobs' = [jobs EXCEPT ![J] = going] /\ Save(Runner, jobs') /\ run' = [run EXCEPT !.pc = "resting"] /\ ending' = ending
    BY <1>7 DEF Settle, RunTo
  <2>2. At(Queue, "ok") \in BOOLEAN
    BY DEF At
  <2>3. counted.cancel = jobs[j].cancel /\ \A s : [counted EXCEPT !.status = s].cancel = counted.cancel
        /\ going.cancel = counted.cancel
    <3>1. DOMAIN counted = DOMAIN jobs[j] /\ counted.cancel = jobs[j].cancel
      BY <1>1, <1>5, <2>2
    <3>2. counted \in [DOMAIN counted -> UNION {{counted[x]} : x \in DOMAIN counted}]
      BY <1>1 DEF Counted
    <3> HIDE DEF counted
    <3>3. "cancel" \in DOMAIN counted
      BY <1>1, <3>1 DEF JobRecord
    <3>4. \A s : [counted EXCEPT !.status = s].cancel = counted.cancel
      BY <3>2, <3>3
    <3> QED
      BY <3>1, <3>2, <3>3, <3>4
  <2> HIDE DEF counted, status
  <2>4. CASE StartFinish([counted EXCEPT !.status = status])
    BY <1>4, <2>3, <2>4
  <2>5. CASE jobs' = [jobs EXCEPT ![J] = going] /\ Save(Runner, jobs') /\ run' = [run EXCEPT !.pc = "resting"] /\ ending' = ending
    <3>1. Runner \in Owners /\ \A k \in Jobs : Runner # <<"cancel", k>> /\ Runner # <<"finish", k>>
      BY OwnersTyped DEF Runner
    <3>2. run'.pc # "loading"
      BY <1>2, <2>5, RunTyped
    <3>3. PICK new : jobs' = [jobs EXCEPT ![j] = new] /\ new.cancel = jobs[j].cancel
      BY <1>1, <2>3, <2>5
    <3> QED
      BY <1>2, <2>5, <3>1, <3>2, <3>3, CancelMarked
  <2> QED
    BY <2>1, <2>4, <2>5
<1> QED
  BY <1>6, <1>7

LEMMA CancelHook == ASSUME OpsInv, OpsInv', CancelInv, NEW j \in Jobs, Hook(j) \/ HookFails(j) PROVE CancelInv'
<1>1. /\ UNCHANGED <<stored, run, clients>> /\ ending[j] = "hook"
      /\ Save(<<"finish", j>>, jobs') /\ ending' = [ending EXCEPT ![j] = "closing"]
  BY DEF Hook, HookFails
<1>2. TypeOK /\ TypeOK' /\ RunInv /\ RunInv' /\ jobs[j] \in JobRecord
  BY DEF OpsInv, TypeOK
<1>3. ending'[j] = "closing" /\ \A k \in Jobs : k # j => ending'[k] = ending[k]
  BY <1>1, <1>2 DEF TypeOK
<1>4. Terminal(jobs[j]) /\ Terminal(jobs'[j])
  BY <1>1, <1>2, <1>3 DEF RunInv
<1>5. PICK new : jobs' = [jobs EXCEPT ![j] = new] /\ new.cancel = jobs[j].cancel
  <2>1. \A s : [jobs[j] EXCEPT !.notify = FALSE, !.error = FALSE, !.status = s].cancel = jobs[j].cancel
               /\ [jobs[j] EXCEPT !.status = s, !.error = TRUE].cancel = jobs[j].cancel
    BY <1>2 DEF JobRecord
  <2>2. CASE Hook(j)
    BY <2>1, <2>2 DEF Hook
  <2>3. CASE HookFails(j)
    BY <2>1, <2>3 DEF HookFails
  <2> QED
    BY <2>2, <2>3
<1>6. jobs'[j] = new
  BY <1>2, <1>5 DEF TypeOK
<1>7. <<"finish", j>> \in Owners /\ \A k \in Jobs : <<"finish", j>> # <<"cancel", k>> /\ (k # j => <<"finish", j>> # <<"finish", k>>)
  BY OwnersTyped
<1>8. \A k \in Jobs : clients[k].cancel = "finishing" =>
                               \/ ending'[k] = ending[k] /\ <<"finish", j>> # <<"finish", k>>
                               \/ ending[k] \in {"hook", "closing"} /\ ending'[k] = "closing"
  BY <1>1, <1>3, <1>7
<1> QED
  BY <1>1, <1>4, <1>5, <1>6, <1>7, <1>8, CancelMarked

LEMMA CancelThrown == ASSUME OpsInv, CancelInv, NEW j \in Jobs, HookThrows(j) PROVE CancelInv'
<1>1. /\ UNCHANGED <<jobs, stored, saves, refused, run, clients>> /\ ending[j] = "hook"
      /\ ending' = [ending EXCEPT ![j] = "threw"]
  BY DEF HookThrows
<1>2. \A k \in Jobs : EndingGoes(k)
  BY <1>1 DEF EndingGoes, OpsInv, TypeOK
<1> QED
  BY <1>1, <1>2, CancelRests

LEMMA CancelAsked == ASSUME OpsInv, OpsInv', CancelInv, NEW j \in Jobs, Enqueue(j) PROVE CancelInv'
<1>1. /\ stored' = stored /\ UNCHANGED <<run, ending>> /\ jobs' = [jobs EXCEPT ![j] = Enqueued] /\ Save(<<"enqueue", j>>, jobs')
      /\ clients' = [clients EXCEPT ![j] = [clients[j] EXCEPT !.asked = "waiting"]] /\ clients[j].asked = "no"
  BY DEF Enqueue
<1>2. ~jobs[j].cancel /\ ~Terminal(jobs[j]) /\ TypeOK
  BY <1>1 DEF OpsInv, ImagesInv, Absent, Terminal
<1>3. \A k \in Jobs : clients'[k].cancel = clients[k].cancel
  <2>1. [clients[j] EXCEPT !.asked = "waiting"].cancel = clients[j].cancel
    BY <1>2, ClientsTyped
  <2> QED
    BY <1>1, <1>2, <2>1 DEF TypeOK
<1>4. <<"enqueue", j>> \in Owners /\ \A k \in Jobs : <<"enqueue", j>> # <<"cancel", k>> /\ <<"enqueue", j>> # <<"finish", k>>
  BY OwnersTyped
<1> QED
  BY <1>1, <1>2, <1>3, <1>4, CancelMarked

LEMMA CancelBegins == ASSUME OpsInv, OpsInv', CancelInv, NEW j \in Jobs, Cancel(j) PROVE CancelInv'
<1> DEFINE running == jobs[j].status = "running"
           new == IF running THEN [jobs[j] EXCEPT !.cancel = TRUE]
                  ELSE [jobs[j] EXCEPT !.cancel = TRUE, !.status = "cancelled", !.reason = "none"]
           owner == IF running THEN <<"cancel", j>> ELSE <<"finish", j>>
           c == IF running THEN "saving" ELSE "finishing"
<1>1. /\ UNCHANGED <<stored, run>> /\ run.pc # "loading" /\ clients[j].cancel = "no"
      /\ jobs' = [jobs EXCEPT ![j] = new] /\ Save(owner, jobs') /\ jobs[j].status \in {"running", "paused"}
      /\ clients' = [clients EXCEPT ![j] = [clients[j] EXCEPT !.cancel = c]]
      /\ running => ending' = ending
      /\ ~running => ending' = [ending EXCEPT ![j] = "saving"]
  BY DEF Cancel, Up
<1>2. TypeOK /\ TypeOK' /\ jobs[j] \in JobRecord
  BY DEF OpsInv, TypeOK
<1>3. new.cancel /\ (~running => Terminal(new)) /\ ~Terminal(jobs[j])
  BY <1>1, <1>2 DEF JobRecord, Terminal
<1>4. /\ owner \in Owners /\ c \in {"saving", "finishing"}
      /\ running => c = "saving" /\ owner = <<"cancel", j>>
      /\ ~running => c = "finishing" /\ owner = <<"finish", j>>
      /\ \A k \in Jobs : k # j => owner # <<"cancel", k>> /\ owner # <<"finish", k>>
  BY OwnersTyped
<1> HIDE DEF new, owner, c, running
<1>5. /\ clients'[j].cancel = c /\ \A k \in Jobs : k # j => clients'[k].cancel = clients[k].cancel
      /\ jobs'[j] = new /\ \A k \in Jobs : k # j => jobs'[k] = jobs[k]
      /\ \A k \in Jobs : k # j => ending'[k] = ending[k]
      /\ ~running => ending'[j] = "saving"
  <2>1. [clients[j] EXCEPT !.cancel = c].cancel = c
    BY <1>2, <1>4, ClientsTyped
  <2> QED
    BY <1>1, <1>2, <2>1 DEF TypeOK
<1>6. \A k \in Jobs : (jobs[k].cancel => jobs'[k].cancel) /\ (Terminal(jobs[k]) => Terminal(jobs'[k]))
  BY <1>3, <1>5
<1>7. \A k \in Jobs : \/ clients'[k].cancel = clients[k].cancel
                      \/ clients'[k].cancel = "saving" /\ owner = <<"cancel", k>> /\ jobs'[k].cancel
                      \/ /\ clients'[k].cancel = "finishing" /\ owner = <<"finish", k>> /\ jobs'[k].cancel
                         /\ Terminal(jobs'[k]) /\ ending'[k] = "saving"
  BY <1>3, <1>4, <1>5
<1>8. \A k \in Jobs : clients[k].cancel = "saving" => owner # <<"cancel", k>>
  BY <1>1, <1>4
<1>9. \A k \in Jobs : clients[k].cancel = "finishing" =>
                          \/ ending'[k] = ending[k] /\ owner # <<"finish", k>>
                          \/ ending[k] \in {"hook", "closing"} /\ ending'[k] = "closing"
  BY <1>1, <1>4, <1>5
<1>10. stored' = stored /\ jobs' \in [Jobs -> JobRecord] /\ run'.pc # "loading" /\ Save(owner, jobs')
  BY <1>1, <1>2 DEF TypeOK
<1> QED
  BY <1>4, <1>6, <1>7, <1>8, <1>9, <1>10, CancelSaved

LEMMA CancelWakes == ASSUME OpsInv, OpsInv', CancelInv, NEW j \in Jobs, Wake(j) PROVE CancelInv'
<1>1. /\ UNCHANGED <<stored, saves, refused, ending, clients>> /\ run' = Pump(run)
      /\ jobs' = jobs \/ (jobs[j].status = "paused" /\ jobs' = [jobs EXCEPT ![j] = [jobs[j] EXCEPT !.reason = "queue"]])
  BY DEF Wake
<1>2. TypeOK /\ jobs[j] \in JobRecord
  BY DEF OpsInv, TypeOK
<1>3. [jobs[j] EXCEPT !.reason = "queue"].cancel = jobs[j].cancel /\ [jobs[j] EXCEPT !.reason = "queue"].status = jobs[j].status
  BY <1>2 DEF JobRecord
<1>4. \A k \in Jobs : jobs'[k].cancel = jobs[k].cancel /\ jobs'[k].status = jobs[k].status
  BY <1>1, <1>2, <1>3 DEF TypeOK
<1>5. run'.pc = "loading" => run.pc = "loading"
  BY <1>1 DEF Pump
<1>6. \A k \in Jobs : EndingGoes(k)
  BY <1>1 DEF EndingGoes
<1>7. \A k \in Jobs : Terminal(jobs[k]) => Terminal(jobs'[k])
  BY <1>4 DEF Terminal
<1> QED
  BY <1>1, <1>4, <1>5, <1>6, <1>7, CancelRests

LEMMA CancelUntouched == ASSUME OpsInv, CancelInv, UNCHANGED <<jobs, stored, saves, refused, run, ending, clients>> PROVE CancelInv'
BY CancelPlain

LEMMA CancelStays == ASSUME OpsInv, CancelInv, [Next]_vars PROVE CancelInv'
<1>1. OpsInv'
  BY OpsStep, OpsStays
<1>2. CASE UNCHANGED vars \/ (Bytes /\ UNCHANGED opsVars)
  BY <1>2, CancelUntouched DEF vars, opsVars
<1>3. CASE Jobwork
  BY <1>1, <1>3, CancelChain, CancelPump, CancelAnswers, CancelFinish, CancelRuns, CancelEnds, CancelHook, CancelWakes
     DEF Jobwork
<1>4. CASE Mishap
  <2>1. ASSUME UNCHANGED <<jobs, stored, saves, refused, run, ending, wakes, clients, moved, wedged>> PROVE CancelInv'
    BY <2>1, CancelUntouched
  <2>2. ASSUME NEW j \in Jobs, HookFails(j) \/ HookThrows(j) \/ Cancel(j) PROVE CancelInv'
    BY <1>1, <2>2, CancelHook, CancelThrown, CancelBegins
  <2>3. CASE SaveFails \/ Blocked \/ Crash
    BY <1>1, <2>3, CancelChain, CancelRuns, CancelCrash
  <2> QED
    BY <1>4, <2>1, <2>2, <2>3 DEF Mishap
<1>5. CASE Arrival
  BY <1>1, <1>5, CancelAsked, CancelUntouched DEF Arrival, opsVars
<1> QED
  BY <1>2, <1>3, <1>4, <1>5 DEF Next, Progress

\* Only Executes begins an item.
LEMMA OnlyExecutesBegins ==
    ASSUME OpsInv, [Next]_vars, run.pc = "starting", run'.pc = "working"
    PROVE  ~jobs[J].cancel
<1>0. TypeOK
  BY DEF OpsInv
<1>1. CASE Executes
  BY <1>1 DEF Executes
<1>2. CASE UNCHANGED run
  BY <1>2
<1>3. CASE Next1 \/ Dropped \/ Parked \/ Blocked \/ Starts \/ Record \/ Recorded \/ Settle \/ GoesOn \/ Load
  BY <1>3 DEF Next1, Dropped, Parked, Blocked, Starts, Record, Recorded, Settle, GoesOn, Load, RunAt, opsVars
<1>4. CASE StopsShort \/ Breaks \/ Crash
  BY <1>0, <1>4, RunTyped DEF StopsShort, StartFinish, Breaks, Crash, RunTo, RunAt
<1>5. ASSUME NEW j \in Jobs, Accept(j) \/ Wake(j) \/ FinishBreaks(j) PROVE UNCHANGED run
  BY <1>5 DEF Accept, Wake, FinishBreaks, Pump, RunAt
<1>6. ASSUME NEW j \in Jobs,
             Refuse(j) \/ CancelAnswered(j) \/ Reported(j) \/ Hook(j) \/ Closed(j) \/ HookFails(j) \/ HookThrows(j) \/ Cancel(j) \/ Enqueue(j)
      PROVE  UNCHANGED run
  BY <1>6 DEF Refuse, CancelAnswered, Reported, Hook, Closed, HookFails, HookThrows, Cancel, Enqueue
<1>7. CASE SaveLands \/ SaveFails \/ (Bytes /\ UNCHANGED opsVars) \/ UNCHANGED vars
  BY <1>2, <1>7 DEF SaveLands, SaveFails, vars, opsVars
<1>8. CASE Jobwork
  BY <1>1, <1>2, <1>3, <1>4, <1>5, <1>6, <1>7, <1>8 DEF Jobwork
<1>9. CASE Mishap
  BY <1>2, <1>3, <1>4, <1>6, <1>7, <1>9 DEF Mishap
<1>10. CASE Arrival
  BY <1>2, <1>6, <1>10 DEF Arrival, opsVars
<1> QED
  BY <1>7, <1>8, <1>9, <1>10 DEF Next, Progress

\* Once a cancel has marked a job no further item of it begins, and once it was answered no restart
\* begins one either: what the answer waited for is in the state file (cancel(), run()).
THEOREM CancelsHold == Spec => CancelHolds
<1>1. Init => CancelInv
  BY DEF Init, CancelInv, MarksInv, Absent
<1>2. OpsInv /\ CancelInv /\ [Next]_vars => CancelInv'
  BY CancelStays
<1>3. ASSUME OpsInv, CancelInv, [Next]_vars
      PROVE  \A j \in Jobs : jobs[j].cancel \/ clients[j].cancel = "answered" =>
                 ~(run.job = j /\ RunAt("starting") /\ run'.pc = "working")
  BY <1>3, OnlyExecutesBegins DEF CancelInv, MarksInv, RunAt, J
<1> QED
  BY <1>1, <1>2, <1>3, LibraryInvariant, PTL DEF Spec, CancelHolds
=============================================================================
