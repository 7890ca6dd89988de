-------------------------- MODULE QueueStoreProofs --------------------------
(***************************************************************************)
(* The write chain keeps its promises for any number of requests, writes,  *)
(* failures and crashes. IInv, checked by TLC on the small instances, is   *)
(* inductive: each action keeps each part of it. Beside it the module      *)
(* follows the open jobs of one source, the byte counts on their way to    *)
(* storage, and the counts a flush has promised to store.                  *)
(***************************************************************************)
EXTENDS QueueStore, TLAPS

USE DEF Fresh, Phases, Record, Answers, Removals, Runs, objects

-----------------------------------------------------------------------------
(* Images and requests.                                                    *)

LEMMA ImageIsImage ==
    ASSUME NEW S \in SUBSET Jobs, rec \in [Jobs -> Record]
    PROVE  ImageOf(S) \in Images /\ DOMAIN ImageOf(S) = S
<1>1. ImageOf(S) \in [S -> Record] /\ DOMAIN ImageOf(S) = S
  BY DEF ImageOf
<1> QED
  BY <1>1 DEF Images

LEMMA ImagesAreRecords ==
    ASSUME NEW f \in Images
    PROVE  DOMAIN f \in SUBSET Jobs /\ \A j \in DOMAIN f : f[j] \in Record
BY DEF Images

LEMMA RequestsAreTyped ==
    ASSUME NEW j \in Jobs, NEW S \in SUBSET Jobs
    PROVE  Save \in Request /\ Add(j) \in Request /\ Remove(j) \in Request /\ Clear(S) \in Request
BY DEF Request, Save, Add, Remove, Clear

LEMMA SaveIsTyped == Save \in Request
BY DEF Request, Save

LEMMA AppendIsTyped ==
    ASSUME NEW T, NEW s \in Seq(T), NEW e \in T
    PROVE  /\ Append(s, e) \in Seq(T)
           /\ Len(Append(s, e)) = Len(s) + 1
           /\ \A i \in 1..Len(s) : Append(s, e)[i] = s[i]
           /\ Append(s, e)[Len(s) + 1] = e
OBVIOUS

LEMMA ChainGrows ==
    ASSUME chain \in Seq(Request), NEW req \in Request
    PROVE  /\ Append(chain, req) \in Seq(Request)
           /\ Len(Append(chain, req)) = Len(chain) + 1 /\ Len(chain) \in Nat
           /\ \A i \in 1..Len(chain) : Append(chain, req)[i] = chain[i]
           /\ Append(chain, req)[Len(chain) + 1] = req
BY AppendIsTyped

LEMMA TailIsTyped ==
    ASSUME NEW T, NEW s \in Seq(T), s # <<>>
    PROVE  /\ Tail(s) \in Seq(T) /\ Head(s) \in T
           /\ Head(s) = s[1] /\ Len(s) \in Nat \ {0}
           /\ Len(Tail(s)) = Len(s) - 1
           /\ \A i \in 1..(Len(s) - 1) : Tail(s)[i] = s[i + 1]
OBVIOUS

-----------------------------------------------------------------------------
(* Typing, one action at a time. An admission that settles is the head of  *)
(* its queue, which is therefore not empty.                                *)

LEMMA TypedInit == Init => TypeOK
<1> SUFFICES ASSUME Init PROVE TypeOK
  OBVIOUS
<1>1. disk \in Images
  <2>1. disk \in [{} -> Record] 
    BY DEF Init
  <2> QED
    BY <2>1 DEF Images
<1>2. Fresh \in Record /\ 0 \in 0..MaxRevs
  BY StoreAssumption
<1>3. writing \in Write \union {Idle} /\ chain \in Seq(Request) /\ admission \in Seq(Jobs)
  BY DEF Init
<1>4. failures \in 0..MaxFailures /\ crashes \in 0..MaxCrashes /\ flushes \in 0..MaxFlushes
  BY StoreAssumption DEF Init
<1>5. rec \in [Jobs -> Record] /\ noted \in [Jobs -> 0..MaxRevs] /\ flushMark \in [Jobs -> 0..MaxRevs]
  BY <1>2 DEF Init
<1> QED
  BY <1>1, <1>3, <1>4, <1>5 DEF Init, TypeOK

LEMMA SavedIsTyped ==
    ASSUME chain \in Seq(Request)
    PROVE  Saved \in Seq(Request)
BY SaveIsTyped, AppendIsTyped DEF Saved

\* A count is a number, and one that replaces another is the later one.
LEMMA CountsFollow ==
    ASSUME TypeOK, NEW j \in Jobs
    PROVE  /\ rec[j] \in Record /\ rec[j].phase \in Phases /\ rec[j].rev \in Nat
           /\ \A rev \in Counts(j) : rev \in 0..MaxRevs /\ rev \in Nat /\ rev >= rec[j].rev
<1>1. rec[j] \in Record
  BY DEF TypeOK
<1> QED
  BY <1>1, StoreAssumption DEF Counts

\* A row comes back with a count no older than the stored one; if it was open it may have failed.
LEMMA RowsComeBack ==
    ASSUME TypeOK, NEW j \in DOMAIN disk, NEW back \in Loaded(j)
    PROVE  /\ back \in Record /\ disk[j].rev \in Nat /\ back.rev \in Nat /\ back.rev >= disk[j].rev
           /\ back.phase = disk[j].phase \/ (disk[j].phase = "open" /\ back.phase = "failed")
<1>1. disk[j] \in Record
  BY ImagesAreRecords DEF TypeOK
<1>2. back \in Reread(j)
  BY DEF Loaded
<1>3. /\ back \in [phase : Phases, rev : 0..MaxRevs]
      /\ back.rev \in {disk[j].rev, disk[j].rev + 1}
      /\ back.phase = disk[j].phase \/ (disk[j].phase = "open" /\ back.phase = "failed")
  BY <1>1, <1>2 DEF Reread
<1>4. disk[j].rev \in Nat /\ back.rev \in Nat
  BY <1>1, <1>3, StoreAssumption
<1> QED
  BY <1>1, <1>3, <1>4

LEMMA TypedStep == IInv /\ [Next]_vars => TypeOK'
<1> SUFFICES ASSUME IInv, [Next]_vars PROVE TypeOK'
  OBVIOUS
<1> USE DEF TypeOK, bounds, history, timers, shutdown, clients, store
<1>a. TypeOK
  BY DEF IInv
<1>b. ASSUME Saved = chain' PROVE chain' \in Seq(Request)
  BY <1>a, <1>b, SavedIsTyped
<1>1. CASE WriteBegin
  <2>1. Head(chain) \in Request /\ Tail(chain) \in Seq(Request)
    BY <1>1, <1>a DEF WriteBegin
  <2>2. Applied(Head(chain)) \in SUBSET Jobs /\ Touched(Head(chain)) \in SUBSET Jobs
    BY <2>1, <1>a DEF Applied, Touched, Request
  <2>3. StoredImage(Head(chain)) \in Images
    BY <2>2, <1>a, ImageIsImage DEF StoredImage
  <2>4. writing' \in Write
    BY <2>1, <2>2, <2>3, <1>1 DEF WriteBegin, Write
  <2> QED
    BY <1>1, <1>a, <2>1, <2>2, <2>4 DEF WriteBegin
<1>c. ASSUME writing # Idle
      PROVE  /\ writing \in Write
             /\ writing.req.kind = "add" => admission # <<>>
             /\ Reverted(writing) \in SUBSET Jobs
             /\ (cleared \union writing.touched) \in SUBSET Jobs
  <2>1. writing \in Write
    BY <1>a, <1>c
  <2>2. writing.req.kind = "add" => admission # <<>>
    BY <1>c, <1>a DEF IInv, ChainInv, Awaited, AdmissionInv
  <2> QED
    BY <2>1, <2>2, <1>a DEF Write, Reverted
<1>2. CASE WriteOk
  <2>1. writing.image \in Images
    BY <1>2, <1>c DEF WriteOk, Write
  <2>2. admission' \in Seq(Jobs)
    BY <1>2, <1>c, <1>a DEF WriteOk
  <2>3. flushLeft' \in Nat
    BY <1>2, <1>a DEF WriteOk, FlushCounts
  <2>4. cleared' \subseteq Jobs
    BY <1>2, <1>c, <1>a DEF WriteOk, Cleared
  <2>5. answer' \in [Jobs -> Answers] /\ removal' \in [Jobs -> Removals] /\ run' \in [Jobs -> Runs]
    BY <1>2, <1>a DEF WriteOk
  <2> QED
    BY <1>2, <1>a, <2>1, <2>2, <2>3, <2>4, <2>5 DEF WriteOk
<1>3. CASE WriteFail
  <2>1. admission' \in Seq(Jobs)
    BY <1>3, <1>c, <1>a DEF WriteFail
  <2>2. flushLeft' \in Nat
    BY <1>3, <1>a DEF WriteFail, FlushCounts
  <2>3. answer' \in [Jobs -> Answers] /\ removal' \in [Jobs -> Removals]
    BY <1>3, <1>a DEF WriteFail
  <2>4. failures' \in 0..MaxFailures
    BY <1>3, <1>a, StoreAssumption DEF WriteFail
  <2>5. restored' \subseteq Jobs
    BY <1>3, <1>c, <1>a DEF WriteFail, Write
  <2>6. saveFailing' \in BOOLEAN /\ retryTimer' \in BOOLEAN
    BY <1>3, <1>a DEF WriteFail, RetryDue
  <2> QED
    BY <1>3, <1>a, <1>c, <2>1, <2>2, <2>3, <2>4, <2>5, <2>6 DEF WriteFail
<1>4. CASE RetrySave
  BY <1>4, <1>a, <1>b DEF RetrySave
<1>5. CASE CheckpointSave
  BY <1>5, <1>a, <1>b DEF CheckpointSave
<1>6. ASSUME NEW j \in Jobs, Client(j) PROVE TypeOK'
  <2>1. CASE Ask(j)
    BY <2>1, <1>a DEF Ask
  <2>2. CASE CheckDuplicate(j)
    <3>1. admission' \in Seq(Jobs)
      <4>1. admission \in Seq(Jobs) /\ admission # <<>>
        BY <2>2, <1>a DEF CheckDuplicate, ItsTurn
      <4>2. Tail(admission) \in Seq(Jobs)
        BY <4>1
      <4>3. admission' \in {Tail(admission), admission}
        BY <2>2 DEF CheckDuplicate
      <4> QED
        BY <4>1, <4>2, <4>3
    <3>2. answer' \in [Jobs -> Answers]
      <4>1. answer \in [Jobs -> Answers]
        BY <1>a
      <4>2. answer' \in {[answer EXCEPT ![j] = "duplicate"], [answer EXCEPT ![j] = "checked"]}
        BY <2>2 DEF CheckDuplicate
      <4> QED
        BY ONLY <4>1, <4>2 DEF Answers
    <3> QED
      BY <2>2, <1>a, <3>1, <3>2 DEF CheckDuplicate
  <2>3. CASE AdmitJob(j)
    <3>1. chain' \in Seq(Request)
      BY <2>3, <1>a, RequestsAreTyped, AppendIsTyped DEF AdmitJob
    <3> QED
      BY <2>3, <1>a, <3>1 DEF AdmitJob
  <2>4. CASE AskRemove(j)
    BY <2>4, <1>a DEF AskRemove
  <2>5. CASE RemoveJob(j)
    <3>1. chain' \in Seq(Request)
      <4>1. chain' \in {chain, Append(chain, Remove(j))}
        BY <2>5 DEF RemoveJob
      <4>2. chain \in Seq(Request) /\ Remove(j) \in Request
        BY <1>a, RequestsAreTyped
      <4> QED
        BY ONLY <4>1, <4>2, ChainGrows
    <3>2. removal' \in [Jobs -> Removals]
      <4>1. removal \in [Jobs -> Removals]
        BY <1>a
      <4>2. removal' \in {[removal EXCEPT ![j] = "removing"], [removal EXCEPT ![j] = "absent"]}
        BY <2>5 DEF RemoveJob
      <4> QED
        BY ONLY <4>1, <4>2 DEF Removals
    <3> QED
      BY <2>5, <1>a, <3>1, <3>2 DEF RemoveJob
  <2>6. ASSUME NEW rev \in Counts(j), Resume(j, rev) PROVE TypeOK'
    <3>1. [phase |-> "open", rev |-> rev] \in Record /\ rev \in 0..MaxRevs
      BY <1>a, CountsFollow
    <3>2. rec' \in [Jobs -> Record] /\ noted' \in [Jobs -> 0..MaxRevs] /\ reopened' \subseteq Jobs
      BY <2>6, <1>a, <3>1 DEF Resume
    <3> QED
      BY <2>6, <1>a, <1>b, <3>2 DEF Resume
  <2> QED
    BY <1>6, <2>1, <2>2, <2>3, <2>4, <2>5, <2>6 DEF Client
<1>7. ASSUME NEW j \in Jobs, Run(j) PROVE TypeOK'
  <2>1. CASE StartRun(j)
    BY <2>1, <1>a, <1>b DEF StartRun
  <2>2. CASE Progress(j) \/ Recount(j)
    <3>a. /\ rec[j].rev < MaxRevs /\ rec' = [rec EXCEPT ![j].rev = rec[j].rev + 1]
          /\ noted' \in {noted, [noted EXCEPT ![j] = rec[j].rev + 1]}
      BY <2>2 DEF Progress, Recount
    <3>b. rec[j] \in Record
      BY <1>a
    <3>1. rec[j].rev + 1 \in 0..MaxRevs
      BY <3>a, <3>b, StoreAssumption DEF Record
    <3>c. [rec[j] EXCEPT !.rev = rec[j].rev + 1] \in Record
      BY <3>b, <3>1 DEF Record
    <3>d. rec' = [rec EXCEPT ![j] = [rec[j] EXCEPT !.rev = rec[j].rev + 1]]
      BY <3>a
    <3>2. rec' \in [Jobs -> Record] /\ noted' \in [Jobs -> 0..MaxRevs]
      <4>1. rec' \in [Jobs -> Record]
        BY <1>a, <3>c, <3>d
      <4>2. noted' \in [Jobs -> 0..MaxRevs]
        BY <1>a, <3>a, <3>1
      <4> QED
        BY <4>1, <4>2
    <3> QED
      BY <2>2, <1>a, <3>2 DEF Progress, Recount
  <2>3. CASE CompleteRun(j)
    <3>1. rec' \in [Jobs -> Record]
      <4>1. rec \in [Jobs -> Record] /\ rec' = [rec EXCEPT ![j].phase = "completed"]
        BY <2>3, <1>a DEF CompleteRun
      <4> QED
        BY ONLY <4>1 DEF Record, Phases
    <3> QED
      BY <2>3, <1>a, <3>1 DEF CompleteRun
  <2>4. ASSUME NEW phase \in Phases, NEW rev \in Counts(j), EndRun(j, phase, rev) PROVE TypeOK'
    <3>1. [phase |-> phase, rev |-> rev] \in Record /\ rev \in 0..MaxRevs
      BY <1>a, CountsFollow
    <3>2. rec' \in [Jobs -> Record] /\ noted' \in [Jobs -> 0..MaxRevs]
      BY <2>4, <1>a, <3>1 DEF EndRun
    <3> QED
      BY <2>4, <1>a, <1>b, <3>2 DEF EndRun
  <2> QED
    BY <1>7, <2>1, <2>2, <2>3, <2>4 DEF Run
<1>8. CASE ClearCompleted
  <2>1. Clear({j \in jobs : rec[j].phase = "completed"}) \in Request
    BY <1>a DEF Clear, Request
  <2>2. chain' \in Seq(Request)
    BY <1>8, <1>a, <2>1, AppendIsTyped DEF ClearCompleted
  <2> QED
    BY <1>8, <1>a, <2>2 DEF ClearCompleted
<1>9. CASE Flush
  <2>1. chain' \in Seq(Request) /\ flushLeft' \in Nat
    <3>1. chain' = chain \/ chain' = Append(chain, Save)
      BY <1>9 DEF Flush
    <3>2. chain' \in Seq(Request)
      <4>1. chain \in Seq(Request) /\ Save \in Request
        BY <1>a, SaveIsTyped
      <4> QED
        BY ONLY <3>1, <4>1, ChainGrows
    <3>3. flushLeft' = Len(chain') + (IF writing = Idle THEN 0 ELSE 1)
      BY <1>9 DEF Flush
    <3>4. Len(chain') \in Nat
      BY <3>2
    <3> QED
      BY <3>2, <3>3, <3>4
  <2>2. flushMark' \in [Jobs -> 0..MaxRevs]
    BY <1>9, <1>a DEF Flush
  <2>3. flushes' \in 0..MaxFlushes
    BY <1>9, <1>a, StoreAssumption DEF Flush
  <2> QED
    BY <1>9, <1>a, <2>1, <2>2, <2>3 DEF Flush
<1>10. CASE FlushDone
  BY <1>10, <1>a DEF FlushDone
<1>11. CASE Freeze
  BY <1>11, <1>a DEF Freeze
<1>d. ASSUME Die, crashes' \in 0..MaxCrashes PROVE TypeOK'
  <2>1. disk' \in Images /\ cleared' \subseteq Jobs
    BY <1>d, <1>a, <1>c DEF Die, Cleared, Write
  <2>2. answer' \in [Jobs -> Answers] /\ removal' \in [Jobs -> Removals]
    BY <1>d, <1>a DEF Die, Unheard
  <2>3. run' \in [Jobs -> Runs] /\ flushMark' \in [Jobs -> 0..MaxRevs]
        /\ flushes' \in 0..MaxFlushes /\ flushLeft' \in Nat
    BY <1>d, StoreAssumption DEF Die
  <2>4. chain' \in Seq(Request) /\ admission' \in Seq(Jobs)
    BY <1>d DEF Die
  <2> QED
    BY <1>d, <1>a, <2>1, <2>2, <2>3, <2>4 DEF Die
<1>12. CASE Exit
  BY <1>12, <1>a, <1>d DEF Exit
<1>13. CASE Crash
  <2>1. crashes' \in 0..MaxCrashes
    BY <1>13, <1>a, StoreAssumption DEF Crash
  <2> QED
    BY <1>13, <2>1, <1>d DEF Crash
<1>14. CASE Start
  <2>1. jobs' \subseteq Jobs
    BY <1>14, <1>a, ImagesAreRecords DEF Start
  <2>2. rec' \in [Jobs -> Record] /\ noted' \in [Jobs -> 0..MaxRevs]
    <3>1. rec' \in [Jobs -> Record]
      BY <1>14 DEF Start
    <3> QED
      BY <1>14, <3>1 DEF Start
  <2>3. chain' \in Seq(Request)
    <3>1. <<Save>> \in Seq(Request)
      BY SaveIsTyped
    <3> QED
      BY <1>14, <3>1 DEF Start
  <2> QED
    BY <1>14, <1>a, <2>1, <2>2, <2>3 DEF Start
<1>15. CASE UNCHANGED vars
  BY <1>15, <1>a DEF vars
<1> QED
  BY <1>1, <1>2, <1>3, <1>4, <1>5, <1>6, <1>7, <1>8, <1>9, <1>10, <1>11, <1>12, <1>13, <1>14,
     <1>15 DEF Next

-----------------------------------------------------------------------------
(* Steps that change no row and no answer, and at most ask for a save.     *)

Parts == ChainInv /\ AdmissionInv /\ WritingInv /\ UnwrittenInv /\ RemovedInv
         /\ DownInv /\ ListMatchesStorage /\ AcceptedIsStored

LEMMA QuietStep ==
    ASSUME IInv, UNCHANGED <<jobs, disk, writing, answer, admission, removal, cleared>>,
           Up' = Up,
           chain' = chain \/ (Up /\ chain' = Append(chain, Save))
    PROVE  Parts'
<1> USE DEF IInv
<1>1. chain \in Seq(Request)
  BY DEF TypeOK
<1>2. ChainInv'
  <2>1. CASE chain' = chain
    BY <2>1 DEF ChainInv, Awaited, Once
  <2>2. CASE chain' = Append(chain, Save)
    <3>1. Len(chain') = Len(chain) + 1 /\ Len(chain) \in Nat
          /\ (\A i \in 1..Len(chain) : chain'[i] = chain[i]) /\ chain'[Len(chain) + 1] = Save
      BY <1>1, <2>2, ChainGrows, SaveIsTyped
    <3>2. Awaited(Save)' /\ ~Once(Save)
      BY DEF Awaited, Once, Save
    <3>3. \A req : Awaited(req) => Awaited(req)'
      BY DEF Awaited
    <3>4. \A p \in 1..Len(chain') : p \in 1..Len(chain) \/ chain'[p] = Save
      BY <3>1
    <3>5. (\A p \in 1..Len(chain) : Awaited(chain[p]))'
      BY <3>1, <3>2, <3>3, <3>4 DEF ChainInv
    <3>6. \A req : Once(req) => req # Save
      BY DEF Once, Save
    <3>7. \A p, q \in 1..Len(chain') : p # q /\ Once(chain'[p]) => chain'[p] # chain'[q]
      BY <3>1, <3>4, <3>6 DEF ChainInv
    <3>8. writing # Idle /\ Once(writing.req)
            => \A p \in 1..Len(chain') : chain'[p] # writing.req
      BY <3>1, <3>4, <3>6 DEF ChainInv
    <3>9. writing # Idle => Awaited(writing.req)'
      BY <3>3 DEF ChainInv
    <3> QED
      BY <3>5, <3>7, <3>8, <3>9 DEF ChainInv, Once
  <2> QED
    BY <2>1, <2>2
<1>3. AdmissionInv'
  BY DEF AdmissionInv
<1>4. WritingInv'
  BY DEF WritingInv, Reverted
<1>5. UnwrittenInv' /\ RemovedInv'
  BY DEF UnwrittenInv, RemovedInv, Written
<1>6. DownInv'
  BY DEF DownInv
<1>7. ListMatchesStorage' /\ AcceptedIsStored'
  BY DEF ListMatchesStorage, AcceptedIsStored, Left
<1> QED
  BY <1>2, <1>3, <1>4, <1>5, <1>6, <1>7 DEF Parts

-----------------------------------------------------------------------------
(* Facts the write steps share.                                            *)

LEMMA WritesAreNotIdle == ASSUME NEW w \in Write PROVE w # Idle
<1>1. DOMAIN w = {"req", "touched", "image"}
  BY DEF Write
<1>2. DOMAIN Idle = {"kind"}
  BY DEF Idle
<1> QED
  BY <1>1, <1>2

LEMMA RequestShapes ==
    ASSUME NEW j \in Jobs, NEW k \in Jobs
    PROVE  /\ Add(j).kind = "add" /\ Add(j).of = {j}
           /\ Remove(j).kind = "remove" /\ Remove(j).of = {j}
           /\ Add(j) # Remove(k) /\ (Add(j) = Add(k) => j = k) /\ (Remove(j) = Remove(k) => j = k)
<1>1. Add(j).kind = "add" /\ Add(j).of = {j} /\ Remove(j).kind = "remove" /\ Remove(j).of = {j}
  BY DEF Add, Remove
<1>2. Remove(k).kind = "remove" /\ Add(k).of = {k} /\ Remove(k).of = {k}
  BY DEF Add, Remove
<1> QED
  BY <1>1, <1>2

\* The write under way belongs to the admission at the head of the queue, to a removal
\* that is waited for, or to nobody in particular.
LEMMA WritingFacts ==
    ASSUME IInv, writing # Idle
    PROVE  /\ writing \in Write
           /\ writing.req.kind = "save" => writing.req.of = {}
           /\ writing.req.kind = "add" =>
                \E j \in Jobs : /\ writing.req = Add(j) /\ writing.req.of = {j}
                                /\ answer[j] = "admitting" /\ admission # <<>> /\ admission[1] = j
           /\ writing.req.kind = "remove" =>
                \E j \in Jobs : /\ writing.req = Remove(j) /\ writing.req.of = {j}
                                /\ removal[j] = "removing"
           /\ writing.req.kind \in {"save", "add", "remove", "clear"}
<1>1. writing \in Write
  BY DEF IInv, TypeOK
<1>2. Awaited(writing.req)
  BY DEF IInv, ChainInv
<1> QED
  BY <1>1, <1>2, RequestShapes DEF IInv, AdmissionInv, Awaited, Write, Request

LEMMA WrittenIsAdmitting ==
    ASSUME IInv, NEW j \in Jobs, Written(j)
    PROVE  writing # Idle /\ writing.req.kind = "add" /\ answer[j] = "admitting" /\ writing.req.of = {j}
<1>1. writing # Idle /\ writing.req = Add(j) /\ writing.req.kind = "add"
  BY RequestShapes DEF Written
<1> QED
  BY <1>1, WritingFacts, RequestShapes

\* Only an admission under way is in memory and not in storage.
LEMMA ListedIsStored ==
    ASSUME IInv, Up, NEW j \in jobs, answer[j] # "admitting"
    PROVE  j \in DOMAIN disk
<1>1. CASE writing = Idle
  BY <1>1 DEF IInv, ListMatchesStorage
<1>2. CASE writing # Idle
  <2>1. writing.req.kind = "add" => j \notin writing.touched
    BY <1>2, WritingFacts DEF IInv, WritingInv
  <2> QED
    BY <1>2, <2>1 DEF IInv, WritingInv, Reverted
<1> QED
  BY <1>1, <1>2

\* A pending write that is added to the chain keeps the chain in order if its client waits
\* for it and for no other.
LEMMA ChainAppended ==
    ASSUME IInv, NEW req \in Request, chain' = Append(chain, req),
           UNCHANGED writing,
           Awaited(req)',
           \A r \in Request : Awaited(r) => Awaited(r)',
           Once(req) => (\A p \in 1..Len(chain) : chain[p] # req),
           Once(req) /\ writing # Idle => writing.req # req
    PROVE  ChainInv'
<1>1. chain \in Seq(Request) /\ (writing # Idle => writing.req \in Request)
  BY DEF IInv, TypeOK, Write
<1>2. Len(chain') = Len(chain) + 1 /\ Len(chain) \in Nat
      /\ (\A i \in 1..Len(chain) : chain'[i] = chain[i]) /\ chain'[Len(chain) + 1] = req
  BY <1>1, ChainGrows
<1>3. \A p \in 1..Len(chain') : p \in 1..Len(chain) \/ (p = Len(chain) + 1 /\ chain'[p] = req)
  BY <1>2
<1>4. \A p \in 1..Len(chain) : chain[p] \in Request /\ Awaited(chain[p])
  BY <1>1 DEF IInv, ChainInv
<1>5. (\A p \in 1..Len(chain) : Awaited(chain[p]))'
  BY <1>2, <1>3, <1>4
<1>6. \A p, q \in 1..Len(chain') : p # q /\ Once(chain'[p]) => chain'[p] # chain'[q]
  BY <1>2, <1>3 DEF IInv, ChainInv
<1>7. writing # Idle /\ Once(writing.req) => \A p \in 1..Len(chain') : chain'[p] # writing.req
  BY <1>2, <1>3 DEF IInv, ChainInv
<1>8. writing # Idle => Awaited(writing.req)'
  BY <1>1 DEF IInv, ChainInv
<1> QED
  BY <1>5, <1>6, <1>7, <1>8 DEF ChainInv, Once

-----------------------------------------------------------------------------
(* The client's steps.                                                     *)

LEMMA AskStep == ASSUME IInv, NEW j \in Jobs, Ask(j) PROVE Parts'
<1> USE DEF Ask
<1>0. TypeOK /\ admission \in Seq(Jobs)
  BY DEF IInv, TypeOK
<1>1. /\ UNCHANGED <<jobs, disk, chain, writing, removal, cleared>> /\ Up' = Up
      /\ answer[j] = "none" /\ answer' = [answer EXCEPT ![j] = "asked"]
  BY DEF store, history, shutdown, Up
<1>2. \A r : Awaited(r) => Awaited(r)'
  BY <1>1, <1>0 DEF Awaited, TypeOK
<1>3. ChainInv'
  BY <1>1, <1>2 DEF IInv, ChainInv, Once
<1>4. AdmissionInv'
  <2>1. /\ Len(admission') = Len(admission) + 1 /\ Len(admission) \in Nat
        /\ \A i \in 1..Len(admission) : admission'[i] = admission[i]
        /\ admission'[Len(admission) + 1] = j
    BY <1>0, AppendIsTyped
  <2>2. \A i \in 1..Len(admission) : admission[i] \in Jobs /\ admission[i] # j
    BY <1>0, <1>1 DEF IInv, AdmissionInv
  <2>3. \A i \in 1..Len(admission') : i \in 1..Len(admission) \/ (i = Len(admission) + 1 /\ admission'[i] = j)
    BY <2>1
  <2>4. \A i \in 1..Len(admission') : answer'[admission'[i]] \in {"asked", "checked", "admitting"}
    BY <1>0, <1>1, <2>1, <2>2, <2>3 DEF IInv, AdmissionInv, TypeOK
  <2>5. \A i, k \in 1..Len(admission') : i # k => admission'[i] # admission'[k]
    BY <2>1, <2>2, <2>3 DEF IInv, AdmissionInv
  <2>6. \A i \in 2..Len(admission') : answer'[admission'[i]] = "asked"
    <3>1. \A i \in 2..Len(admission') : i \in 2..Len(admission) \/ (i = Len(admission) + 1 /\ admission'[i] = j)
      BY <2>1
    <3> QED
      BY <1>0, <1>1, <2>1, <2>2, <3>1 DEF IInv, AdmissionInv, TypeOK
  <2>7. \A k \in Jobs : answer'[k] \in {"checked", "admitting"} => admission' # <<>> /\ admission'[1] = k
    <3>1. \A k \in Jobs : answer'[k] \in {"checked", "admitting"} => answer[k] = answer'[k]
      BY <1>0, <1>1 DEF TypeOK
    <3>2. admission # <<>> => 1 \in 1..Len(admission)
      BY <1>0
    <3>3. admission' # <<>>
      BY <1>0
    <3> QED
      BY <3>1, <3>2, <3>3, <2>1 DEF IInv, AdmissionInv
  <2> QED
    BY <2>4, <2>5, <2>6, <2>7 DEF AdmissionInv
<1>5. WritingInv' /\ DownInv'
  BY <1>1 DEF IInv, WritingInv, DownInv, Reverted
<1>6. UnwrittenInv' /\ RemovedInv'
  BY <1>0, <1>1 DEF IInv, UnwrittenInv, RemovedInv, Written, TypeOK
<1>7. ListMatchesStorage' /\ AcceptedIsStored'
  BY <1>0, <1>1 DEF IInv, ListMatchesStorage, AcceptedIsStored, Left, TypeOK
<1> QED
  BY <1>3, <1>4, <1>5, <1>6, <1>7 DEF Parts

\* When the head of the admissions settles, those behind it still wait for their check.
LEMMA AdmissionSettled ==
    ASSUME IInv, admission # <<>>, admission' = Tail(admission),
           answer' \in [Jobs -> Answers],
           answer'[admission[1]] \notin {"checked", "admitting"},
           \A k \in Jobs : k # admission[1] => answer'[k] = answer[k]
    PROVE  AdmissionInv'
<1>1. admission \in Seq(Jobs)
  BY DEF IInv, TypeOK
<1>2. /\ Len(admission) \in Nat \ {0} /\ Len(admission') = Len(admission) - 1
      /\ \A i \in 1..(Len(admission) - 1) : admission'[i] = admission[i + 1]
  BY <1>1, TailIsTyped
<1>3. \A i \in 1..Len(admission') :
        /\ i + 1 \in 2..Len(admission) /\ i + 1 \in 1..Len(admission) /\ 1 \in 1..Len(admission)
        /\ i + 1 # 1 /\ admission'[i] = admission[i + 1]
  BY <1>2
<1>4. \A i \in 1..Len(admission') :
        admission'[i] \in Jobs /\ admission'[i] # admission[1] /\ answer'[admission'[i]] = "asked"
  BY <1>1, <1>3 DEF IInv, AdmissionInv
<1>5. \A i, k \in 1..Len(admission') : i # k => admission'[i] # admission'[k]
  BY <1>3 DEF IInv, AdmissionInv
<1>6. \A k \in Jobs : answer'[k] \notin {"checked", "admitting"}
  BY DEF IInv, AdmissionInv
<1>7. \A i \in 2..Len(admission') : i \in 1..Len(admission')
  BY <1>2
<1> QED
  BY <1>4, <1>5, <1>6, <1>7 DEF AdmissionInv

LEMMA CheckDuplicateStep == ASSUME IInv, NEW j \in Jobs, CheckDuplicate(j) PROVE Parts'
<1>0. TypeOK /\ admission \in Seq(Jobs)
  BY DEF IInv, TypeOK
<1>1. /\ UNCHANGED <<jobs, disk, chain, writing, removal, cleared>> /\ Up' = Up
      /\ answer[j] = "asked" /\ admission # <<>> /\ j = admission[1]
      /\ \/ answer' = [answer EXCEPT ![j] = "duplicate"] /\ admission' = Tail(admission)
         \/ answer' = [answer EXCEPT ![j] = "checked"] /\ admission' = admission
  BY <1>0, TailIsTyped DEF CheckDuplicate, ItsTurn, store, history, shutdown, Up
<1>2. \A r : Awaited(r) => Awaited(r)'
  <2>1. answer \in [Jobs -> Answers]
    BY <1>0 DEF TypeOK
  <2>2. \A k \in Jobs : answer[k] = "admitting" => answer'[k] = "admitting"
    BY <1>1, <2>1
  <2> QED
    BY <1>1, <2>2 DEF Awaited
<1>3. ChainInv'
  BY <1>1, <1>2 DEF IInv, ChainInv, Once
<1>4. AdmissionInv'
  <2>1. CASE admission' = Tail(admission) /\ answer' = [answer EXCEPT ![j] = "duplicate"]
    BY <2>1, <1>0, <1>1, AdmissionSettled DEF TypeOK
  <2>2. CASE admission' = admission /\ answer' = [answer EXCEPT ![j] = "checked"]
    <3>1. \A i \in 1..Len(admission) : admission[i] \in Jobs
      BY <1>0
    <3>2. \A i \in 2..Len(admission) : i # 1 /\ i \in 1..Len(admission) /\ 1 \in 1..Len(admission)
      BY <1>0
    <3>3. \A i \in 2..Len(admission) : admission[i] # j
      BY <3>2, <1>1 DEF IInv, AdmissionInv
    <3> QED
      BY <2>2, <1>0, <1>1, <3>1, <3>2, <3>3 DEF IInv, AdmissionInv, TypeOK
  <2> QED
    BY <1>1, <2>1, <2>2
<1>5. WritingInv' /\ DownInv'
  BY <1>1 DEF IInv, WritingInv, DownInv, Reverted, CheckDuplicate, Up
<1>6. ~Written(j)
  BY <1>1, WrittenIsAdmitting
<1>7. UnwrittenInv' /\ RemovedInv'
  <2>1. answer \in [Jobs -> Answers]
    BY <1>0 DEF TypeOK
  <2>2. \A k \in Jobs : /\ k # j => answer'[k] = answer[k]
                        /\ k = j => answer[k] = "asked" /\ answer'[k] \in {"duplicate", "checked"}
    BY <1>1, <2>1
  <2>3. jobs' = jobs /\ disk' = disk /\ removal' = removal /\ writing' = writing /\ UnwrittenInv /\ RemovedInv
    BY <1>1 DEF IInv
  <2>4. UnwrittenInv'
    BY <1>6, <2>2, <2>3 DEF UnwrittenInv, Written
  <2>5. RemovedInv'
    BY <1>6, <2>2, <2>3 DEF RemovedInv, Written
  <2> QED
    BY <2>4, <2>5
<1>8. ListMatchesStorage' /\ AcceptedIsStored'
  BY <1>0, <1>1 DEF IInv, ListMatchesStorage, AcceptedIsStored, Left, TypeOK
<1> QED
  BY <1>3, <1>4, <1>5, <1>7, <1>8 DEF Parts

LEMMA AdmitJobStep == ASSUME IInv, NEW j \in Jobs, AdmitJob(j) PROVE Parts'
<1>0. TypeOK /\ admission \in Seq(Jobs)
  BY DEF IInv, TypeOK
<1>1. /\ UNCHANGED <<jobs, disk, admission, writing, removal, cleared>> /\ Up' = Up /\ Up
      /\ answer[j] = "checked" /\ answer' = [answer EXCEPT ![j] = "admitting"]
      /\ chain' = Append(chain, Add(j))
  BY DEF AdmitJob, store, history, shutdown, Up
<1>2. \A r \in Request : Awaited(r) => Awaited(r)'
  BY <1>1, <1>0 DEF Awaited, TypeOK
<1>3. Add(j) \in Request /\ Awaited(Add(j))' /\ ~Awaited(Add(j))
  BY <1>0, <1>1, RequestsAreTyped, RequestShapes DEF Awaited, TypeOK
<1>4. ChainInv'
  <2>1. \A p \in 1..Len(chain) : chain[p] # Add(j)
    BY <1>3 DEF IInv, ChainInv
  <2>2. writing # Idle => writing.req # Add(j)
    BY <1>3 DEF IInv, ChainInv
  <2> QED
    BY <1>1, <1>2, <1>3, <2>1, <2>2, ChainAppended
<1>5. AdmissionInv'
  <2>1. admission # <<>> /\ admission[1] = j
    BY <1>1 DEF IInv, AdmissionInv
  <2>2. \A i \in 1..Len(admission) : admission[i] \in Jobs
    BY <1>0
  <2>3. \A i \in 2..Len(admission) : i # 1 /\ i \in 1..Len(admission) /\ 1 \in 1..Len(admission)
    BY <1>0
  <2>4. \A i \in 2..Len(admission) : admission[i] # j
    BY <2>1, <2>3 DEF IInv, AdmissionInv
  <2>5a. answer \in [Jobs -> Answers] /\ answer' = [answer EXCEPT ![j] = "admitting"]
    BY <1>0, <1>1 DEF TypeOK
  <2>5. \A i \in Jobs : i # j => answer'[i] = answer[i]
    BY ONLY <2>5a
  <2>6. answer'[j] = "admitting"
    BY ONLY <2>5a
  <2>7. admission' = admission
    BY <1>1
  <2> QED
    BY <2>1, <2>2, <2>4, <2>5, <2>6, <2>7 DEF IInv, AdmissionInv
<1>6. WritingInv' /\ DownInv'
  BY <1>1 DEF IInv, WritingInv, DownInv, Reverted
<1>7. ~Written(j)
  BY <1>1, WrittenIsAdmitting
<1>8. UnwrittenInv' /\ RemovedInv'
  BY <1>0, <1>1, <1>7 DEF IInv, UnwrittenInv, RemovedInv, Written, TypeOK
<1>9. ListMatchesStorage' /\ AcceptedIsStored'
  BY <1>0, <1>1 DEF IInv, ListMatchesStorage, AcceptedIsStored, Left, TypeOK
<1> QED
  BY <1>4, <1>5, <1>6, <1>8, <1>9 DEF Parts

LEMMA AskRemoveStep == ASSUME IInv, NEW j \in Jobs, AskRemove(j) PROVE Parts'
<1>0. TypeOK
  BY DEF IInv
<1>1. /\ UNCHANGED <<jobs, disk, chain, writing, answer, admission, cleared>> /\ Up' = Up /\ Up
      /\ j \in jobs /\ removal[j] \in {"none", "absent", "kept", "unheard"}
      /\ removal' = [removal EXCEPT ![j] = "guard"]
  BY DEF AskRemove, store, history, shutdown, Up
<1>2. \A r : Awaited(r) => Awaited(r)'
  BY <1>1, <1>0 DEF Awaited, TypeOK
<1>3. ChainInv'
  BY <1>1, <1>2 DEF IInv, ChainInv, Once
<1>4. AdmissionInv' /\ WritingInv' /\ DownInv'
  BY <1>1 DEF IInv, AdmissionInv, WritingInv, DownInv, Reverted
<1>5. answer[j] \in {"none", "asked", "checked", "admitting"} => Written(j)
  BY <1>1 DEF IInv, UnwrittenInv
<1>6. UnwrittenInv' /\ RemovedInv'
  BY <1>0, <1>1, <1>5 DEF IInv, UnwrittenInv, RemovedInv, Written, TypeOK
<1>7. ListMatchesStorage'
  BY <1>1 DEF IInv, ListMatchesStorage
<1>8. AcceptedIsStored'
  <2>1. answer[j] = "accepted" => j \in DOMAIN disk
    BY <1>1, ListedIsStored
  <2> QED
    BY <1>0, <1>1, <2>1 DEF IInv, AcceptedIsStored, Left, TypeOK
<1> QED
  BY <1>3, <1>4, <1>6, <1>7, <1>8 DEF Parts

LEMMA RemoveJobStep == ASSUME IInv, NEW j \in Jobs, RemoveJob(j) PROVE Parts'
<1>0. TypeOK
  BY DEF IInv
<1>1. /\ UNCHANGED <<jobs, disk, writing, answer, admission, cleared>> /\ Up' = Up /\ Up
      /\ removal[j] = "guard"
      /\ \/ removal' = [removal EXCEPT ![j] = "removing"] /\ chain' = Append(chain, Remove(j))
         \/ removal' = [removal EXCEPT ![j] = "absent"] /\ chain' = chain
  BY DEF RemoveJob, store, history, shutdown, Up
<1>2. \A r : Awaited(r) => Awaited(r)'
  BY <1>1, <1>0 DEF Awaited, TypeOK
<1>3. ChainInv'
  <2>1. CASE removal' = [removal EXCEPT ![j] = "removing"] /\ chain' = Append(chain, Remove(j))
    <3>1. Remove(j) \in Request /\ Awaited(Remove(j))' /\ ~Awaited(Remove(j))
      BY <1>0, <1>1, <2>1, RequestsAreTyped, RequestShapes DEF Awaited, TypeOK
    <3>2. \A p \in 1..Len(chain) : chain[p] # Remove(j)
      BY <3>1 DEF IInv, ChainInv
    <3>3. writing # Idle => writing.req # Remove(j)
      BY <3>1 DEF IInv, ChainInv
    <3> QED
      BY <1>1, <1>2, <2>1, <3>1, <3>2, <3>3, ChainAppended
  <2>2. CASE chain' = chain
    BY <1>1, <1>2, <2>2 DEF IInv, ChainInv, Once
  <2> QED
    BY <1>1, <2>1, <2>2
<1>4. AdmissionInv' /\ WritingInv' /\ DownInv'
  BY <1>1 DEF IInv, AdmissionInv, WritingInv, DownInv, Reverted
<1>5. UnwrittenInv' /\ RemovedInv'
  BY <1>0, <1>1 DEF IInv, UnwrittenInv, RemovedInv, Written, TypeOK
<1>6. ListMatchesStorage' /\ AcceptedIsStored'
  BY <1>0, <1>1 DEF IInv, ListMatchesStorage, AcceptedIsStored, Left, TypeOK
<1> QED
  BY <1>3, <1>4, <1>5, <1>6 DEF Parts

LEMMA ClearCompletedStep == ASSUME IInv, ClearCompleted PROVE Parts'
<1>0. TypeOK
  BY DEF IInv
<1>1. PICK done \in SUBSET Jobs :
        /\ UNCHANGED <<jobs, disk, writing, answer, admission, removal, cleared>> /\ Up' = Up /\ Up
        /\ chain' = Append(chain, Clear(done))
  <2>1. {j \in jobs : rec[j].phase = "completed"} \in SUBSET Jobs
    BY <1>0 DEF TypeOK
  <2> QED
    BY <2>1 DEF ClearCompleted, store, clients, history, shutdown, Up
<1>2. Clear(done) \in Request /\ Clear(done).kind = "clear"
  BY DEF Clear, Request
<1>3. \A r : Awaited(r) => Awaited(r)'
  BY <1>1 DEF Awaited
<1>5. ~Once(Clear(done))
  BY <1>2 DEF Once
<1>6. Awaited(Clear(done))'
  BY <1>2 DEF Awaited
<1>7. ChainInv'
  BY <1>1, <1>2, <1>3, <1>5, <1>6, ChainAppended
<1>8. AdmissionInv' /\ WritingInv' /\ DownInv'
  BY <1>1 DEF IInv, AdmissionInv, WritingInv, DownInv, Reverted
<1>9. UnwrittenInv' /\ RemovedInv' /\ ListMatchesStorage' /\ AcceptedIsStored'
  BY <1>0, <1>1 DEF IInv, UnwrittenInv, RemovedInv, Written, ListMatchesStorage, AcceptedIsStored, Left
<1> QED
  BY <1>7, <1>8, <1>9 DEF Parts

-----------------------------------------------------------------------------
(* The writes' steps.                                                      *)

LEMMA WriteBeginStep == ASSUME IInv, WriteBegin PROVE Parts'
<1>0. TypeOK /\ chain \in Seq(Request) /\ chain # <<>>
  BY DEF IInv, TypeOK, WriteBegin
<1> DEFINE req == Head(chain)
<1>1. /\ UNCHANGED <<disk, answer, admission, removal, cleared>> /\ Up' = Up /\ Up
      /\ writing = Idle
      /\ jobs' = Applied(req) /\ chain' = Tail(chain)
      /\ writing' = [req |-> req, touched |-> Touched(req), image |-> StoredImage(req)]
  BY DEF WriteBegin, clients, history, shutdown, Up
<1>2. /\ req = chain[1] /\ req \in Request /\ 1 \in 1..Len(chain) /\ Len(chain) \in Nat \ {0}
      /\ Len(chain') = Len(chain) - 1
      /\ \A p \in 1..(Len(chain) - 1) : chain'[p] = chain[p + 1]
  BY <1>0, <1>1, TailIsTyped
<1>3. Awaited(req) /\ jobs = DOMAIN disk
  BY <1>1, <1>2 DEF IInv, ChainInv, ListMatchesStorage
<1> HIDE DEF req
<1>4. /\ writing'.req = req /\ writing'.touched = Touched(req)
      /\ writing'.image = StoredImage(req)
  BY <1>1
<1>5. writing' # Idle
  <2>1. DOMAIN writing' = {"req", "touched", "image"} /\ DOMAIN Idle = {"kind"}
    BY <1>1 DEF Idle
  <2> QED
    BY <2>1
<1>6. \A r : Awaited(r) => Awaited(r)'
  BY <1>1 DEF Awaited
<1>7. \A p \in 1..Len(chain') : p + 1 \in 1..Len(chain) /\ p + 1 # 1 /\ chain'[p] = chain[p + 1]
  BY <1>2
<1>8. ChainInv'
  <2>2. (\A p \in 1..Len(chain) : Awaited(chain[p]))'
    <3>1. \A p \in 1..Len(chain') : Awaited(chain[p + 1])
      BY <1>7 DEF IInv, ChainInv
    <3>2. ASSUME NEW p \in 1..Len(chain') PROVE Awaited(chain[p])'
      <4>1. chain'[p] = chain[p + 1] /\ Awaited(chain[p + 1])
        BY <1>7, <3>1
      <4> DEFINE r == chain[p + 1]
      <4>2. Awaited(r) /\ UNCHANGED <<answer, removal>>
        BY <1>1, <4>1
      <4> QED
        BY <4>1, <4>2 DEF Awaited
    <3> QED
      BY <3>2
  <2>3. \A p, q \in 1..Len(chain') : p # q /\ Once(chain'[p]) => chain'[p] # chain'[q]
    <3>1. \A p, q \in 1..Len(chain) : p # q /\ Once(chain[p]) => chain[p] # chain[q]
      BY DEF IInv, ChainInv
    <3>2. ASSUME NEW p \in 1..Len(chain'), NEW q \in 1..Len(chain'), p # q, Once(chain'[p])
          PROVE  chain'[p] # chain'[q]
      <4>1. p + 1 # q + 1
        BY <3>2
      <4> QED
        BY <1>7, <3>1, <3>2, <4>1
    <3> QED
      BY <3>2
  <2>4. Awaited(writing.req)'
    BY <1>3, <1>4, <1>1 DEF Awaited
  <2>5. Once(req) => \A p \in 1..Len(chain') : chain'[p] # req
    BY <1>2, <1>7 DEF IInv, ChainInv
  <2> QED
    BY <1>4, <2>2, <2>3, <2>4, <2>5 DEF ChainInv, Once
<1>9. AdmissionInv' /\ DownInv'
  BY <1>1 DEF IInv, AdmissionInv, DownInv
<1>10. req.kind = "add" => \E j \in Jobs : /\ req = Add(j) /\ req.of = {j} /\ answer[j] = "admitting"
                                           /\ j \notin jobs
  <2>1. \A j \in Jobs : ~Written(j)
    BY <1>1 DEF Written
  <2> QED
    BY <1>3, <2>1, RequestShapes DEF Awaited, IInv, UnwrittenInv
<1>11. DOMAIN writing'.image = jobs'
  BY <1>1, <1>4 DEF StoredImage, ImageOf
<1>12. WritingInv'
  <2>1. CASE req.kind = "add"
    <3>1. jobs' = jobs \union req.of /\ Touched(req) = req.of /\ req.of \intersect jobs = {}
      BY <1>1, <1>10, <2>1 DEF Applied, Touched
    <3> QED
      BY <1>1, <1>3, <1>4, <1>5, <1>11, <2>1, <3>1 DEF WritingInv, Reverted
  <2>2. CASE req.kind # "add"
    <3>1. jobs' = jobs \ req.of /\ Touched(req) = req.of \intersect jobs
      BY <1>1, <2>2 DEF Applied, Touched
    <3> QED
      BY <1>1, <1>3, <1>4, <1>5, <1>11, <2>2, <3>1 DEF WritingInv, Reverted
  <2> QED
    BY <2>1, <2>2
<1>13. \A j \in Jobs : j \in jobs' => j \in jobs \/ req = Add(j)
  BY <1>1, <1>10 DEF Applied
<1>14. UnwrittenInv' /\ RemovedInv'
  <2>1. \A j \in Jobs : ~Written(j) /\ (Written(j)' <=> req = Add(j))
    BY <1>1, <1>4, <1>5 DEF Written
  <2>2. \A j \in Jobs : req = Add(j) => answer[j] = "admitting"
    BY <1>10, RequestShapes
  <2> QED
    BY <1>1, <1>13, <2>1, <2>2 DEF IInv, UnwrittenInv, RemovedInv
<1>15. ListMatchesStorage' /\ AcceptedIsStored'
  BY <1>1, <1>5 DEF IInv, ListMatchesStorage, AcceptedIsStored, Left
<1> QED
  BY <1>8, <1>9, <1>12, <1>14, <1>15 DEF Parts

LEMMA WriteOkStep == ASSUME IInv, WriteOk PROVE Parts'
<1>0. TypeOK /\ writing # Idle /\ writing \in Write
  BY WritingFacts DEF IInv, WriteOk
<1> DEFINE req == writing.req
<1>1. /\ UNCHANGED <<jobs, chain>> /\ Up' = Up /\ Up
      /\ disk' = writing.image /\ writing' = Idle /\ DOMAIN writing.image = jobs
  BY <1>0 DEF WriteOk, Up, IInv, WritingInv
<1>2. /\ answer' = [j \in Jobs |-> IF req.kind = "add" /\ j \in req.of THEN "accepted" ELSE answer[j]]
      /\ admission' = (IF req.kind = "add" THEN Tail(admission) ELSE admission)
      /\ removal' = [j \in Jobs |-> IF req.kind = "remove" /\ j \in req.of THEN "removed" ELSE removal[j]]
      /\ cleared' = (IF req.kind = "clear" THEN cleared \union writing.touched ELSE cleared)
  BY DEF WriteOk, Cleared
<1>3. /\ req.kind = "save" => req.of = {}
      /\ req.kind = "add" => \E j \in Jobs : /\ req = Add(j) /\ req.of = {j} /\ answer[j] = "admitting"
                                             /\ admission # <<>> /\ admission[1] = j
      /\ req.kind = "remove" => \E j \in Jobs : req = Remove(j) /\ req.of = {j} /\ removal[j] = "removing"
      /\ req.kind \in {"save", "add", "remove", "clear"}
  BY <1>0, WritingFacts
<1>4. /\ Reverted(writing) = DOMAIN disk /\ writing.touched \subseteq req.of
      /\ req.kind = "add" => req.of \subseteq jobs
      /\ req.kind # "add" => req.of \intersect jobs = {}
  BY <1>0 DEF IInv, WritingInv
<1>5. Once(req) => \A p \in 1..Len(chain) : chain[p] # req
  BY <1>0 DEF IInv, ChainInv
<1> HIDE DEF req
<1>6. ASSUME NEW r \in Request, Awaited(r), Once(req) => r # req
      PROVE  Awaited(r)'
  <2>1. ASSUME r.kind = "add"
        PROVE  \E j \in Jobs : r = Add(j) /\ answer'[j] = "admitting"
    <3>1. PICK j \in Jobs : r = Add(j) /\ answer[j] = "admitting"
      BY <1>6, <2>1 DEF Awaited
    <3>2. req.kind = "add" => j \notin req.of
      BY <1>3, <1>6, <3>1, RequestShapes DEF Once
    <3> QED
      BY <1>2, <3>1, <3>2
  <2>2. ASSUME r.kind = "remove"
        PROVE  \E j \in Jobs : r = Remove(j) /\ removal'[j] = "removing"
    <3>1. PICK j \in Jobs : r = Remove(j) /\ removal[j] = "removing"
      BY <1>6, <2>2 DEF Awaited
    <3>2. req.kind = "remove" => j \notin req.of
      BY <1>3, <1>6, <3>1, RequestShapes DEF Once
    <3> QED
      BY <1>2, <3>1, <3>2
  <2> QED
    BY <1>6, <2>1, <2>2 DEF Awaited
<1>7. ChainInv'
  <2>1. \A p \in 1..Len(chain) : chain[p] \in Request /\ Awaited(chain[p])
    BY <1>0 DEF IInv, ChainInv, TypeOK
  <2>2. (\A p \in 1..Len(chain) : Awaited(chain[p]))'
    BY <1>1, <1>5, <1>6, <2>1
  <2> QED
    BY <1>1, <2>2 DEF IInv, ChainInv, Once
<1>8. AdmissionInv'
  <2>1. CASE req.kind = "add"
    <3>1. answer' \in [Jobs -> Answers]
      BY <1>0, <1>2 DEF TypeOK
    <3>2. admission # <<>> /\ admission' = Tail(admission)
          /\ answer'[admission[1]] = "accepted"
          /\ \A k \in Jobs : k # admission[1] => answer'[k] = answer[k]
      BY <1>2, <1>3, <2>1
    <3> QED
      BY <3>1, <3>2, AdmissionSettled
  <2>2. CASE req.kind # "add"
    <3>1. answer' = answer /\ admission' = admission
      BY <1>0, <1>2, <2>2 DEF TypeOK
    <3> QED
      BY <3>1 DEF IInv, AdmissionInv
  <2> QED
    BY <2>1, <2>2
<1>9. WritingInv' /\ DownInv'
  BY <1>1 DEF WritingInv, DownInv
<1>10. \A j \in Jobs : Written(j) => req.kind = "add" /\ req.of = {j}
  BY WrittenIsAdmitting DEF req
<1>11. \A j \in Jobs : ~Written(j)'
  BY <1>1 DEF Written
<1>12. UnwrittenInv'
  BY <1>1, <1>2, <1>10 DEF IInv, UnwrittenInv
<1>13. RemovedInv'
  <2>1. \A j \in Jobs : removal'[j] = "removed"
          => removal[j] = "removed" \/ (req.kind = "remove" /\ j \in req.of /\ removal[j] = "removing")
    BY <1>2, <1>3
  <2>2. \A j \in Jobs : removal'[j] = "removed" => j \notin jobs
    BY <1>4, <2>1 DEF IInv, RemovedInv
  <2>3. \A j \in Jobs : removal'[j] # "none" => removal[j] # "none"
    BY <1>2, <1>3
  <2>4. \A j \in Jobs : answer'[j] \in {"none", "asked", "checked", "admitting"}
          => answer'[j] = answer[j] /\ ~Written(j)
    BY <1>2, <1>10
  <2> QED
    BY <1>1, <2>1, <2>2, <2>3, <2>4 DEF IInv, RemovedInv
<1>14. ListMatchesStorage'
  BY <1>1 DEF ListMatchesStorage
<1>15. AcceptedIsStored'
  <2>1. \A j \in Jobs : j \in DOMAIN disk /\ j \notin jobs
          => j \in writing.touched /\ req.kind \in {"remove", "clear"}
    BY <1>3, <1>4 DEF Reverted, req
  <2>2. \A j \in Jobs : j \in writing.touched /\ req.kind \in {"remove", "clear"} => Left(j)'
    BY <1>2, <1>4 DEF Left
  <2>3. \A j \in Jobs : answer'[j] = "accepted" => answer[j] = "accepted" \/ j \in jobs
    BY <1>2, <1>4
  <2>4. \A j \in Jobs : Left(j) => Left(j)'
    BY <1>0, <1>2 DEF Left, TypeOK
  <2> QED
    BY <1>1, <2>1, <2>2, <2>3, <2>4 DEF IInv, AcceptedIsStored
<1> QED
  BY <1>7, <1>8, <1>9, <1>12, <1>13, <1>14, <1>15 DEF Parts

LEMMA WriteFailStep == ASSUME IInv, WriteFail PROVE Parts'
<1>0. TypeOK /\ writing # Idle /\ writing \in Write
  BY WritingFacts DEF IInv, WriteFail
<1> DEFINE req == writing.req
<1>1. /\ UNCHANGED <<disk, chain, cleared>> /\ Up' = Up /\ Up
      /\ jobs' = DOMAIN disk /\ writing' = Idle
  BY <1>0 DEF WriteFail, Up, IInv, WritingInv
<1>2. /\ answer' = [j \in Jobs |-> IF req.kind = "add" /\ j \in req.of THEN "refused" ELSE answer[j]]
      /\ admission' = (IF req.kind = "add" THEN Tail(admission) ELSE admission)
      /\ removal' = [j \in Jobs |-> IF req.kind = "remove" /\ j \in req.of THEN "kept" ELSE removal[j]]
  BY DEF WriteFail
<1>3. /\ req.kind = "add" => \E j \in Jobs : /\ req = Add(j) /\ req.of = {j} /\ answer[j] = "admitting"
                                             /\ admission # <<>> /\ admission[1] = j
      /\ req.kind = "remove" => \E j \in Jobs : req = Remove(j) /\ req.of = {j} /\ removal[j] = "removing"
  BY <1>0, WritingFacts
<1>4. /\ Reverted(writing) = DOMAIN disk
      /\ req.kind = "add" => writing.touched = req.of
  BY <1>0 DEF IInv, WritingInv
<1>5. Once(req) => \A p \in 1..Len(chain) : chain[p] # req
  BY <1>0 DEF IInv, ChainInv
<1>a. req.kind = "add" => req.of \intersect DOMAIN disk = {}
  BY <1>4 DEF Reverted
<1> HIDE DEF req
<1>6. ASSUME NEW r \in Request, Awaited(r), Once(req) => r # req
      PROVE  Awaited(r)'
  <2>1. ASSUME r.kind = "add"
        PROVE  \E j \in Jobs : r = Add(j) /\ answer'[j] = "admitting"
    <3>1. PICK j \in Jobs : r = Add(j) /\ answer[j] = "admitting"
      BY <1>6, <2>1 DEF Awaited
    <3>2. req.kind = "add" => j \notin req.of
      BY <1>3, <1>6, <3>1, RequestShapes DEF Once
    <3> QED
      BY <1>2, <3>1, <3>2
  <2>2. ASSUME r.kind = "remove"
        PROVE  \E j \in Jobs : r = Remove(j) /\ removal'[j] = "removing"
    <3>1. PICK j \in Jobs : r = Remove(j) /\ removal[j] = "removing"
      BY <1>6, <2>2 DEF Awaited
    <3>2. req.kind = "remove" => j \notin req.of
      BY <1>3, <1>6, <3>1, RequestShapes DEF Once
    <3> QED
      BY <1>2, <3>1, <3>2
  <2> QED
    BY <1>6, <2>1, <2>2 DEF Awaited
<1>7. ChainInv'
  <2>1. \A p \in 1..Len(chain) : chain[p] \in Request /\ Awaited(chain[p])
    BY <1>0 DEF IInv, ChainInv, TypeOK
  <2>2. (\A p \in 1..Len(chain) : Awaited(chain[p]))'
    BY <1>1, <1>5, <1>6, <2>1
  <2> QED
    BY <1>1, <2>2 DEF IInv, ChainInv, Once
<1>8. AdmissionInv'
  <2>1. CASE req.kind = "add"
    <3>1. answer' \in [Jobs -> Answers]
      BY <1>0, <1>2 DEF TypeOK
    <3>2. admission # <<>> /\ admission' = Tail(admission)
          /\ answer'[admission[1]] = "refused"
          /\ \A k \in Jobs : k # admission[1] => answer'[k] = answer[k]
      BY <1>2, <1>3, <2>1
    <3> QED
      BY <3>1, <3>2, AdmissionSettled
  <2>2. CASE req.kind # "add"
    <3>1. answer' = answer /\ admission' = admission
      BY <1>0, <1>2, <2>2 DEF TypeOK
    <3> QED
      BY <3>1 DEF IInv, AdmissionInv
  <2> QED
    BY <2>1, <2>2
<1>9. WritingInv' /\ DownInv'
  BY <1>1 DEF WritingInv, DownInv
<1>10. \A j \in Jobs : Written(j) => req.kind = "add" /\ req.of = {j}
  BY WrittenIsAdmitting DEF req
<1>11. UnwrittenInv'
  <2>1. \A j \in Jobs : Written(j) => j \notin DOMAIN disk
    BY <1>a, <1>10
  <2>2. \A j \in Jobs : answer'[j] = answer[j] \/ j \notin DOMAIN disk
    BY <1>2, <1>a
  <2> QED
    BY <1>1, <2>1, <2>2 DEF IInv, UnwrittenInv
<1>12. RemovedInv'
  <2>1. \A j \in Jobs : removal'[j] = "removed" => removal[j] = "removed"
    BY <1>2
  <2>2. \A j \in Jobs : removal'[j] # "none" => removal[j] # "none"
    BY <1>2, <1>3
  <2>3. \A j \in Jobs : answer'[j] \in {"none", "asked", "checked", "admitting"}
          => answer'[j] = answer[j] /\ ~Written(j)
    BY <1>2, <1>10
  <2> QED
    BY <1>1, <2>1, <2>2, <2>3 DEF IInv, RemovedInv
<1>13. ListMatchesStorage'
  BY <1>1 DEF ListMatchesStorage
<1>14. AcceptedIsStored'
  <2>1. \A j \in Jobs : answer'[j] = "accepted" => answer[j] = "accepted"
    BY <1>2
  <2>2. \A j \in Jobs : Left(j) => Left(j)'
    BY <1>1, <1>2, <1>3 DEF Left
  <2> QED
    BY <1>1, <2>1, <2>2 DEF IInv, AcceptedIsStored
<1> QED
  BY <1>7, <1>8, <1>9, <1>11, <1>12, <1>13, <1>14 DEF Parts

-----------------------------------------------------------------------------
(* The process ends, with the write under way stored or not, and starts.   *)

LEMMA DieStep == ASSUME IInv, Die PROVE Parts'
<1>0. TypeOK
  BY DEF IInv
<1>1. /\ jobs' = {} /\ chain' = <<>> /\ writing' = Idle /\ admission' = <<>> /\ ~Up'
      /\ answer' = Unheard(answer, {"asked", "checked", "admitting"})
      /\ removal' = Unheard(removal, {"guard", "removing"})
      /\ \/ disk' = disk /\ cleared' = cleared
         \/ writing # Idle /\ disk' = writing.image /\ Cleared(writing)
  BY DEF Die, Up
<1>2. \A j \in Jobs : answer'[j] \in {"none", "refused", "duplicate"} \/ answer'[j] \notin
         {"none", "asked", "checked", "admitting", "refused", "duplicate"}
  BY <1>0, <1>1 DEF Unheard, TypeOK
<1>3. \A j \in Jobs : /\ answer'[j] \in {"none", "refused", "duplicate", "accepted"} => answer'[j] = answer[j]
                      /\ removal'[j] \in {"none", "removed"} <=> removal[j] \in {"none", "removed"}
                      /\ removal'[j] \in {"none", "removed"} => removal'[j] = removal[j]
  BY <1>0, <1>1 DEF Unheard, TypeOK
<1>4. \A j \in Jobs : answer[j] \in {"none", "refused", "duplicate"} => ~Written(j)
  BY WrittenIsAdmitting
<1>5. writing # Idle => DOMAIN writing.image = jobs
  BY DEF IInv, WritingInv
<1>6. ChainInv' /\ AdmissionInv'
  <2>1. Len(chain') = 0 /\ Len(admission') = 0
    BY <1>1
  <2>2. \A j \in Jobs : answer'[j] \notin {"checked", "admitting"}
    BY <1>2
  <2> QED
    BY <1>1, <2>1, <2>2 DEF ChainInv, AdmissionInv
<1>7. WritingInv' /\ DownInv' /\ ListMatchesStorage'
  BY <1>1 DEF WritingInv, DownInv, ListMatchesStorage
<1>8. UnwrittenInv'
  BY <1>1, <1>2, <1>3, <1>4, <1>5 DEF IInv, UnwrittenInv
<1>9. RemovedInv'
  BY <1>1, <1>2, <1>3, <1>4, <1>5 DEF IInv, RemovedInv
<1>10. AcceptedIsStored'
  <2>1. \A j \in Jobs : Left(j) => Left(j)'
    BY <1>0, <1>1 DEF Left, Unheard, Cleared, TypeOK
  <2>2. CASE disk' = disk
    BY <2>1, <2>2, <1>3 DEF IInv, AcceptedIsStored
  <2>3. CASE writing # Idle /\ disk' = writing.image /\ Cleared(writing)
    <3>1. /\ Reverted(writing) = DOMAIN disk /\ writing.touched \subseteq writing.req.of
      BY <2>3 DEF IInv, WritingInv
    <3>2. \A j \in Jobs : j \in DOMAIN disk /\ j \notin jobs
            => j \in writing.touched /\ writing.req.kind \in {"remove", "clear"}
      BY <2>3, <3>1, WritingFacts DEF Reverted
    <3>3. \A j \in Jobs : j \in writing.touched /\ writing.req.kind \in {"remove", "clear"} => Left(j)'
      BY <2>3, <3>1, <1>1, WritingFacts DEF Left, Cleared, Unheard
    <3> QED
      BY <2>1, <2>3, <3>2, <3>3, <1>3, <1>5 DEF IInv, AcceptedIsStored
  <2> QED
    BY <1>1, <2>2, <2>3
<1> QED
  BY <1>6, <1>7, <1>8, <1>9, <1>10 DEF Parts

LEMMA StartStep == ASSUME IInv, Start PROVE Parts'
<1>1. /\ UNCHANGED <<disk, writing, answer, admission, removal, cleared>>
      /\ ~Up /\ jobs' = DOMAIN disk /\ chain' = <<Save>>
      /\ writing = Idle /\ admission = <<>>
  BY DEF Start, Up, clients, history, IInv, DownInv
<1>2. \A j \in Jobs : ~Written(j) /\ ~Written(j)'
  BY <1>1 DEF Written
<1>3. ChainInv'
  <2>1. Len(chain') = 1 /\ \A p \in 1..Len(chain') : chain'[p] = Save
    BY <1>1
  <2>2. Awaited(Save)' /\ ~Once(Save)
    BY DEF Awaited, Once, Save
  <2>3. \A p, q \in 1..Len(chain') : p = q
    BY <2>1
  <2>4. (\A p \in 1..Len(chain) : Awaited(chain[p]))'
    BY <2>1, <2>2
  <2> QED
    BY <1>1, <2>3, <2>4 DEF ChainInv
<1>4. AdmissionInv' /\ WritingInv' /\ DownInv' /\ ListMatchesStorage' /\ AcceptedIsStored'
  <2>1. AdmissionInv' /\ AcceptedIsStored'
    BY <1>1 DEF IInv, AdmissionInv, AcceptedIsStored, Left
  <2>2. WritingInv' /\ ListMatchesStorage'
    BY <1>1 DEF WritingInv, ListMatchesStorage
  <2>3. DownInv'
    BY DEF Start, DownInv, Up
  <2> QED
    BY <2>1, <2>2, <2>3
<1>5. UnwrittenInv' /\ RemovedInv'
  BY <1>1, <1>2 DEF IInv, UnwrittenInv, RemovedInv
<1> QED
  BY <1>3, <1>4, <1>5 DEF Parts

-----------------------------------------------------------------------------
(* The invariant, and what follows from it.                                *)

LEMMA PartsStep == IInv /\ [Next]_vars => Parts'
<1> SUFFICES ASSUME IInv, [Next]_vars PROVE Parts'
  OBVIOUS
<1> USE DEF store, clients, timers, shutdown, bounds, history
<1>1. ASSUME NEW j \in Jobs, Client(j) PROVE Parts'
  <2>1. ASSUME NEW rev \in Counts(j), Resume(j, rev) PROVE Parts'
    BY <2>1, QuietStep DEF Resume, Saved, Up
  <2> QED
    BY <1>1, <2>1, AskStep, CheckDuplicateStep, AdmitJobStep, AskRemoveStep, RemoveJobStep DEF Client
<1>2. ASSUME NEW j \in Jobs, Run(j) PROVE Parts'
  <2>1. CASE StartRun(j)
    BY <2>1, QuietStep DEF StartRun, Saved, Up
  <2>2. CASE Progress(j) \/ Recount(j)
    BY <2>2, QuietStep DEF Progress, Recount, Up
  <2>3. CASE CompleteRun(j)
    BY <2>3, QuietStep DEF CompleteRun, Up
  <2>4. ASSUME NEW phase \in Phases, NEW rev \in Counts(j), EndRun(j, phase, rev) PROVE Parts'
    BY <2>4, QuietStep DEF EndRun, Saved, Up
  <2> QED
    BY <1>2, <2>1, <2>2, <2>3, <2>4 DEF Run
<1>3. CASE RetrySave
  BY <1>3, QuietStep DEF RetrySave, Saved, Up
<1>4. CASE CheckpointSave
  BY <1>4, QuietStep DEF CheckpointSave, Saved, Up
<1>5. CASE Flush
  BY <1>5, QuietStep DEF Flush, Up
<1>6. CASE FlushDone \/ Freeze
  BY <1>6, QuietStep DEF FlushDone, Freeze, Up
<1>7. CASE Exit \/ Crash
  BY <1>7, DieStep DEF Exit, Crash
<1>8. CASE UNCHANGED vars
  BY <1>8, QuietStep DEF vars, Up
<1> QED
  BY <1>1, <1>2, <1>3, <1>4, <1>5, <1>6, <1>7, <1>8, WriteBeginStep, WriteOkStep, WriteFailStep,
     ClearCompletedStep, StartStep DEF Next

LEMMA InvInit == Init => IInv
<1> SUFFICES ASSUME Init PROVE IInv
  OBVIOUS
<1>1. TypeOK
  BY TypedInit
<1>2. Len(chain) = 0 /\ Len(admission) = 0 /\ DOMAIN disk = {}
  BY DEF Init
<1>3. ChainInv /\ AdmissionInv /\ WritingInv /\ DownInv
  BY <1>2 DEF Init, ChainInv, AdmissionInv, WritingInv, DownInv, Up
<1>4. UnwrittenInv /\ RemovedInv /\ ListMatchesStorage /\ AcceptedIsStored
  BY <1>2 DEF Init, UnwrittenInv, RemovedInv, ListMatchesStorage, AcceptedIsStored
<1> QED
  BY <1>1, <1>3, <1>4 DEF IInv

\* IInv holds in every state the chain of writes reaches.
THEOREM StoreInvariant == Spec => []IInv
<1>1. IInv /\ [Next]_vars => IInv'
  BY TypedStep, PartsStep DEF IInv, Parts
<1> QED
  BY InvInit, <1>1, PTL DEF Spec

\* Every variable of the chain keeps its kind.
THEOREM StoreTyped == Spec => []TypeOK
<1>1. IInv => TypeOK
  BY DEF IInv
<1> QED
  BY StoreInvariant, <1>1, PTL

\* An accepted request stays in storage through failed writes, removals of other rows and
\* crashes, until a removal or a clearing of its own is stored (admitJob(), write(), load()).
THEOREM AcceptedStaysStored == Spec => []AcceptedIsStored
<1>1. IInv => AcceptedIsStored
  BY DEF IInv
<1> QED
  BY StoreInvariant, <1>1, PTL

\* A request refused by its failed write, or as a duplicate, is in neither memory nor storage.
THEOREM RefusedStaysNowhere == Spec => []RefusedIsNowhere
<1>1. IInv => RefusedIsNowhere
  <2> SUFFICES ASSUME IInv, NEW j \in Jobs, answer[j] \in {"refused", "duplicate"}
               PROVE j \notin jobs \union DOMAIN disk
    BY DEF RefusedIsNowhere
  <2>1. ~Written(j)
    BY WrittenIsAdmitting
  <2> QED
    BY <2>1 DEF IInv, UnwrittenInv
<1> QED
  BY StoreInvariant, <1>1, PTL

\* A confirmed removal is final: no revert, save or restart brings the row back.
THEOREM RemovedNeverReturns == Spec => []RemovedStaysRemoved
<1>1. IInv => RemovedStaysRemoved
  BY DEF IInv, RemovedInv, RemovedStaysRemoved
<1> QED
  BY StoreInvariant, <1>1, PTL

\* Between writes the list in memory and the rows in storage are the same rows.
THEOREM ListAlwaysMatchesStorage == Spec => []ListMatchesStorage
<1>1. IInv => ListMatchesStorage
  BY DEF IInv
<1> QED
  BY StoreInvariant, <1>1, PTL

-----------------------------------------------------------------------------
(* The chain implements the queue that stores and answers in one step.     *)

DurableStep == Durable!DNext \/ UNCHANGED <<DOMAIN disk, Known, Erased>>

LEMMA KnownUnchanged ==
    ASSUME UNCHANGED <<disk, answer, removal>> PROVE DurableStep
BY DEF DurableStep, Known, Erased

LEMMA KnownSame ==
    ASSUME TypeOK, TypeOK',
           \A j \in Jobs : answer'[j] = answer[j]
               \/ {answer[j], answer'[j]} \subseteq {"none", "asked", "checked", "admitting"}
    PROVE  Known' = Known
BY DEF Known, TypeOK

LEMMA ErasedSame ==
    ASSUME \A j \in Jobs : removal'[j] = "removed" <=> removal[j] = "removed"
    PROVE  Erased' = Erased
BY DEF Erased

\* One client hears that its request is in the queue, or that it is not.
LEMMA KnownChanged ==
    ASSUME TypeOK, TypeOK', NEW j \in Jobs, NEW a \in {"accepted", "refused"},
           answer[j] \in {"asked", "checked", "admitting"},
           answer'[j] = a \/ (a = "refused" /\ answer'[j] = "duplicate"),
           \A k \in Jobs \ {j} : answer'[k] = answer[k]
    PROVE  Known[j] = "pending" /\ Known' = [Known EXCEPT ![j] = a]
<1>1. Known[j] = "pending"
  BY DEF Known
<1>2. Known'[j] = a
  BY DEF Known
<1>3. \A k \in Jobs \ {j} : Known'[k] = Known[k]
  BY DEF Known
<1>4. DOMAIN Known = Jobs /\ DOMAIN Known' = Jobs
      /\ Known' = [k \in Jobs |-> Known'[k]] /\ Known = [k \in Jobs |-> Known[k]]
  BY DEF Known
<1> QED
  BY <1>1, <1>2, <1>3, <1>4

LEMMA DurableWriteOk == ASSUME IInv, TypeOK', WriteOk PROVE DurableStep
<1>0. TypeOK /\ writing # Idle /\ writing \in Write
  BY WritingFacts DEF IInv, WriteOk
<1> DEFINE req == writing.req
<1>1. DOMAIN disk' = jobs /\ Reverted(writing) = DOMAIN disk /\ writing.touched \subseteq req.of
      /\ (req.kind = "add" => writing.touched = req.of /\ req.of \subseteq jobs)
      /\ (req.kind # "add" => req.of \intersect jobs = {})
  BY <1>0 DEF WriteOk, IInv, WritingInv
<1>2. /\ answer' = [j \in Jobs |-> IF req.kind = "add" /\ j \in req.of THEN "accepted" ELSE answer[j]]
      /\ removal' = [j \in Jobs |-> IF req.kind = "remove" /\ j \in req.of THEN "removed" ELSE removal[j]]
  BY DEF WriteOk
<1>3. /\ req.kind = "save" => req.of = {}
      /\ req.kind = "add" => \E j \in Jobs : req.of = {j} /\ answer[j] = "admitting"
      /\ req.kind = "remove" => \E j \in Jobs : req.of = {j}
      /\ req.kind \in {"save", "add", "remove", "clear"}
  BY <1>0, WritingFacts
<1>4. /\ req.kind = "add" => DOMAIN disk = jobs \ req.of
      /\ req.kind # "add" => DOMAIN disk = jobs \union writing.touched
  BY <1>1 DEF Reverted
<1> HIDE DEF req
<1>5. CASE req.kind = "add"
  <2>1. PICK j \in Jobs : req.of = {j} /\ answer[j] = "admitting"
    BY <1>3, <1>5
  <2>2. Known[j] = "pending" /\ Known' = [Known EXCEPT ![j] = "accepted"]
    BY <1>0, <1>2, <1>5, <2>1, KnownChanged
  <2>3. Erased' = Erased
    BY <1>2, <1>5, ErasedSame
  <2>4. j \notin DOMAIN disk /\ DOMAIN disk' = DOMAIN disk \union {j}
    BY <1>1, <1>4, <1>5, <2>1
  <2> QED
    BY <2>2, <2>3, <2>4 DEF DurableStep, Durable!DNext, Durable!Accept
<1>6. CASE req.kind = "remove"
  <2>1. PICK j \in Jobs : req.of = {j}
    BY <1>3, <1>6
  <2>2. Known' = Known
    BY <1>0, <1>2, <1>6, KnownSame
  <2>3. Erased' = Erased \union {j}
    BY <1>2, <1>6, <2>1 DEF Erased
  <2>4. DOMAIN disk' = DOMAIN disk \ {j}
    BY <1>1, <1>4, <1>6, <2>1
  <2> QED
    BY <2>2, <2>3, <2>4 DEF DurableStep, Durable!DNext, Durable!Erase
<1>7. CASE req.kind \in {"save", "clear"}
  <2>1. Known' = Known /\ Erased' = Erased
    BY <1>0, <1>2, <1>7, KnownSame, ErasedSame
  <2>2. DOMAIN disk' = DOMAIN disk \ writing.touched /\ writing.touched \subseteq DOMAIN disk
    BY <1>1, <1>4, <1>7
  <2>3. CASE writing.touched = {}
    BY <2>1, <2>2, <2>3 DEF DurableStep
  <2>4. CASE writing.touched # {}
    <3>1. writing.touched \in SUBSET Jobs
      BY <1>0 DEF Write
    <3> QED
      BY <2>1, <2>2, <2>4, <3>1 DEF DurableStep, Durable!DNext, Durable!Clear
  <2> QED
    BY <2>3, <2>4
<1> QED
  BY <1>3, <1>5, <1>6, <1>7

LEMMA DurableWriteFail == ASSUME IInv, TypeOK', WriteFail PROVE DurableStep
<1>0. TypeOK /\ writing # Idle
  BY DEF IInv, WriteFail
<1> DEFINE req == writing.req
<1>1. Reverted(writing) = DOMAIN disk /\ (req.kind = "add" => writing.touched = req.of)
  BY <1>0 DEF IInv, WritingInv
<1>2. /\ answer' = [j \in Jobs |-> IF req.kind = "add" /\ j \in req.of THEN "refused" ELSE answer[j]]
      /\ removal' = [j \in Jobs |-> IF req.kind = "remove" /\ j \in req.of THEN "kept" ELSE removal[j]]
      /\ disk' = disk
  BY DEF WriteFail
<1>3. /\ req.kind = "add" => \E j \in Jobs : req.of = {j} /\ answer[j] = "admitting"
      /\ req.kind = "remove" => \E j \in Jobs : req.of = {j} /\ removal[j] = "removing"
  BY <1>0, WritingFacts
<1>4. req.kind = "add" => req.of \intersect DOMAIN disk = {}
  BY <1>1 DEF Reverted
<1> HIDE DEF req
<1>5. Erased' = Erased
  BY <1>2, <1>3, ErasedSame
<1>6. CASE req.kind = "add"
  <2>1. PICK j \in Jobs : req.of = {j} /\ answer[j] = "admitting"
    BY <1>3, <1>6
  <2>2. Known[j] = "pending" /\ Known' = [Known EXCEPT ![j] = "refused"]
    BY <1>0, <1>2, <1>6, <2>1, KnownChanged
  <2> QED
    BY <1>2, <1>4, <1>5, <1>6, <2>1, <2>2 DEF DurableStep, Durable!DNext, Durable!Refuse
<1>7. CASE req.kind # "add"
  <2>1. Known' = Known
    BY <1>0, <1>2, <1>7, KnownSame
  <2> QED
    BY <1>2, <1>5, <2>1 DEF DurableStep
<1> QED
  BY <1>6, <1>7

LEMMA DurableCheckDuplicate ==
    ASSUME IInv, TypeOK', NEW j \in Jobs, CheckDuplicate(j) PROVE DurableStep
<1>0. TypeOK /\ answer[j] = "asked" /\ disk' = disk /\ removal' = removal
      /\ \/ answer' = [answer EXCEPT ![j] = "duplicate"]
         \/ answer' = [answer EXCEPT ![j] = "checked"]
  BY DEF IInv, CheckDuplicate, store
<1>1. Erased' = Erased
  BY <1>0, ErasedSame
<1>2. CASE answer' = [answer EXCEPT ![j] = "duplicate"]
  <2>0. answer \in [Jobs -> Answers] /\ "duplicate" \in Answers
    BY DEF TypeOK, IInv, Answers
  <2>1. Known[j] = "pending" /\ Known' = [Known EXCEPT ![j] = "refused"]
    BY <1>0, <1>2, <2>0, KnownChanged
  <2>2. j \notin DOMAIN disk
    BY <1>0, WrittenIsAdmitting DEF IInv, UnwrittenInv
  <2> QED
    BY <1>0, <1>1, <2>1, <2>2 DEF DurableStep, Durable!DNext, Durable!Refuse
<1>3. CASE answer' = [answer EXCEPT ![j] = "checked"]
  <2>1. Known' = Known
    BY <1>0, <1>3, KnownSame DEF TypeOK
  <2> QED
    BY <1>0, <1>1, <2>1 DEF DurableStep
<1> QED
  BY <1>0, <1>2, <1>3

LEMMA DurableDie == ASSUME IInv, TypeOK', Die PROVE DurableStep
<1>0. TypeOK
  BY DEF IInv
<1> DEFINE unheard == {j \in Jobs : answer[j] \in {"asked", "checked", "admitting"}}
<1>1. /\ answer' = Unheard(answer, {"asked", "checked", "admitting"})
      /\ removal' = Unheard(removal, {"guard", "removing"})
      /\ disk' = disk \/ (writing # Idle /\ disk' = writing.image)
  BY DEF Die
<1>2. Known' = [j \in Jobs |-> IF j \in unheard THEN "unheard" ELSE Known[j]]
  BY <1>0, <1>1 DEF Known, Unheard, TypeOK
<1>3. \A j \in unheard : Known[j] = "pending"
  BY DEF Known
<1>4. Erased' = Erased
  BY <1>1, ErasedSame DEF Unheard
<1>5. ASSUME NEW added \in SUBSET Jobs, NEW taken \in SUBSET Jobs,
             added \subseteq unheard, added \intersect DOMAIN disk = {},
             taken \subseteq DOMAIN disk, added = {} \/ taken = {},
             \A j, k \in added : j = k,
             DOMAIN disk' = (DOMAIN disk \union added) \ taken
      PROVE  DurableStep
  <2>1. unheard \in SUBSET Jobs
    OBVIOUS
  <2>2. Durable!Crash(unheard, added, taken)
    BY <1>2, <1>3, <1>4, <1>5 DEF Durable!Crash
  <2> QED
    BY <2>1, <2>2 DEF DurableStep, Durable!DNext
<1>6. CASE disk' = disk
  <2>1. {} \in SUBSET Jobs /\ {} \subseteq unheard /\ {} \intersect DOMAIN disk = {}
        /\ {} \subseteq DOMAIN disk /\ DOMAIN disk' = (DOMAIN disk \union {}) \ {}
    BY <1>6
  <2> HIDE DEF unheard
  <2> QED
    BY <1>5, <2>1
<1>7. CASE writing # Idle /\ disk' = writing.image
  <2>1. DOMAIN disk' = jobs /\ Reverted(writing) = DOMAIN disk
        /\ (writing.req.kind = "add" => writing.touched = writing.req.of /\ writing.req.of \subseteq jobs)
        /\ (writing.req.kind # "add" => writing.req.of \intersect jobs = {})
        /\ writing.touched \subseteq writing.req.of
    BY <1>7 DEF IInv, WritingInv
  <2>2. CASE writing.req.kind = "add"
    <3>1. PICK j \in Jobs : writing.req.of = {j} /\ answer[j] = "admitting"
      BY <1>7, <2>2, WritingFacts
    <3>2. {j} \subseteq unheard /\ {j} \intersect DOMAIN disk = {} /\ DOMAIN disk' = DOMAIN disk \union {j}
      BY <2>1, <2>2, <3>1 DEF Reverted
    <3>3. {j} \in SUBSET Jobs /\ {} \in SUBSET Jobs /\ {} \subseteq DOMAIN disk
      OBVIOUS
    <3>4. DOMAIN disk' = (DOMAIN disk \union {j}) \ {} /\ \A k, l \in {j} : k = l
      BY <3>2
    <3> HIDE DEF unheard
    <3> QED
      BY <1>5, <3>2, <3>3, <3>4
  <2>3. CASE writing.req.kind # "add"
    <3>1. DOMAIN disk = jobs \union writing.touched /\ writing.touched \in SUBSET Jobs
      BY <1>0, <1>7, <2>1, <2>3, WritingFacts DEF Reverted, Write
    <3>2. DOMAIN disk' = (DOMAIN disk \union {}) \ writing.touched
      BY <2>1, <2>3, <3>1
    <3>3. {} \in SUBSET Jobs /\ {} \subseteq unheard /\ {} \intersect DOMAIN disk = {}
          /\ writing.touched \subseteq DOMAIN disk
      BY <3>1
    <3> HIDE DEF unheard
    <3> QED
      BY <1>5, <3>1, <3>2, <3>3
  <2> QED
    BY <2>2, <2>3
<1> QED
  BY <1>1, <1>6, <1>7

\* Every behaviour of the chain of writes, with failing writes and crashes anywhere, is one
\* of the queue that stores a request and answers it in a single step.
THEOREM StoreImplementsDurableQueue == Spec => ImplementsDurableQueue
<1>1. Init => Durable!DInit
  BY DEF Init, Durable!DInit, Known, Erased
<1>2. IInv /\ TypeOK' /\ [Next]_vars => [Durable!DNext]_(Durable!dvars)
  <2> SUFFICES ASSUME IInv, TypeOK', [Next]_vars PROVE DurableStep
    BY DEF DurableStep, Durable!dvars
  <2>0. TypeOK
    BY DEF IInv
  <2> USE DEF store, clients, timers, shutdown, bounds, history
  <2>1. CASE WriteBegin \/ RetrySave \/ CheckpointSave \/ ClearCompleted \/ Flush \/ FlushDone
             \/ Freeze \/ Start
    BY <2>1, KnownUnchanged
       DEF WriteBegin, RetrySave, CheckpointSave, ClearCompleted, Flush, FlushDone, Freeze, Start
  <2>2. ASSUME NEW j \in Jobs, Run(j) PROVE DurableStep
    BY <2>2, KnownUnchanged DEF Run, StartRun, Progress, Recount, CompleteRun, EndRun
  <2>3. ASSUME NEW j \in Jobs, Client(j) PROVE DurableStep
    <3>1. CASE CheckDuplicate(j)
      BY <3>1, DurableCheckDuplicate
    <3>2. ASSUME NEW rev \in Counts(j), Resume(j, rev) PROVE DurableStep
      BY <3>2, KnownUnchanged DEF Resume
    <3>3. CASE Ask(j) \/ AdmitJob(j)
      <4>1. PICK a \in {"asked", "admitting"} :
                answer' = [answer EXCEPT ![j] = a] /\ answer[j] \in {"none", "checked"}
        BY <3>3 DEF Ask, AdmitJob
      <4>2. answer \in [Jobs -> Answers]
        BY <2>0 DEF TypeOK
      <4>3. \A k \in Jobs : answer'[k] = answer[k]
               \/ {answer[k], answer'[k]} \subseteq {"none", "asked", "checked", "admitting"}
        BY <4>1, <4>2
      <4>4. Known' = Known
        BY <2>0, <4>3, KnownSame
      <4>5. disk' = disk /\ removal' = removal
        BY <3>3 DEF Ask, AdmitJob
      <4> QED
        BY <4>4, <4>5 DEF DurableStep, Erased
    <3>4. CASE AskRemove(j) \/ RemoveJob(j)
      <4>1. Erased' = Erased
        <5>1. PICK r \in Removals \ {"removed"} : removal[j] # "removed" /\ removal' = [removal EXCEPT ![j] = r]
          BY <3>4 DEF AskRemove, RemoveJob, Removals
        <5>2. removal \in [Jobs -> Removals]
          BY <2>0 DEF TypeOK
        <5> QED
          BY ONLY <5>1, <5>2, ErasedSame
      <4> QED
        BY <3>4, <4>1 DEF AskRemove, RemoveJob, DurableStep, Known
    <3> QED
      BY <2>3, <3>1, <3>2, <3>3, <3>4 DEF Client
  <2>4. CASE Exit \/ Crash
    BY <2>4, DurableDie DEF Exit, Crash
  <2>5. CASE UNCHANGED vars
    BY <2>5, KnownUnchanged DEF vars
  <2> QED
    BY <2>1, <2>2, <2>3, <2>4, <2>5, DurableWriteOk, DurableWriteFail DEF Next
<1>3. IInv => TypeOK
  BY DEF IInv
<1> QED
  BY <1>1, <1>2, <1>3, StoreInvariant, PTL DEF Spec, ImplementsDurableQueue, Durable!DSpec
-----------------------------------------------------------------------------
(* One source, one open job. What storage and the image on its way to it   *)
(* say must be free of twins as well, because a restart loads them; and the *)
(* one admission that is past its duplicate check must still be without a  *)
(* twin when its write begins. A clearing that fails puts back completed   *)
(* rows only.                                                              *)

Excused == reopened \union restored

NoTwins(S, f, E) ==
    \A j, k \in S :
        j # k /\ Same(j, k) /\ f[j].phase = "open" /\ f[k].phase = "open" => j \in E \/ k \in E

Alone(k) == \A j \in jobs : Same(j, k) /\ rec[j].phase = "open" => j \in Excused

TwinsInv ==
    /\ NoTwins(jobs, rec, Excused)
    /\ NoTwins(DOMAIN disk, disk, Excused)
    /\ writing # Idle => NoTwins(DOMAIN writing.image, writing.image, Excused)
    /\ \A k \in Jobs \ jobs : answer[k] \in {"checked", "admitting"} => Alone(k)

AllCompleted(S) == \A j \in S : rec[j].phase = "completed"

CompletedInv ==
    /\ \A p \in 1..Len(chain) : chain[p].kind = "clear" => AllCompleted(chain[p].of)
    /\ writing # Idle /\ writing.req.kind = "clear" => AllCompleted(writing.req.of)

LEMMA FewerTwins ==
    ASSUME NEW S, NEW T, NEW f, NEW g, NEW D, NEW E, NoTwins(T, f, D), D \subseteq E,
           \A j \in S : j \in E \/ g[j].phase # "open" \/ (j \in T /\ f[j].phase = "open")
    PROVE  NoTwins(S, g, E)
BY DEF NoTwins

\* A step that leaves the rows where they are: a job that opens was resumed, and a request that
\* passes its check has no twin.
LEMMA TwinsStay ==
    ASSUME IInv, TwinsInv, UNCHANGED <<jobs, disk, writing>>, Excused \subseteq Excused',
           \A j \in Jobs : rec'[j].phase = "open" => rec[j].phase = "open" \/ j \in Excused',
           \A k \in Jobs : answer'[k] \in {"checked", "admitting"} => answer[k] \in {"checked", "admitting"} \/ ~Twin(k)
    PROVE  TwinsInv'
<1>0. jobs \subseteq Jobs
  BY DEF IInv, TypeOK
<1>1. NoTwins(jobs, rec', Excused')
  BY <1>0, FewerTwins DEF TwinsInv
<1>2. NoTwins(DOMAIN disk, disk, Excused')
  BY FewerTwins DEF TwinsInv
<1>3. writing # Idle => NoTwins(DOMAIN writing.image, writing.image, Excused')
  BY FewerTwins DEF TwinsInv
<1>4. ASSUME NEW k \in Jobs \ jobs', answer'[k] \in {"checked", "admitting"} PROVE Alone(k)'
  <2>1. Alone(k)
    BY <1>4 DEF TwinsInv, Alone, Twin, Same
  <2> QED
    BY <1>0, <2>1 DEF Alone
<1> QED
  BY <1>1, <1>2, <1>3, <1>4 DEF TwinsInv, NoTwins

LEMMA CompletedStay ==
    ASSUME IInv, CompletedInv, UNCHANGED writing,
           \A j \in Jobs : rec[j].phase = "completed" => rec'[j].phase = "completed",
           chain' = chain \/ \E req \in Request : chain' = Append(chain, req) /\ (req.kind = "clear" => AllCompleted(req.of))
    PROVE  CompletedInv'
<1>0. /\ chain \in Seq(Request) /\ \A p \in 1..Len(chain) : chain[p].of \subseteq Jobs
      /\ writing # Idle => writing.req.of \subseteq Jobs
  <2>1. chain \in Seq(Request) /\ \A req \in Request : req.of \subseteq Jobs
    BY DEF IInv, TypeOK, Request
  <2>2. \A p \in 1..Len(chain) : chain[p] \in Request
    BY <2>1
  <2>3. writing # Idle => writing.req \in Request
    BY DEF IInv, TypeOK, Write
  <2> QED
    BY <2>1, <2>2, <2>3
<1>1. \A S \in SUBSET Jobs : AllCompleted(S) => AllCompleted(S)'
  BY DEF AllCompleted
<1>2. writing # Idle /\ writing.req.kind = "clear" => AllCompleted(writing.req.of)'
  BY <1>0, <1>1 DEF CompletedInv
<1>3. ASSUME NEW p \in 1..Len(chain'), chain'[p].kind = "clear" PROVE AllCompleted(chain[p].of)'
  <2>1. CASE chain' = chain
    BY <1>0, <1>1, <1>3, <2>1 DEF CompletedInv, AllCompleted
  <2>2. ASSUME NEW req \in Request, chain' = Append(chain, req), req.kind = "clear" => AllCompleted(req.of)
        PROVE AllCompleted(chain[p].of)'
    <3>1. /\ Len(chain') = Len(chain) + 1 /\ Len(chain) \in Nat
          /\ \A i \in 1..Len(chain) : chain'[i] = chain[i]
          /\ chain'[Len(chain) + 1] = req
      BY <1>0, <2>2, ChainGrows
    <3>2. p \in 1..Len(chain) \/ chain'[p] = req
      BY <3>1
    <3>3. req.of \in SUBSET Jobs
      BY DEF Request
    <3> QED
      BY <1>0, <1>1, <1>3, <2>2, <3>1, <3>2, <3>3 DEF CompletedInv, AllCompleted
  <2> QED
    BY <2>1, <2>2
<1> QED
  BY <1>2, <1>3 DEF CompletedInv, AllCompleted

LEMMA OpenTwinsBegin == ASSUME IInv, TwinsInv, CompletedInv, WriteBegin PROVE TwinsInv' /\ CompletedInv'
<1> DEFINE req == Head(chain)
<1>0. TypeOK /\ chain \in Seq(Request) /\ chain # <<>> /\ writing = Idle
  BY DEF IInv, TypeOK, WriteBegin
<1>1. /\ UNCHANGED <<disk, rec, answer, reopened, restored>>
      /\ jobs' = Applied(req) /\ chain' = Tail(chain)
      /\ writing'.req = req /\ writing'.image = StoredImage(req)
  BY DEF WriteBegin, clients, history
<1>2. /\ req = chain[1] /\ req \in Request /\ 1 \in 1..Len(chain) /\ Len(chain) \in Nat
      /\ \A p \in 1..Len(chain') : p + 1 \in 1..Len(chain) /\ chain'[p] = chain[p + 1]
  BY <1>0, <1>1, TailIsTyped
<1>3. Awaited(req) /\ jobs \subseteq Jobs
  BY <1>0, <1>2 DEF IInv, ChainInv, TypeOK
<1> HIDE DEF req
<1>4. NoTwins(jobs', rec, Excused)
  <2>1. CASE req.kind = "add"
    <3>1. PICK k \in Jobs : req = Add(k) /\ answer[k] = "admitting"
      BY <1>3, <2>1 DEF Awaited
    <3>2. jobs' = jobs \union {k}
      BY <1>1, <2>1, <3>1 DEF Applied, Add
    <3>3. k \in jobs \/ Alone(k)
      BY <3>1 DEF TwinsInv
    <3> QED
      BY <3>2, <3>3 DEF TwinsInv, NoTwins, Alone, Same
  <2>2. CASE req.kind # "add"
    BY <1>1, <2>2 DEF Applied, TwinsInv, NoTwins
  <2> QED
    BY <2>1, <2>2
<1>5. jobs' \subseteq Jobs
  BY <1>1, <1>2, <1>3 DEF Applied, Request
<1>6. DOMAIN StoredImage(req) = jobs' /\ \A j \in jobs' : StoredImage(req)[j] = rec[j]
  BY <1>1 DEF StoredImage, ImageOf
<1>7. NoTwins(DOMAIN StoredImage(req), StoredImage(req), Excused)
  BY <1>4, <1>6 DEF NoTwins
<1>8. ASSUME NEW k \in Jobs \ jobs', answer[k] \in {"checked", "admitting"}
      PROVE \A j \in jobs' : Same(j, k) /\ rec[j].phase = "open" => j \in Excused
  <2>1. CASE req.kind = "add"
    <3>1. PICK a \in Jobs : req = Add(a) /\ answer[a] = "admitting"
      BY <1>3, <2>1 DEF Awaited
    <3>2. a = k
      BY <1>8, <3>1 DEF IInv, AdmissionInv
    <3> QED
      BY <1>1, <1>8, <2>1, <3>1, <3>2 DEF Applied, Add
  <2>2. CASE req.kind # "add"
    <3>1. jobs' = jobs \ req.of
      BY <1>1, <2>2 DEF Applied
    <3>2. CASE k \in jobs
      <4>1. k \notin DOMAIN disk \/ answer[k] \notin {"checked", "admitting"}
        BY <1>0 DEF IInv, UnwrittenInv, Written
      <4>2. jobs = DOMAIN disk
        BY <1>0 DEF IInv, ListMatchesStorage, WriteBegin
      <4> QED
        BY <1>8, <3>2, <4>1, <4>2
    <3>3. CASE k \notin jobs
      BY <1>8, <3>1, <3>3 DEF TwinsInv, Alone
    <3> QED
      BY <3>2, <3>3
  <2> QED
    BY <2>1, <2>2
<1>9. TwinsInv'
  BY <1>1, <1>4, <1>7, <1>8 DEF TwinsInv, NoTwins, Alone, Excused
<1>10. CompletedInv'
  BY <1>1, <1>2 DEF CompletedInv, AllCompleted
<1> QED
  BY <1>9, <1>10

LEMMA OpenTwinsOk == ASSUME IInv, TwinsInv, CompletedInv, WriteOk PROVE TwinsInv' /\ CompletedInv'
<1>0. writing # Idle /\ writing' = Idle /\ UNCHANGED <<jobs, rec, chain, reopened, restored>> /\ disk' = writing.image
  BY DEF WriteOk
<1>1. \A k \in Jobs : answer'[k] \in {"checked", "admitting"} => answer'[k] = answer[k]
  BY DEF WriteOk
<1>2. TwinsInv'
  BY <1>0, <1>1 DEF TwinsInv, NoTwins, Alone, Excused
<1>3. CompletedInv'
  BY <1>0 DEF CompletedInv, AllCompleted
<1> QED
  BY <1>2, <1>3

LEMMA OpenTwinsFail == ASSUME IInv, TwinsInv, CompletedInv, WriteFail PROVE TwinsInv' /\ CompletedInv'
<1> DEFINE w == writing
<1>0. /\ writing # Idle /\ writing' = Idle /\ UNCHANGED <<rec, disk, chain, reopened>>
      /\ jobs' = Reverted(w)
      /\ restored' = IF w.req.kind = "remove" THEN restored \union w.touched ELSE restored
  BY DEF WriteFail
<1>1. /\ \A k \in Jobs : answer'[k] \in {"checked", "admitting"} => answer'[k] = answer[k]
      /\ w.req.kind = "add" => \A k \in w.req.of : answer'[k] \notin {"checked", "admitting"}
  <2>1. w.req.kind = "add" => w.req.of \subseteq Jobs
    BY <1>0, WritingFacts
  <2> QED
    BY <2>1 DEF WriteFail
<1>2. /\ w.touched \subseteq w.req.of
      /\ w.req.kind = "add" => w.touched = w.req.of
      /\ w.req.kind = "save" => w.req.of = {}
      /\ w.req.kind \in {"save", "add", "remove", "clear"}
  BY <1>0, WritingFacts DEF IInv, WritingInv
<1>3. w.req.kind = "clear" => AllCompleted(w.req.of)
  BY <1>0 DEF CompletedInv
<1> HIDE DEF w
<1>4. Excused \subseteq Excused'
  BY <1>0 DEF Excused
<1>5. \A j \in jobs' : j \in Excused' \/ rec[j].phase # "open" \/ (j \in jobs /\ rec[j].phase = "open")
  BY <1>0, <1>2, <1>3 DEF Reverted, AllCompleted, Excused
<1>6. NoTwins(jobs', rec, Excused')
  BY <1>4, <1>5, FewerTwins DEF TwinsInv
<1>7. NoTwins(DOMAIN disk, disk, Excused')
  BY <1>4, FewerTwins DEF TwinsInv
<1>8. ASSUME NEW k \in Jobs \ jobs', answer'[k] \in {"checked", "admitting"} PROVE Alone(k)'
  <2>1. k \notin jobs
    BY <1>0, <1>1, <1>2, <1>8 DEF Reverted
  <2>2. Alone(k)
    BY <1>1, <1>8, <2>1 DEF TwinsInv
  <2> QED
    BY <1>0, <1>4, <1>5, <2>2 DEF Alone
<1>9. TwinsInv'
  BY <1>0, <1>6, <1>7, <1>8 DEF TwinsInv, NoTwins
<1>10. CompletedInv'
  BY <1>0 DEF CompletedInv, AllCompleted
<1> QED
  BY <1>9, <1>10

LEMMA OpenTwinsDie == ASSUME IInv, TwinsInv, CompletedInv, Die PROVE TwinsInv' /\ CompletedInv'
<1>0. /\ writing' = Idle /\ chain' = <<>> /\ jobs' = {} /\ UNCHANGED <<rec, reopened, restored>>
      /\ disk' = disk \/ (writing # Idle /\ disk' = writing.image)
      /\ answer' = Unheard(answer, {"asked", "checked", "admitting"})
  BY DEF Die
<1>1. NoTwins(DOMAIN disk', disk', Excused)
  BY <1>0 DEF TwinsInv
<1>2. \A k \in Jobs : answer'[k] \notin {"checked", "admitting"}
  BY <1>0 DEF Unheard
<1>3. TwinsInv'
  BY <1>0, <1>1, <1>2 DEF TwinsInv, NoTwins, Excused
<1>4. CompletedInv'
  BY <1>0 DEF CompletedInv
<1> QED
  BY <1>3, <1>4

LEMMA OpenTwinsStart == ASSUME IInv, TwinsInv, CompletedInv, Start PROVE TwinsInv' /\ CompletedInv'
<1>0. /\ ~Up /\ UNCHANGED <<disk, writing, answer, reopened, restored>>
      /\ jobs' = DOMAIN disk /\ (\A j \in Jobs : rec'[j] \in Loaded(j)) /\ chain' = <<Save>>
  BY DEF Start, Up, clients, history
<1>1. TypeOK /\ writing = Idle /\ admission = <<>> /\ DOMAIN disk \subseteq Jobs
  BY <1>0, ImagesAreRecords DEF IInv, DownInv, TypeOK
<1>2. \A j \in DOMAIN disk : rec'[j].phase = "open" => disk[j].phase = "open"
  BY <1>0, <1>1, RowsComeBack
<1>3. NoTwins(jobs', rec', Excused)
  BY <1>0, <1>2, FewerTwins DEF TwinsInv
<1>4. \A k \in Jobs : answer[k] \notin {"checked", "admitting"}
  BY <1>1 DEF IInv, AdmissionInv
<1>5. TwinsInv'
  BY <1>0, <1>1, <1>3, <1>4 DEF TwinsInv, NoTwins, Excused
<1>6. CompletedInv'
  BY <1>0, <1>1 DEF CompletedInv, Save
<1> QED
  BY <1>5, <1>6

LEMMA OpenTwinsStep == IInv /\ TwinsInv /\ CompletedInv /\ [Next]_vars => TwinsInv' /\ CompletedInv'
<1> SUFFICES ASSUME IInv, TwinsInv, CompletedInv, [Next]_vars PROVE TwinsInv' /\ CompletedInv'
  OBVIOUS
<1> USE DEF store, clients, timers, shutdown, bounds, history
<1>0. TypeOK /\ rec \in [Jobs -> Record] /\ answer \in [Jobs -> Answers]
  BY DEF IInv, TypeOK
<1>1. ASSUME UNCHANGED <<jobs, disk, writing, rec, answer, reopened, restored>>,
             chain' = chain \/ \E req \in Request : chain' = Append(chain, req) /\ (req.kind = "clear" => AllCompleted(req.of))
      PROVE TwinsInv' /\ CompletedInv'
  <2>1. TwinsInv'
    BY <1>1, TwinsStay DEF Excused
  <2>2. CompletedInv'
    BY <1>1, CompletedStay
  <2> QED
    BY <2>1, <2>2
<1>2. Save.kind = "save" /\ Save \in Request
  BY SaveIsTyped DEF Save
<1>3. Saved = chain \/ Saved = Append(chain, Save)
  BY DEF Saved
<1>4. CASE RetrySave \/ CheckpointSave \/ Flush \/ FlushDone \/ Freeze \/ UNCHANGED vars
  <2>1. UNCHANGED <<jobs, disk, writing, rec, answer, reopened, restored>>
    BY <1>4 DEF RetrySave, CheckpointSave, Flush, FlushDone, Freeze, vars
  <2>2. chain' = chain \/ chain' = Append(chain, Save)
    BY <1>3, <1>4 DEF RetrySave, CheckpointSave, Flush, FlushDone, Freeze, vars
  <2> QED
    BY <1>1, <1>2, <2>1, <2>2
<1>5. CASE ClearCompleted
  <2> DEFINE done == {j \in jobs : rec[j].phase = "completed"}
  <2>1. UNCHANGED <<jobs, disk, writing, rec, answer, reopened, restored>> /\ chain' = Append(chain, Clear(done))
    BY <1>5 DEF ClearCompleted
  <2>2. Clear(done) \in Request /\ AllCompleted(Clear(done).of)
    BY <1>0 DEF Clear, Request, AllCompleted, TypeOK
  <2> QED
    BY <1>1, <2>1, <2>2
<1>6. ASSUME NEW j \in Jobs, Client(j) PROVE TwinsInv' /\ CompletedInv'
  <2>1. CASE Ask(j) \/ AdmitJob(j) \/ CheckDuplicate(j)
    <3>1. UNCHANGED <<jobs, disk, writing, rec, reopened, restored>>
      BY <2>1 DEF Ask, AdmitJob, CheckDuplicate
    <3>2. \A k \in Jobs : answer'[k] \in {"checked", "admitting"} => answer[k] \in {"checked", "admitting"} \/ ~Twin(k)
      BY <1>0, <2>1 DEF Ask, AdmitJob, CheckDuplicate
    <3>3. chain' = chain \/ (chain' = Append(chain, Add(j)) /\ Add(j) \in Request /\ Add(j).kind # "clear")
      BY <2>1, RequestsAreTyped, RequestShapes DEF Ask, AdmitJob, CheckDuplicate
    <3>4. TwinsInv'
      BY <3>1, <3>2, TwinsStay DEF Excused
    <3>5. CompletedInv'
      BY <3>1, <3>3, CompletedStay
    <3> QED
      BY <3>4, <3>5
  <2>2. CASE AskRemove(j) \/ RemoveJob(j)
    <3>1. UNCHANGED <<jobs, disk, writing, rec, answer, reopened, restored>>
      BY <2>2 DEF AskRemove, RemoveJob
    <3>2. chain' = chain \/ (chain' = Append(chain, Remove(j)) /\ Remove(j) \in Request /\ Remove(j).kind # "clear")
      BY <2>2, RequestsAreTyped, RequestShapes DEF AskRemove, RemoveJob
    <3> QED
      BY <1>1, <3>1, <3>2
  <2>3. ASSUME NEW rev \in Counts(j), Resume(j, rev) PROVE TwinsInv' /\ CompletedInv'
    <3>1. /\ UNCHANGED <<jobs, disk, writing, answer, restored>> /\ chain' = Saved
          /\ reopened' = IF rec[j].phase = "failed" THEN reopened \union {j} ELSE reopened
          /\ rec[j].phase # "completed" /\ rec' = [rec EXCEPT ![j] = [phase |-> "open", rev |-> rev]]
      BY <2>3 DEF Resume
    <3>2. (\A k \in Jobs \ {j} : rec'[k] = rec[k]) /\ rec'[j].phase = "open"
      BY <1>0, <3>1
    <3>3. j \in reopened' \/ rec[j].phase = "open"
      BY <1>0, <3>1
    <3>4. Excused \subseteq Excused'
      BY <3>1 DEF Excused
    <3>5. TwinsInv'
      BY <3>1, <3>2, <3>3, <3>4, TwinsStay DEF Excused
    <3>6. CompletedInv'
      BY <1>2, <1>3, <3>1, <3>2, CompletedStay
    <3> QED
      BY <3>5, <3>6
  <2> QED
    BY <1>6, <2>1, <2>2, <2>3 DEF Client
<1>7. ASSUME NEW j \in Jobs, Run(j) PROVE TwinsInv' /\ CompletedInv'
  <2>1. UNCHANGED <<jobs, disk, writing, answer, restored, reopened>>
    BY <1>7 DEF Run, StartRun, Progress, Recount, CompleteRun, EndRun
  <2>2. chain' = chain \/ chain' = Append(chain, Save)
    BY <1>3, <1>7 DEF Run, StartRun, Progress, Recount, CompleteRun, EndRun
  <2>3. \A k \in Jobs : rec'[k].phase = rec[k].phase \/ (rec[k].phase = "open" /\ rec'[k].phase # "open")
    <3>1. CASE StartRun(j)
      BY <3>1 DEF StartRun
    <3>2. CASE Progress(j) \/ Recount(j)
      <4>1. rec' = [rec EXCEPT ![j] = [rec[j] EXCEPT !.rev = rec[j].rev + 1]]
        BY <3>2 DEF Progress, Recount
      <4> QED
        BY <1>0, <4>1
    <3>3. CASE CompleteRun(j)
      <4>1. rec[j].phase = "open" /\ rec' = [rec EXCEPT ![j] = [rec[j] EXCEPT !.phase = "completed"]]
        BY <3>3 DEF CompleteRun
      <4>2. rec'[j].phase = "completed"
        BY <1>0, <4>1
      <4> QED
        BY <1>0, <4>1, <4>2
    <3>4. ASSUME NEW phase \in Phases, NEW rev \in Counts(j), EndRun(j, phase, rev)
          PROVE \A k \in Jobs : rec'[k].phase = rec[k].phase \/ (rec[k].phase = "open" /\ rec'[k].phase # "open")
      <4>1. /\ rec' = [rec EXCEPT ![j] = [phase |-> phase, rev |-> rev]]
            /\ phase # rec[j].phase => rec[j].phase = "open" /\ phase = "failed"
        BY <3>4 DEF EndRun
      <4>2. rec'[j].phase = phase
        BY <1>0, <4>1
      <4> QED
        BY <1>0, <4>1, <4>2
    <3> QED
      BY <1>7, <3>1, <3>2, <3>3, <3>4 DEF Run
  <2>4. TwinsInv'
    BY <2>1, <2>3, TwinsStay DEF Excused
  <2>5. CompletedInv'
    BY <1>2, <2>1, <2>2, <2>3, CompletedStay
  <2> QED
    BY <2>4, <2>5
<1> QED
  BY <1>4, <1>5, <1>6, <1>7, OpenTwinsBegin, OpenTwinsOk, OpenTwinsFail, OpenTwinsDie, OpenTwinsStart DEF Next, Exit, Crash

\* An account downloads a source once, whatever is admitted at the same time, fails to be written,
\* is removed, cleared or read back after a crash: two open jobs of one account and one address are
\* there only because a failed one was resumed or a failed removal put one back (admitDirect()).
THEOREM SourcesOpenOnce == Spec => []OneOpenJobPerSource
<1>1. Init => TwinsInv /\ CompletedInv
  BY DEF Init, TwinsInv, CompletedInv, NoTwins, Alone
<1>2. TwinsInv => OneOpenJobPerSource
  BY DEF TwinsInv, NoTwins, OneOpenJobPerSource, Open, Excused
<1> QED
  BY <1>1, <1>2, OpenTwinsStep, StoreInvariant, PTL DEF Spec
-----------------------------------------------------------------------------
(* Counts. The count in storage, that of the image on its way and that in  *)
(* memory follow one another in the order the job took them.               *)

GrowsInv ==
    Up =>
        /\ \A j \in DOMAIN disk : disk[j].rev <= rec[j].rev
        /\ writing # Idle =>
             \A j \in DOMAIN writing.image :
                 /\ writing.image[j].rev <= rec[j].rev
                 /\ j \in DOMAIN disk => disk[j].rev <= writing.image[j].rev

LEMMA CountsAreTyped ==
    ASSUME TypeOK
    PROVE  /\ \A j \in Jobs : rec[j].rev \in Nat /\ noted[j] \in Nat /\ flushMark[j] \in Nat
           /\ DOMAIN disk \subseteq Jobs /\ \A j \in DOMAIN disk : disk[j].rev \in Nat
           /\ writing # Idle =>
                /\ writing \in Write
                /\ DOMAIN writing.image \subseteq Jobs
                /\ \A j \in DOMAIN writing.image : writing.image[j].rev \in Nat
<1>1. \A r \in Record : r.rev \in Nat
  BY StoreAssumption
<1>2. writing # Idle => writing \in Write /\ writing.image \in Images
  BY DEF TypeOK, Write
<1>3. disk \in Images /\ rec \in [Jobs -> Record] /\ noted \in [Jobs -> 0..MaxRevs] /\ flushMark \in [Jobs -> 0..MaxRevs]
  BY DEF TypeOK
<1>4. 0..MaxRevs \subseteq Nat
  BY StoreAssumption
<1> QED
  BY <1>1, <1>2, <1>3, <1>4, ImagesAreRecords

\* While the process lives a job goes from a count to a later one.
LEMMA CountsGrow ==
    ASSUME IInv, [Next]_vars, ~Start, NEW j \in Jobs
    PROVE  rec'[j].rev >= rec[j].rev
<1> USE DEF store, clients, timers, shutdown, bounds, history
<1>0. TypeOK /\ rec \in [Jobs -> Record] /\ rec[j].rev \in Nat
  BY CountsAreTyped DEF IInv, TypeOK
<1>1. CASE rec' = rec
  BY <1>0, <1>1
<1>2. ASSUME NEW k \in Jobs, NEW phase, NEW rev \in Counts(k), rec' = [rec EXCEPT ![k] = [phase |-> phase, rev |-> rev]]
      PROVE rec'[j].rev >= rec[j].rev
  <2>1. rev >= rec[k].rev
    BY <1>0, CountsFollow
  <2> QED
    BY <1>0, <1>2, <2>1
<1>3. ASSUME NEW k \in Jobs, Run(k) PROVE rec'[j].rev >= rec[j].rev
  <2>1. CASE StartRun(k)
    BY <1>1, <2>1 DEF StartRun
  <2>2. CASE Progress(k) \/ Recount(k)
    <3>1. rec' = [rec EXCEPT ![k] = [rec[k] EXCEPT !.rev = rec[k].rev + 1]]
      BY <2>2 DEF Progress, Recount
    <3> QED
      BY <1>0, <3>1
  <2>3. CASE CompleteRun(k)
    <3>1. rec' = [rec EXCEPT ![k] = [rec[k] EXCEPT !.phase = "completed"]]
      BY <2>3 DEF CompleteRun
    <3>2. rec'[j].rev = rec[j].rev
      BY <1>0, <3>1
    <3> QED
      BY <1>0, <3>2
  <2>4. ASSUME NEW phase \in Phases, NEW rev \in Counts(k), EndRun(k, phase, rev) PROVE rec'[j].rev >= rec[j].rev
    BY <1>2, <2>4 DEF EndRun
  <2> QED
    BY <1>3, <2>1, <2>2, <2>3, <2>4 DEF Run
<1>4. ASSUME NEW k \in Jobs, Client(k) PROVE rec'[j].rev >= rec[j].rev
  <2>1. ASSUME NEW rev \in Counts(k), Resume(k, rev) PROVE rec'[j].rev >= rec[j].rev
    BY <1>2, <2>1 DEF Resume
  <2>2. CASE Ask(k) \/ CheckDuplicate(k) \/ AdmitJob(k) \/ AskRemove(k) \/ RemoveJob(k)
    BY <1>1, <2>2 DEF Ask, CheckDuplicate, AdmitJob, AskRemove, RemoveJob
  <2> QED
    BY <1>4, <2>1, <2>2 DEF Client
<1>5. CASE \/ WriteBegin \/ WriteOk \/ WriteFail \/ RetrySave \/ CheckpointSave \/ ClearCompleted
           \/ Flush \/ FlushDone \/ Freeze \/ Exit \/ Crash \/ UNCHANGED vars
  BY <1>1, <1>5 DEF WriteBegin, WriteOk, WriteFail, RetrySave, CheckpointSave, ClearCompleted, Flush, FlushDone, Freeze,
                    Exit, Crash, Die, vars
<1> QED
  BY <1>3, <1>4, <1>5 DEF Next

\* Only clients and runs note a count: it is the one the job has, and a checkpoint or a save follows.
LEMMA NotesAreCounts ==
    ASSUME IInv, (\A j \in Jobs : noted[j] <= rec[j].rev),
           RetrySave \/ ClearCompleted \/ (\E j \in Jobs : Client(j) \/ Run(j)) \/ UNCHANGED vars
    PROVE  /\ \A j \in Jobs : noted'[j] <= rec'[j].rev
           /\ noted' = noted \/ checkpoint' \/ chain' = Saved
<1> USE DEF store, clients, timers, shutdown, bounds, history
<1> DEFINE Kept == \A j \in Jobs : noted'[j] <= rec'[j].rev
<1>0. /\ TypeOK /\ rec \in [Jobs -> Record] /\ noted \in [Jobs -> 0..MaxRevs]
      /\ \A j \in Jobs : rec[j].rev \in Nat /\ noted[j] \in Nat
  BY CountsAreTyped DEF IInv, TypeOK
<1>1. CASE UNCHANGED objects
  BY <1>0, <1>1
<1>2. ASSUME NEW k \in Jobs, NEW phase, NEW rev \in Counts(k),
             rec' = [rec EXCEPT ![k] = [phase |-> phase, rev |-> rev]], noted' = [noted EXCEPT ![k] = rev]
      PROVE Kept
  <2>1. rev \in Nat
    BY <1>0, CountsFollow
  <2> QED
    BY <1>0, <1>2, <2>1
<1>3. ASSUME NEW k \in Jobs, Run(k) PROVE Kept /\ (noted' = noted \/ checkpoint' \/ chain' = Saved)
  <2>1. CASE StartRun(k)
    BY <1>1, <2>1 DEF StartRun
  <2>2. CASE Progress(k)
    <3>1. /\ rec' = [rec EXCEPT ![k] = [rec[k] EXCEPT !.rev = rec[k].rev + 1]]
          /\ noted' = [noted EXCEPT ![k] = rec[k].rev + 1] /\ checkpoint'
      BY <2>2 DEF Progress
    <3> QED
      BY <1>0, <3>1
  <2>3. CASE Recount(k)
    <3>1. rec' = [rec EXCEPT ![k] = [rec[k] EXCEPT !.rev = rec[k].rev + 1]] /\ noted' = noted
      BY <2>3 DEF Recount
    <3> QED
      BY <1>0, <3>1
  <2>4. CASE CompleteRun(k)
    <3>1. rec' = [rec EXCEPT ![k] = [rec[k] EXCEPT !.phase = "completed"]] /\ noted' = noted
      BY <2>4 DEF CompleteRun
    <3> QED
      BY <1>0, <3>1
  <2>5. ASSUME NEW phase \in Phases, NEW rev \in Counts(k), EndRun(k, phase, rev) PROVE Kept /\ chain' = Saved
    BY <1>2, <2>5 DEF EndRun
  <2> QED
    BY <1>3, <2>1, <2>2, <2>3, <2>4, <2>5 DEF Run
<1>4. ASSUME NEW k \in Jobs, Client(k) PROVE Kept /\ (noted' = noted \/ chain' = Saved)
  <2>1. ASSUME NEW rev \in Counts(k), Resume(k, rev) PROVE Kept /\ chain' = Saved
    BY <1>2, <2>1 DEF Resume
  <2>2. CASE Ask(k) \/ CheckDuplicate(k) \/ AdmitJob(k) \/ AskRemove(k) \/ RemoveJob(k)
    BY <1>1, <2>2 DEF Ask, CheckDuplicate, AdmitJob, AskRemove, RemoveJob
  <2> QED
    BY <1>4, <2>1, <2>2 DEF Client
<1>5. CASE RetrySave \/ ClearCompleted \/ UNCHANGED vars
  BY <1>1, <1>5 DEF RetrySave, ClearCompleted, vars
<1> QED
  BY <1>3, <1>4, <1>5

\* Of the steps between the writes' own, none touches storage or the image on its way.
Between ==
    \/ RetrySave \/ CheckpointSave \/ ClearCompleted \/ Flush \/ FlushDone \/ Freeze
    \/ \E j \in Jobs : Client(j) \/ Run(j)

LEMMA BetweenKeeps == ASSUME Between \/ UNCHANGED vars PROVE UNCHANGED <<disk, writing>>
<1> USE DEF store, clients, timers, shutdown, bounds, history
<1>1. CASE RetrySave \/ CheckpointSave \/ ClearCompleted \/ Flush \/ FlushDone \/ Freeze \/ UNCHANGED vars
  BY <1>1 DEF RetrySave, CheckpointSave, ClearCompleted, Flush, FlushDone, Freeze, vars
<1>2. ASSUME NEW j \in Jobs, Client(j) PROVE UNCHANGED <<disk, writing>>
  BY <1>2 DEF Client, Ask, CheckDuplicate, AdmitJob, AskRemove, RemoveJob, Resume
<1>3. ASSUME NEW j \in Jobs, Run(j) PROVE UNCHANGED <<disk, writing>>
  BY <1>3 DEF Run, StartRun, Progress, Recount, CompleteRun, EndRun
<1> QED
  BY <1>1, <1>2, <1>3 DEF Between

LEMMA UpKept == ASSUME Between \/ UNCHANGED vars, Up' PROVE Up
<1> USE DEF store, clients, timers, shutdown, bounds, history, Up
<1>1. CASE RetrySave \/ CheckpointSave \/ ClearCompleted \/ Flush \/ FlushDone \/ Freeze \/ UNCHANGED vars
  BY <1>1 DEF RetrySave, CheckpointSave, ClearCompleted, Flush, FlushDone, Freeze, vars
<1>2. ASSUME NEW j \in Jobs, Client(j) PROVE Up
  BY <1>2 DEF Client, Ask, CheckDuplicate, AdmitJob, AskRemove, RemoveJob, Resume
<1>3. ASSUME NEW j \in Jobs, Run(j) PROVE Up
  BY <1>3 DEF Run, StartRun, Progress, Recount, CompleteRun, EndRun
<1> QED
  BY <1>1, <1>2, <1>3 DEF Between

\* The image of a write is memory as it is when the write begins.
LEMMA ImageIsMemory ==
    ASSUME TypeOK, WriteBegin
    PROVE  /\ writing' # Idle /\ writing'.req = chain[1] /\ DOMAIN writing'.image = jobs'
           /\ \A j \in DOMAIN writing'.image : writing'.image[j] = rec[j]
<1>1. chain \in Seq(Request) /\ chain # <<>>
  BY DEF TypeOK, WriteBegin
<1>2. writing' = [req |-> Head(chain), touched |-> Touched(Head(chain)), image |-> StoredImage(Head(chain))]
  BY DEF WriteBegin
<1>3. DOMAIN writing' = {"req", "touched", "image"} /\ DOMAIN Idle = {"kind"}
  BY <1>2 DEF Idle
<1>4. writing'.req = Head(chain) /\ writing'.image = StoredImage(Head(chain)) /\ jobs' = Applied(Head(chain))
  BY <1>2 DEF WriteBegin
<1>5. DOMAIN StoredImage(Head(chain)) = jobs' /\ \A j \in jobs' : StoredImage(Head(chain))[j] = rec[j]
  BY <1>4 DEF StoredImage, ImageOf
<1>6. Head(chain) = chain[1]
  BY <1>1, TailIsTyped
<1> QED
  BY <1>3, <1>4, <1>5, <1>6

LEMMA GrowsStep == IInv /\ TypeOK' /\ GrowsInv /\ [Next]_vars => GrowsInv'
<1> SUFFICES ASSUME IInv, TypeOK', GrowsInv, [Next]_vars PROVE GrowsInv'
  OBVIOUS
<1>0. /\ TypeOK /\ \A j \in Jobs : rec[j].rev \in Nat /\ rec'[j].rev \in Nat
      /\ DOMAIN disk \subseteq Jobs /\ \A j \in DOMAIN disk : disk[j].rev \in Nat
      /\ writing # Idle => DOMAIN writing.image \subseteq Jobs /\ \A j \in DOMAIN writing.image : writing.image[j].rev \in Nat
  <2>1. TypeOK
    BY DEF IInv
  <2>2. \A j \in Jobs : rec'[j].rev \in Nat
    <3>1. rec' \in [Jobs -> Record] /\ \A r \in Record : r.rev \in Nat
      BY StoreAssumption DEF TypeOK
    <3> QED
      BY <3>1
  <2> QED
    BY <2>1, <2>2, CountsAreTyped
<1>1. CASE WriteBegin
  <2>1. Up /\ UNCHANGED <<rec, disk>> /\ jobs' \subseteq Jobs
    BY <1>1 DEF WriteBegin, TypeOK
  <2>2. \A j \in DOMAIN writing'.image : writing'.image[j] = rec[j] /\ j \in Jobs
    BY <1>0, <1>1, <2>1, ImageIsMemory
  <2> QED
    BY <1>0, <2>1, <2>2 DEF GrowsInv
<1>2. CASE WriteOk
  BY <1>2 DEF WriteOk, GrowsInv
<1>3. CASE WriteFail
  BY <1>3 DEF WriteFail, GrowsInv
<1>4. CASE Start
  <2>1. /\ ~Up /\ UNCHANGED <<disk, writing>> /\ \A j \in Jobs : rec'[j] \in Loaded(j)
    BY <1>4 DEF Start, Up
  <2>2. writing = Idle
    BY <2>1 DEF IInv, DownInv
  <2>4. disk' = disk /\ writing' = Idle
    BY <2>1, <2>2
  <2>5. \A j \in DOMAIN disk : disk[j].rev <= rec'[j].rev
    BY <1>0, <2>1, RowsComeBack
  <2> QED
    BY <2>4, <2>5 DEF GrowsInv
<1>5. CASE Exit \/ Crash
  BY <1>5 DEF Exit, Crash, Die, GrowsInv, Up
<1>6. CASE Between \/ UNCHANGED vars
  <2>1. UNCHANGED <<disk, writing>>
    BY <1>6, BetweenKeeps
  <2>2. CASE ~Start
    <3>1. \A j \in Jobs : rec'[j].rev >= rec[j].rev
      BY <2>2, CountsGrow
    <3>2. Up' => Up
      BY <1>6, <2>2, UpKept
    <3> QED
      BY <1>0, <2>1, <3>1, <3>2 DEF GrowsInv
  <2> QED
    BY <1>4, <2>2
<1> QED
  BY <1>1, <1>2, <1>3, <1>4, <1>5, <1>6 DEF Next, Between

\* No older count of a row takes the place of a newer one in storage: writes land in the order they
\* were taken, and a crash leaves the image before or the image after (write(), JobStore.replace()).
THEOREM CountsLandInOrder == Spec => StoredCountsFollow
<1>1. Init => GrowsInv
  BY DEF Init, GrowsInv
<1>2. IInv /\ GrowsInv /\ [Next]_vars => [\A j \in DOMAIN disk \intersect DOMAIN disk' : disk'[j].rev >= disk[j].rev]_vars
  <2> SUFFICES ASSUME IInv, GrowsInv, [Next]_vars, NEW j \in DOMAIN disk \intersect DOMAIN disk' PROVE disk'[j].rev >= disk[j].rev
    OBVIOUS
  <2>1. /\ disk[j].rev \in Nat
        /\ writing # Idle => writing.image \in Images /\ \A k \in DOMAIN writing.image : writing.image[k].rev \in Nat
    BY CountsAreTyped DEF IInv, TypeOK, Write
  <2>2. CASE disk' = disk
    BY <2>1, <2>2
  <2>3. CASE writing # Idle /\ disk' = writing.image
    <3>1. Up
      BY <2>3 DEF IInv, WritingInv
    <3> QED
      BY <2>1, <2>3, <3>1 DEF GrowsInv
  <2>4. CASE WriteOk \/ Exit \/ Crash
    BY <2>2, <2>3, <2>4 DEF WriteOk, Exit, Crash, Die
  <2>5. CASE WriteBegin \/ WriteFail \/ Start
    BY <2>2, <2>5 DEF WriteBegin, WriteFail, Start
  <2>6. CASE Between \/ UNCHANGED vars
    BY <2>2, <2>6, BetweenKeeps
  <2> QED
    BY <2>4, <2>5, <2>6 DEF Next, Between
<1>3. IInv => TypeOK
  BY DEF IInv
<1> QED
  BY <1>1, <1>2, <1>3, GrowsStep, StoreInvariant, PTL DEF Spec, StoredCountsFollow
-----------------------------------------------------------------------------
(* Flushes. The counts a flush noted are in storage, or in the image of a   *)
(* save under way, or a save that has yet to take its image stands among    *)
(* the writes the flush waits for.                                          *)

Flying(w) == IF w = Idle THEN 0 ELSE 1
Due(c, w, limit) == \E p \in 1..Len(c) : c[p] = Save /\ p + Flying(w) <= limit

Comes(d, w, c, failing, mark, limit) ==
    /\ ~failing =>
         \A j \in DOMAIN d :
             \/ d[j].rev >= mark[j]
             \/ Due(c, w, limit)
             \/ limit > 0 /\ w # Idle /\ w.req = Save /\ w.image[j].rev >= mark[j]
    /\ w # Idle => \A j \in DOMAIN w.image : w.image[j].rev >= mark[j] \/ Due(c, w, limit)

\* A count that was noted is the job's, and if no checkpoint is due it has been handed to a save,
\* or the save of it failed.
NotedInv ==
    /\ \A j \in Jobs : noted[j] <= rec[j].rev
    /\ server \in {"up", "flushing", "flushed"} /\ ~checkpoint
         => Comes(disk, writing, chain, saveFailing, noted, Len(chain) + Flying(writing))

FlushInv ==
    /\ \A j \in Jobs : flushMark[j] <= rec[j].rev /\ (~Up => flushMark[j] = 0)
    /\ server \in {"flushed", "frozen"} => flushLeft = 0
    /\ server \in {"flushing", "flushed", "frozen"}
         => Comes(disk, writing, chain, saveFailing, flushMark, flushLeft)

\* A write that joins the chain takes nothing from those before it.
LEMMA ComesWithMore ==
    ASSUME NEW d, NEW w, NEW c \in Seq(Request), NEW failing \in BOOLEAN, NEW mark, NEW limit \in Nat,
           NEW req \in Request, NEW more \in Nat, more >= limit,
           Comes(d, w, c, failing, mark, limit)
    PROVE  Comes(d, w, Append(c, req), failing, mark, more)
<1>1. Flying(w) \in Nat
  BY DEF Flying
<1>2. Len(c) \in Nat /\ Len(Append(c, req)) = Len(c) + 1 /\ \A p \in 1..Len(c) : Append(c, req)[p] = c[p]
  OBVIOUS
<1>3. Due(c, w, limit) => Due(Append(c, req), w, more)
  <2> SUFFICES ASSUME NEW p \in 1..Len(c), c[p] = Save, p + Flying(w) <= limit PROVE Due(Append(c, req), w, more)
    BY DEF Due
  <2>1. p \in 1..Len(Append(c, req)) /\ Append(c, req)[p] = Save
    BY <1>2
  <2>2. p + Flying(w) <= more
    BY <1>1
  <2> QED
    BY <2>1, <2>2 DEF Due
<1>4. limit > 0 => more > 0
  OBVIOUS
<1> QED
  BY <1>3, <1>4 DEF Comes

\* A save at the end of the chain covers every count.
LEMMA ComesWithSave ==
    ASSUME NEW d, NEW w, NEW c \in Seq(Request), NEW failing \in BOOLEAN, NEW mark
    PROVE  Comes(d, w, Append(c, Save), failing, mark, Len(Append(c, Save)) + Flying(w))
<1>1. Len(Append(c, Save)) = Len(c) + 1 /\ Append(c, Save)[Len(c) + 1] = Save /\ Len(c) \in Nat
  BY SaveIsTyped
<1>2. Flying(w) \in Nat
  BY DEF Flying
<1>3. Due(Append(c, Save), w, Len(Append(c, Save)) + Flying(w))
  <2>1. Len(c) + 1 \in 1..Len(Append(c, Save)) /\ Len(c) + 1 + Flying(w) <= Len(Append(c, Save)) + Flying(w)
    BY <1>1, <1>2
  <2> QED
    BY <1>1, <2>1 DEF Due
<1> QED
  BY <1>3 DEF Comes

\* The head of the chain begins: memory, which holds the counts, is its image.
LEMMA ComesAsItBegins ==
    ASSUME IInv, WriteBegin, NEW mark, NEW limit \in Nat,
           \A j \in Jobs : mark[j] \in Nat /\ mark[j] <= rec[j].rev,
           Comes(disk, writing, chain, saveFailing, mark, limit)
    PROVE  Comes(disk', writing', chain', saveFailing', mark, limit)
<1>1. /\ TypeOK /\ writing = Idle /\ chain # <<>> /\ chain' = Tail(chain) /\ jobs = DOMAIN disk
      /\ disk' = disk /\ saveFailing' = saveFailing /\ jobs' = Applied(Head(chain))
  BY DEF IInv, WriteBegin, ListMatchesStorage, store, clients, timers
<1>2. /\ writing' # Idle /\ writing'.req = chain[1] /\ DOMAIN writing'.image = jobs'
      /\ \A j \in DOMAIN writing'.image : writing'.image[j] = rec[j]
  BY <1>1, ImageIsMemory
<1>3. /\ chain \in Seq(Request) /\ Len(chain) \in Nat \ {0} /\ Len(Tail(chain)) = Len(chain) - 1
      /\ Head(chain) = chain[1] /\ \A p \in 1..Len(chain) - 1 : Tail(chain)[p] = chain[p + 1]
  BY <1>1, TailIsTyped DEF TypeOK
<1>4. Flying(writing) = 0 /\ Flying(writing') = 1
  BY <1>1, <1>2 DEF Flying
<1>5. DOMAIN disk \subseteq Jobs /\ jobs \subseteq Jobs
  BY <1>1 DEF TypeOK
<1>6. ASSUME Due(chain, writing, limit) PROVE Due(chain', writing', limit) \/ (limit > 0 /\ chain[1] = Save)
  <2>1. PICK p \in 1..Len(chain) : chain[p] = Save /\ p + 0 <= limit
    BY <1>4, <1>6 DEF Due
  <2>2. CASE p = 1
    BY <2>1, <2>2
  <2>3. CASE p # 1
    <3>1. p - 1 \in 1..Len(chain) - 1 /\ (p - 1) + 1 = p
      BY <1>3, <2>3
    <3>2. Tail(chain)[p - 1] = Save /\ p - 1 \in 1..Len(Tail(chain)) /\ (p - 1) + 1 <= limit
      BY <1>3, <2>1, <3>1
    <3> QED
      BY <1>1, <1>4, <3>2 DEF Due
  <2> QED
    BY <2>2, <2>3
<1>7. chain[1] = Save => jobs' = jobs
  <2>1. Save.kind # "add" /\ Save.of = {}
    BY DEF Save
  <2>2. Applied(Save) = jobs
    BY <2>1 DEF Applied
  <2> QED
    BY <1>1, <1>3, <2>2
<1>8. \A j \in DOMAIN writing'.image : j \in Jobs => writing'.image[j].rev >= mark[j]
  <2>1. \A j \in Jobs : rec[j].rev \in Nat
    BY <1>1, CountsAreTyped
  <2> QED
    BY <1>2, <2>1
<1>9. DOMAIN writing'.image \subseteq Jobs
  <2>1. \A r \in Request : r.of \subseteq Jobs
    BY DEF Request
  <2>2. chain[1] \in Request
    BY <1>3
  <2> QED
    BY <1>1, <1>2, <1>3, <1>5, <2>1, <2>2 DEF Applied
<1>10. ASSUME ~saveFailing, NEW j \in DOMAIN disk
       PROVE \/ disk[j].rev >= mark[j]
             \/ Due(chain', writing', limit)
             \/ limit > 0 /\ writing' # Idle /\ writing'.req = Save /\ writing'.image[j].rev >= mark[j]
  <2>1. disk[j].rev >= mark[j] \/ Due(chain, writing, limit)
    BY <1>1, <1>10 DEF Comes
  <2>2. CASE limit > 0 /\ chain[1] = Save
    <3>1. j \in DOMAIN writing'.image /\ j \in Jobs
      BY <1>1, <1>2, <1>5, <1>7, <2>2
    <3> QED
      BY <1>2, <1>8, <2>2, <3>1
  <2> QED
    BY <1>6, <2>1, <2>2
<1>11. \A j \in DOMAIN writing'.image : writing'.image[j].rev >= mark[j]
  BY <1>8, <1>9
<1> QED
  BY <1>1, <1>10, <1>11 DEF Comes

\* A write that lands brings its image; one that fails is not what the counts wait for, or its
\* failure is noted.
LEMMA ComesAsItEnds ==
    ASSUME IInv, NEW mark, NEW limit \in Nat, NEW left \in Nat, limit > 0 => left = limit - 1,
           WriteOk \/ WriteFail,
           Comes(disk, writing, chain, saveFailing, mark, limit)
    PROVE  Comes(disk', writing', chain', saveFailing', mark, left)
<1>1. /\ TypeOK /\ writing # Idle /\ writing' = Idle /\ chain' = chain
  BY DEF IInv, WriteOk, WriteFail
<1>2. Flying(writing) = 1 /\ Flying(writing') = 0 /\ chain \in Seq(Request)
  BY <1>1 DEF Flying, TypeOK
<1>3. ASSUME Due(chain, writing, limit) PROVE Due(chain', writing', left)
  <2>1. PICK p \in 1..Len(chain) : chain[p] = Save /\ p + 1 <= limit
    BY <1>2, <1>3 DEF Due
  <2>2. p + 0 <= left
    BY <2>1
  <2> QED
    BY <1>1, <1>2, <2>1, <2>2 DEF Due
<1>4. CASE WriteOk
  <2>1. disk' = writing.image
    BY <1>4 DEF WriteOk
  <2>2. \A j \in DOMAIN writing.image : writing.image[j].rev >= mark[j] \/ Due(chain, writing, limit)
    BY <1>1 DEF Comes
  <2> QED
    BY <1>1, <1>3, <2>1, <2>2 DEF Comes
<1>5. CASE WriteFail
  <2>1. disk' = disk /\ saveFailing' = (saveFailing \/ writing.req.kind = "save")
    BY <1>5 DEF WriteFail
  <2>2. writing.req = Save => writing.req.kind = "save"
    BY DEF Save
  <2>3. ~saveFailing' => \A j \in DOMAIN disk : disk[j].rev >= mark[j] \/ Due(chain, writing, limit)
    BY <2>1, <2>2 DEF Comes
  <2> QED
    BY <1>1, <1>3, <2>1, <2>3 DEF Comes
<1> QED
  BY <1>4, <1>5

\* Steps that are neither the writes' own nor the shutdown's add at most one write to the chain.
LEMMA ChainOnlyGrows ==
    ASSUME IInv, RetrySave \/ ClearCompleted \/ (\E j \in Jobs : Client(j) \/ Run(j)) \/ UNCHANGED vars
    PROVE  /\ UNCHANGED <<disk, writing, saveFailing, server, flushLeft, flushMark>>
           /\ chain' = chain \/ \E req \in Request : chain' = Append(chain, req)
           /\ checkpoint => checkpoint'
<1> USE DEF store, clients, timers, shutdown, bounds, history
<1>0. jobs \subseteq Jobs
  BY DEF IInv, TypeOK
<1>1. CASE UNCHANGED vars
  BY <1>1 DEF vars
<1>2. CASE RetrySave
  BY <1>2, SaveIsTyped DEF RetrySave, Saved
<1>3. CASE ClearCompleted
  <2>1. Clear({j \in jobs : rec[j].phase = "completed"}) \in Request
    BY <1>0 DEF Request, Clear
  <2> QED
    BY <1>3, <2>1 DEF ClearCompleted
<1>4. ASSUME NEW j \in Jobs, Client(j)
      PROVE  /\ UNCHANGED <<disk, writing, saveFailing, server, flushLeft, flushMark, checkpoint>>
             /\ chain' = chain \/ \E req \in Request : chain' = Append(chain, req)
  <2>1. Add(j) \in Request /\ Remove(j) \in Request /\ Save \in Request
    BY RequestsAreTyped, SaveIsTyped
  <2>2. CASE Ask(j) \/ CheckDuplicate(j) \/ AskRemove(j)
    BY <2>2 DEF Ask, CheckDuplicate, AskRemove
  <2>3. CASE AdmitJob(j) \/ RemoveJob(j)
    BY <2>1, <2>3 DEF AdmitJob, RemoveJob
  <2>4. ASSUME NEW rev \in Counts(j), Resume(j, rev)
        PROVE  /\ UNCHANGED <<disk, writing, saveFailing, server, flushLeft, flushMark, checkpoint>>
               /\ chain' = chain \/ \E req \in Request : chain' = Append(chain, req)
    BY <2>1, <2>4 DEF Resume, Saved
  <2> QED
    BY <1>4, <2>2, <2>3, <2>4 DEF Client
<1>5. ASSUME NEW j \in Jobs, Run(j)
      PROVE  /\ UNCHANGED <<disk, writing, saveFailing, server, flushLeft, flushMark>>
             /\ chain' = chain \/ \E req \in Request : chain' = Append(chain, req)
             /\ checkpoint => checkpoint'
  <2>1. CASE StartRun(j) \/ \E phase \in Phases, rev \in Counts(j) : EndRun(j, phase, rev)
    BY <2>1, SaveIsTyped DEF StartRun, EndRun, Saved
  <2>2. CASE Progress(j) \/ Recount(j) \/ CompleteRun(j)
    BY <2>2 DEF Progress, Recount, CompleteRun
  <2> QED
    BY <1>5, <2>1, <2>2 DEF Run
<1> QED
  BY <1>1, <1>2, <1>3, <1>4, <1>5

\* What a flush finds: what waits for a checkpoint it hands to a save of its own.
LEMMA FlushCovers ==
    ASSUME IInv, NotedInv, Flush
    PROVE  Comes(disk, writing, chain', saveFailing, noted, Len(chain') + Flying(writing))
<1>1. chain \in Seq(Request) /\ saveFailing \in BOOLEAN
  BY DEF IInv, TypeOK
<1>2. CASE FlushDue
  <2>1. chain' = Append(chain, Save)
    BY <1>2 DEF Flush
  <2> QED
    BY <1>1, <2>1, ComesWithSave
<1>3. CASE ~FlushDue
  <2>1. chain' = chain /\ server \in {"up", "flushed"} /\ ~checkpoint
    BY <1>3 DEF Flush, FlushDue
  <2> QED
    BY <2>1 DEF NotedInv
<1> QED
  BY <1>2, <1>3

LEMMA FlushStep == IInv /\ TypeOK' /\ NotedInv /\ FlushInv /\ [Next]_vars => NotedInv' /\ FlushInv'
<1> SUFFICES ASSUME IInv, TypeOK', NotedInv, FlushInv, [Next]_vars PROVE NotedInv' /\ FlushInv'
  OBVIOUS
<1> DEFINE Live == Len(chain) + Flying(writing)
<1>0. /\ TypeOK /\ chain \in Seq(Request) /\ Len(chain) \in Nat /\ saveFailing \in BOOLEAN
      /\ flushLeft \in Nat /\ Flying(writing) \in {0, 1}
      /\ \A j \in Jobs : rec[j].rev \in Nat /\ flushMark[j] \in Nat /\ noted[j] \in Nat
      /\ Live \in Nat
  <2>1. TypeOK
    BY DEF IInv
  <2>2. \A j \in Jobs : rec[j].rev \in Nat /\ flushMark[j] \in Nat /\ noted[j] \in Nat
    BY <2>1, CountsAreTyped
  <2>3. chain \in Seq(Request) /\ Len(chain) \in Nat /\ saveFailing \in BOOLEAN /\ flushLeft \in Nat
    BY <2>1 DEF TypeOK
  <2>4. Flying(writing) \in {0, 1}
    BY DEF Flying
  <2> QED
    BY <2>1, <2>2, <2>3, <2>4
<1>m. \A j \in Jobs : /\ noted[j] \in Nat /\ noted[j] <= rec[j].rev
                      /\ flushMark[j] \in Nat /\ flushMark[j] <= rec[j].rev
  BY <1>0 DEF FlushInv, NotedInv
<1>1. CASE WriteBegin
  <2>1. UNCHANGED <<rec, noted, server, checkpoint, flushLeft, flushMark>> /\ Up
    BY <1>1 DEF WriteBegin, timers, shutdown
  <2>2. Len(chain') + Flying(writing') = Live
    <3>1. writing = Idle /\ chain # <<>> /\ chain' = Tail(chain) /\ writing' # Idle
      BY <1>0, <1>1, ImageIsMemory DEF WriteBegin
    <3>2. Len(chain) \in Nat \ {0} /\ Len(chain') = Len(chain) - 1
      BY <1>0, <3>1, TailIsTyped
    <3>3. Flying(writing) = 0 /\ Flying(writing') = 1
      BY <3>1 DEF Flying
    <3> QED
      BY <3>2, <3>3
  <2>3. NotedInv'
    <3>1. Comes(disk, writing, chain, saveFailing, noted, Live)
            => Comes(disk', writing', chain', saveFailing', noted, Live)
      BY <1>0, <1>m, <1>1, ComesAsItBegins
    <3> QED
      BY <2>1, <2>2, <3>1 DEF NotedInv
  <2>4. FlushInv'
    <3>1. Comes(disk, writing, chain, saveFailing, flushMark, flushLeft)
            => Comes(disk', writing', chain', saveFailing', flushMark, flushLeft)
      BY <1>0, <1>m, <1>1, ComesAsItBegins
    <3> QED
      BY <2>1, <3>1 DEF FlushInv, Up
  <2> QED
    BY <2>3, <2>4
<1>2. CASE WriteOk \/ WriteFail
  <2>1. /\ UNCHANGED <<rec, noted, server, checkpoint, flushMark>> /\ Up /\ writing # Idle /\ writing' = Idle /\ chain' = chain
        /\ flushLeft' = IF flushLeft > 0 THEN flushLeft - 1 ELSE 0
    BY <1>2 DEF WriteOk, WriteFail, FlushCounts
  <2>2. Live > 0 /\ Len(chain') + Flying(writing') = Live - 1 /\ Live - 1 \in Nat
    BY <1>0, <2>1 DEF Flying
  <2>3. NotedInv'
    <3>1. Comes(disk, writing, chain, saveFailing, noted, Live)
            => Comes(disk', writing', chain', saveFailing', noted, Live - 1)
      BY <1>0, <1>2, <2>2, ComesAsItEnds
    <3> QED
      BY <2>1, <2>2, <3>1 DEF NotedInv
  <2>4. FlushInv'
    <3>1. flushLeft' \in Nat /\ (flushLeft > 0 => flushLeft' = flushLeft - 1) /\ (flushLeft = 0 => flushLeft' = 0)
      BY <1>0, <2>1
    <3>2. Comes(disk, writing, chain, saveFailing, flushMark, flushLeft)
            => Comes(disk', writing', chain', saveFailing', flushMark, flushLeft')
      BY <1>0, <1>2, <3>1, ComesAsItEnds
    <3> QED
      BY <2>1, <3>1, <3>2 DEF FlushInv, Up
  <2> QED
    BY <2>3, <2>4
<1>3. CASE RetrySave \/ ClearCompleted \/ (\E j \in Jobs : Client(j) \/ Run(j)) \/ UNCHANGED vars
  <2>1. /\ UNCHANGED <<disk, writing, saveFailing, server, flushLeft, flushMark>>
        /\ chain' = chain \/ \E req \in Request : chain' = Append(chain, req)
        /\ checkpoint => checkpoint'
    BY <1>3, ChainOnlyGrows
  <2>2. ~Start
    <3>1. CASE Up
      BY <3>1 DEF Start, Up
    <3>2. CASE ~Up
      <4>1. server' = server
        BY <2>1
      <4> QED
        BY <3>2, <4>1 DEF Start, Up
    <3> QED
      BY <3>1, <3>2
  <2>3. \A j \in Jobs : rec'[j].rev >= rec[j].rev
    BY <2>2, CountsGrow
  <2>4. ASSUME NEW mark, NEW limit \in Nat, NEW more \in Nat, more >= limit,
               Comes(disk, writing, chain, saveFailing, mark, limit), chain' # chain
        PROVE  Comes(disk', writing', chain', saveFailing', mark, more)
    BY <1>0, <2>1, <2>4, ComesWithMore
  <2>5. NotedInv'
    <3>1. (\A j \in Jobs : noted'[j] <= rec'[j].rev) /\ (noted' = noted \/ checkpoint' \/ chain' = Saved)
      BY <1>3, NotesAreCounts DEF NotedInv
    <3> SUFFICES ASSUME server' \in {"up", "flushing", "flushed"}, ~checkpoint'
                 PROVE  Comes(disk', writing', chain', saveFailing', noted', Len(chain') + Flying(writing'))
      BY <3>1 DEF NotedInv
    <3>2. Comes(disk, writing, chain, saveFailing, noted, Live)
      BY <2>1 DEF NotedInv
    <3>3. CASE chain' = Saved
      <4>1. chain' = Append(chain, Save)
        BY <2>1, <3>3 DEF Saved
      <4> QED
        BY <1>0, <2>1, <4>1, ComesWithSave
    <3>4. CASE noted' = noted /\ chain' = chain
      BY <2>1, <3>2, <3>4
    <3>5. CASE noted' = noted /\ chain' # chain
      <4>1. Len(chain') + Flying(writing') \in Nat /\ Len(chain') + Flying(writing') >= Live
        <5>1. PICK req \in Request : chain' = Append(chain, req)
          BY <2>1, <3>5
        <5>2. Len(chain') = Len(chain) + 1
          BY <1>0, <5>1
        <5> QED
          BY <1>0, <2>1, <5>2
      <4> QED
        BY <1>0, <2>4, <3>2, <3>5, <4>1
    <3> QED
      BY <3>1, <3>3, <3>4, <3>5
  <2>6. FlushInv'
    <3>1. \A j \in Jobs : flushMark'[j] <= rec'[j].rev /\ (~Up' => flushMark'[j] = 0)
      <4>1. \A r \in Record : r.rev \in Nat
        BY StoreAssumption
      <4>2. \A j \in Jobs : rec'[j].rev \in Nat
        BY <4>1 DEF TypeOK
      <4> QED
        BY <1>0, <1>m, <2>1, <2>3, <4>2 DEF FlushInv, Up
    <3>2. ASSUME Comes(disk, writing, chain, saveFailing, flushMark, flushLeft)
          PROVE  Comes(disk', writing', chain', saveFailing', flushMark', flushLeft')
      <4>1. CASE chain' = chain
        BY <2>1, <3>2, <4>1
      <4>2. CASE chain' # chain
        BY <1>0, <2>1, <2>4, <3>2, <4>2
      <4> QED
        BY <4>1, <4>2
    <3> QED
      BY <2>1, <3>1, <3>2 DEF FlushInv
  <2> QED
    BY <2>5, <2>6
<1>4. CASE CheckpointSave
  <2>1. /\ UNCHANGED <<rec, noted, disk, writing, saveFailing, server, flushLeft, flushMark>>
        /\ server = "frozen" => chain' = chain
        /\ server # "frozen" => chain' = Append(chain, Save)
    BY <1>4 DEF CheckpointSave, Saved, shutdown
  <2>2. NotedInv'
    <3>1. server # "frozen" => Comes(disk', writing', chain', saveFailing', noted', Len(chain') + Flying(writing'))
      BY <1>0, <2>1, ComesWithSave
    <3> QED
      BY <2>1, <3>1 DEF NotedInv
  <2>3. FlushInv'
    <3>1. ASSUME Comes(disk, writing, chain, saveFailing, flushMark, flushLeft)
          PROVE  Comes(disk', writing', chain', saveFailing', flushMark', flushLeft')
      <4>1. CASE server = "frozen"
        BY <2>1, <3>1, <4>1
      <4>2. CASE server # "frozen"
        <5>1. Comes(disk, writing, Append(chain, Save), saveFailing, flushMark, flushLeft)
          BY <1>0, <3>1, ComesWithMore, SaveIsTyped
        <5> QED
          BY <2>1, <4>2, <5>1
      <4> QED
        BY <4>1, <4>2
    <3> QED
      BY <2>1, <3>1 DEF FlushInv, Up
  <2> QED
    BY <2>2, <2>3
<1>5. CASE Flush
  <2>1. /\ UNCHANGED <<rec, noted, disk, writing, saveFailing>> /\ flushMark' = noted
        /\ server' = "flushing" /\ flushLeft' = Len(chain') + Flying(writing')
    BY <1>5 DEF Flush, Flying
  <2>2. Comes(disk', writing', chain', saveFailing', noted, Len(chain') + Flying(writing'))
    BY <1>5, <2>1, FlushCovers
  <2>3. NotedInv'
    BY <1>m, <2>1, <2>2 DEF NotedInv
  <2>4. FlushInv'
    <3>1. \A j \in Jobs : flushMark'[j] <= rec'[j].rev
      BY <1>m, <2>1
    <3> QED
      BY <2>1, <2>2, <3>1 DEF FlushInv, Up
  <2> QED
    BY <2>3, <2>4
<1>6. CASE FlushDone \/ Freeze
  <2>1. UNCHANGED <<rec, noted, disk, writing, chain, saveFailing, checkpoint, flushLeft, flushMark>>
    BY <1>6 DEF FlushDone, Freeze, store, timers
  <2>2. /\ server \in {"flushing", "flushed"} /\ server' \in {"flushed", "frozen"} /\ flushLeft = 0
    BY <1>6 DEF FlushDone, Freeze, FlushInv
  <2> QED
    BY <2>1, <2>2 DEF NotedInv, FlushInv, Up
<1>7. CASE Exit \/ Crash
  <2>1. server' = "down" /\ rec' = rec /\ noted' = noted /\ flushMark' = [j \in Jobs |-> 0]
    BY <1>7 DEF Exit, Crash, Die
  <2> QED
    BY <1>0, <2>1 DEF NotedInv, FlushInv
<1>8. CASE Start
  <2>1. /\ ~Up /\ server' = "up" /\ UNCHANGED <<disk, writing, flushMark>> /\ chain' = <<Save>>
        /\ noted' = [j \in Jobs |-> rec'[j].rev]
    BY <1>8 DEF Start, Up
  <2>2. \A j \in Jobs : rec'[j].rev \in Nat
    <3>1. \A r \in Record : r.rev \in Nat
      BY StoreAssumption
    <3> QED
      BY <3>1 DEF TypeOK
  <2>3. NotedInv'
    <3>1. <<>> \in Seq(Request) /\ Append(<<>>, Save) = <<Save>>
      BY SaveIsTyped
    <3>2. Comes(disk', writing', chain', saveFailing', noted', Len(chain') + Flying(writing'))
      <4>1. saveFailing' \in BOOLEAN
        BY DEF TypeOK
      <4> QED
        BY <2>1, <3>1, <4>1, ComesWithSave
    <3> QED
      BY <2>1, <2>2, <3>2 DEF NotedInv
  <2>4. \A j \in Jobs : flushMark'[j] <= rec'[j].rev
    BY <2>1, <2>2 DEF FlushInv
  <2> QED
    BY <2>1, <2>3, <2>4 DEF FlushInv, Up
<1> QED
  BY <1>1, <1>2, <1>3, <1>4, <1>5, <1>6, <1>7, <1>8 DEF Next

\* The flush of a shutdown that is done has stored, of every row in storage, the count that was noted
\* when it began or a later one, unless a save failed (flush() waits for the writes ahead of it and
\* for the save it adds).
THEOREM FlushedCountsAreStored == Spec => []FlushedIsStored
<1>1. Init => NotedInv /\ FlushInv
  <2> SUFFICES ASSUME Init PROVE NotedInv /\ FlushInv
    OBVIOUS
  <2>1. /\ DOMAIN disk = {} /\ writing = Idle /\ server = "up"
        /\ \A j \in Jobs : flushMark[j] = 0 /\ noted[j] = 0 /\ rec[j].rev = 0
    BY DEF Init, Fresh
  <2> QED
    BY <2>1 DEF NotedInv, FlushInv, Comes
<1>2. IInv /\ FlushInv => FlushedIsStored
  <2> SUFFICES ASSUME IInv, FlushInv, server \in {"flushed", "frozen"}, ~saveFailing, NEW j \in DOMAIN disk
               PROVE  disk[j].rev >= flushMark[j]
    BY DEF FlushedIsStored
  <2>1. flushLeft = 0 /\ chain \in Seq(Request)
    BY DEF FlushInv, IInv, TypeOK
  <2>2. ~Due(chain, writing, 0)
    BY <2>1 DEF Due, Flying
  <2> QED
    BY <2>1, <2>2 DEF FlushInv, Comes
<1>3. IInv => TypeOK
  BY DEF IInv
<1> QED
  BY <1>1, <1>2, <1>3, FlushStep, StoreInvariant, PTL DEF Spec
=============================================================================
