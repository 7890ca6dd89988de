----------------------- MODULE LibraryTransferProofs -----------------------
(***************************************************************************)
(* What every step of a transfer keeps, whichever worker takes it: no item *)
(* is lost, what has landed stays, and the rows of an item that stays in   *)
(* its library are on disk under its old path or under its new one all the *)
(* way. The queue of operations builds on this in LibraryOpsProofs.        *)
(***************************************************************************)
EXTENDS LibraryTransfer, TLAPS

Wants(t) == {i \in Items : TargetOf[i] = t}
\* Whoever shares the name is a folder, or nobody shares it: rename(2) replaces a file.
Safe(t) == \A i, k \in Wants(t) : i # k => i \in Folders /\ k \in Folders
Alone(i) == \A k \in Items : TargetOf[k] = TargetOf[i] => k = i
\* Items whose rows stay within one file, and whose names nobody else wants.
Keeps(i) == Alone(i) /\ OpOf[i] # "reroot" /\ LibraryOf[i] = LibraryOf[TargetOf[i]]

\* A source holds its item, what is left of it, or nothing; a name holds what was sent to it or
\* the placeholder of a transfer that is.
PathsInv ==
    /\ \A i \in Items : at[i] \in {i, None, Torn} /\ (at[i] = Torn => i \in Folders)
    /\ \A t \in Targets : /\ at[t] \in {None, Torn} \cup Placeholder \cup Wants(t)
                          /\ at[t] = Torn => ~Safe(t)

PlaceInv == \A i \in Items : Safe(TargetOf[i]) => at[i] = i \/ at[TargetOf[i]] = i

\* What a worker may rely on once it is past the rename or the swap.
Past == {"landed", "recordingLanding", "carry", "flush", "ok"}
Works(x) ==
    /\ x.pc \notin {"idle", "done"} => x.item \in Items
    /\ x.pc = "remove" /\ Safe(TargetOf[x.item]) => at[TargetOf[x.item]] = x.item
    /\ x.pc \in Past /\ Alone(x.item) => at[TargetOf[x.item]] = x.item
\* Where the rows of a transfer that is through are: on disk under its target, or in memory
\* because its flush gave up, or lost with the memory.
Held(i) == kept[TargetOf[i]] = i \/ (i \in unkept /\ known[TargetOf[i]] = i) \/ i \in lost
Flushes(x) ==
    x.item \in Items /\ Keeps(x.item) =>
        /\ x.pc = "flush" => /\ known[TargetOf[x.item]] = x.item
                             /\ kept[TargetOf[x.item]] = x.item \/ LibraryOf[TargetOf[x.item]] \in x.owed
        /\ x.pc = "ok" => Held(x.item)
WorkInv == \A w \in Workers : Works(work[w]) /\ Flushes(work[w])

\* The rows in memory and on disk: the item's own, under one of its two paths.
RowsInv ==
    /\ \A i \in Items : Keeps(i) =>
         /\ known[i] \in {None, i} /\ known[TargetOf[i]] \in {None, i}
         /\ kept[i] \in {None, i} /\ kept[TargetOf[i]] \in {None, i}
         /\ known[i] = i \/ known[TargetOf[i]] = i
         /\ kept[i] = i \/ kept[TargetOf[i]] = i
         /\ kept[TargetOf[i]] = i => known[TargetOf[i]] = i
    /\ \A p \in Paths : known[p] # kept[p] => LibraryOf[p] \in dirty

TransferInv == TransferTypeOK /\ PathsInv /\ PlaceInv /\ WorkInv /\ RowsInv

Landing == \A i \in Items : Safe(TargetOf[i]) /\ at[TargetOf[i]] = i => at'[TargetOf[i]] = i
Keeping == \A i \in Items : Keeps(i) /\ Held(i) => Held(i)'
\* What has landed stays where it is, and its rows stay on disk or in memory till they are.
Lasting == Landing /\ Keeping

Contents == {None, Torn} \cup Items \cup Placeholder
Worker == [pc : PCs, item : Items \cup {None}, replay : BOOLEAN, owed : SUBSET Libraries]

LEMMA Names ==
    /\ Items \cap Targets = {} /\ None \notin Paths /\ Torn \notin Paths \cup {None}
    /\ \A i \in Items : TargetOf[i] \in Targets /\ i \in Wants(TargetOf[i])
    /\ \A i \in Items : Alone(i) => Safe(TargetOf[i])
    /\ \A w \in Workers : <<w>> \in Placeholder
    /\ Placeholder \cap (Paths \cup {None, Torn}) = {}
    /\ Items \subseteq Paths /\ Targets \subseteq Paths
<1>1. TargetOf \in [Items -> Targets] /\ Items \cap Targets = {} /\ None \notin Paths /\ Torn \notin Paths \cup {None}
      /\ Placeholder \cap (Paths \cup {None, Torn}) = {}
  BY TransferAssumption
<1>2. \A i \in Items : Alone(i) => Safe(TargetOf[i])
  BY DEF Alone, Safe, Wants
<1>3. \A w \in Workers : <<w>> \in Placeholder
  BY DEF Placeholder
<1> QED
  BY <1>1, <1>2, <1>3 DEF Wants, Paths

------------------------------------------------------------------------------
(* The disk. *)

\* A write of a name never replaces an item that has landed there.
LEMMA TargetWritten ==
    ASSUME TransferInv, NEW t \in Targets, NEW v \in {None} \cup Placeholder \cup Wants(t),
           at' = [at EXCEPT ![t] = v],
           Safe(t) /\ at[t] \in Items => v = at[t]
    PROVE  at' \in [Paths -> Contents] /\ PathsInv' /\ PlaceInv' /\ Landing
<1>1. at \in [Paths -> Contents]
  BY DEF TransferInv, TransferTypeOK, Contents
<1>2. at' \in [Paths -> Contents] /\ at'[t] = v /\ \A p \in Paths : p # t => at'[p] = at[p]
  BY <1>1, Names DEF Wants, Contents
<1>3. PathsInv'
  BY <1>2, Names DEF PathsInv, TransferInv, Wants
<1>4. Landing
  BY <1>2, Names DEF Landing
<1>5. PlaceInv'
  <2> SUFFICES ASSUME NEW i \in Items, Safe(TargetOf[i]) PROVE at'[i] = i \/ at'[TargetOf[i]] = i
    BY DEF PlaceInv
  <2>1. at[i] = i \/ at[TargetOf[i]] = i
    BY DEF TransferInv, PlaceInv
  <2> QED
    BY <1>2, <1>4, <2>1, Names DEF Landing
<1> QED
  BY <1>2, <1>3, <1>4, <1>5

\* A source goes only where its item has landed.
LEMMA SourceWritten ==
    ASSUME TransferInv, NEW i \in Items, NEW v \in {None, Torn}, v = Torn => i \in Folders,
           at' = [at EXCEPT ![i] = v],
           Safe(TargetOf[i]) => at[TargetOf[i]] = i
    PROVE  at' \in [Paths -> Contents] /\ PathsInv' /\ PlaceInv' /\ Landing
<1>1. at \in [Paths -> Contents]
  BY DEF TransferInv, TransferTypeOK, Contents
<1>2. at' \in [Paths -> Contents] /\ at'[i] = v /\ \A p \in Paths : p # i => at'[p] = at[p]
  BY <1>1, Names DEF Contents
<1>3. PathsInv'
  BY <1>2, Names DEF PathsInv, TransferInv, Wants
<1>4. PlaceInv'
  BY <1>2, Names DEF PlaceInv, TransferInv
<1>5. Landing
  BY <1>2, Names DEF Landing
<1> QED
  BY <1>2, <1>3, <1>4, <1>5

LEMMA Renamed ==
    ASSUME TransferInv, NEW i \in Items, at[i] # None,
           i \in Folders => at[TargetOf[i]] \in Placeholder \cup {None},
           at' = [at EXCEPT ![TargetOf[i]] = at[i], ![i] = None]
    PROVE  /\ at' \in [Paths -> Contents] /\ PathsInv' /\ PlaceInv' /\ Landing
           /\ Safe(TargetOf[i]) => at'[TargetOf[i]] = i
<1> DEFINE t == TargetOf[i]
<1>1. at \in [Paths -> Contents]
  BY DEF TransferInv, TransferTypeOK, Contents
<1>2. /\ at' \in [Paths -> Contents] /\ at'[t] = at[i] /\ at'[i] = None
      /\ \A p \in Paths : p \notin {i, t} => at'[p] = at[p]
  BY <1>1, Names DEF Contents
<1>3. at[i] \in {i, Torn} /\ (at[i] = Torn => i \in Folders)
  BY DEF TransferInv, PathsInv
<1>4. Safe(t) => at[i] = i
  <2> SUFFICES ASSUME Safe(t), at[i] = Torn PROVE FALSE
    BY <1>3
  <2>1. at[t] = i
    BY Names DEF TransferInv, PlaceInv
  <2> QED
    BY <1>3, <2>1, Names
<1>5. PathsInv'
  BY <1>2, <1>3, <1>4, Names DEF PathsInv, TransferInv, Wants
<1>6. ASSUME NEW k \in Items, Safe(TargetOf[k]), at[TargetOf[k]] = k PROVE at'[TargetOf[k]] = k
  <2>1. CASE TargetOf[k] # t
    BY <1>2, <1>6, <2>1, Names
  <2>2. CASE TargetOf[k] = t
    <3>1. k \in Wants(t) /\ i \in Wants(t)
      BY <2>2 DEF Wants
    <3>2. k = i
      BY <1>6, <2>2, <3>1, Names DEF Safe
    <3> QED
      BY <1>2, <1>4, <1>6, <3>2
  <2> QED
    BY <2>1, <2>2
<1>7. PlaceInv'
  <2> SUFFICES ASSUME NEW k \in Items, Safe(TargetOf[k]) PROVE at'[k] = k \/ at'[TargetOf[k]] = k
    BY DEF PlaceInv
  <2>1. at[k] = k \/ at[TargetOf[k]] = k
    BY DEF TransferInv, PlaceInv
  <2>2. CASE k = i
    BY <1>2, <1>4, <2>2
  <2>3. CASE k # i
    BY <1>2, <1>6, <2>1, <2>3, Names
  <2> QED
    BY <2>2, <2>3
<1> QED
  BY <1>2, <1>4, <1>5, <1>6, <1>7 DEF Landing

------------------------------------------------------------------------------
(* The workers. *)

\* A worker goes on; the disk is as it was or as the lemmas above leave it.
LEMMA WorkerGoes ==
    ASSUME TransferInv, NEW w \in Workers, NEW next \in Worker, work' = [work EXCEPT ![w] = next],
           at' \in [Paths -> Contents], PathsInv', PlaceInv', Landing,
           UNCHANGED <<known, kept, dirty, unkept, lost>>,
           next.pc \notin {"idle", "done"} => next.item \in Items,
           next.pc = "remove" /\ Safe(TargetOf[next.item]) => at'[TargetOf[next.item]] = next.item,
           next.pc \in Past /\ Alone(next.item) => at'[TargetOf[next.item]] = next.item,
           next.pc # "flush",
           next.pc = "ok" /\ Keeps(next.item) => Held(next.item)
    PROVE  TransferInv' /\ Lasting
<1>1. TransferTypeOK'
  BY DEF TransferInv, TransferTypeOK, Worker, Contents
<1>2. work \in [Workers -> Worker]
  BY DEF TransferInv, TransferTypeOK, Worker
<1>3. work'[w] = next /\ \A u \in Workers : u # w => work'[u] = work[u]
  BY <1>2
<1>4. ASSUME NEW u \in Workers PROVE Works(work[u])' /\ Flushes(work[u])'
  <2>1. CASE u = w
    BY <1>3, <2>1 DEF Works, Flushes, Held
  <2>2. CASE u # w
    <3>1. work'[u] = work[u] /\ Works(work[u]) /\ Flushes(work[u])
      BY <1>3, <2>2 DEF TransferInv, WorkInv
    <3>2. work[u].pc \in Past => work[u].item \in Items
      BY <3>1 DEF Works, Past
    <3>3. work[u].pc = "remove" => work[u].item \in Items
      BY <3>1 DEF Works
    <3> QED
      BY <3>1, <3>2, <3>3, Names DEF Works, Flushes, Held, Landing
  <2> QED
    BY <2>1, <2>2
<1>5. WorkInv'
  BY <1>4 DEF WorkInv, Works, Flushes
<1>6. RowsInv'
  BY DEF TransferInv, RowsInv
<1>7. Keeping
  BY DEF Keeping, Held
<1> QED
  BY <1>1, <1>5, <1>6, <1>7 DEF TransferInv, Lasting

\* GoTo(): the same worker, at another step.
LEMMA GoneTo ==
    ASSUME TransferInv, NEW w \in Workers, NEW pc \in PCs, GoTo(w, pc)
    PROVE  \E next \in Worker :
             /\ work' = [work EXCEPT ![w] = next]
             /\ next.pc = pc /\ next.item = Item(w)
<1>1. work[w] \in Worker
  BY DEF TransferInv, TransferTypeOK, Worker
<1>2. work' = [work EXCEPT ![w] = [work[w] EXCEPT !.pc = pc]]
  BY DEF GoTo
<1>3. [work[w] EXCEPT !.pc = pc] \in Worker /\ [work[w] EXCEPT !.pc = pc].pc = pc
      /\ [work[w] EXCEPT !.pc = pc].item = Item(w)
  BY <1>1 DEF Worker, Item
<1> QED
  BY <1>2, <1>3

\* A step of a worker that touches no rows and leaves it at a place it may be.
LEMMA StepGoes ==
    ASSUME TransferInv, NEW w \in Workers, NEW pc \in PCs \ {"flush"}, GoTo(w, pc), ~At(w, "idle"), ~At(w, "done"),
           at' \in [Paths -> Contents], PathsInv', PlaceInv', Landing,
           UNCHANGED <<known, kept, dirty, unkept, lost>>,
           pc = "remove" /\ Safe(To(w)) => at'[To(w)] = Item(w),
           pc \in Past /\ Alone(Item(w)) => at'[To(w)] = Item(w),
           pc = "ok" /\ Keeps(Item(w)) => Held(Item(w))
    PROVE  TransferInv' /\ Lasting
<1>1. PICK next \in Worker : work' = [work EXCEPT ![w] = next] /\ next.pc = pc /\ next.item = Item(w)
  BY GoneTo
<1>2. Item(w) \in Items
  BY DEF TransferInv, WorkInv, Works, At, Item
<1> QED
  BY <1>1, <1>2, WorkerGoes DEF To

LEMMA DiskStays ==
    ASSUME TransferInv, UNCHANGED at
    PROVE  at' \in [Paths -> Contents] /\ PathsInv' /\ PlaceInv' /\ Landing
BY DEF TransferInv, TransferTypeOK, Contents, PathsInv, PlaceInv, Landing

\* What a step of a worker at work may be told of it.
LEMMA AtWork ==
    ASSUME TransferInv, NEW w \in Workers, ~At(w, "idle"), ~At(w, "done")
    PROVE  /\ Item(w) \in Items /\ To(w) \in Targets /\ To(w) \in Paths /\ Item(w) \in Paths
           /\ Safe(To(w)) => at[Item(w)] = Item(w) \/ at[To(w)] = Item(w)
           /\ Alone(Item(w)) => Safe(To(w)) /\ Wants(To(w)) = {Item(w)}
           /\ at[To(w)] \in {None, Torn} \cup Placeholder \cup Wants(To(w))
           /\ Safe(To(w)) => at[To(w)] # Torn
<1>1. Item(w) \in Items
  BY DEF TransferInv, WorkInv, Works, At, Item
<1>2. To(w) \in Targets /\ To(w) = TargetOf[Item(w)]
  BY <1>1, Names DEF To
<1>3. Alone(Item(w)) => Wants(To(w)) = {Item(w)}
  BY <1>1, <1>2 DEF Alone, Wants
<1> QED
  BY <1>1, <1>2, <1>3, Names DEF TransferInv, PathsInv, PlaceInv

LEMMA PutGoes ==
    ASSUME TransferInv, NEW w \in Workers, NEW pc \in PCs \ {"flush", "remove"}, Put(w, pc), ~At(w, "idle"), ~At(w, "done"),
           pc \in Past => At(w, "remove") \/ (Alone(Item(w)) => at[To(w)] = Item(w)),
           pc = "ok" /\ Keeps(Item(w)) => Held(Item(w))
    PROVE  TransferInv' /\ Lasting
<1>1. GoTo(w, pc) /\ UNCHANGED <<at, known, kept, dirty, unkept, lost>>
  BY DEF Put
<1>2. at' \in [Paths -> Contents] /\ PathsInv' /\ PlaceInv' /\ Landing
  BY <1>1, DiskStays
<1>3. pc \in Past /\ Alone(Item(w)) => at'[To(w)] = Item(w)
  <2>1. At(w, "remove") /\ Alone(Item(w)) => at[To(w)] = Item(w)
    BY AtWork DEF TransferInv, WorkInv, Works, At, Item, To
  <2> QED
    BY <1>1, <2>1
<1> QED
  BY <1>1, <1>2, <1>3, StepGoes

LEMMA ClearStep == ASSUME TransferInv, NEW w \in Workers, Clear(w) PROVE TransferInv' /\ Lasting
<1> DEFINE v == IF at[To(w)] \in Placeholder THEN None ELSE at[To(w)]
<1>1. /\ GoTo(w, "check") /\ at' = [at EXCEPT ![To(w)] = v] /\ UNCHANGED <<known, kept, dirty, unkept, lost>>
      /\ ~At(w, "idle") /\ ~At(w, "done")
  BY DEF Clear, Write, At
<1>2. To(w) \in Targets /\ To(w) \in Paths /\ at[To(w)] \in {None, Torn} \cup Placeholder \cup Wants(To(w))
  BY <1>1, AtWork
<1>3. at' \in [Paths -> Contents] /\ PathsInv' /\ PlaceInv' /\ Landing
  <2>1. CASE at[To(w)] \in Placeholder
    <3>1. at' = [at EXCEPT ![To(w)] = None] /\ at[To(w)] \notin Items
      BY <1>1, <2>1, Names
    <3> QED
      BY <1>2, <3>1, TargetWritten
  <2>2. CASE at[To(w)] \notin Placeholder
    <3>1. at' = at
      BY <1>1, <1>2, <2>2 DEF TransferInv, TransferTypeOK
    <3> QED
      BY <3>1, DiskStays
  <2> QED
    BY <2>1, <2>2
<1>4. "check" \in PCs \ {"flush"} /\ "check" \notin Past
  BY DEF PCs, Past
<1> QED
  BY <1>1, <1>3, <1>4, StepGoes

LEMMA CheckStep == ASSUME TransferInv, NEW w \in Workers, Check(w) PROVE TransferInv' /\ Lasting
<1>1. PICK pc \in {"record", "failed"} : Put(w, pc)
  BY DEF Check
<1>2. pc \in PCs \ {"flush", "remove"} /\ pc \notin Past /\ ~At(w, "idle") /\ ~At(w, "done")
  BY DEF PCs, Past, Check, At
<1> QED
  BY <1>1, <1>2, PutGoes DEF Past

LEMMA CopyStep == ASSUME TransferInv, NEW w \in Workers, NEW ok \in BOOLEAN, Copy(w, ok) PROVE TransferInv' /\ Lasting
<1>1. PICK pc \in {"claim", "failed"} : Put(w, pc)
  BY DEF Copy
<1>2. pc \in PCs \ {"flush", "remove"} /\ pc \notin Past /\ ~At(w, "idle") /\ ~At(w, "done")
  BY DEF PCs, Past, Copy, At
<1> QED
  BY <1>1, <1>2, PutGoes DEF Past

LEMMA ReserveStep == ASSUME TransferInv, NEW w \in Workers, Reserve(w) PROVE TransferInv' /\ Lasting
<1>1. ~At(w, "idle") /\ ~At(w, "done") /\ UNCHANGED <<known, kept, dirty, unkept, lost>>
  BY DEF Reserve, At
<1>2. To(w) \in Targets /\ To(w) \in Paths
  BY <1>1, AtWork
<1>3. {"rename", "swap", "failed"} \subseteq PCs \ {"flush", "remove"} /\ {"rename", "swap", "failed"} \cap Past = {}
  BY DEF PCs, Past
<1>4. CASE at[To(w)] = None /\ at' = [at EXCEPT ![To(w)] = <<w>>] /\ \E pc \in {"rename", "swap"} : GoTo(w, pc)
  <2>1. at' \in [Paths -> Contents] /\ PathsInv' /\ PlaceInv' /\ Landing
    <3>1. <<w>> \in Placeholder /\ at[To(w)] \notin Items
      BY <1>4, Names
    <3> QED
      BY <1>2, <1>4, <3>1, TargetWritten
  <2> QED
    BY <1>1, <1>3, <1>4, <2>1, StepGoes DEF Past
<1>5. CASE GoTo(w, "failed") /\ UNCHANGED at
  BY <1>1, <1>3, <1>5, DiskStays, StepGoes DEF Past
<1> QED
  BY <1>4, <1>5 DEF Reserve, Write

\* Release() gives back a placeholder or nothing.
LEMMA Released ==
    ASSUME TransferInv, NEW w \in Workers, ~At(w, "idle"), ~At(w, "done"), Release(w)
    PROVE  at' \in [Paths -> Contents] /\ PathsInv' /\ PlaceInv' /\ Landing
<1>1. To(w) \in Targets /\ To(w) \in Paths /\ <<w>> \in Placeholder
  BY AtWork, Names
<1>2. CASE at[To(w)] \in Placeholder /\ at' = [at EXCEPT ![To(w)] = None]
  <2>1. at[To(w)] \notin Items
    BY <1>2, Names
  <2> QED
    BY <1>1, <1>2, <2>1, TargetWritten
<1>3. CASE at' = [at EXCEPT ![To(w)] = at[To(w)]]
  <2>1. at' = at
    BY <1>1, <1>3 DEF TransferInv, TransferTypeOK
  <2> QED
    BY <2>1, DiskStays
<1> QED
  BY <1>1, <1>2, <1>3 DEF Release, Write

LEMMA RenameStep == ASSUME TransferInv, NEW w \in Workers, Rename(w) PROVE TransferInv' /\ Lasting
<1>1. ~At(w, "idle") /\ ~At(w, "done") /\ UNCHANGED <<known, kept, dirty, unkept, lost>>
  BY DEF Rename, At
<1>2. Item(w) \in Items
  BY <1>1, AtWork
<1>3. {"copy", "failed"} \subseteq PCs \ {"flush", "remove"} /\ {"copy", "failed"} \cap Past = {}
      /\ "landed" \in PCs \ {"flush", "remove"}
  BY DEF PCs, Past
<1>4. CASE Release(w) /\ \E pc \in {"copy", "failed"} : GoTo(w, pc)
  BY <1>1, <1>3, <1>4, Released, StepGoes DEF Past
<1>5. CASE Renames(w) /\ at' = [at EXCEPT ![To(w)] = at[Item(w)], ![Item(w)] = None] /\ GoTo(w, "landed")
  <2>1. /\ at' \in [Paths -> Contents] /\ PathsInv' /\ PlaceInv' /\ Landing
        /\ Safe(To(w)) => at'[To(w)] = Item(w)
    BY <1>2, <1>5, Renamed DEF Renames, Replaces, To
  <2>2. Alone(Item(w)) => at'[To(w)] = Item(w)
    BY <1>1, <2>1, AtWork
  <2> QED
    BY <1>1, <1>3, <1>5, <2>1, <2>2, StepGoes
<1> QED
  BY <1>4, <1>5 DEF Rename

LEMMA SwapStep == ASSUME TransferInv, NEW w \in Workers, Swap(w) PROVE TransferInv' /\ Lasting
<1>1. ~At(w, "idle") /\ ~At(w, "done") /\ UNCHANGED <<known, kept, dirty, unkept, lost>>
  BY DEF Swap, At
<1>2. Item(w) \in Items /\ To(w) \in Targets /\ To(w) = TargetOf[Item(w)] /\ Item(w) \in Wants(To(w)) /\ To(w) \in Paths
  BY <1>1, AtWork DEF Wants, To
<1>3. /\ "failed" \in PCs \ {"flush"} /\ "failed" \notin Past \cup {"ok", "remove"}
      /\ {"remove", "landed"} \subseteq PCs \ {"flush"} /\ "ok" \notin {"remove", "landed"}
  BY DEF PCs, Past
<1>4. CASE Release(w) /\ GoTo(w, "failed")
  BY <1>1, <1>3, <1>4, Released, StepGoes
<1>5. CASE Replaces(w) /\ at' = [at EXCEPT ![To(w)] = Item(w)] /\ \E pc \in {"remove", "landed"} : GoTo(w, pc)
  <2>1. Safe(To(w)) /\ at[To(w)] \in Items => Item(w) = at[To(w)]
    <3> SUFFICES ASSUME Safe(To(w)), at[To(w)] \in Items, Item(w) # at[To(w)] PROVE FALSE
      OBVIOUS
    <3>1. at[To(w)] \in Wants(To(w))
      BY <1>1, AtWork, Names
    <3>2. Item(w) \in Folders
      BY <1>2, <3>1 DEF Safe
    <3> QED
      BY <1>5, <3>2, Names DEF Replaces
  <2>2. at' \in [Paths -> Contents] /\ PathsInv' /\ PlaceInv' /\ Landing
    BY <1>2, <1>5, <2>1, TargetWritten
  <2>3. at'[To(w)] = Item(w)
    BY <1>2, <1>5 DEF TransferInv, TransferTypeOK
  <2>4. PICK pc \in {"remove", "landed"} : GoTo(w, pc)
    BY <1>5
  <2> QED
    BY <1>1, <1>3, <2>2, <2>3, <2>4, StepGoes
<1> QED
  BY <1>4, <1>5 DEF Swap, Write

LEMMA RemoveSourceStep == ASSUME TransferInv, NEW w \in Workers, RemoveSource(w) PROVE TransferInv' /\ Lasting
<1>1. /\ ~At(w, "idle") /\ ~At(w, "done") /\ At(w, "remove") /\ UNCHANGED <<known, kept, dirty, unkept, lost>>
      /\ at' = [at EXCEPT ![Item(w)] = None] /\ GoTo(w, "landed")
  BY DEF RemoveSource, Write, At
<1>2. Item(w) \in Items /\ (Safe(To(w)) => at[To(w)] = Item(w)) /\ To(w) = TargetOf[Item(w)]
  BY <1>1, AtWork DEF TransferInv, WorkInv, Works, At, Item, To
<1>3. at' \in [Paths -> Contents] /\ PathsInv' /\ PlaceInv' /\ Landing
  <2>1. None \in {None, Torn} /\ None # Torn
    BY Names
  <2> QED
    BY <1>1, <1>2, <2>1, SourceWritten
<1>4. Alone(Item(w)) => at'[To(w)] = Item(w)
  BY <1>2, <1>3, Names DEF Landing
<1>5. "landed" \in PCs \ {"flush"} /\ "landed" # "ok"
  BY DEF PCs
<1> QED
  BY <1>1, <1>3, <1>4, <1>5, StepGoes

LEMMA SourceStaysStep == ASSUME TransferInv, NEW w \in Workers, SourceStays(w) PROVE TransferInv' /\ Lasting
<1>1. Put(w, "landed") /\ At(w, "remove") /\ ~At(w, "idle") /\ ~At(w, "done")
  BY DEF SourceStays, At
<1>2. "landed" \in PCs \ {"flush", "remove"} /\ "landed" # "ok"
  BY DEF PCs
<1> QED
  BY <1>1, <1>2, PutGoes

LEMMA SourceTearsStep == ASSUME TransferInv, NEW w \in Workers, SourceTears(w) PROVE TransferInv' /\ Lasting
<1>1. /\ ~At(w, "idle") /\ ~At(w, "done") /\ At(w, "remove") /\ UNCHANGED <<known, kept, dirty, unkept, lost, work>>
      /\ at' = [at EXCEPT ![Item(w)] = Torn] /\ Item(w) \in Folders
  BY DEF SourceTears, Write, At
<1>2. Item(w) \in Items /\ (Safe(To(w)) => at[To(w)] = Item(w)) /\ To(w) = TargetOf[Item(w)]
  BY <1>1, AtWork DEF TransferInv, WorkInv, Works, At, Item, To
<1>3. at' \in [Paths -> Contents] /\ PathsInv' /\ PlaceInv' /\ Landing
  BY <1>1, <1>2, SourceWritten
<1>4. TransferTypeOK'
  BY <1>1, <1>3 DEF TransferInv, TransferTypeOK, Contents
<1>5. WorkInv'
  <2> SUFFICES ASSUME NEW u \in Workers PROVE Works(work[u])' /\ Flushes(work[u])'
    BY DEF WorkInv
  <2>1. Works(work[u]) /\ Flushes(work[u]) /\ work'[u] = work[u]
    BY <1>1 DEF TransferInv, WorkInv
  <2>2. work[u].pc \in Past \cup {"remove"} => work[u].item \in Items
    BY <2>1 DEF Works, Past
  <2> QED
    BY <1>1, <1>3, <2>1, <2>2, Names DEF Works, Flushes, Held, Landing
<1> QED
  BY <1>1, <1>3, <1>4, <1>5 DEF TransferInv, RowsInv, Lasting, Keeping, Held

\* A restart finishes an item from its record: a name that holds an item is taken for landed.
LEMMA ResumeStep ==
    ASSUME TransferInv, NEW w \in Workers, NEW phase, Resume(w, phase),
           phase = "published" /\ Alone(Item(w)) => at[To(w)] = Item(w)
    PROVE  TransferInv' /\ Lasting
<1>1. ~At(w, "idle") /\ ~At(w, "done") /\ UNCHANGED <<at, known, kept, dirty, unkept, lost>> /\ work[w] \in Worker
  BY DEF Resume, At, TransferInv, TransferTypeOK, Worker
<1>2. /\ Item(w) \in Items /\ (Alone(Item(w)) => Safe(To(w)) /\ Wants(To(w)) = {Item(w)})
      /\ Safe(To(w)) => (at[Item(w)] = Item(w) \/ at[To(w)] = Item(w)) /\ at[To(w)] # Torn
      /\ at[To(w)] \in {None, Torn} \cup Placeholder \cup Wants(To(w)) /\ To(w) = TargetOf[Item(w)]
  BY <1>1, AtWork DEF To
<1>3. CASE \E pc \in {"failed", "check", "clear"} : GoTo(w, pc)
  <2>1. PICK pc \in {"failed", "check", "clear"} : GoTo(w, pc)
    BY <1>3
  <2>2. pc \in PCs \ {"flush", "remove"} /\ pc \notin Past
    BY DEF PCs, Past
  <2> QED
    BY <1>1, <2>1, <2>2, PutGoes DEF Put, Past
<1>4. ASSUME NEW pc \in {"ok", "carry", "landed"}, Replay(w, pc), Alone(Item(w)) => at[To(w)] = Item(w),
             pc = "ok" => ~Keeps(Item(w))
      PROVE  TransferInv' /\ Lasting
  <2> DEFINE next == [work[w] EXCEPT !.pc = pc, !.replay = TRUE]
  <2>1. next \in Worker /\ next.pc = pc /\ next.item = Item(w)
    BY <1>1 DEF Worker, PCs, Item
  <2>2. work' = [work EXCEPT ![w] = next]
    BY <1>4 DEF Replay
  <2>3. at' \in [Paths -> Contents] /\ PathsInv' /\ PlaceInv' /\ Landing
    BY <1>1, DiskStays
  <2> HIDE DEF next
  <2> QED
    BY <1>1, <1>2, <1>4, <2>1, <2>2, <2>3, WorkerGoes
<1>5. OpOf[Item(w)] = "reroot" => ~Keeps(Item(w))
  BY DEF Keeps
<1>6. CASE phase = "published" /\ Replay(w, IF OpOf[Item(w)] = "reroot" THEN "ok" ELSE "carry")
  BY <1>4, <1>5, <1>6
<1>7. CASE at[To(w)] # None /\ Landed(Item(w)) /\ Replay(w, IF OpOf[Item(w)] = "reroot" THEN "ok" ELSE "landed")
  <2>1. Alone(Item(w)) => at[To(w)] = Item(w)
    <3> SUFFICES ASSUME Alone(Item(w)) PROVE at[To(w)] = Item(w)
      OBVIOUS
    <3>1. CASE at[Item(w)] = None
      BY <1>2, <3>1, Names
    <3>2. CASE at[To(w)] \notin Placeholder
      BY <1>2, <1>7, <3>2
    <3> QED
      BY <1>2, <1>7, <3>1, <3>2 DEF Landed
  <2> QED
    BY <1>4, <1>5, <1>7, <2>1
<1> QED
  BY <1>3, <1>6, <1>7 DEF Resume

------------------------------------------------------------------------------
(* The match history. *)

LEMMA FlushedStep == ASSUME TransferInv, NEW w \in Workers, Flushed(w) PROVE TransferInv' /\ Lasting
<1>1. Put(w, "ok") /\ At(w, "flush") /\ ~At(w, "idle") /\ ~At(w, "done") /\ work[w].owed = {}
  BY DEF Flushed, At
<1>2. "ok" \in PCs \ {"flush", "remove"}
  BY DEF PCs
<1>3. Item(w) \in Items /\ Works(work[w]) /\ Flushes(work[w])
  BY <1>1, AtWork DEF TransferInv, WorkInv
<1>4. Alone(Item(w)) => at[To(w)] = Item(w)
  BY <1>1, <1>3 DEF Works, At, Item, To, Past
<1>5. Keeps(Item(w)) => Held(Item(w))
  BY <1>1, <1>3 DEF Flushes, Held, At, Item
<1> QED
  BY <1>1, <1>2, <1>4, <1>5, PutGoes

LEMMA FlushGivesUpStep == ASSUME TransferInv, NEW w \in Workers, FlushGivesUp(w) PROVE TransferInv' /\ Lasting
<1> DEFINE next == [work[w] EXCEPT !.pc = "ok"]
<1>1. /\ At(w, "flush") /\ ~At(w, "idle") /\ ~At(w, "done") /\ UNCHANGED <<at, known, kept, dirty, lost>>
      /\ unkept' = unkept \cup {Item(w)} /\ work' = [work EXCEPT ![w] = next] /\ work[w] \in Worker
  BY DEF FlushGivesUp, GoTo, At, TransferInv, TransferTypeOK, Worker
<1>2. PICK i \in Items : i = work[w].item
  BY <1>1, AtWork DEF Item
<1>3. /\ next \in Worker /\ next.pc = "ok" /\ next.item = i
      /\ Works(work[w]) /\ Flushes(work[w]) /\ unkept' = unkept \cup {i}
  BY <1>1, <1>2 DEF Worker, PCs, Item, TransferInv, WorkInv
<1> HIDE DEF next
<1>4. TransferTypeOK'
  BY <1>1, <1>2, <1>3 DEF TransferInv, TransferTypeOK, Worker
<1>5. PathsInv' /\ PlaceInv' /\ Landing
  BY <1>1, DiskStays
<1>6. \A k \in Items : Held(k) => Held(k)'
  BY <1>1 DEF Held
<1>7. ASSUME NEW u \in Workers PROVE Works(work[u])' /\ Flushes(work[u])'
  <2>1. work'[w] = next /\ (u # w => work'[u] = work[u])
    BY <1>1 DEF TransferInv, TransferTypeOK
  <2>2. CASE u = w
    <3>1. Works(work[u])'
      BY <1>1, <1>2, <1>3, <2>1, <2>2 DEF Works, At, Past
    <3>2. Keeps(i) => Held(i)'
      BY <1>1, <1>2, <1>3 DEF Flushes, Held, At
    <3> QED
      BY <1>3, <2>1, <2>2, <3>1, <3>2 DEF Flushes, Held
  <2>3. CASE u # w
    <3>1. work'[u] = work[u] /\ Works(work[u]) /\ Flushes(work[u])
      BY <2>1, <2>3 DEF TransferInv, WorkInv
    <3>2. Works(work[u])'
      BY <1>1, <3>1 DEF Works
    <3>3. Flushes(work[u])'
      BY <1>1, <3>1 DEF Flushes, Held
    <3> QED
      BY <3>2, <3>3
  <2> QED
    BY <2>2, <2>3
<1>8. RowsInv'
  BY <1>1 DEF TransferInv, RowsInv
<1> QED
  BY <1>4, <1>5, <1>6, <1>7, <1>8 DEF TransferInv, Lasting, Keeping, WorkInv

\* Relocated() on the rows of one item and of any other.
LEMMA RowsCarried ==
    ASSUME TransferInv, NEW i \in Items, NEW k \in Items, Keeps(k)
    PROVE  /\ Relocated(i)[k] \in {None, k} /\ Relocated(i)[TargetOf[k]] \in {None, k}
           /\ Relocated(i)[k] = k \/ Relocated(i)[TargetOf[k]] = k
           /\ known[TargetOf[k]] = k => Relocated(i)[TargetOf[k]] = k
           /\ k = i => Relocated(i)[TargetOf[k]] = k
<1>1. /\ known \in [Paths -> {None} \cup Items] /\ known[k] \in {None, k} /\ known[TargetOf[k]] \in {None, k}
      /\ known[k] = k \/ known[TargetOf[k]] = k
  BY DEF TransferInv, TransferTypeOK, RowsInv
<1>2. CASE known[i] = None
  BY <1>1, <1>2, Names DEF Relocated
<1>3. CASE known[i] # None
  <2>1. Relocated(i) = [known EXCEPT ![TargetOf[i]] = known[i], ![i] = IF Moves(i) THEN None ELSE known[i]]
    BY <1>3 DEF Relocated
  <2>2. /\ Relocated(i)[TargetOf[i]] = known[i]
        /\ \A p \in Paths : p \notin {i, TargetOf[i]} => Relocated(i)[p] = known[p]
        /\ Relocated(i)[i] \in {None, known[i]}
    BY <1>1, <2>1, Names
  <2>3. CASE k = i
    BY <1>1, <1>3, <2>2, <2>3
  <2>4. CASE k # i
    <3>1. TargetOf[k] # TargetOf[i] /\ k # TargetOf[i] /\ TargetOf[k] # i
      BY <2>4, Names DEF Keeps, Alone
    <3> QED
      BY <1>1, <2>2, <2>4, <3>1, Names
  <2> QED
    BY <2>3, <2>4
<1> QED
  BY <1>2, <1>3

LEMMA CarryStep == ASSUME TransferInv, NEW w \in Workers, Carry(w) PROVE TransferInv' /\ Lasting
<1> DEFINE i == Item(w)
           owing == dirty \cup (IF Carries(w) THEN Touched(i) ELSE {})
           next == [work[w] EXCEPT !.pc = "flush", !.owed = owing]
<1>1. /\ At(w, "carry") /\ ~At(w, "idle") /\ ~At(w, "done") /\ UNCHANGED <<at, kept, unkept, lost>>
      /\ known' = (IF Carries(w) THEN Relocated(i) ELSE known) /\ dirty' = owing
      /\ work' = [work EXCEPT ![w] = next] /\ work[w] \in Worker
  BY DEF Carry, At, TransferInv, TransferTypeOK, Worker
<1>2. i \in Items /\ To(w) = TargetOf[i]
  BY <1>1, AtWork DEF To
<1>3. dirty \subseteq Libraries /\ Touched(i) \subseteq Libraries /\ known \in [Paths -> {None} \cup Items] /\ owing \subseteq Libraries
  BY <1>2, TransferAssumption, Names DEF TransferInv, TransferTypeOK, Touched
<1>4. next \in Worker /\ next.pc = "flush" /\ next.item = i /\ next.owed = owing
  BY <1>1, <1>3 DEF Worker, PCs, Item
<1> HIDE DEF next
<1>5. Relocated(i) \in [Paths -> {None} \cup Items]
  BY <1>2, <1>3, Names DEF Relocated
<1>6. TransferTypeOK'
  BY <1>1, <1>3, <1>4, <1>5 DEF TransferInv, TransferTypeOK, Worker
<1>7. PathsInv' /\ PlaceInv' /\ Landing
  BY <1>1, DiskStays
<1>8. ASSUME NEW k \in Items, Keeps(k)
      PROVE  /\ known'[k] \in {None, k} /\ known'[TargetOf[k]] \in {None, k}
             /\ known'[k] = k \/ known'[TargetOf[k]] = k
             /\ known[TargetOf[k]] = k => known'[TargetOf[k]] = k
             /\ k = i => known'[TargetOf[k]] = k
  <2>1. CASE Carries(w)
    BY <1>1, <1>2, <1>8, <2>1, RowsCarried
  <2>2. CASE ~Carries(w)
    <3>1. /\ known[k] \in {None, k} /\ known[TargetOf[k]] \in {None, k} /\ (known[k] = k \/ known[TargetOf[k]] = k)
      BY <1>8 DEF TransferInv, RowsInv
    <3>2. k = i => known[i] = None
      BY <2>2 DEF Carries
    <3> QED
      BY <1>1, <1>2, <2>2, <3>1, <3>2, Names
  <2> QED
    BY <2>1, <2>2
<1>9. \A p \in Paths : known'[p] # kept'[p] => LibraryOf[p] \in dirty'
  <2> SUFFICES ASSUME NEW p \in Paths, known'[p] # kept[p] PROVE LibraryOf[p] \in owing
    BY <1>1
  <2>1. known[p] # kept[p] => LibraryOf[p] \in dirty
    BY DEF TransferInv, RowsInv
  <2>2. CASE known'[p] = known[p]
    BY <2>1, <2>2
  <2>3. CASE known'[p] # known[p]
    <3>1. Carries(w) /\ known' = Relocated(i) /\ known[i] # None
      BY <1>1, <2>3 DEF Relocated
    <3>2. Relocated(i) = [known EXCEPT ![TargetOf[i]] = known[i], ![i] = IF Moves(i) THEN None ELSE known[i]]
      BY <3>1 DEF Relocated
    <3>3. p = TargetOf[i] \/ (p = i /\ Moves(i))
      BY <1>2, <1>3, <2>3, <3>1, <3>2, Names
    <3> QED
      BY <3>1, <3>3 DEF Touched
  <2> QED
    BY <2>2, <2>3
<1>10. RowsInv'
  <2>1. \A k \in Items : Keeps(k) => /\ kept[k] \in {None, k} /\ kept[TargetOf[k]] \in {None, k}
                                     /\ kept[k] = k \/ kept[TargetOf[k]] = k
                                     /\ kept[TargetOf[k]] = k => known[TargetOf[k]] = k
    BY DEF TransferInv, RowsInv
  <2> QED
    BY <1>1, <1>8, <1>9, <2>1 DEF RowsInv
<1>11. ASSUME NEW u \in Workers PROVE Works(work[u])' /\ Flushes(work[u])'
  <2>1. work'[w] = next /\ (u # w => work'[u] = work[u])
    BY <1>1 DEF TransferInv, TransferTypeOK
  <2>2. CASE u = w
    <3>1. Alone(i) => at[TargetOf[i]] = i
      BY <1>1, <1>2 DEF TransferInv, WorkInv, Works, At, Item, Past
    <3>2. Works(work[u])'
      BY <1>1, <1>2, <1>4, <2>1, <2>2, <3>1 DEF Works
    <3>3. Keeps(i) => known'[TargetOf[i]] = i /\ (kept[TargetOf[i]] = i \/ LibraryOf[TargetOf[i]] \in owing)
      BY <1>1, <1>2, <1>8, <1>9, Names
    <3> QED
      BY <1>1, <1>4, <2>1, <2>2, <3>2, <3>3 DEF Flushes
  <2>3. CASE u # w
    <3>1. work'[u] = work[u] /\ Works(work[u]) /\ Flushes(work[u])
      BY <2>1, <2>3 DEF TransferInv, WorkInv
    <3>2. Works(work[u])'
      BY <1>1, <3>1 DEF Works
    <3>3. Flushes(work[u])'
      BY <1>1, <1>8, <3>1 DEF Flushes, Held
    <3> QED
      BY <3>2, <3>3
  <2> QED
    BY <2>2, <2>3
<1>12. Keeping
  BY <1>1, <1>8 DEF Keeping, Held
<1> QED
  BY <1>6, <1>7, <1>10, <1>11, <1>12 DEF TransferInv, Lasting, WorkInv

LEMMA MetaWriteStep == ASSUME TransferInv, NEW l \in Libraries, MetaWrite(l) PROVE TransferInv' /\ Lasting
<1>1. /\ UNCHANGED <<at, known, unkept, lost>> /\ dirty' = dirty \ {l}
      /\ kept' = [p \in Paths |-> IF LibraryOf[p] = l THEN known[p] ELSE kept[p]]
  BY DEF MetaWrite
<1>2. work \in [Workers -> Worker] /\ known \in [Paths -> {None} \cup Items] /\ kept \in [Paths -> {None} \cup Items]
  BY DEF TransferInv, TransferTypeOK, Worker
<1>3. \A u \in Workers : /\ work'[u] \in Worker /\ work'[u].pc = work[u].pc /\ work'[u].item = work[u].item
                         /\ work'[u].owed = work[u].owed \ {l}
  BY <1>2 DEF MetaWrite, Worker
<1>4. TransferTypeOK'
  <2>1. work' \in [Workers -> Worker]
    BY <1>3 DEF MetaWrite
  <2>2. kept' \in [Paths -> {None} \cup Items]
    BY <1>1, <1>2
  <2> QED
    BY <1>1, <2>1, <2>2 DEF TransferInv, TransferTypeOK, Worker
<1>5. PathsInv' /\ PlaceInv' /\ Landing
  BY <1>1, DiskStays
<1>6. \A p \in Paths : kept'[p] = IF LibraryOf[p] = l THEN known[p] ELSE kept[p]
  BY <1>1
<1>7. ASSUME NEW k \in Items, Keeps(k)
      PROVE  /\ kept'[k] \in {None, k} /\ kept'[TargetOf[k]] \in {None, k}
             /\ kept'[k] = k \/ kept'[TargetOf[k]] = k
             /\ kept'[TargetOf[k]] = k => known[TargetOf[k]] = k
             /\ kept[TargetOf[k]] = k => kept'[TargetOf[k]] = k
             /\ known[TargetOf[k]] = k /\ LibraryOf[TargetOf[k]] = l => kept'[TargetOf[k]] = k
  <2>1. /\ known[k] \in {None, k} /\ known[TargetOf[k]] \in {None, k}
        /\ kept[k] \in {None, k} /\ kept[TargetOf[k]] \in {None, k}
        /\ known[k] = k \/ known[TargetOf[k]] = k
        /\ kept[k] = k \/ kept[TargetOf[k]] = k
        /\ kept[TargetOf[k]] = k => known[TargetOf[k]] = k
        /\ LibraryOf[k] = LibraryOf[TargetOf[k]]
    BY <1>7 DEF TransferInv, RowsInv, Keeps
  <2> QED
    BY <1>6, <2>1, Names
<1>8. \A p \in Paths : known[p] # kept'[p] => LibraryOf[p] \in dirty'
  BY <1>1, <1>6 DEF TransferInv, RowsInv
<1>9. RowsInv'
  BY <1>1, <1>7, <1>8 DEF TransferInv, RowsInv
<1>10. Keeping
  BY <1>1, <1>7 DEF Keeping, Held
<1>11. ASSUME NEW u \in Workers PROVE Works(work[u])' /\ Flushes(work[u])'
  <2>1. Works(work[u]) /\ Flushes(work[u])
    BY DEF TransferInv, WorkInv
  <2>2. Works(work[u])'
    BY <1>1, <1>3, <2>1 DEF Works
  <2>3. Flushes(work[u])'
    BY <1>1, <1>3, <1>7, <2>1 DEF Flushes, Held
  <2> QED
    BY <2>2, <2>3
<1> QED
  BY <1>4, <1>5, <1>9, <1>10, <1>11 DEF TransferInv, Lasting, WorkInv

------------------------------------------------------------------------------
(* Who starts, records and ends a transfer. *)

LEMMA NoJournalStep == ASSUME TransferInv, NEW r \in Requests, NoJournal(r) PROVE TransferInv' /\ Lasting
<1>1. r \in Workers
  BY DEF Workers
<1>2. ASSUME NEW pc \in {"reserve", "copy", "done"}, Put(r, pc), ~At(r, "idle"), ~At(r, "done") PROVE TransferInv' /\ Lasting
  <2>1. pc \in PCs \ {"flush", "remove"} /\ pc \notin Past
    BY DEF PCs, Past
  <2> QED
    BY <1>1, <1>2, <2>1, PutGoes DEF Past
<1>3. CASE At(r, "landed") /\ Put(r, "carry")
  <2>1. "carry" \in PCs \ {"flush", "remove"} /\ ~At(r, "idle") /\ ~At(r, "done")
    BY <1>3 DEF PCs, At
  <2>2. Alone(Item(r)) => at[To(r)] = Item(r)
    BY <1>1, <1>3 DEF TransferInv, WorkInv, Works, At, Item, To, Past
  <2> QED
    BY <1>1, <1>3, <2>1, <2>2, PutGoes
<1>4. CASE At(r, "record") /\ Put(r, IF Moves(r) THEN "reserve" ELSE "copy")
  BY <1>2, <1>4 DEF At
<1>5. CASE \E end \in {"ok", "failed"} : At(r, end) /\ Put(r, "done")
  BY <1>2, <1>5 DEF At
<1> QED
  BY <1>3, <1>4, <1>5 DEF NoJournal

\* A worker that is given an item, or that has ended, with the disk as it is.
LEMMA WorkerGiven ==
    ASSUME TransferInv, NEW w \in Workers, NEW next \in Worker, work' = [work EXCEPT ![w] = next],
           UNCHANGED <<at, known, kept, dirty, unkept, lost>>,
           next.pc \in {"idle", "done", "check", "resume"},
           next.pc \notin {"idle", "done"} => next.item \in Items
    PROVE  TransferInv' /\ Lasting
<1>1. next.pc \notin Past /\ next.pc \notin {"remove", "flush", "ok"}
  BY DEF Past
<1> QED
  BY <1>1, DiskStays, WorkerGoes

LEMMA IdleIsWorker ==
    /\ Idle \in Worker /\ Idle.pc = "idle"
    /\ \A i \in Items \cup {None} : \A pc \in PCs :
         Begun(i, pc) \in Worker /\ Begun(i, pc).pc = pc /\ Begun(i, pc).item = i
BY DEF Begun, Idle, Worker, PCs

LEMMA AskStep == ASSUME TransferInv, NEW r \in Requests, Ask(r) PROVE TransferInv' /\ Lasting
<1>1. r \in Workers /\ r \in Items /\ "check" \in PCs
  BY TransferAssumption DEF Workers, PCs
<1>2. /\ work' = [work EXCEPT ![r] = Begun(r, "check")] /\ UNCHANGED <<at, known, kept, dirty, unkept, lost>>
  BY DEF Ask
<1>3. Begun(r, "check") \in Worker /\ Begun(r, "check").pc = "check" /\ Begun(r, "check").item = r
  BY <1>1, IdleIsWorker
<1> QED
  BY <1>1, <1>2, <1>3, WorkerGiven

\* Any step of Moving.
LEMMA MovingStep == ASSUME TransferInv, NEW w \in Workers, Moving(w) PROVE TransferInv' /\ Lasting
BY ClearStep, CheckStep, ReserveStep, RenameStep, CopyStep, SwapStep, RemoveSourceStep, CarryStep, FlushedStep DEF Moving

\* A crash takes the workers, and memory is read back from disk.
LEMMA CrashStep == ASSUME TransferInv, TransferCrash PROVE TransferInv' /\ Lasting
<1>1. /\ UNCHANGED <<at, kept, unkept>> /\ known' = kept /\ dirty' = {}
      /\ lost' = lost \cup {i \in unkept : kept[TargetOf[i]] # i}
  BY DEF TransferCrash
<1>2. \A u \in Workers : work'[u] \in Worker /\ work'[u].pc \in {"idle", "done"}
  BY IdleIsWorker DEF TransferCrash, PCs
<1>3. TransferTypeOK'
  <2>1. work' \in [Workers -> Worker]
    BY <1>2 DEF TransferCrash
  <2> QED
    BY <1>1, <2>1 DEF TransferInv, TransferTypeOK, Worker
<1>4. PathsInv' /\ PlaceInv' /\ Landing
  BY <1>1, DiskStays
<1>5. WorkInv'
  BY <1>2 DEF WorkInv, Works, Flushes, Past
<1>6. RowsInv'
  BY <1>1 DEF TransferInv, RowsInv
<1>7. Keeping
  BY <1>1 DEF Keeping, Held
<1> QED
  BY <1>3, <1>4, <1>5, <1>6, <1>7 DEF TransferInv, Lasting

LEMMA TransferStart == TransferInit => TransferInv
<1> SUFFICES ASSUME TransferInit PROVE TransferInv
  OBVIOUS
<1>1. /\ at = [p \in Paths |-> IF p \in Items THEN p ELSE None] /\ known = at /\ kept = at /\ dirty = {}
      /\ work = [w \in Workers |-> Idle] /\ unkept = {} /\ lost = {}
  BY DEF TransferInit
<1>2. \A i \in Items : at[i] = i /\ known[i] = i /\ kept[i] = i /\ i \in Paths
  BY <1>1, Names
<1>3. \A t \in Targets : at[t] = None /\ known[t] = None /\ kept[t] = None
  BY <1>1, Names
<1>4. TransferTypeOK
  BY <1>1, IdleIsWorker, Names DEF TransferTypeOK, Worker
<1>5. PathsInv /\ PlaceInv
  BY <1>2, <1>3, Names DEF PathsInv, PlaceInv
<1>6. WorkInv
  BY <1>1, IdleIsWorker DEF WorkInv, Works, Flushes, Past
<1>7. RowsInv
  BY <1>1, <1>2, <1>3, Names DEF RowsInv
<1> QED
  BY <1>4, <1>5, <1>6, <1>7 DEF TransferInv
=============================================================================
