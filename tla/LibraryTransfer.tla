-------------------------- MODULE LibraryTransfer --------------------------
(***************************************************************************)
(* One item on its way through the library: transferLibraryPath and its    *)
(* helpers (server/src/library-transfer.ts), what transferLibraryItem and  *)
(* rerootItem do around it (library-actions.ts), and the match history     *)
(* that follows the item (library-meta-store.ts).                          *)
(*                                                                         *)
(* A path holds nothing, an item, a torn item (a removal that stopped half *)
(* way) or the empty placeholder a transfer takes a name with. A worker is *)
(* the pump of the operation queue or one direct request; it takes one     *)
(* step of the file system at a time and the workers interleave. A staging *)
(* path carries a random name and is nobody else's business: copying into  *)
(* it is one step. Progress, thumbnails, subtitles beside a video and the  *)
(* personal rows are left out, and so is the win32 branch of the swap.     *)
(***************************************************************************)
EXTENDS Naturals, FiniteSets

CONSTANTS
    Items,      \* the items; each one names the path it starts from as well
    Targets,    \* the paths they may be sent to
    TargetOf,   \* where each item is sent
    OpOf,       \* "move", "copy" or "reroot"
    Folders,    \* the items that are folders
    Far,        \* the items whose target is on another file system
    Libraries,
    LibraryOf,  \* the library each path belongs to
    Requests,   \* the items a direct POST /api/library/move sends
    Queue,      \* the worker that is the pump of the queue
    None, Torn

Workers == Requests \cup {Queue}
Paths == Items \cup Targets
Placeholder == {<<w>> : w \in Workers} \* of the worker that made it

ASSUME TransferAssumption ==
    /\ TargetOf \in [Items -> Targets]
    /\ OpOf \in [Items -> {"move", "copy", "reroot"}]
    /\ Folders \subseteq Items /\ Far \subseteq Items
    /\ LibraryOf \in [Paths -> Libraries]
    /\ Requests \subseteq Items /\ Items \cap Targets = {}
    /\ \A i \in Requests : OpOf[i] # "reroot"
    /\ Queue \notin Items /\ None \notin Paths /\ Torn \notin Paths \cup {None}
    /\ Placeholder \cap (Paths \cup {None, Torn}) = {}

VARIABLES
    at,    \* what each path holds
    known, \* the title matched to each path, in memory
    kept,  \* the same on disk, one file or one batch of rows per library
    dirty, \* libraries whose match history is not written yet
    work,  \* what each worker is doing
    unkept, \* history: items whose flush ended without their rows on disk
    lost    \* history: those whose rows were still not there when the process died

transferVars == <<at, known, kept, dirty, work, unkept, lost>>

Begun(i, pc) == [pc |-> pc, item |-> i, replay |-> FALSE, owed |-> {}]
Idle == Begun(None, "idle")
PCs == {"idle", "resume", "clear", "check", "record", "recording", "reserve", "rename", "copy",
        "claim", "swap", "remove", "landed", "recordingLanding", "carry", "flush", "ok", "failed", "done"}

TransferTypeOK ==
    /\ at \in [Paths -> {None, Torn} \cup Items \cup Placeholder]
    /\ known \in [Paths -> {None} \cup Items] /\ kept \in [Paths -> {None} \cup Items]
    /\ dirty \subseteq Libraries
    /\ work \in [Workers -> [pc : PCs, item : Items \cup {None}, replay : BOOLEAN, owed : SUBSET Libraries]]
    /\ unkept \subseteq Items /\ lost \subseteq Items

TransferInit ==
    /\ at = [p \in Paths |-> IF p \in Items THEN p ELSE None]
    /\ known = [p \in Paths |-> IF p \in Items THEN p ELSE None]
    /\ kept = known
    /\ dirty = {}
    /\ work = [w \in Workers |-> Idle]
    /\ unkept = {} /\ lost = {}

Item(w) == work[w].item
To(w) == TargetOf[Item(w)]
Moves(i) == OpOf[i] # "copy"
At(w, pc) == work[w].pc = pc
GoTo(w, pc) == work' = [work EXCEPT ![w].pc = pc]
Replay(w, pc) == work' = [work EXCEPT ![w] = [@ EXCEPT !.pc = pc, !.replay = TRUE]]
Put(w, pc) == GoTo(w, pc) /\ UNCHANGED <<at, known, kept, dirty, unkept, lost>>
Write(p, what) == at' = [at EXCEPT ![p] = what]

------------------------------------------------------------------------------
(* Before the disk is touched. *)

\* Slip: whatever is at the target counts as the landed item.
Landed_Anything(i) == TRUE

\* What a restart does with an item whose record says "moving": nothing is guessed and
\* nothing is deleted but the placeholder of the destination.
Landed(i) == at[i] = None \/ at[TargetOf[i]] \notin Placeholder
Resume(w, phase) ==
    /\ At(w, "resume")
    /\ \/ /\ phase = "published"
          /\ Replay(w, IF OpOf[Item(w)] = "reroot" THEN "ok" ELSE "carry")
       \/ /\ phase = "moving" /\ at[To(w)] = None
          /\ GoTo(w, IF at[Item(w)] = None THEN "failed" ELSE "check")
       \/ /\ phase = "moving" /\ at[To(w)] # None /\ ~Landed(Item(w))
          /\ GoTo(w, "clear")
       \/ /\ phase = "moving" /\ at[To(w)] # None /\ Landed(Item(w))
          /\ Replay(w, IF OpOf[Item(w)] = "reroot" THEN "ok" ELSE "landed")
    /\ UNCHANGED <<at, known, kept, dirty, unkept, lost>>

\* Another look, and the placeholder goes; a name that has content by now keeps it.
Clear(w) ==
    /\ At(w, "clear")
    /\ GoTo(w, "check")
    /\ Write(To(w), IF at[To(w)] \in Placeholder THEN None ELSE at[To(w)])
    /\ UNCHANGED <<known, kept, dirty, unkept, lost>>

\* A re-root looks at nothing first: its reservation does.
Check(w) ==
    /\ At(w, "check")
    /\ Put(w, IF OpOf[Item(w)] = "reroot" \/ (at[Item(w)] # None /\ at[To(w)] = None) THEN "record" ELSE "failed")

------------------------------------------------------------------------------
(* The transfer itself. *)

\* The name is taken with an atomic create; a name that is taken refuses the transfer.
Reserve(w) ==
    /\ \/ At(w, "reserve")
       \/ At(w, "claim")
    /\ \/ /\ at[Item(w)] # None /\ at[To(w)] = None
          /\ Write(To(w), <<w>>)
          /\ GoTo(w, IF At(w, "reserve") THEN "rename" ELSE "swap")
       \/ /\ at[Item(w)] = None \/ at[To(w)] # None
          /\ GoTo(w, "failed") /\ UNCHANGED at
    /\ UNCHANGED <<known, kept, dirty, unkept, lost>>

\* rename(2) puts a file over anything and a folder over nothing or an empty folder; a source
\* that is gone it refuses.
Replaces(w) == Item(w) \in Folders => at[To(w)] \in Placeholder \cup {None}
Renames(w) == at[Item(w)] # None /\ Replaces(w)
\* Slip: the name is cleared whatever it holds by now.
Release_Blind(w) == Write(To(w), None)

\* Only the placeholder this call made is dropped: rmdir refuses a folder with content, a
\* file is known by its inode.
Release(w) ==
    Write(To(w), IF at[To(w)] = <<w>> \/ (Item(w) \in Folders /\ at[To(w)] \in Placeholder) THEN None ELSE at[To(w)])

Rename(w) ==
    /\ At(w, "rename")
    /\ \/ /\ Item(w) \in Far
          /\ Release(w) /\ GoTo(w, "copy")
       \/ /\ Item(w) \notin Far /\ ~Renames(w)
          /\ Release(w) /\ GoTo(w, "failed")
       \/ /\ Item(w) \notin Far /\ Renames(w)
          /\ at' = [at EXCEPT ![To(w)] = at[Item(w)], ![Item(w)] = None]
          /\ GoTo(w, "landed")
    /\ UNCHANGED <<known, kept, dirty, unkept, lost>>

\* A copy that fails removes its staging path and nothing else.
Copy(w, ok) ==
    /\ At(w, "copy")
    /\ Put(w, IF ok THEN "claim" ELSE "failed")

Swap(w) ==
    /\ At(w, "swap")
    /\ \/ /\ ~Replaces(w)
          /\ Release(w) /\ GoTo(w, "failed")
       \/ /\ Replaces(w)
          /\ Write(To(w), Item(w))
          /\ GoTo(w, IF Moves(Item(w)) THEN "remove" ELSE "landed")
    /\ UNCHANGED <<known, kept, dirty, unkept, lost>>

\* The copy is in place: a source that cannot be removed stays, whole or in part, and the
\* transfer is still a success.
RemoveSource(w) ==
    /\ At(w, "remove")
    /\ Write(Item(w), None) /\ GoTo(w, "landed")
    /\ UNCHANGED <<known, kept, dirty, unkept, lost>>
SourceTears(w) ==
    /\ At(w, "remove") /\ Item(w) \in Folders
    /\ Write(Item(w), Torn)
    /\ UNCHANGED <<known, kept, dirty, unkept, lost, work>>
SourceStays(w) ==
    /\ At(w, "remove")
    /\ Put(w, "landed")

------------------------------------------------------------------------------
(* The match history follows the item. *)

\* A replay does not carry the rows again when they are at the target already.
Carries(w) == OpOf[Item(w)] = "copy" \/ ~work[w].replay \/ known[Item(w)] # None \/ known[To(w)] = None
Relocated(i) ==
    IF known[i] = None THEN known
    ELSE [known EXCEPT ![TargetOf[i]] = known[i], ![i] = IF Moves(i) THEN None ELSE known[i]]
Touched(i) == {LibraryOf[TargetOf[i]]} \cup (IF Moves(i) THEN {LibraryOf[i]} ELSE {})

Carry(w) ==
    /\ At(w, "carry")
    /\ LET touched == IF Carries(w) THEN Touched(Item(w)) ELSE {}
       IN  /\ known' = IF Carries(w) THEN Relocated(Item(w)) ELSE known
           /\ dirty' = dirty \cup touched
           /\ work' = [work EXCEPT ![w] = [@ EXCEPT !.pc = "flush", !.owed = dirty \cup touched]]
    /\ UNCHANGED <<at, kept, unkept, lost>>

\* One library at a time, by its own timer or by a flush: the rows as they are now.
MetaWrite(l) ==
    /\ l \in dirty
    /\ kept' = [p \in Paths |-> IF LibraryOf[p] = l THEN known[p] ELSE kept[p]]
    /\ dirty' = dirty \ {l}
    /\ work' = [w \in Workers |-> [work[w] EXCEPT !.owed = @ \ {l}]]
    /\ UNCHANGED <<at, known, unkept, lost>>

\* Slip: the flush is not awaited.
Flushed_Early(w) ==
    /\ At(w, "flush")
    /\ Put(w, "ok")

\* The item is not done while its metadata is still in the debounce.
Flushed(w) ==
    /\ At(w, "flush") /\ work[w].owed = {}
    /\ Put(w, "ok")

\* A write that fails is only logged: its library is due again with the next save, and the
\* flush, which tries it twice, ends as if it had been written.
FlushGivesUp(w) ==
    /\ At(w, "flush") /\ work[w].owed # {}
    /\ unkept' = unkept \cup {Item(w)}
    /\ GoTo(w, "ok")
    /\ UNCHANGED <<at, known, kept, dirty, lost>>

------------------------------------------------------------------------------
\* A direct request keeps no journal, and a failed one leaves the item to the next.
Ask(r) ==
    /\ At(r, "idle")
    /\ work' = [work EXCEPT ![r] = Begun(r, "check")]
    /\ UNCHANGED <<at, known, kept, dirty, unkept, lost>>
NoJournal(r) ==
    \/ At(r, "record") /\ Put(r, IF Moves(r) THEN "reserve" ELSE "copy")
    \/ At(r, "landed") /\ Put(r, "carry")
    \/ \E end \in {"ok", "failed"} : At(r, end) /\ Put(r, "done")

Moving(w) ==
    \/ Clear(w) \/ Check(w) \/ Reserve(w) \/ Rename(w) \/ Copy(w, TRUE) \/ Swap(w)
    \/ RemoveSource(w) \/ Carry(w) \/ Flushed(w)

\* A process that ends takes its workers and what memory holds with it.
TransferCrash ==
    /\ known' = kept /\ dirty' = {}
    /\ lost' = lost \cup {i \in unkept : kept[TargetOf[i]] # i}
    /\ work' = [w \in Workers |-> IF w \in Requests /\ ~At(w, "idle") THEN Begun(None, "done") ELSE Idle]
    /\ UNCHANGED <<at, kept, unkept>>
=============================================================================
