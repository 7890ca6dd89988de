-------------------------------- MODULE PartFile -----------------------------
(***************************************************************************)
(* The partial file of one row of the download queue (download() in        *)
(* server/src/downloads.ts): how its bytes get there over one stream or    *)
(* over several ranges, what is stored about them, and what a broken       *)
(* connection, a deletion that fails, a crash and a restart leave behind.  *)
(* When the row runs, waits or is paused is in DownloadQueue.              *)
(*                                                                         *)
(* The row looks for its source, as those of a season do; one added with   *)
(* an address is one that has chosen it. Rows of a source profile delete   *)
(* the file before every run and after every restart, playlists start      *)
(* anew each time: they have nothing to resume and are left out.           *)
(***************************************************************************)
EXTENDS Naturals, Sequences

CONSTANTS
    Sources,        \* what the resolver may find
    Size,           \* of each source, in cells: the bytes written at once
    Names,          \* the names the file may get: "(1)", "(2)" ...
    Segments,       \* the ranges a file is split into, if it is large enough
    MinSegment,     \* MIN_SEGMENT_BYTES
    None,           \* no source, no name
    Absent,         \* there is no such file
    Hole,           \* a cell of a file that was made longer and not written yet
    SavesFail       \* best-effort saves may fail

ASSUME PartFileAssumption ==
    /\ Size \in [Sources -> Nat \ {0}]
    /\ Segments \in Nat \ {0, 1} /\ MinSegment \in Nat \ {0}
    /\ None \notin Sources \union Names
    /\ Hole \notin Sources \X Nat /\ Absent \notin Seq((Sources \X Nat) \union {Hole})
    /\ SavesFail \in BOOLEAN

VARIABLES
    job,        \* the row in memory
    stored,     \* the row in storage
    part,       \* the partial file beside each name
    published,  \* the finished file under each name
    litter,     \* history: the names whose partial file could not be deleted
    at,         \* the stage the run awaits in, or "idle"
    name,       \* the name the run of the row writes beside
    offset,     \* what the run found in the file
    body        \* the cell of the source that the one stream brings next

locals == <<at, name, offset, body>>
files == <<part, published, litter>>
vars == <<job, stored, files, locals>>

Parts == 1..Segments
Cells == (Sources \X Nat) \union {Hole}
Cell(s, i) == <<s, i>>
Whole(s) == [i \in 1..Size[s] |-> Cell(s, i)]
NothingYet == [k \in Parts |-> 0]

Rows == [stream : Sources \union {None}, target : Names \union {None}, tried : SUBSET Sources,
         planned : BOOLEAN, got : [Parts -> Nat], ignored : BOOLEAN, done : BOOLEAN]
Stages == {"idle", "choosing", "chosen", "looking", "probing", "persisting", "opening", "sizing", "segments",
           "asking", "linear", "synced", "renaming", "keeping", "unranged", "stale", "next", "closing"}

Bytes(n) == IF n \in Names /\ part[n] # Absent THEN part[n] ELSE <<>>
Sized == Size[job.stream]

\* planSegments(): equal ranges, the last one takes what is left over. A small file has fewer;
\* the others are empty and count as nothing.
Ranges(n) == IF n < MinSegment THEN 1 ELSE IF n \div MinSegment < Segments THEN n \div MinSegment ELSE Segments
Start(n, k) == IF k > Ranges(n) THEN n ELSE (k - 1) * (n \div Ranges(n))
End(n, k) == IF k >= Ranges(n) THEN n ELSE k * (n \div Ranges(n))
Worthwhile(n) == Ranges(n) >= 2

Goto(stage) == at' = stage
StayOnDisk == UNCHANGED files
Here == UNCHANGED <<name, offset, body>>
Gone == at' = "idle" /\ name' = None /\ offset' = 0 /\ body' = 1

\* A best-effort save that the run awaits.
Saved(r) == stored' = r \/ (SavesFail /\ UNCHANGED stored)

\* job.received = 0; job.total = undefined; job.segments = undefined
Unplanned(r) == [r EXCEPT !.planned = FALSE, !.got = NothingYet]

\* unlink(...).catch(() => undefined): nobody hears of a file that cannot be deleted.
Unlink(n) ==
    \/ part' = [part EXCEPT ![n] = Absent] /\ UNCHANGED litter
    \/ part[n] # Absent /\ litter' = litter \union {n} /\ UNCHANGED part

-----------------------------------------------------------------------------
(* A run begins: a source and a name are chosen, then the file is looked   *)
(* at.                                                                     *)

Begin ==
    /\ at = "idle" /\ ~job.done
    /\ Goto(IF job.stream = None THEN "choosing" ELSE "looking")
    /\ UNCHANGED <<job, stored>> /\ Here /\ StayOnDisk

\* uniqueTarget(): neither the name nor the partial file beside it exists.
Free(n) == published[n] = Absent /\ part[n] = Absent

Choose(s, n) ==
    /\ at = "choosing" /\ s \in Sources \ job.tried /\ Free(n)
    /\ job' = [job EXCEPT !.stream = s, !.target = n]
    /\ Goto("chosen")
    /\ UNCHANGED stored /\ Here /\ StayOnDisk

ChoiceSaved ==
    /\ at = "chosen" /\ Saved(job) /\ Goto("looking")
    /\ UNCHANGED job /\ Here /\ StayOnDisk

\* clearLazyChoice(): a pause or a refusal came meanwhile.
ChoiceDropped ==
    /\ at = "chosen" /\ job' = [job EXCEPT !.stream = None, !.target = None]
    /\ Saved(job') /\ Goto("closing")
    /\ Here /\ StayOnDisk

\* A plan that does not fit the file is dropped with the file.
Mismatch == job.planned /\ Len(Bytes(job.target)) # Sized

Look ==
    /\ at = "looking" /\ Goto("probing") /\ name' = job.target
    /\ \/ /\ ~Mismatch /\ offset' = Len(Bytes(job.target))
          /\ UNCHANGED <<job, part, litter>>
       \/ /\ Mismatch /\ offset' = 0
          /\ Unlink(job.target) /\ job' = Unplanned(job)
    /\ UNCHANGED <<stored, published, body>>

\* segmentPlan(): a plan that is there is finished as a plan; a file that was begun over one
\* stream is not split, and neither is one whose source does not serve ranges or was caught
\* ignoring them.
Probe ==
    /\ at = "probing"
    /\ \/ ~job.ignored /\ job.planned /\ Goto("persisting") /\ UNCHANGED job
       \/ /\ ~job.ignored /\ ~job.planned /\ offset = 0 /\ Worthwhile(Sized)
          /\ job' = [job EXCEPT !.planned = TRUE, !.got = NothingYet] /\ Goto("persisting")
       \/ (job.ignored \/ ~job.planned) /\ Goto("asking") /\ UNCHANGED job
    /\ UNCHANGED stored /\ Here /\ StayOnDisk

-----------------------------------------------------------------------------
(* Several ranges: the plan is stored before the file gets its full size.  *)

Resumed == offset = Sized

\* Slip: the plan is stored later, with the next save.
PlanStored_Later ==
    /\ at = "persisting" /\ Goto("opening")
    /\ UNCHANGED <<job, stored>> /\ Here /\ StayOnDisk
PlanStored ==
    /\ at = "persisting" /\ stored' = job /\ Goto("opening")
    /\ UNCHANGED job /\ Here /\ StayOnDisk

\* The write failed, and the row is as it was.
PlanRefused ==
    /\ at = "persisting" /\ job' = IF Resumed THEN job ELSE Unplanned(job)
    /\ Goto("keeping")
    /\ UNCHANGED stored /\ Here /\ StayOnDisk

Open ==
    /\ at = "opening"
    /\ \/ Resumed /\ part[name] # Absent /\ Goto("segments") /\ UNCHANGED part
       \/ ~Resumed /\ part' = [part EXCEPT ![name] = <<>>] /\ Goto("sizing")
    /\ UNCHANGED <<job, stored, published, litter>> /\ Here

Truncate ==
    /\ at = "sizing" /\ part' = [part EXCEPT ![name] = [i \in 1..Sized |-> Hole]] /\ Goto("segments")
    /\ UNCHANGED <<job, stored, published, litter>> /\ Here

\* Slip: a range takes one cell more than it has.
Full_OneMore(k) == job.got[k] = End(Sized, k) - Start(Sized, k) + 1
Full(k) == job.got[k] = End(Sized, k) - Start(Sized, k)

\* Slip: a chunk is counted when it arrives, and written later.
Counting_Early(k, i) == job' = [job EXCEPT !.got[k] = @ + 1] /\ (part' = [part EXCEPT ![name][i] = Cell(job.stream, i)] \/ UNCHANGED part)
Counting(k, i) ==
    /\ part' = [part EXCEPT ![name][i] = Cell(job.stream, i)]
    /\ job' = [job EXCEPT !.got[k] = @ + 1]

\* transferSegment(): a chunk is written at its place, then counted.
SegmentMoves(k) ==
    /\ at = "segments" /\ ~Full(k)
    /\ Counting(k, Start(Sized, k) + job.got[k] + 1)
    /\ UNCHANGED <<stored, published, litter, locals>>

SegmentsEnd ==
    /\ at = "segments" /\ (\A k \in Parts : Full(k)) /\ Goto("synced")
    /\ UNCHANGED <<job, stored>> /\ Here /\ StayOnDisk

-----------------------------------------------------------------------------
(* One stream: the source is asked for what is missing, and may answer     *)
(* with all of it.                                                         *)

\* Slip: an answer from the start of the file is taken for what was asked.
Served_Unread(o, from) == TRUE
\* The answer is a 206 that begins where it was asked to.
Served(o, from) == o > 0 /\ from = o + 1

Ask(from) ==
    /\ at = "asking" /\ from \in {1, offset + 1} /\ from <= Sized /\ body' = from
    /\ part' = [part EXCEPT ![name] = IF Served(offset, from) THEN Bytes(name) ELSE <<>>]
    /\ Goto("linear")
    /\ UNCHANGED <<job, stored, published, litter, name, offset>>

StreamMoves ==
    /\ at = "linear" /\ body <= Sized
    /\ part' = [part EXCEPT ![name] = Append(@, Cell(job.stream, body))]
    /\ body' = body + 1
    /\ UNCHANGED <<job, stored, published, litter, at, name, offset>>

Complete == Len(Bytes(name)) = Sized

StreamEnds ==
    /\ at = "linear" /\ Complete /\ Goto("synced")
    /\ UNCHANGED <<job, stored>> /\ Here /\ StayOnDisk

-----------------------------------------------------------------------------
(* Publication: the name is claimed, the file takes it. A name that was    *)
(* taken meanwhile sends it to the next free one (reserveTarget()).        *)

Reserve(n) ==
    /\ at = "synced"
    /\ \/ published[job.target] = Absent /\ n = job.target
       \/ published[job.target] # Absent /\ Free(n)
    /\ job' = [job EXCEPT !.target = n] /\ Goto("renaming")
    /\ UNCHANGED stored /\ Here /\ StayOnDisk

Publish ==
    /\ at = "renaming"
    /\ published' = [published EXCEPT ![job.target] = part[name]]
    /\ part' = [part EXCEPT ![name] = Absent]
    /\ job' = [Unplanned(job) EXCEPT !.done = TRUE]
    /\ Goto("closing")
    /\ UNCHANGED <<stored, litter>> /\ Here

-----------------------------------------------------------------------------
(* A run breaks off: what is kept, what is deleted.                        *)

\* A pause, a dropped connection, a full disk, a failure for good.
Breaks ==
    /\ at \in {"looking", "probing", "persisting", "opening", "sizing", "segments", "asking", "linear", "synced",
              "renaming"}
    /\ Goto("keeping")
    /\ UNCHANGED <<job, stored>> /\ Here /\ StayOnDisk

\* A range is answered with the whole file.
RangesIgnored ==
    /\ at = "segments" /\ job' = [job EXCEPT !.ignored = TRUE] /\ Goto("unranged")
    /\ UNCHANGED stored /\ Here /\ StayOnDisk

\* HTTP 416.
NoSuchRange ==
    /\ at \in {"segments", "asking"} /\ Goto("stale")
    /\ UNCHANGED <<job, stored>> /\ Here /\ StayOnDisk

\* The source is given up for the next one.
GivesUp ==
    /\ at \in {"looking", "probing", "opening", "sizing", "segments", "asking", "linear", "synced", "renaming"}
    /\ job' = [job EXCEPT !.tried = @ \union {job.stream}] /\ Goto("next")
    /\ UNCHANGED stored /\ Here /\ StayOnDisk

KeepPart ==
    /\ at = "keeping" /\ Goto("closing")
    /\ UNCHANGED <<job, stored>> /\ Here /\ StayOnDisk

\* The ranges were ignored, or there is no such range (416).
DropPart ==
    /\ at \in {"unranged", "stale"} /\ Unlink(job.target)
    /\ job' = Unplanned(job)
    /\ Goto("closing")
    /\ UNCHANGED <<stored, published>> /\ Here

NextSource ==
    /\ at = "next" /\ Unlink(job.target)
    /\ job' = [Unplanned(job) EXCEPT !.stream = None, !.target = None, !.ignored = FALSE]
    /\ Goto("closing")
    /\ UNCHANGED <<stored, published>> /\ Here

\* The finally of download().
Close ==
    /\ at = "closing" /\ Saved(job) /\ Gone
    /\ UNCHANGED job /\ StayOnDisk

-----------------------------------------------------------------------------

\* Nothing is found: the row fails, until a person retries it.
NoneLeft ==
    /\ at = "choosing" /\ job' = [job EXCEPT !.tried = {}] /\ Saved(job') /\ Goto("closing")
    /\ Here /\ StayOnDisk

\* A checkpoint, or the save of another row: each writes every row as it is.
Save ==
    /\ stored' = job
    /\ UNCHANGED job /\ StayOnDisk /\ UNCHANGED locals

\* The process ends at any point and load() reads what was stored.
Restart ==
    /\ job' = stored /\ Gone
    /\ UNCHANGED stored /\ StayOnDisk

\* Somebody deletes a partial file nobody writes to.
Vanish(n) ==
    /\ at = "idle" /\ part' = [part EXCEPT ![n] = Absent]
    /\ UNCHANGED <<job, stored, published, litter, locals>>

Init ==
    /\ job = [stream |-> None, target |-> None, tried |-> {}, planned |-> FALSE, got |-> NothingYet,
              ignored |-> FALSE, done |-> FALSE]
    /\ stored = job
    /\ part = [n \in Names |-> Absent] /\ published = [n \in Names |-> Absent] /\ litter = {}
    /\ at = "idle" /\ name = None /\ offset = 0 /\ body = 1

Next ==
    \/ Begin \/ ChoiceSaved \/ ChoiceDropped \/ NoneLeft \/ Look \/ Probe
    \/ \E s \in Sources, n \in Names : Choose(s, n)
    \/ PlanStored \/ PlanRefused \/ Open \/ Truncate \/ SegmentsEnd
    \/ \E k \in Parts : SegmentMoves(k)
    \/ \E from \in 1..(offset + 1) : Ask(from)
    \/ StreamMoves \/ StreamEnds
    \/ \E n \in Names : Reserve(n) \/ Vanish(n)
    \/ Publish
    \/ Breaks \/ RangesIgnored \/ NoSuchRange \/ GivesUp \/ KeepPart \/ DropPart \/ NextSource \/ Close
    \/ Save \/ Restart

Spec == Init /\ [][Next]_vars

-----------------------------------------------------------------------------
(* Properties.                                                             *)

\* usableSegments(): no range of a plan is overfull.
Usable(r) ==
    r.planned => r.stream \in Sources /\ \A k \in Parts : r.got[k] <= End(Size[r.stream], k) - Start(Size[r.stream], k)

TypeOK ==
    /\ job \in Rows /\ stored \in Rows /\ Usable(job) /\ Usable(stored)
    /\ part \in [Names -> Seq(Cells) \union {Absent}] /\ published \in [Names -> Seq(Cells) \union {Absent}]
    /\ litter \subseteq Names
    /\ at \in Stages /\ name \in Names \union {None} /\ offset \in Nat /\ body \in Nat

\* What is published is one source, whole and in order: never cells of two, never a hole.
PublishedIsWhole == \A n \in Names : published[n] # Absent => \E s \in Sources : published[n] = Whole(s)

\* The cells a plan says it has.
Counted(r) == {i \in 1..Size[r.stream] : \E k \in Parts :
                   Start(Size[r.stream], k) < i /\ i <= Start(Size[r.stream], k) + r.got[k]}

\* What a plan counts is in the file, in memory and after a crash: a run that goes on with
\* the plan never skips a cell that was not written.
CountedIsWritten ==
    \A r \in {job, stored} :
        r.planned /\ Len(Bytes(r.target)) = Size[r.stream]
            => \A i \in Counted(r) : Bytes(r.target)[i] = Cell(r.stream, i)

\* A file that got its full size ahead of its cells is never without its plan, whenever the
\* process ends: unless its deletion failed, nobody takes it for a file that was fetched.
HolesArePlanned ==
    \A n \in Names \ litter :
        (\E i \in DOMAIN Bytes(n) : Bytes(n)[i] = Hole) => stored.target = n /\ stored.planned

=============================================================================
