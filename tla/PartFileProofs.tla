--------------------------- MODULE PartFileProofs ---------------------------
(***************************************************************************)
(* What is published is whole, for any sources, sizes, names and number of *)
(* ranges, provided that best-effort saves do not fail. IInv says what the *)
(* file beside a name may hold, for the row in memory and for the row in   *)
(* storage alike: a restart makes the second the first.                    *)
(***************************************************************************)
EXTENDS PartFile, TLAPS

Working == {"looking", "probing", "persisting", "opening", "sizing", "segments", "asking", "linear", "synced"}
Named == Working \ {"looking"}

\* A row has a source and a name, or neither, and only then a plan.
Paired(r) == (r.target = None <=> r.stream = None) /\ (r.planned => r.stream # None)

\* Each cell beside the name of a row is the one its source has there, or a hole of a file
\* that was made to its full size, which no plan of the row counts.
Sound(r) ==
    r.target # None /\ part[r.target] # Absent =>
        /\ Len(part[r.target]) <= Size[r.stream]
        /\ \A i \in 1..Len(part[r.target]) :
            \/ part[r.target][i] = Cell(r.stream, i)
            \/ /\ part[r.target][i] = Hole /\ Len(part[r.target]) = Size[r.stream]
               /\ r.planned => i \notin Counted(r)

\* A file with holes is the one the plan of the row is about.
Planned(r) ==
    \A n \in Names \ litter : part[n] # Absent =>
        ((\E i \in 1..Len(part[n]) : part[n][i] = Hole) => r.target = n /\ r.planned)

Found == offset = Len(Bytes(name)) \/ (offset = 0 /\ name \in litter)

Right == part[name] # Absent /\ \A i \in 1..Len(part[name]) : part[name][i] = Cell(job.stream, i)

\* What the stages of a run may rely on.
Places ==
    /\ at = "idle" => stored = job
    /\ at = "choosing" => job.stream = None
    /\ at = "chosen" => job.stream # None /\ ~job.planned
    /\ at \in Working => stored.stream = job.stream /\ stored.target = job.target
    /\ at \in Working \union {"renaming", "unranged", "stale", "next"} => job.stream # None
    /\ at \in Named => name = job.target
    /\ at \in {"probing", "persisting", "opening", "asking"} => Found
    /\ at = "probing" /\ job.planned => offset = Sized
    /\ at \in {"persisting", "opening", "sizing"} => job.planned /\ (offset # Sized => job.got = NothingYet)
    /\ at \in {"opening", "sizing"} => stored = job
    /\ at = "sizing" => offset # Sized
    /\ at = "segments" => job.planned /\ part[name] # Absent /\ Len(part[name]) = Sized
    /\ at = "linear" => Right /\ body = Len(part[name]) + 1
    /\ at \in {"synced", "renaming"} => name \in Names /\ Right /\ Len(part[name]) = Sized
    /\ at = "renaming" /\ job.target # name => part[job.target] = Absent

IInv ==
    /\ TypeOK /\ Paired(job) /\ Paired(stored)
    /\ Places
    /\ Sound(job) /\ Sound(stored)
    /\ Planned(job) /\ Planned(stored)
    /\ PublishedIsWhole

-----------------------------------------------------------------------------
(* Ranges: each lies within the file, and together they cover it.          *)

LEMMA Quotient ==
    ASSUME NEW n \in Nat, NEW d \in Nat \ {0}
    PROVE  /\ n \div d \in Nat
           /\ d * (n \div d) <= n
           /\ n < d * (n \div d) + d
  BY SMT

LEMMA Multiples ==
    ASSUME NEW a \in Nat, NEW b \in Nat, NEW q \in Nat, a <= b
    PROVE  a * q \in Nat /\ a * q <= b * q
  BY SMT

LEMMA RangeCount ==
    ASSUME NEW n \in Nat
    PROVE  Ranges(n) \in Nat \ {0} /\ Ranges(n) <= Segments
  <1>1. Segments \in Nat \ {0, 1} /\ MinSegment \in Nat \ {0}
    BY PartFileAssumption
  <1> DEFINE q == n \div MinSegment
  <1>2. q \in Nat /\ n < MinSegment * q + MinSegment
    BY <1>1, Quotient
  <1>3. q = 0 => n < MinSegment
    BY <1>1, <1>2
  <1>4. Ranges(n) = IF n < MinSegment THEN 1 ELSE IF q < Segments THEN q ELSE Segments
    BY DEF Ranges, q
  <1> HIDE DEF q
  <1> QED
    BY <1>1, <1>2, <1>3, <1>4

LEMMA RangeBounds ==
    ASSUME NEW n \in Nat, NEW k \in Parts
    PROVE  /\ Start(n, k) \in Nat /\ End(n, k) \in Nat
           /\ Start(n, k) <= End(n, k) /\ End(n, k) <= n
           /\ End(n, k) - Start(n, k) \in Nat
  <1> DEFINE R == Ranges(n)
             q == n \div R
  <1>1. R \in Nat \ {0}
    BY RangeCount
  <1>2. k \in Nat /\ k - 1 \in Nat /\ k - 1 <= k
    BY PartFileAssumption DEF Parts
  <1>3. /\ Start(n, k) = IF k > R THEN n ELSE (k - 1) * q
        /\ End(n, k) = IF k >= R THEN n ELSE k * q
    BY DEF Start, End, R, q
  <1> HIDE DEF R
  <1>4. q \in Nat /\ R * q <= n
    BY <1>1, Quotient
  <1> HIDE DEF q
  <1>5. CASE k > R
    BY <1>1, <1>2, <1>3, <1>5
  <1>6. CASE k <= R
    <2>1. (k - 1) * q \in Nat /\ (k - 1) * q <= k * q /\ k * q \in Nat /\ k * q <= R * q
      BY <1>1, <1>2, <1>4, <1>6, Multiples
    <2>2. (k - 1) * q <= n /\ k * q <= n /\ R * q \in Nat
      BY <1>1, <1>4, <2>1
    <2>3. Start(n, k) = (k - 1) * q
      BY <1>1, <1>2, <1>3, <1>6
    <2> QED
      BY <1>3, <2>1, <2>2, <2>3
  <1> QED
    BY <1>1, <1>2, <1>5, <1>6

LEMMA RangesCover ==
    ASSUME NEW n \in Nat, NEW i \in 1..n
    PROVE  \E k \in Parts : Start(n, k) < i /\ i <= End(n, k)
  <1> DEFINE R == Ranges(n)
             q == n \div R
  <1>1. R \in Nat \ {0} /\ R - 1 \in Nat /\ R <= Segments /\ Segments \in Nat
    <2>1. R \in Nat \ {0} /\ R <= Segments
      BY RangeCount
    <2>2. Segments \in Nat
      BY PartFileAssumption
    <2> HIDE DEF R
    <2> QED
      BY <2>1, <2>2
  <1>2. ASSUME NEW k \in 1..R
        PROVE  /\ k \in Parts /\ Start(n, k) = (k - 1) * q
               /\ End(n, k) = IF k = R THEN n ELSE k * q
    <2> HIDE DEF q
    <2>1. k \in Nat /\ k <= R /\ k \in Parts
      BY <1>1 DEF Parts
    <2>2. Start(n, k) = (k - 1) * q /\ End(n, k) = IF k >= R THEN n ELSE k * q
      BY <1>1, <2>1 DEF Start, End, q
    <2> QED
      BY <1>1, <2>1, <2>2
  <1> HIDE DEF R
  <1>3. q \in Nat
    BY <1>1, Quotient
  <1>4. CASE i > (R - 1) * q
    <2>1. R \in 1..R
      BY <1>1
    <2>2. Start(n, R) = (R - 1) * q /\ End(n, R) = n /\ R \in Parts
      BY <1>2, <2>1
    <2> QED
      BY <1>4, <2>2
  <1>5. CASE ~(i > (R - 1) * q)
    <2> DEFINE r == (i - 1) \div q
    <2>1. q > 0 /\ i <= (R - 1) * q
      <3> HIDE DEF q
      <3>1. q = 0 => (R - 1) * q = 0
        BY <1>1
      <3>2. (R - 1) * q \in Nat
        BY <1>1, <1>3
      <3> QED
        BY <1>3, <1>5, <3>1, <3>2
    <2>2. r \in Nat /\ q * r <= i - 1 /\ i - 1 < q * r + q
      <3> HIDE DEF q
      <3>1. i - 1 \in Nat /\ q \in Nat \ {0}
        BY <1>3, <2>1
      <3> QED
        BY <3>1, Quotient
    <2> HIDE DEF r, q
    <2>3. r < R - 1
      <3>1. SUFFICES ASSUME R - 1 <= r PROVE FALSE
        BY <1>1, <2>2
      <3>2. (R - 1) * q <= r * q
        BY <1>1, <1>3, <2>2, <3>1, Multiples
      <3>3. r * q = q * r /\ q * r \in Nat
        BY <1>3, <2>2
      <3>4. i <= i - 1
        BY <2>1, <2>2, <3>2, <3>3, <1>1, <1>3
      <3> QED
        BY <3>4
    <2>4. r + 1 \in 1..R /\ r + 1 # R /\ (r + 1) - 1 = r
      BY <1>1, <2>2, <2>3
    <2>5. r + 1 \in Parts /\ Start(n, r + 1) = r * q /\ End(n, r + 1) = (r + 1) * q
      BY <1>2, <2>4
    <2>6. r * q = q * r /\ (r + 1) * q = q * r + q
      BY <1>3, <2>2
    <2>7. Start(n, r + 1) < i /\ i <= End(n, r + 1)
      BY <1>3, <2>2, <2>5, <2>6
    <2> QED
      BY <2>5, <2>7
  <1> QED
    BY <1>4, <1>5

-----------------------------------------------------------------------------
(* Files and rows.                                                         *)

LEMMA CellFacts ==
    ASSUME NEW s \in Sources, NEW i \in Nat
    PROVE  Cell(s, i) \in Cells /\ Cell(s, i) # Hole
  BY PartFileAssumption DEF Cell, Cells

LEMMA FileFacts ==
    ASSUME TypeOK, NEW n \in Names
    PROVE  /\ part[n] = Absent => Bytes(n) = <<>> /\ Len(Bytes(n)) = 0
           /\ part[n] # Absent => /\ part[n] \in Seq(Cells) /\ Len(part[n]) \in Nat
                                  /\ DOMAIN part[n] = 1..Len(part[n])
                                  /\ Bytes(n) = part[n]
  <1>1. part[n] \in Seq(Cells) \union {Absent}
    BY DEF TypeOK
  <1> QED
    BY <1>1 DEF Bytes

LEMMA RowFacts ==
    ASSUME NEW r \in Rows, Paired(r), r.stream # None
    PROVE  r.stream \in Sources /\ r.target \in Names /\ r.target # None /\ Size[r.stream] \in Nat \ {0}
  BY PartFileAssumption DEF Rows, Paired

\* A row that takes the place of the one in memory, while the files stay as they are.
LEMMA FilesKept ==
    ASSUME IInv, UNCHANGED files,
           job' \in Rows, Usable(job)', Paired(job)', Sound(job)', Planned(job)',
           stored' = stored \/ stored' = job',
           at' \in Stages, name' \in Names \union {None}, offset' \in Nat, body' \in Nat
    PROVE  /\ TypeOK' /\ Paired(job)' /\ Paired(stored)'
           /\ Sound(job)' /\ Sound(stored)' /\ Planned(job)' /\ Planned(stored)'
           /\ PublishedIsWhole'
  <1>1. part' = part /\ published' = published /\ litter' = litter
    BY DEF files
  <1>2. PublishedIsWhole'
    BY <1>1 DEF IInv, PublishedIsWhole
  <1>3. CASE stored' = stored
    <2>1. TypeOK'
      BY <1>1, <1>3 DEF IInv, TypeOK, Usable
    <2>2. Paired(stored)' /\ Sound(stored)' /\ Planned(stored)'
      BY <1>1, <1>3 DEF IInv, Paired, Sound, Planned, Counted
    <2> QED
      BY <1>2, <2>1, <2>2
  <1>4. CASE stored' = job'
    <2>1. TypeOK'
      BY <1>1, <1>4 DEF IInv, TypeOK, Usable
    <2>2. Paired(stored)' /\ Sound(stored)' /\ Planned(stored)'
      BY <1>4 DEF Paired, Sound, Planned, Counted
    <2> QED
      BY <1>2, <2>1, <2>2
  <1> QED
    BY <1>3, <1>4

LEMMA JobKept ==
    ASSUME IInv, UNCHANGED files, job' = job \/ job' = stored,
           stored' = stored \/ stored' = job',
           at' \in Stages, name' \in Names \union {None}, offset' \in Nat, body' \in Nat
    PROVE  /\ TypeOK' /\ Paired(job)' /\ Paired(stored)'
           /\ Sound(job)' /\ Sound(stored)' /\ Planned(job)' /\ Planned(stored)'
           /\ PublishedIsWhole'
  <1>1. part' = part /\ litter' = litter
    BY DEF files
  <1>2. job' \in Rows /\ Usable(job)' /\ Paired(job)'
    BY DEF IInv, TypeOK, Usable, Paired
  <1>3. CASE job' = job
    <2>1. Sound(job)' /\ Planned(job)'
      BY <1>1, <1>3 DEF IInv, Sound, Planned, Counted
    <2> QED
      BY <1>2, <2>1, FilesKept
  <1>4. CASE job' = stored
    <2>1. Sound(job)' /\ Planned(job)'
      BY <1>1, <1>4 DEF IInv, Sound, Planned, Counted
    <2> QED
      BY <1>2, <2>1, FilesKept
  <1> QED
    BY <1>3, <1>4

-----------------------------------------------------------------------------
(* Steps that touch no file.                                               *)

LEMMA InitIInv ==
    ASSUME Init
    PROVE  IInv
  <1>1. TypeOK
    BY PartFileAssumption DEF Init, TypeOK, Rows, Usable, Stages, NothingYet
  <1>2. Paired(job) /\ Paired(stored) /\ Sound(job) /\ Sound(stored)
    BY DEF Init, Paired, Sound
  <1>3. Planned(job) /\ Planned(stored) /\ PublishedIsWhole
    BY DEF Init, Planned, PublishedIsWhole
  <1>4. Places
    BY DEF Init, Places, Working, Named
  <1> QED
    BY <1>1, <1>2, <1>3, <1>4 DEF IInv

LEMMA StepBegin ==
    ASSUME IInv, Begin
    PROVE  IInv'
  <1>1. UNCHANGED <<job, stored, files, name, offset, body>>
    BY DEF Begin, Here, StayOnDisk, files
  <1>2. at' \in Stages /\ name' \in Names \union {None} /\ offset' \in Nat /\ body' \in Nat
    BY <1>1 DEF Begin, Goto, IInv, TypeOK, Stages
  <1>3. Places'
    BY <1>1 DEF Begin, Goto, IInv, Places, Working, Named
  <1> QED
    BY <1>1, <1>2, <1>3, JobKept DEF IInv

LEMMA StepChoiceSaved ==
    ASSUME IInv, SavesFail = FALSE, ChoiceSaved
    PROVE  IInv'
  <1>1. UNCHANGED <<job, files, name, offset, body>> /\ stored' = job /\ at = "chosen" /\ at' = "looking"
    BY DEF ChoiceSaved, Saved, Goto, Here, StayOnDisk
  <1>2. at' \in Stages /\ name' \in Names \union {None} /\ offset' \in Nat /\ body' \in Nat
    BY <1>1 DEF IInv, TypeOK, Stages
  <1>3. Places'
    BY <1>1 DEF IInv, Places, Working, Named
  <1> QED
    BY <1>1, <1>2, <1>3, JobKept DEF IInv

LEMMA StepPlanStored ==
    ASSUME IInv, PlanStored
    PROVE  IInv'
  <1>1. UNCHANGED <<job, files, name, offset, body>> /\ stored' = job /\ at = "persisting" /\ at' = "opening"
    BY DEF PlanStored, Goto, Here, StayOnDisk
  <1>2. at' \in Stages /\ name' \in Names \union {None} /\ offset' \in Nat /\ body' \in Nat
    BY <1>1 DEF IInv, TypeOK, Stages
  <1>3. /\ job.stream # None /\ name = job.target /\ Found
        /\ job.planned /\ (offset # Sized => job.got = NothingYet)
    BY <1>1 DEF IInv, Places, Working, Named
  <1>4. Found' /\ (offset' # Sized' => job'.got = NothingYet)
    BY <1>1, <1>3 DEF Found, Sized, Bytes, files
  <1>5. Places'
    BY <1>1, <1>3, <1>4 DEF Places, Working, Named
  <1> QED
    BY <1>1, <1>2, <1>5, JobKept DEF IInv

LEMMA StepSegmentsEnd ==
    ASSUME IInv, SegmentsEnd
    PROVE  IInv'
  <1>1. UNCHANGED <<job, stored, files, name, offset, body>> /\ at = "segments" /\ at' = "synced"
    BY DEF SegmentsEnd, Goto, Here, StayOnDisk
  <1>2. at' \in Stages /\ name' \in Names \union {None} /\ offset' \in Nat /\ body' \in Nat
    BY <1>1 DEF IInv, TypeOK, Stages
  <1>3. /\ job.planned /\ job.stream # None /\ name = job.target
        /\ part[name] # Absent /\ Len(part[name]) = Sized
        /\ stored.stream = job.stream /\ stored.target = job.target
    BY <1>1 DEF IInv, Places, Working, Named
  <1>4. job \in Rows /\ name \in Names /\ name # None /\ Sized \in Nat
    BY <1>3, RowFacts DEF IInv, TypeOK, Sized
  <1>5. ASSUME NEW i \in 1..Len(part[name])
        PROVE  part[name][i] = Cell(job.stream, i)
    <2>1. i \in 1..Sized
      BY <1>3
    <2>2. PICK k \in Parts : Start(Sized, k) < i /\ i <= End(Sized, k)
      BY <1>4, <2>1, RangesCover
    <2>3. job.got[k] = End(Sized, k) - Start(Sized, k)
      BY DEF SegmentsEnd, Full
    <2>4. Start(Sized, k) + job.got[k] = End(Sized, k)
      BY <1>4, <2>3, RangeBounds
    <2>5. i \in Counted(job)
      BY <2>1, <2>2, <2>4 DEF Counted, Sized
    <2> QED
      BY <1>3, <1>4, <2>5 DEF IInv, Sound
  <1>6. Right'
    BY <1>1, <1>3, <1>5 DEF Right, files
  <1>7. Places'
    BY <1>1, <1>3, <1>4, <1>6 DEF Places, Working, Named, Sized, files
  <1> QED
    BY <1>1, <1>2, <1>7, JobKept DEF IInv

LEMMA StepStreamEnds ==
    ASSUME IInv, StreamEnds
    PROVE  IInv'
  <1>1. UNCHANGED <<job, stored, files, name, offset, body>> /\ at = "linear" /\ at' = "synced"
    BY DEF StreamEnds, Goto, Here, StayOnDisk
  <1>2. at' \in Stages /\ name' \in Names \union {None} /\ offset' \in Nat /\ body' \in Nat
    BY <1>1 DEF IInv, TypeOK, Stages
  <1>3. /\ job.stream # None /\ name = job.target /\ Right
        /\ stored.stream = job.stream /\ stored.target = job.target
    BY <1>1 DEF IInv, Places, Working, Named
  <1>4. name \in Names /\ Len(part[name]) = Sized
    BY <1>3, RowFacts, FileFacts DEF IInv, TypeOK, Sized, StreamEnds, Complete, Right
  <1>5. Right'
    BY <1>1, <1>3 DEF Right, files
  <1>6. Places'
    BY <1>1, <1>3, <1>4, <1>5 DEF Places, Working, Named, Sized, files
  <1> QED
    BY <1>1, <1>2, <1>6, JobKept DEF IInv

LEMMA StepBreaks ==
    ASSUME IInv, Breaks \/ NoSuchRange \/ KeepPart
    PROVE  IInv'
  <1>1. UNCHANGED <<job, stored, files, name, offset, body>>
    BY DEF Breaks, NoSuchRange, KeepPart, Here, StayOnDisk
  <1>2. at' \in {"keeping", "stale", "closing"} /\ (at' = "stale" => at \in {"segments", "asking"})
    BY DEF Breaks, NoSuchRange, KeepPart, Goto
  <1>3. at' \in Stages /\ name' \in Names \union {None} /\ offset' \in Nat /\ body' \in Nat
    BY <1>1, <1>2 DEF IInv, TypeOK, Stages
  <1>4. Places'
    BY <1>1, <1>2 DEF IInv, Places, Working, Named
  <1> QED
    BY <1>1, <1>3, <1>4, JobKept DEF IInv

LEMMA StepClose ==
    ASSUME IInv, SavesFail = FALSE, Close
    PROVE  IInv'
  <1>1. UNCHANGED <<job, files>> /\ stored' = job /\ at' = "idle" /\ name' = None /\ offset' = 0 /\ body' = 1
    BY DEF Close, Saved, Gone, StayOnDisk
  <1>2. at' \in Stages /\ name' \in Names \union {None} /\ offset' \in Nat /\ body' \in Nat
    BY <1>1 DEF Stages
  <1>3. Places'
    BY <1>1 DEF Places, Working, Named
  <1> QED
    BY <1>1, <1>2, <1>3, JobKept DEF IInv

LEMMA StepSave ==
    ASSUME IInv, Save
    PROVE  IInv'
  <1>1. UNCHANGED <<job, files, at, name, offset, body>> /\ stored' = job
    BY DEF Save, StayOnDisk, locals
  <1>2. at' \in Stages /\ name' \in Names \union {None} /\ offset' \in Nat /\ body' \in Nat
    BY <1>1 DEF IInv, TypeOK
  <1>3. Found' = Found /\ Right' = Right /\ Sized' = Sized
    BY <1>1 DEF Found, Right, Sized, Bytes, files
  <1>4. Places'
    BY <1>1, <1>3 DEF IInv, Places, files
  <1> QED
    BY <1>1, <1>2, <1>4, JobKept DEF IInv

LEMMA StepRestart ==
    ASSUME IInv, Restart
    PROVE  IInv'
  <1>1. UNCHANGED <<stored, files>> /\ job' = stored /\ at' = "idle" /\ name' = None /\ offset' = 0 /\ body' = 1
    BY DEF Restart, Gone, StayOnDisk
  <1>2. at' \in Stages /\ name' \in Names \union {None} /\ offset' \in Nat /\ body' \in Nat
    BY <1>1 DEF Stages
  <1>3. Places'
    BY <1>1 DEF Places, Working, Named
  <1> QED
    BY <1>1, <1>2, <1>3, JobKept DEF IInv

LEMMA UnplannedRow ==
    ASSUME NEW r \in Rows, Paired(r)
    PROVE  /\ Unplanned(r) \in Rows /\ Paired(Unplanned(r)) /\ Usable(Unplanned(r))
           /\ Unplanned(r).stream = r.stream /\ Unplanned(r).target = r.target
           /\ ~Unplanned(r).planned /\ Unplanned(r).got = NothingYet
  <1>1. NothingYet \in [Parts -> Nat]
    BY DEF NothingYet
  <1>2. Unplanned(r) \in Rows
    BY <1>1 DEF Unplanned, Rows
  <1>3. /\ Unplanned(r).stream = r.stream /\ Unplanned(r).target = r.target
        /\ ~Unplanned(r).planned /\ Unplanned(r).got = NothingYet
    BY DEF Unplanned, Rows
  <1> QED
    BY <1>2, <1>3 DEF Paired, Usable

\* A row without a plan leaves no file with holes that could be deleted.
LEMMA NoHoles ==
    ASSUME IInv, ~job.planned, NEW n \in Names \ litter, part[n] # Absent, NEW i \in 1..Len(part[n])
    PROVE  part[n][i] # Hole
  BY DEF IInv, Planned

LEMMA StepChoose ==
    ASSUME IInv, NEW s \in Sources, NEW n \in Names, Choose(s, n)
    PROVE  IInv'
  <1>1. /\ UNCHANGED <<stored, files, name, offset, body>> /\ at = "choosing" /\ at' = "chosen"
        /\ job' = [job EXCEPT !.stream = s, !.target = n] /\ part[n] = Absent
    BY DEF Choose, Goto, Here, StayOnDisk, Free
  <1>2. job \in Rows /\ Paired(job) /\ job.stream = None /\ ~job.planned
    BY <1>1 DEF IInv, TypeOK, Places, Paired, Rows
  <1>3. job' \in Rows /\ job'.stream = s /\ job'.target = n /\ ~job'.planned
    BY <1>1, <1>2 DEF Rows
  <1>4. Usable(job)' /\ Paired(job)' /\ job'.stream # None
    BY <1>3, PartFileAssumption DEF Usable, Paired
  <1>5. Sound(job)'
    BY <1>1, <1>3 DEF Sound, files
  <1>6. Planned(job)'
    BY <1>1, <1>2, NoHoles DEF Planned, files
  <1>7. at' \in Stages /\ name' \in Names \union {None} /\ offset' \in Nat /\ body' \in Nat
    BY <1>1 DEF IInv, TypeOK, Stages
  <1>8. Places'
    BY <1>1, <1>3, <1>4 DEF Places, Working, Named
  <1> QED
    BY <1>1, <1>3, <1>4, <1>5, <1>6, <1>7, <1>8, FilesKept DEF IInv

LEMMA StepChoiceDropped ==
    ASSUME IInv, SavesFail = FALSE, ChoiceDropped
    PROVE  IInv'
  <1>1. /\ UNCHANGED <<files, name, offset, body>> /\ at = "chosen" /\ at' = "closing"
        /\ job' = [job EXCEPT !.stream = None, !.target = None] /\ stored' = job'
    BY DEF ChoiceDropped, Saved, Goto, Here, StayOnDisk
  <1>2. job \in Rows /\ ~job.planned
    BY <1>1 DEF IInv, TypeOK, Places
  <1>3. job' \in Rows /\ job'.stream = None /\ job'.target = None /\ ~job'.planned
    BY <1>1, <1>2 DEF Rows
  <1>4. Usable(job)' /\ Paired(job)' /\ Sound(job)'
    BY <1>3 DEF Usable, Paired, Sound
  <1>5. Planned(job)'
    BY <1>1, <1>2, NoHoles DEF Planned, files
  <1>6. at' \in Stages /\ name' \in Names \union {None} /\ offset' \in Nat /\ body' \in Nat
    BY <1>1 DEF IInv, TypeOK, Stages
  <1>7. Places'
    BY <1>1 DEF Places, Working, Named
  <1> QED
    BY <1>1, <1>3, <1>4, <1>5, <1>6, <1>7, FilesKept DEF IInv

LEMMA StepNoneLeft ==
    ASSUME IInv, SavesFail = FALSE, NoneLeft
    PROVE  IInv'
  <1>1. /\ UNCHANGED <<files, name, offset, body>> /\ at = "choosing" /\ at' = "closing"
        /\ job' = [job EXCEPT !.tried = {}] /\ stored' = job'
    BY DEF NoneLeft, Saved, Goto, Here, StayOnDisk
  <1>2. job \in Rows /\ Paired(job) /\ job.stream = None
    BY <1>1 DEF IInv, TypeOK, Places
  <1>3. job' \in Rows /\ job'.stream = None /\ job'.target = None /\ ~job'.planned /\ ~job.planned
    BY <1>1, <1>2 DEF Rows, Paired
  <1>4. Usable(job)' /\ Paired(job)' /\ Sound(job)'
    BY <1>3 DEF Usable, Paired, Sound
  <1>5. Planned(job)'
    BY <1>1, <1>3, NoHoles DEF Planned, files
  <1>6. at' \in Stages /\ name' \in Names \union {None} /\ offset' \in Nat /\ body' \in Nat
    BY <1>1 DEF IInv, TypeOK, Stages
  <1>7. Places'
    BY <1>1 DEF Places, Working, Named
  <1> QED
    BY <1>1, <1>3, <1>4, <1>5, <1>6, <1>7, FilesKept DEF IInv

\* Only what the invariant does not speak of has changed in the row.
LEMMA SameRow ==
    ASSUME IInv, UNCHANGED files, job' \in Rows,
           job'.stream = job.stream, job'.target = job.target,
           job'.planned = job.planned, job'.got = job.got
    PROVE  Usable(job)' /\ Paired(job)' /\ Sound(job)' /\ Planned(job)'
  <1>1. part' = part /\ litter' = litter
    BY DEF files
  <1>2. Counted(job)' = Counted(job)
    BY DEF Counted
  <1>3. Usable(job)' /\ Paired(job)'
    BY DEF IInv, TypeOK, Usable, Paired
  <1>4. Sound(job)' /\ Planned(job)'
    BY <1>1, <1>2 DEF IInv, Sound, Planned
  <1> QED
    BY <1>3, <1>4

LEMMA StepRangesIgnored ==
    ASSUME IInv, RangesIgnored
    PROVE  IInv'
  <1>1. /\ UNCHANGED <<stored, files, name, offset, body>> /\ at = "segments" /\ at' = "unranged"
        /\ job' = [job EXCEPT !.ignored = TRUE]
    BY DEF RangesIgnored, Goto, Here, StayOnDisk
  <1>2. job \in Rows /\ job.stream # None
    BY <1>1 DEF IInv, TypeOK, Places, Working
  <1>3. /\ job' \in Rows /\ job'.stream = job.stream /\ job'.target = job.target
        /\ job'.planned = job.planned /\ job'.got = job.got
    BY <1>1, <1>2 DEF Rows
  <1>4. at' \in Stages /\ name' \in Names \union {None} /\ offset' \in Nat /\ body' \in Nat
    BY <1>1 DEF IInv, TypeOK, Stages
  <1>5. Places'
    BY <1>1, <1>2, <1>3 DEF Places, Working, Named
  <1> QED
    BY <1>1, <1>3, <1>4, <1>5, SameRow, FilesKept DEF IInv

LEMMA StepGivesUp ==
    ASSUME IInv, GivesUp
    PROVE  IInv'
  <1>1. /\ UNCHANGED <<stored, files, name, offset, body>> /\ at' = "next"
        /\ at \in Working \union {"renaming"}
        /\ job' = [job EXCEPT !.tried = @ \union {job.stream}]
    BY DEF GivesUp, Goto, Here, StayOnDisk, Working
  <1>2. job \in Rows /\ job.stream # None /\ job.stream \in Sources
    BY <1>1, RowFacts DEF IInv, TypeOK, Places
  <1>3. /\ job' \in Rows /\ job'.stream = job.stream /\ job'.target = job.target
        /\ job'.planned = job.planned /\ job'.got = job.got
    BY <1>1, <1>2 DEF Rows
  <1>4. at' \in Stages /\ name' \in Names \union {None} /\ offset' \in Nat /\ body' \in Nat
    BY <1>1 DEF IInv, TypeOK, Stages
  <1>5. Places'
    BY <1>1, <1>2, <1>3 DEF Places, Working, Named
  <1> QED
    BY <1>1, <1>3, <1>4, <1>5, SameRow, FilesKept DEF IInv

LEMMA StepProbe ==
    ASSUME IInv, Probe
    PROVE  IInv'
  <1>1. UNCHANGED <<stored, files, name, offset, body>> /\ at = "probing" /\ at' \in {"persisting", "asking"}
    BY DEF Probe, Goto, Here, StayOnDisk
  <1>2. /\ job \in Rows /\ Paired(job) /\ job.stream # None /\ name = job.target /\ Found
        /\ stored.stream = job.stream /\ stored.target = job.target
        /\ (job.planned => offset = Sized)
    BY <1>1 DEF IInv, TypeOK, Places, Working, Named
  <1>3. at' \in Stages /\ name' \in Names \union {None} /\ offset' \in Nat /\ body' \in Nat
    BY <1>1 DEF IInv, TypeOK, Stages
  <1>4. CASE job' = job /\ (at' = "persisting" => job.planned)
    <2>1. Found' /\ Sized' = Sized
      BY <1>1, <1>2, <1>4 DEF Found, Sized, Bytes, files
    <2>2. Places'
      BY <1>1, <1>2, <1>4, <2>1 DEF Places, Working, Named
    <2> QED
      BY <1>1, <1>3, <1>4, <2>2, JobKept DEF IInv
  <1>5. CASE /\ ~job.planned /\ at' = "persisting"
             /\ job' = [job EXCEPT !.planned = TRUE, !.got = NothingYet]
    <2>1. NothingYet \in [Parts -> Nat] /\ \A k \in Parts : NothingYet[k] = 0
      BY DEF NothingYet
    <2>2. /\ job' \in Rows /\ job'.stream = job.stream /\ job'.target = job.target
          /\ job'.planned /\ job'.got = NothingYet
      BY <1>2, <1>5, <2>1 DEF Rows
    <2>3. job.stream \in Sources /\ Size[job.stream] \in Nat
      BY <1>2, RowFacts
    <2>4. Paired(job)' /\ Usable(job)'
      <3>1. \A k \in Parts : 0 <= End(Size[job.stream], k) - Start(Size[job.stream], k)
        BY <2>3, RangeBounds
      <3> QED
        BY <1>2, <2>1, <2>2, <2>3, <3>1 DEF Paired, Usable
    <2>5. Sound(job)'
      <3>1. \A i \in Nat : i \notin Counted(job)'
        <4>1. \A k \in Parts : Start(Size[job.stream], k) \in Nat
          BY <2>3, RangeBounds
        <4> QED
          BY <2>1, <2>2, <4>1 DEF Counted
      <3>2. part' = part /\ job'.target \in Names /\ (part[job.target] # Absent => Len(part[job.target]) \in Nat)
        BY <1>1, <1>2, <2>2, RowFacts, FileFacts DEF files, IInv
      <3> QED
        BY <1>2, <2>2, <3>1, <3>2 DEF IInv, Sound
    <2>6. Planned(job)'
      BY <1>1, <1>5, NoHoles DEF Planned, files
    <2>7. Found'
      BY <1>1, <1>2 DEF Found, Bytes, files
    <2>8. Places'
      BY <1>1, <1>2, <1>5, <2>2, <2>7 DEF Places, Working, Named
    <2> QED
      BY <1>1, <1>3, <2>2, <2>4, <2>5, <2>6, <2>8, FilesKept DEF IInv
  <1> QED
    BY <1>4, <1>5 DEF Probe, Goto

LEMMA StepPlanRefused ==
    ASSUME IInv, PlanRefused
    PROVE  IInv'
  <1>1. /\ UNCHANGED <<stored, files, name, offset, body>> /\ at = "persisting" /\ at' = "keeping"
        /\ job' = IF Resumed THEN job ELSE Unplanned(job)
    BY DEF PlanRefused, Goto, Here, StayOnDisk
  <1>2. job \in Rows /\ Paired(job) /\ job.stream # None /\ name = job.target /\ Found
    BY <1>1 DEF IInv, TypeOK, Places, Working, Named
  <1>3. at' \in Stages /\ name' \in Names \union {None} /\ offset' \in Nat /\ body' \in Nat
    BY <1>1 DEF IInv, TypeOK, Stages
  <1>4. Places'
    BY <1>1 DEF Places, Working, Named
  <1>5. CASE Resumed
    BY <1>1, <1>3, <1>4, <1>5, JobKept DEF IInv
  <1>6. CASE ~Resumed
    <2>1. job' = Unplanned(job) /\ offset # Sized
      BY <1>1, <1>6 DEF Resumed
    <2>2. /\ job' \in Rows /\ Paired(job)' /\ Usable(job)' /\ ~job'.planned
          /\ job'.stream = job.stream /\ job'.target = job.target
      BY <1>2, <2>1, UnplannedRow DEF Paired, Usable
    <2>3. Sound(job)'
      BY <1>1, <2>2 DEF IInv, Sound, files
    <2>4. ASSUME NEW n \in Names \ litter, part[n] # Absent, NEW i \in 1..Len(part[n]), part[n][i] = Hole
          PROVE  FALSE
      <3>1. job.target = n
        BY <2>4 DEF IInv, Planned
      <3>2. part[n][i] # Cell(job.stream, i)
        <4>1. i \in Nat /\ job.stream \in Sources
          BY <1>2, <2>4, RowFacts, FileFacts DEF IInv
        <4> QED
          BY <2>4, <4>1, CellFacts
      <3>3. Len(part[n]) = Sized
        BY <1>2, <2>4, <3>1, <3>2, RowFacts DEF IInv, Sound, Sized
      <3>4. Bytes(n) = part[n]
        BY <2>4 DEF Bytes
      <3> QED
        BY <1>2, <2>1, <3>1, <3>3, <3>4 DEF Found
    <2>5. Planned(job)'
      BY <1>1, <2>4 DEF Planned, files
    <2> QED
      BY <1>1, <1>3, <1>4, <2>2, <2>3, <2>5, FilesKept DEF IInv
  <1> QED
    BY <1>5, <1>6

LEMMA StepReserve ==
    ASSUME IInv, NEW n \in Names, Reserve(n)
    PROVE  IInv'
  <1>1. /\ UNCHANGED <<stored, files, name, offset, body>> /\ at = "synced" /\ at' = "renaming"
        /\ job' = [job EXCEPT !.target = n]
        /\ n = job.target \/ part[n] = Absent
    BY DEF Reserve, Goto, Here, StayOnDisk, Free
  <1>2. /\ job \in Rows /\ Paired(job) /\ job.stream # None /\ name = job.target
        /\ name \in Names /\ Right /\ Len(part[name]) = Sized
    BY <1>1 DEF IInv, TypeOK, Places, Working, Named
  <1>3. /\ job' \in Rows /\ job'.stream = job.stream /\ job'.target = n
        /\ job'.planned = job.planned /\ job'.got = job.got
    BY <1>1, <1>2 DEF Rows
  <1>4. Usable(job)' /\ Paired(job)'
    BY <1>2, <1>3, PartFileAssumption DEF IInv, TypeOK, Usable, Paired
  <1>5. part' = part /\ litter' = litter
    BY <1>1 DEF files
  <1>6. Counted(job)' = Counted(job)
    BY <1>3 DEF Counted
  <1>7. Sound(job)'
    BY <1>1, <1>2, <1>3, <1>5, <1>6 DEF IInv, Sound
  <1>8. ASSUME NEW f \in Names \ litter, part[f] # Absent, NEW i \in 1..Len(part[f]), part[f][i] = Hole
        PROVE  FALSE
    <2>1. f = name
      BY <1>2, <1>8 DEF IInv, Planned
    <2>2. part[f][i] = Cell(job.stream, i) /\ i \in Nat
      BY <1>2, <2>1, RowFacts, FileFacts DEF Right, IInv
    <2> QED
      BY <1>2, <1>8, <2>2, RowFacts, CellFacts
  <1>9. Planned(job)'
    BY <1>5, <1>8 DEF Planned
  <1>10. at' \in Stages /\ name' \in Names \union {None} /\ offset' \in Nat /\ body' \in Nat
    BY <1>1 DEF IInv, TypeOK, Stages
  <1>11. Right' /\ Sized' = Sized
    BY <1>2, <1>3, <1>5, <1>1 DEF Right, Sized
  <1>12. Places'
    BY <1>1, <1>2, <1>3, <1>5, <1>11, RowFacts DEF Places, Working, Named
  <1> QED
    BY <1>1, <1>3, <1>4, <1>7, <1>9, <1>10, <1>12, FilesKept DEF IInv

-----------------------------------------------------------------------------
(* Steps that delete a partial file, or fail to.                           *)

LEMMA Unlinked ==
    ASSUME IInv, NEW n \in Names, job.target = n, Unlink(n), UNCHANGED <<stored, published>>,
           job' \in Rows, Paired(job)', Usable(job)', ~job'.planned,
           job'.target = None \/ (job'.target = n /\ job'.stream = job.stream),
           at' \in Stages, name' \in Names \union {None}, offset' \in Nat, body' \in Nat
    PROVE  /\ TypeOK' /\ Paired(job)' /\ Paired(stored)'
           /\ Sound(job)' /\ Sound(stored)' /\ Planned(job)' /\ Planned(stored)'
           /\ PublishedIsWhole'
           /\ part'[n] = Absent \/ n \in litter'
  <1>1. /\ part' \in [Names -> Seq(Cells) \union {Absent}]
        /\ \A f \in Names : part'[f] = part[f] \/ part'[f] = Absent
        /\ litter \subseteq litter' /\ litter' \subseteq Names
        /\ part'[n] = Absent \/ n \in litter'
    BY DEF Unlink, IInv, TypeOK
  <1>2. TypeOK'
    BY <1>1 DEF IInv, TypeOK, Usable
  <1>3. Paired(stored)' /\ PublishedIsWhole'
    BY DEF IInv, Paired, PublishedIsWhole
  <1>4. Sound(stored)'
    <2>1. stored'.target # None => stored'.target \in Names
      BY DEF IInv, TypeOK, Rows
    <2> QED
      BY <1>1, <2>1 DEF IInv, Sound, Counted
  <1>5. Sound(job)'
    BY <1>1 DEF IInv, Sound
  <1>6. Planned(stored)'
    BY <1>1 DEF IInv, Planned
  <1>7. Planned(job)'
    BY <1>1 DEF IInv, Planned
  <1> QED
    BY <1>1, <1>2, <1>3, <1>4, <1>5, <1>6, <1>7

LEMMA StepLook ==
    ASSUME IInv, Look
    PROVE  IInv'
  <1>1. /\ UNCHANGED <<stored, published, body>> /\ at = "looking" /\ at' = "probing" /\ name' = job.target
    BY DEF Look, Goto
  <1>2. /\ job \in Rows /\ Paired(job) /\ job.stream # None /\ job.target \in Names
        /\ stored.stream = job.stream /\ stored.target = job.target
    BY <1>1, RowFacts DEF IInv, TypeOK, Places, Working, Named
  <1>3. CASE ~Mismatch /\ offset' = Len(Bytes(job.target)) /\ UNCHANGED <<job, part, litter>>
    <2>1. at' \in Stages /\ name' \in Names \union {None} /\ offset' \in Nat /\ body' \in Nat
      BY <1>1, <1>2, <1>3, FileFacts DEF IInv, TypeOK, Stages
    <2>2. Found' /\ (job'.planned => offset' = Sized')
      BY <1>1, <1>3 DEF Mismatch, Found, Sized, Bytes
    <2>3. Places'
      BY <1>1, <1>2, <1>3, <2>2 DEF Places, Working, Named
    <2> QED
      BY <1>1, <1>3, <2>1, <2>3, JobKept DEF IInv, files
  <1>4. CASE offset' = 0 /\ Unlink(job.target) /\ job' = Unplanned(job)
    <2>1. /\ job' \in Rows /\ Paired(job)' /\ Usable(job)' /\ ~job'.planned
          /\ job'.stream = job.stream /\ job'.target = job.target
      BY <1>2, <1>4, UnplannedRow DEF Paired, Usable
    <2>2. at' \in Stages /\ name' \in Names \union {None} /\ offset' \in Nat /\ body' \in Nat
      BY <1>1, <1>2, <1>4 DEF IInv, TypeOK, Stages
    <2>3. /\ TypeOK' /\ Paired(job)' /\ Paired(stored)'
          /\ Sound(job)' /\ Sound(stored)' /\ Planned(job)' /\ Planned(stored)'
          /\ PublishedIsWhole'
          /\ part'[name'] = Absent \/ name' \in litter'
      BY <1>1, <1>2, <1>4, <2>1, <2>2, Unlinked
    <2>4. Found'
      BY <1>4, <2>3 DEF Found, Bytes
    <2>5. Places'
      BY <1>1, <1>2, <2>1, <2>4 DEF Places, Working, Named
    <2> QED
      BY <2>3, <2>5 DEF IInv
  <1> QED
    BY <1>3, <1>4 DEF Look

LEMMA StepDropPart ==
    ASSUME IInv, DropPart
    PROVE  IInv'
  <1>1. /\ UNCHANGED <<stored, published, name, offset, body>> /\ at \in {"unranged", "stale"} /\ at' = "closing"
        /\ Unlink(job.target) /\ job' = Unplanned(job)
    BY DEF DropPart, Goto, Here
  <1>2. job \in Rows /\ Paired(job) /\ job.stream # None /\ job.target \in Names
    BY <1>1, RowFacts DEF IInv, TypeOK, Places
  <1>3. /\ job' \in Rows /\ Paired(job)' /\ Usable(job)' /\ ~job'.planned
        /\ job'.stream = job.stream /\ job'.target = job.target
    BY <1>1, <1>2, UnplannedRow DEF Paired, Usable
  <1>4. at' \in Stages /\ name' \in Names \union {None} /\ offset' \in Nat /\ body' \in Nat
    BY <1>1 DEF IInv, TypeOK, Stages
  <1>5. Places'
    BY <1>1 DEF Places, Working, Named
  <1> QED
    BY <1>1, <1>2, <1>3, <1>4, <1>5, Unlinked DEF IInv

LEMMA StepNextSource ==
    ASSUME IInv, NextSource
    PROVE  IInv'
  <1>1. /\ UNCHANGED <<stored, published, name, offset, body>> /\ at = "next" /\ at' = "closing"
        /\ Unlink(job.target)
        /\ job' = [Unplanned(job) EXCEPT !.stream = None, !.target = None, !.ignored = FALSE]
    BY DEF NextSource, Goto, Here
  <1>2. job \in Rows /\ Paired(job) /\ job.stream # None /\ job.target \in Names
    BY <1>1, RowFacts DEF IInv, TypeOK, Places
  <1>3. Unplanned(job) \in Rows /\ ~Unplanned(job).planned
    BY <1>2, UnplannedRow
  <1>4. job' \in Rows /\ ~job'.planned /\ job'.stream = None /\ job'.target = None
    BY <1>1, <1>3 DEF Rows
  <1>5. Paired(job)' /\ Usable(job)'
    BY <1>4 DEF Paired, Usable
  <1>6. at' \in Stages /\ name' \in Names \union {None} /\ offset' \in Nat /\ body' \in Nat
    BY <1>1 DEF IInv, TypeOK, Stages
  <1>7. Places'
    BY <1>1 DEF Places, Working, Named
  <1> QED
    BY <1>1, <1>2, <1>4, <1>5, <1>6, <1>7, Unlinked DEF IInv

LEMMA StepVanish ==
    ASSUME IInv, NEW n \in Names, Vanish(n)
    PROVE  IInv'
  <1>1. /\ UNCHANGED <<job, stored, published, litter, at, name, offset, body>> /\ at = "idle"
        /\ part' = [part EXCEPT ![n] = Absent]
    BY DEF Vanish, locals
  <1>2. /\ part' \in [Names -> Seq(Cells) \union {Absent}]
        /\ \A f \in Names : part'[f] = part[f] \/ part'[f] = Absent
    BY <1>1 DEF IInv, TypeOK
  <1>3. TypeOK' /\ Paired(job)' /\ Paired(stored)' /\ PublishedIsWhole'
    BY <1>1, <1>2 DEF IInv, TypeOK, Usable, Paired, PublishedIsWhole
  <1>4. job'.target \in Names \union {None} /\ stored'.target \in Names \union {None}
    BY <1>1 DEF IInv, TypeOK, Rows
  <1>5. Sound(job)' /\ Sound(stored)'
    BY <1>1, <1>2, <1>4 DEF IInv, Sound, Counted
  <1>6. Planned(job)' /\ Planned(stored)'
    BY <1>1, <1>2 DEF IInv, Planned
  <1>7. Places'
    BY <1>1 DEF IInv, Places, Working, Named
  <1> QED
    BY <1>3, <1>5, <1>6, <1>7 DEF IInv

-----------------------------------------------------------------------------
(* Steps that write the partial file.                                      *)

LEMMA StepOpen ==
    ASSUME IInv, Open
    PROVE  IInv'
  <1>1. /\ UNCHANGED <<job, stored, published, litter, name, offset, body>> /\ at = "opening"
        /\ at' \in {"segments", "sizing"}
    BY DEF Open, Goto, Here
  <1>2. /\ job \in Rows /\ job.stream # None /\ name = job.target /\ name \in Names /\ Found
        /\ job.planned /\ (offset # Sized => job.got = NothingYet) /\ stored = job /\ Sized \in Nat \ {0}
    BY <1>1, RowFacts DEF IInv, TypeOK, Places, Working, Named, Sized
  <1>3. at' \in Stages /\ name' \in Names \union {None} /\ offset' \in Nat /\ body' \in Nat
    BY <1>1 DEF IInv, TypeOK, Stages
  <1>4. CASE offset = Sized /\ part[name] # Absent /\ at' = "segments" /\ UNCHANGED part
    <2>1. Len(part[name]) = Sized
      BY <1>2, <1>4 DEF Found, Bytes
    <2>2. Places'
      BY <1>1, <1>2, <1>4, <2>1 DEF Places, Working, Named, Sized
    <2> QED
      BY <1>1, <1>3, <1>4, <2>2, JobKept DEF IInv, files
  <1>5. CASE offset # Sized /\ part' = [part EXCEPT ![name] = <<>>] /\ at' = "sizing"
    <2>1. /\ part' \in [Names -> Seq(Cells) \union {Absent}]
          /\ \A f \in Names : f # name => part'[f] = part[f]
          /\ part'[name] = <<>> /\ Len(part'[name]) = 0
      BY <1>2, <1>5 DEF IInv, TypeOK
    <2>2. TypeOK' /\ Paired(job)' /\ Paired(stored)' /\ PublishedIsWhole'
      BY <1>1, <1>3, <2>1 DEF IInv, TypeOK, Usable, Paired, PublishedIsWhole
    <2>3. Sound(job)' /\ Sound(stored)'
      BY <1>1, <1>2, <2>1 DEF Sound, Sized
    <2>4. Planned(job)' /\ Planned(stored)'
      BY <1>1, <1>2, <2>1 DEF IInv, Planned
    <2>5. Sized' = Sized
      BY <1>1 DEF Sized
    <2>6. Places'
      BY <1>1, <1>2, <1>5, <2>5 DEF Places, Working, Named
    <2> QED
      BY <2>2, <2>3, <2>4, <2>6 DEF IInv
  <1> QED
    BY <1>4, <1>5 DEF Open, Resumed, Goto

LEMMA StepTruncate ==
    ASSUME IInv, Truncate
    PROVE  IInv'
  <1>1. /\ UNCHANGED <<job, stored, published, litter, name, offset, body>> /\ at = "sizing" /\ at' = "segments"
        /\ part' = [part EXCEPT ![name] = [i \in 1..Sized |-> Hole]]
    BY DEF Truncate, Goto, Here
  <1>2. /\ job \in Rows /\ job.stream \in Sources /\ name = job.target /\ name \in Names
        /\ job.planned /\ job.got = NothingYet /\ stored = job /\ Sized \in Nat \ {0} /\ job.stream # None
    BY <1>1, RowFacts DEF IInv, TypeOK, Places, Working, Named, Sized
  <1>3. at' \in Stages /\ name' \in Names \union {None} /\ offset' \in Nat /\ body' \in Nat
    BY <1>1 DEF IInv, TypeOK, Stages
  <1> DEFINE holes == [i \in 1..Sized |-> Hole]
  <1>4. holes \in Seq(Cells) /\ Len(holes) = Sized /\ \A i \in 1..Sized : holes[i] = Hole
    BY <1>2 DEF Cells
  <1>5. holes # Absent
    BY <1>4, PartFileAssumption DEF Cells
  <1> HIDE DEF holes
  <1>6. /\ part' \in [Names -> Seq(Cells) \union {Absent}]
        /\ \A f \in Names : f # name => part'[f] = part[f]
        /\ part'[name] = holes
    BY <1>1, <1>2, <1>4 DEF IInv, TypeOK, holes
  <1>7. TypeOK' /\ Paired(job)' /\ Paired(stored)' /\ PublishedIsWhole'
    BY <1>1, <1>3, <1>6 DEF IInv, TypeOK, Usable, Paired, PublishedIsWhole
  <1>8. \A i \in Nat : i \notin Counted(job)'
    <2>1. \A k \in Parts : Start(Sized, k) \in Nat /\ NothingYet[k] = 0
      BY <1>2, RangeBounds DEF NothingYet
    <2> QED
      BY <1>1, <1>2, <2>1 DEF Counted, Sized
  <1>9. Sound(job)' /\ Sound(stored)'
    <2>1. job'.target = name /\ job'.stream = job.stream /\ Size[job'.stream] = Sized
      BY <1>1, <1>2 DEF Sized
    <2>2. Sound(job)'
      BY <1>2, <1>4, <1>6, <1>8, <2>1 DEF Sound
    <2>3. stored' = job'
      BY <1>1, <1>2
    <2> QED
      BY <2>2, <2>3 DEF Sound, Counted
  <1>10. Planned(job)' /\ Planned(stored)'
    BY <1>1, <1>2, <1>6 DEF IInv, Planned
  <1>11. Places'
    <2>1. part'[name'] # Absent /\ Len(part'[name']) = Sized' /\ name' = job'.target /\ stored' = job'
      BY <1>1, <1>2, <1>4, <1>5, <1>6 DEF Sized
    <2> QED
      BY <1>1, <1>2, <2>1 DEF Places, Working, Named
  <1> QED
    BY <1>7, <1>9, <1>10, <1>11 DEF IInv

LEMMA StepSegmentMoves ==
    ASSUME IInv, NEW k \in Parts, SegmentMoves(k)
    PROVE  IInv'
  <1> DEFINE c == Start(Sized, k) + job.got[k] + 1
  <1>1. /\ UNCHANGED <<stored, published, litter, at, name, offset, body>> /\ at = "segments"
        /\ part' = [part EXCEPT ![name][c] = Cell(job.stream, c)]
        /\ job' = [job EXCEPT !.got[k] = @ + 1]
        /\ job.got[k] # End(Sized, k) - Start(Sized, k)
    BY DEF SegmentMoves, Counting, locals, Full
  <1>2. /\ job \in Rows /\ job.stream # None /\ job.stream \in Sources /\ name = job.target /\ name \in Names
        /\ stored.stream = job.stream /\ stored.target = job.target
        /\ job.planned /\ part[name] # Absent /\ Len(part[name]) = Sized /\ Sized \in Nat /\ name # None
    BY <1>1, RowFacts DEF IInv, TypeOK, Places, Working, Named, Sized
  <1>3. at' \in Stages /\ name' \in Names \union {None} /\ offset' \in Nat /\ body' \in Nat
    BY <1>1 DEF IInv, TypeOK, Stages
  <1>4. job.got \in [Parts -> Nat] /\ job.got[k] < End(Sized, k) - Start(Sized, k)
    <2>1. job.got \in [Parts -> Nat] /\ job.got[k] <= End(Sized, k) - Start(Sized, k)
      BY <1>2 DEF IInv, TypeOK, Usable, Rows, Sized
    <2>2. job.got[k] \in Nat /\ End(Sized, k) - Start(Sized, k) \in Nat
      BY <1>2, <2>1, RangeBounds
    <2> QED
      BY <1>1, <2>1, <2>2
  <1>5. c \in 1..Sized /\ Cell(job.stream, c) \in Cells
    <2>1. c \in 1..Sized
      <3>1. Start(Sized, k) \in Nat /\ End(Sized, k) \in Nat /\ End(Sized, k) <= Sized /\ job.got[k] \in Nat
        BY <1>2, <1>4, RangeBounds
      <3> QED
        BY <1>2, <1>4, <3>1
    <2> QED
      BY <1>2, <2>1, CellFacts
  <1> HIDE DEF c
  <1>6. part[name] \in Seq(Cells) /\ DOMAIN part[name] = 1..Sized
    BY <1>2, FileFacts DEF IInv
  <1> DEFINE file == [part[name] EXCEPT ![c] = Cell(job.stream, c)]
  <1>7. /\ file \in Seq(Cells) /\ Len(file) = Sized /\ file[c] = Cell(job.stream, c)
        /\ \A i \in 1..Sized : i # c => file[i] = part[name][i]
    BY <1>2, <1>5, <1>6
  <1>8. file # Absent
    BY <1>7, PartFileAssumption DEF Cells
  <1> HIDE DEF file
  <1>9. /\ part' \in [Names -> Seq(Cells) \union {Absent}]
        /\ \A f \in Names : f # name => part'[f] = part[f]
        /\ part'[name] = file
    BY <1>1, <1>2, <1>7 DEF IInv, TypeOK, file
  <1>10. /\ job' \in Rows /\ job'.stream = job.stream /\ job'.target = job.target /\ job'.planned
         /\ job'.got = [job.got EXCEPT ![k] = @ + 1]
    <2>1. job' = [job EXCEPT !.got = [job.got EXCEPT ![k] = job.got[k] + 1]]
      BY <1>1
    <2>2. [job.got EXCEPT ![k] = job.got[k] + 1] \in [Parts -> Nat]
      BY <1>4
    <2> QED
      BY <1>2, <2>1, <2>2 DEF Rows
  <1>11. Usable(job)' /\ Paired(job)'
    <2>1. ASSUME NEW p \in Parts
          PROVE  job'.got[p] <= End(Sized, p) - Start(Sized, p)
      <3>1. job.got[p] <= End(Sized, p) - Start(Sized, p)
        BY <1>2 DEF IInv, TypeOK, Usable, Sized
      <3>2. CASE p = k
        <4>1. job'.got[p] = job.got[k] + 1 /\ job.got[k] \in Nat
          BY <1>4, <1>10, <3>2
        <4>2. End(Sized, k) - Start(Sized, k) \in Nat
          BY <1>2, RangeBounds
        <4> QED
          BY <1>4, <3>2, <4>1, <4>2
      <3>3. CASE p # k
        BY <1>4, <1>10, <3>1, <3>3
      <3> QED
        BY <3>2, <3>3
    <2> QED
      BY <1>2, <1>10, <2>1 DEF IInv, Usable, Paired, Sized
  <1>12. TypeOK' /\ Paired(stored)' /\ PublishedIsWhole'
    BY <1>1, <1>3, <1>9, <1>10, <1>11 DEF IInv, TypeOK, Usable, Paired, PublishedIsWhole
  <1>13. ASSUME NEW i \in 1..Sized, i # c, i \in Counted(job)'
         PROVE  i \in Counted(job)
    <2>1. PICK p \in Parts : Start(Sized, p) < i /\ i <= Start(Sized, p) + job'.got[p]
      BY <1>10, <1>13 DEF Counted, Sized
    <2>2. CASE p = k
      <3>1. job'.got[p] = job.got[k] + 1 /\ Start(Sized, k) \in Nat
        BY <1>2, <1>4, <1>10, <2>2, RangeBounds
      <3>2. i <= Start(Sized, k) + job.got[k]
        BY <1>4, <1>13, <2>1, <2>2, <3>1 DEF c
      <3> QED
        BY <2>1, <2>2, <3>2 DEF Counted, Sized
    <2>3. CASE p # k
      <3>1. job'.got[p] = job.got[p]
        BY <1>4, <1>10, <2>3
      <3> QED
        BY <2>1, <3>1 DEF Counted, Sized
    <2> QED
      BY <2>2, <2>3
  <1>14. Sound(job)'
    <2>1. \A i \in 1..Sized : \/ part[name][i] = Cell(job.stream, i)
                              \/ part[name][i] = Hole /\ i \notin Counted(job)
      BY <1>2 DEF IInv, Sound, Sized
    <2>2. \A i \in 1..Sized : \/ file[i] = Cell(job.stream, i)
                              \/ file[i] = Hole /\ i \notin Counted(job)'
      BY <1>7, <1>13, <2>1
    <2>3. Sized <= Sized /\ Size[job'.stream] = Sized /\ job'.target = name
      BY <1>2, <1>10 DEF Sized
    <2> QED
      BY <1>7, <1>9, <1>10, <2>2, <2>3 DEF Sound
  <1>15. Sound(stored)'
    <2>1. stored' = stored /\ Counted(stored)' = Counted(stored)
      BY <1>1 DEF Counted
    <2>2. \A i \in 1..Sized : \/ part[name][i] = Cell(job.stream, i)
                              \/ part[name][i] = Hole /\ (stored.planned => i \notin Counted(stored))
      BY <1>2 DEF IInv, Sound, Sized
    <2>3. \A i \in 1..Sized : \/ file[i] = Cell(job.stream, i)
                              \/ file[i] = Hole /\ (stored.planned => i \notin Counted(stored))
      BY <1>7, <2>2
    <2>4. Sized <= Sized /\ Size[stored'.stream] = Sized /\ stored'.target = name
      BY <1>2, <2>1 DEF Sized
    <2> QED
      BY <1>2, <1>7, <1>9, <2>1, <2>3, <2>4 DEF Sound
  <1>16. Planned(job)' /\ Planned(stored)'
    <2>1. Planned(job)'
      BY <1>1, <1>2, <1>9, <1>10 DEF IInv, Planned
    <2>2. ASSUME NEW i \in 1..Sized, file[i] = Hole
          PROVE  part[name][i] = Hole
      BY <1>2, <1>5, <1>7, <2>2, CellFacts
    <2>3. Planned(stored)'
      BY <1>1, <1>2, <1>7, <1>9, <2>2 DEF IInv, Planned
    <2> QED
      BY <2>1, <2>3
  <1>17. Places'
    <2>1. /\ part'[name'] # Absent /\ Len(part'[name']) = Sized' /\ name' = job'.target
          /\ stored'.stream = job'.stream /\ stored'.target = job'.target /\ job'.stream # None /\ job'.planned
      BY <1>1, <1>2, <1>7, <1>8, <1>9, <1>10 DEF Sized
    <2> QED
      BY <1>1, <2>1 DEF Places, Working, Named
  <1> QED
    BY <1>11, <1>12, <1>14, <1>15, <1>16, <1>17 DEF IInv

\* One stream: the file beside the name of the row is replaced by one whose cells are all right.
LEMMA Rewritten ==
    ASSUME IInv, NEW file, file \in Seq(Cells), file # Absent,
           UNCHANGED <<job, stored, published, litter, name, offset>>,
           job.stream # None, name = job.target, at' = "linear", at \in Working,
           part' = [part EXCEPT ![name] = file], body' = Len(file) + 1, Len(file) <= Sized,
           \A i \in 1..Len(file) : file[i] = Cell(job.stream, i)
    PROVE  IInv'
  <1>1. /\ job.stream \in Sources /\ name \in Names /\ name # None /\ Sized \in Nat
        /\ stored.stream = job.stream /\ stored.target = job.target
    BY RowFacts DEF IInv, TypeOK, Places, Sized
  <1>2. /\ part' \in [Names -> Seq(Cells) \union {Absent}]
        /\ \A f \in Names : f # name => part'[f] = part[f]
        /\ part'[name] = file
    BY <1>1 DEF IInv, TypeOK
  <1>3. at' \in Stages /\ body' \in Nat
    BY DEF Stages
  <1>4. TypeOK' /\ Paired(job)' /\ Paired(stored)' /\ PublishedIsWhole'
    BY <1>2, <1>3 DEF IInv, TypeOK, Usable, Paired, PublishedIsWhole
  <1>5. Sound(job)' /\ Sound(stored)'
    <2>1. job' = job /\ stored' = stored
      OBVIOUS
    <2> QED
      BY <1>1, <1>2, <2>1 DEF Sound, Sized
  <1>6. ASSUME NEW i \in 1..Len(file)
        PROVE  file[i] # Hole
    <2>1. i \in Nat /\ file[i] = Cell(job.stream, i)
      OBVIOUS
    <2> QED
      BY <1>1, <2>1, CellFacts
  <1>7. Planned(job)' /\ Planned(stored)'
    BY <1>2, <1>6 DEF IInv, Planned
  <1>8. Right'
    BY <1>1, <1>2 DEF Right
  <1>9. Places'
    <2>1. /\ body' = Len(part'[name']) + 1 /\ name' = job'.target /\ job'.stream # None
          /\ stored'.stream = job'.stream /\ stored'.target = job'.target
      BY <1>1, <1>2
    <2> QED
      BY <1>8, <2>1 DEF Places, Working, Named
  <1> QED
    BY <1>4, <1>5, <1>7, <1>9 DEF IInv

LEMMA StepAsk ==
    ASSUME IInv, NEW from \in 1..(offset + 1), Ask(from)
    PROVE  IInv'
  <1>1. /\ UNCHANGED <<job, stored, published, litter, name, offset>> /\ at = "asking" /\ at' = "linear"
        /\ from \in {1, offset + 1} /\ from <= Sized /\ body' = from
        /\ part' = [part EXCEPT ![name] = IF Served(offset, from) THEN Bytes(name) ELSE <<>>]
    BY DEF Ask, Goto
  <1>2. /\ job.stream # None /\ job.stream \in Sources /\ name = job.target /\ name \in Names /\ name # None
        /\ Found /\ at \in Working /\ Sized \in Nat \ {0} /\ offset \in Nat
    BY <1>1, RowFacts DEF IInv, TypeOK, Places, Working, Named, Sized
  <1>3. CASE Served(offset, from)
    <2>1. offset > 0 /\ from = offset + 1
      BY <1>3 DEF Served
    <2>2. offset = Len(Bytes(name))
      BY <1>2, <2>1 DEF Found
    <2>3. part[name] # Absent /\ Bytes(name) = part[name] /\ part[name] \in Seq(Cells)
      BY <1>2, <2>1, <2>2, FileFacts DEF IInv
    <2>4. Len(part[name]) = offset /\ Len(part[name]) < Sized
      BY <1>1, <1>2, <2>1, <2>2, <2>3
    <2>5. \A i \in 1..Len(part[name]) : part[name][i] = Cell(job.stream, i)
      BY <1>2, <2>3, <2>4 DEF IInv, Sound, Sized
    <2>6. part' = [part EXCEPT ![name] = part[name]] /\ body' = Len(part[name]) + 1 /\ Len(part[name]) <= Sized
      BY <1>1, <1>2, <1>3, <2>1, <2>3, <2>4
    <2> QED
      BY <1>1, <1>2, <2>3, <2>5, <2>6, Rewritten
  <1>4. CASE ~Served(offset, from)
    <2>1. from = 1
      BY <1>1, <1>2, <1>4 DEF Served
    <2> DEFINE empty == <<>>
    <2>2. empty \in Seq(Cells) /\ Len(empty) = 0
      OBVIOUS
    <2>3. empty # Absent
      BY <2>2, PartFileAssumption DEF Cells
    <2>4. part' = [part EXCEPT ![name] = empty]
      BY <1>1, <1>4
    <2> HIDE DEF empty
    <2>5. body' = Len(empty) + 1 /\ Len(empty) <= Sized /\ \A i \in 1..Len(empty) : empty[i] = Cell(job.stream, i)
      BY <1>1, <1>2, <2>1, <2>2
    <2> QED
      BY <1>1, <1>2, <2>2, <2>3, <2>4, <2>5, Rewritten
  <1> QED
    BY <1>3, <1>4

LEMMA StepStreamMoves ==
    ASSUME IInv, StreamMoves
    PROVE  IInv'
  <1> DEFINE file == Append(part[name], Cell(job.stream, body))
  <1>1. /\ UNCHANGED <<job, stored, published, litter, name, offset>> /\ at = "linear" /\ at' = "linear"
        /\ body <= Sized /\ body' = body + 1 /\ part' = [part EXCEPT ![name] = file]
    BY DEF StreamMoves
  <1>2. /\ job.stream # None /\ job.stream \in Sources /\ name = job.target /\ name \in Names
        /\ Right /\ body = Len(part[name]) + 1 /\ at \in Working /\ Sized \in Nat
    BY <1>1, RowFacts DEF IInv, TypeOK, Places, Working, Named, Sized
  <1>3. part[name] \in Seq(Cells) /\ Len(part[name]) \in Nat /\ Cell(job.stream, body) \in Cells
    BY <1>2, FileFacts, CellFacts DEF Right, IInv
  <1>4. file \in Seq(Cells) /\ Len(file) = body
    BY <1>2, <1>3
  <1>5. file # Absent
    BY <1>4, PartFileAssumption DEF Cells
  <1>6. \A i \in 1..Len(file) : file[i] = Cell(job.stream, i)
    BY <1>2, <1>3, <1>4 DEF Right
  <1> HIDE DEF file
  <1>7. body' = Len(file) + 1 /\ Len(file) <= Sized
    BY <1>1, <1>4
  <1> QED
    BY <1>1, <1>2, <1>4, <1>5, <1>6, <1>7, Rewritten

LEMMA StepPublish ==
    ASSUME IInv, Publish
    PROVE  IInv'
  <1>1. /\ UNCHANGED <<stored, litter, name, offset, body>> /\ at = "renaming" /\ at' = "closing"
        /\ published' = [published EXCEPT ![job.target] = part[name]]
        /\ part' = [part EXCEPT ![name] = Absent]
        /\ job' = [Unplanned(job) EXCEPT !.done = TRUE]
    BY DEF Publish, Goto, Here
  <1>2. /\ job \in Rows /\ Paired(job) /\ job.stream # None /\ job.stream \in Sources /\ job.target \in Names
        /\ name \in Names /\ Right /\ Len(part[name]) = Sized /\ Sized \in Nat
        /\ (job.target # name => part[job.target] = Absent)
    BY <1>1, RowFacts DEF IInv, TypeOK, Places, Sized
  <1>3. Unplanned(job) \in Rows /\ Unplanned(job).stream = job.stream /\ Unplanned(job).target = job.target
        /\ ~Unplanned(job).planned
    BY <1>2, UnplannedRow
  <1>4. job' \in Rows /\ job'.stream = job.stream /\ job'.target = job.target /\ ~job'.planned
    BY <1>1, <1>3 DEF Rows
  <1>5. part[name] \in Seq(Cells) /\ part[name] # Absent
    BY <1>2, FileFacts DEF Right, IInv
  <1>6. /\ part' \in [Names -> Seq(Cells) \union {Absent}]
        /\ \A f \in Names : f # name => part'[f] = part[f]
        /\ part'[name] = Absent
    BY <1>1, <1>2 DEF IInv, TypeOK
  <1>7. /\ published' \in [Names -> Seq(Cells) \union {Absent}]
        /\ \A f \in Names : f # job.target => published'[f] = published[f]
        /\ published'[job.target] = part[name]
    BY <1>1, <1>2, <1>5 DEF IInv, TypeOK
  <1>8. at' \in Stages /\ name' \in Names \union {None} /\ offset' \in Nat /\ body' \in Nat
    BY <1>1 DEF IInv, TypeOK, Stages
  <1>9. Paired(job)' /\ Paired(stored)' /\ Usable(job)' /\ Usable(stored)'
    BY <1>1, <1>2, <1>4 DEF IInv, TypeOK, Paired, Usable
  <1>10. TypeOK'
    BY <1>1, <1>4, <1>6, <1>7, <1>8, <1>9 DEF IInv, TypeOK
  <1>11. PublishedIsWhole'
    <2>1. part[name] = Whole(job.stream)
      <3>1. Whole(job.stream) \in Seq(Cells) /\ Len(Whole(job.stream)) = Sized
        <4>1. \A i \in 1..Sized : Cell(job.stream, i) \in Cells
          BY <1>2, CellFacts
        <4> QED
          BY <1>2, <4>1 DEF Whole, Sized
      <3>2. \A i \in 1..Sized : part[name][i] = Whole(job.stream)[i]
        BY <1>2 DEF Right, Whole, Sized
      <3> QED
        BY <1>2, <1>5, <3>1, <3>2
    <2>2. ASSUME NEW f \in Names, published'[f] # Absent
          PROVE  \E s \in Sources : published'[f] = Whole(s)
      <3>1. CASE f = job.target
        BY <1>2, <1>7, <2>1, <3>1
      <3>2. CASE f # job.target
        BY <1>7, <2>2, <3>2 DEF IInv, PublishedIsWhole
      <3> QED
        BY <3>1, <3>2
    <2> QED
      BY <2>2 DEF PublishedIsWhole, Whole
  <1>12. Sound(job)'
    BY <1>2, <1>4, <1>6 DEF Sound
  <1>13. Sound(stored)'
    <2>1. stored.target \in Names \union {None} /\ stored' = stored /\ None \notin Names
      BY <1>1, PartFileAssumption DEF IInv, TypeOK, Rows
    <2> QED
      BY <1>6, <2>1 DEF IInv, Sound, Counted
  <1>14. Planned(job)'
    BY <1>1, <1>2, <1>6 DEF IInv, Planned
  <1>15. Planned(stored)'
    BY <1>1, <1>6 DEF IInv, Planned
  <1>16. Places'
    BY <1>1 DEF Places, Working, Named
  <1> QED
    BY <1>9, <1>10, <1>11, <1>12, <1>13, <1>14, <1>15, <1>16 DEF IInv

-----------------------------------------------------------------------------
(* The theorems.                                                           *)

LEMMA StepIInv ==
    ASSUME IInv, SavesFail = FALSE, [Next]_vars
    PROVE  IInv'
  <1>1. CASE UNCHANGED vars
    <2>1. UNCHANGED <<job, stored, files, at, name, offset, body>>
      BY <1>1 DEF vars, files, locals
    <2>2. at' \in Stages /\ name' \in Names \union {None} /\ offset' \in Nat /\ body' \in Nat
      BY <2>1 DEF IInv, TypeOK
    <2>3. Found' = Found /\ Right' = Right /\ Sized' = Sized
      BY <2>1 DEF Found, Right, Sized, Bytes, files
    <2>4. Places'
      BY <2>1, <2>3 DEF IInv, Places, files
    <2> QED
      BY <2>1, <2>2, <2>4, JobKept DEF IInv
  <1>2. CASE Next
    <2>1. CASE Begin \/ ChoiceSaved \/ ChoiceDropped \/ NoneLeft \/ Look \/ Probe
      BY <2>1, StepBegin, StepChoiceSaved, StepChoiceDropped, StepNoneLeft, StepLook, StepProbe
    <2>2. CASE \E s \in Sources, n \in Names : Choose(s, n)
      BY <2>2, StepChoose
    <2>3. CASE PlanStored \/ PlanRefused \/ Open \/ Truncate \/ SegmentsEnd
      BY <2>3, StepPlanStored, StepPlanRefused, StepOpen, StepTruncate, StepSegmentsEnd
    <2>4. CASE \E k \in Parts : SegmentMoves(k)
      BY <2>4, StepSegmentMoves
    <2>5. CASE \E from \in 1..(offset + 1) : Ask(from)
      BY <2>5, StepAsk
    <2>6. CASE \E n \in Names : Reserve(n) \/ Vanish(n)
      BY <2>6, StepReserve, StepVanish
    <2>7. CASE StreamMoves \/ StreamEnds \/ Publish \/ Breaks \/ RangesIgnored \/ NoSuchRange
      BY <2>7, StepStreamMoves, StepStreamEnds, StepPublish, StepBreaks, StepRangesIgnored
    <2>8. CASE GivesUp \/ KeepPart \/ DropPart \/ NextSource \/ Close \/ Save \/ Restart
      BY <2>8, StepGivesUp, StepBreaks, StepDropPart, StepNextSource, StepClose, StepSave, StepRestart
    <2> QED
      BY <1>2, <2>1, <2>2, <2>3, <2>4, <2>5, <2>6, <2>7, <2>8 DEF Next
  <1> QED
    BY <1>1, <1>2

\* The inductive invariant, as long as the best-effort saves of a choice succeed.
THEOREM SpecIInv ==
    ASSUME SavesFail = FALSE
    PROVE  Spec => []IInv
  <1>1. Init => IInv
    BY InitIInv
  <1>2. IInv /\ [Next]_vars => IInv'
    BY StepIInv
  <1> QED
    BY <1>1, <1>2, PTL DEF Spec

\* The state keeps its types, and no range of a plan is ever overfull: what usableSegments()
\* checks of a stored row always holds of the rows the queue itself stored.
THEOREM SpecTypeOK ==
    ASSUME SavesFail = FALSE
    PROVE  Spec => []TypeOK
  <1>1. IInv => TypeOK
    BY DEF IInv
  <1> QED
    BY <1>1, SpecIInv, PTL

\* commit() publishes one source, whole and in order, whatever broke off, was deleted or not,
\* and was brought back by a restart before.
THEOREM SpecPublishedIsWhole ==
    ASSUME SavesFail = FALSE
    PROVE  Spec => []PublishedIsWhole
  <1>1. IInv => PublishedIsWhole
    BY DEF IInv
  <1> QED
    BY <1>1, SpecIInv, PTL

\* What a plan of transferSegment() counts is in the file, for the row in memory and for the
\* one load() would bring back.
THEOREM SpecCountedIsWritten ==
    ASSUME SavesFail = FALSE
    PROVE  Spec => []CountedIsWritten
  <1>1. ASSUME IInv, NEW r \in {job, stored}, r.planned, Len(Bytes(r.target)) = Size[r.stream],
               NEW i \in Counted(r)
        PROVE  Bytes(r.target)[i] = Cell(r.stream, i)
    <2>1. r \in Rows /\ Paired(r) /\ Sound(r) /\ r.stream # None
      BY <1>1 DEF IInv, TypeOK, Paired
    <2>2. r.target \in Names /\ r.target # None /\ Size[r.stream] \in Nat \ {0}
      BY <2>1, RowFacts
    <2>3. part[r.target] # Absent /\ Bytes(r.target) = part[r.target]
      BY <1>1, <2>2, FileFacts DEF IInv
    <2>4. i \in 1..Len(part[r.target])
      BY <1>1, <2>3 DEF Counted
    <2> QED
      BY <1>1, <2>1, <2>2, <2>3, <2>4 DEF Sound
  <1>2. IInv => CountedIsWritten
    BY <1>1 DEF CountedIsWritten
  <1> QED
    BY <1>2, SpecIInv, PTL

\* truncate() makes a file of holes only after the plan that says so is stored, and none of
\* the ways a run ends takes the plan away from the file.
THEOREM SpecHolesArePlanned ==
    ASSUME SavesFail = FALSE
    PROVE  Spec => []HolesArePlanned
  <1>1. ASSUME IInv, NEW n \in Names \ litter, NEW i \in DOMAIN Bytes(n), Bytes(n)[i] = Hole
        PROVE  stored.target = n /\ stored.planned
    <2>1. part[n] # Absent /\ Bytes(n) = part[n] /\ i \in 1..Len(part[n])
      BY <1>1, FileFacts DEF IInv, Bytes
    <2> QED
      BY <1>1, <2>1 DEF IInv, Planned
  <1>2. IInv => HolesArePlanned
    BY <1>1 DEF HolesArePlanned
  <1> QED
    BY <1>2, SpecIInv, PTL

=============================================================================
