------------------------ MODULE DownloadQueueProofs -------------------------
(***************************************************************************)
(* What holds of the scheduling of the download queue for any rows, hosts  *)
(* and settings, any number of failures and whatever people, the library   *)
(* watch and the space watch do between two awaits of a run.               *)
(*                                                                         *)
(* Sound is inductive. A step of a run touches its own row, so that for it *)
(* one shows what becomes of that row (RunKeeps) and OthersAreKept adds    *)
(* the rest; the halt, the pump, the sweeps and the requests touch many    *)
(* rows and have a lemma each. On Sound stand the settings of the pump     *)
(* (Slots, Hosting) and, last, that a row that could start is waited for   *)
(* (Awaited).                                                              *)
(*                                                                         *)
(* Some parts hold of the histories without one kind of event. The counts  *)
(* in "spent" say which events a history has had, and the parts name them. *)
(***************************************************************************)
EXTENDS DownloadQueue, SequenceTheorems, FiniteSetTheorems, WellFoundedInduction, TLAPS

-----------------------------------------------------------------------------
(* The list: a row taken out, put back at its place, or moved by one.      *)

LEMMA RemovedAt ==
    ASSUME NEW S, NEW s \in Seq(S), NEW i \in DOMAIN s
    PROVE /\ RemoveAt(s, i) \in Seq(S) /\ Len(RemoveAt(s, i)) = Len(s) - 1
          /\ \A k \in 1..(Len(s) - 1) : RemoveAt(s, i)[k] = IF k < i THEN s[k] ELSE s[k + 1]
<1> DEFINE a == SubSeq(s, 1, i - 1)
           b == SubSeq(s, i + 1, Len(s))
<1>1. Len(s) \in Nat /\ i \in 1..Len(s)
  BY LenProperties
<1>2. a \in Seq(S) /\ Len(a) = i - 1 /\ \A k \in 1..(i - 1) : a[k] = s[k]
  BY <1>1, SubSeqProperties
<1>3. b \in Seq(S) /\ Len(b) = Len(s) - i /\ \A k \in 1..(Len(s) - i) : b[k] = s[i + k]
  BY <1>1, SubSeqProperties
<1>4. /\ a \o b \in Seq(S) /\ Len(a \o b) = Len(s) - 1
      /\ \A k \in 1..(Len(s) - 1) : (a \o b)[k] = IF k <= i - 1 THEN a[k] ELSE b[k - (i - 1)]
  <2> HIDE DEF a, b
  <2> QED
    <3>1. a \o b \in Seq(S) /\ Len(a \o b) = Len(a) + Len(b)
          /\ \A k \in 1..(Len(a) + Len(b)) : (a \o b)[k] = IF k <= Len(a) THEN a[k] ELSE b[k - Len(a)]
      BY <1>2, <1>3, ConcatProperties
    <3>2. Len(a) + Len(b) = Len(s) - 1
      BY <1>1, <1>2, <1>3
    <3> QED
      BY <1>2, <3>1, <3>2
<1>5. RemoveAt(s, i) = a \o b
  BY DEF RemoveAt
<1>6. ASSUME NEW k \in 1..(Len(s) - 1) PROVE (a \o b)[k] = IF k < i THEN s[k] ELSE s[k + 1]
  <2> HIDE DEF a, b
  <2>1. CASE k < i
    BY <1>1, <1>2, <1>4, <2>1
  <2>2. CASE ~(k < i)
    <3>1. k - (i - 1) \in 1..(Len(s) - i) /\ i + (k - (i - 1)) = k + 1
      BY <1>1, <2>2
    <3>2. b[k - (i - 1)] = s[k + 1]
      BY <1>3, <3>1
    <3> QED
      BY <1>1, <1>4, <2>2, <3>2
  <2> QED
    BY <2>1, <2>2
<1> QED
  BY <1>4, <1>5, <1>6

LEMMA InsertedAt ==
    ASSUME NEW S, NEW s \in Seq(S), NEW i \in 1..(Len(s) + 1), NEW e \in S
    PROVE /\ InsertAt(s, i, e) \in Seq(S) /\ Len(InsertAt(s, i, e)) = Len(s) + 1
          /\ \A k \in 1..(Len(s) + 1) :
                InsertAt(s, i, e)[k] = IF k < i THEN s[k] ELSE IF k = i THEN e ELSE s[k - 1]
<1> DEFINE a == SubSeq(s, 1, i - 1)
           b == SubSeq(s, i, Len(s))
           c == a \o <<e>>
<1>1. Len(s) \in Nat /\ i \in 1..(Len(s) + 1)
  BY LenProperties
<1>2. a \in Seq(S) /\ Len(a) = i - 1 /\ \A k \in 1..(i - 1) : a[k] = s[k]
  BY <1>1, SubSeqProperties
<1>3. b \in Seq(S) /\ Len(b) = Len(s) - (i - 1) /\ \A k \in 1..(Len(s) - (i - 1)) : b[k] = s[(i - 1) + k]
  BY <1>1, SubSeqProperties
<1>4. /\ c \in Seq(S) /\ Len(c) = i
      /\ \A k \in 1..i : c[k] = IF k < i THEN s[k] ELSE e
  <2> HIDE DEF a
  <2>1. <<e>> \in Seq(S) /\ Len(<<e>>) = 1 /\ <<e>>[1] = e
    OBVIOUS
  <2>2. /\ c \in Seq(S) /\ Len(c) = i
        /\ \A k \in 1..i : c[k] = IF k <= i - 1 THEN a[k] ELSE <<e>>[k - (i - 1)]
    BY <1>1, <1>2, <2>1, ConcatProperties
  <2> HIDE DEF c
  <2>3. ASSUME NEW k \in 1..i PROVE c[k] = IF k < i THEN s[k] ELSE e
    <3>1. CASE k < i
      BY <1>1, <1>2, <2>2, <3>1
    <3>2. CASE k = i
      BY <1>1, <2>1, <2>2, <3>2
    <3> QED
      BY <1>1, <3>1, <3>2
  <2> QED
    BY <2>2, <2>3
<1>5. /\ c \o b \in Seq(S) /\ Len(c \o b) = Len(s) + 1
      /\ \A k \in 1..(Len(s) + 1) : (c \o b)[k] = IF k <= i THEN c[k] ELSE b[k - i]
  <2> HIDE DEF c, b
  <2>1. i + (Len(s) - (i - 1)) = Len(s) + 1
    BY <1>1
  <2>2. Len(c) + Len(b) = Len(s) + 1
    BY <1>3, <1>4, <2>1
  <2> QED
    BY <1>3, <1>4, <2>2, ConcatProperties
<1>6. InsertAt(s, i, e) = c \o b
  BY DEF InsertAt
<1>7. ASSUME NEW k \in 1..(Len(s) + 1)
      PROVE (c \o b)[k] = IF k < i THEN s[k] ELSE IF k = i THEN e ELSE s[k - 1]
  <2> HIDE DEF c, b
  <2>1. CASE k <= i
    BY <1>1, <1>4, <1>5, <2>1
  <2>2. CASE ~(k <= i)
    <3>1. k - i \in 1..(Len(s) - (i - 1)) /\ (i - 1) + (k - i) = k - 1
      BY <1>1, <2>2
    <3>2. b[k - i] = s[k - 1]
      BY <1>3, <3>1
    <3> QED
      BY <1>1, <1>5, <2>2, <3>2
  <2> QED
    BY <2>1, <2>2
<1> QED
  BY <1>5, <1>6, <1>7

LEMMA InjectiveRemoved ==
    ASSUME NEW S, NEW s \in Seq(S), IsInjective(s), NEW i \in DOMAIN s
    PROVE /\ IsInjective(RemoveAt(s, i))
          /\ Range(RemoveAt(s, i)) = Range(s) \ {s[i]}
<1> DEFINE r == RemoveAt(s, i)
<1>1. Len(s) \in Nat /\ i \in 1..Len(s) /\ DOMAIN s = 1..Len(s)
  BY LenProperties
<1>2. DOMAIN r = 1..(Len(s) - 1) /\ \A k \in 1..(Len(s) - 1) : r[k] = IF k < i THEN s[k] ELSE s[k + 1]
  BY RemovedAt, LenProperties
<1> HIDE DEF r
<1>3. IsInjective(r)
  <2>1. SUFFICES ASSUME NEW k \in DOMAIN r, NEW n \in DOMAIN r, r[k] = r[n] PROVE k = n
    BY DEF IsInjective
  <2> DEFINE Old(m) == IF m < i THEN m ELSE m + 1
  <2>2. Old(k) \in DOMAIN s /\ Old(n) \in DOMAIN s /\ r[k] = s[Old(k)] /\ r[n] = s[Old(n)]
    BY <1>1, <1>2
  <2>3. Old(k) = Old(n)
    BY <2>1, <2>2 DEF IsInjective
  <2> QED
    BY <1>1, <1>2, <2>3
<1>4. ASSUME NEW k \in DOMAIN r PROVE r[k] \in Range(s) \ {s[i]}
  BY <1>1, <1>2 DEF IsInjective, Range
<1>5. ASSUME NEW k \in DOMAIN s, k # i PROVE s[k] \in Range(r)
  <2>1. CASE k < i
    BY <1>1, <1>2, <2>1 DEF Range
  <2>2. CASE k > i
    <3>1. k - 1 \in DOMAIN r /\ ~(k - 1 < i) /\ (k - 1) + 1 = k
      BY <1>1, <1>2, <2>2
    <3>2. r[k - 1] = s[k]
      BY <1>2, <3>1
    <3> QED
      BY <3>1, <3>2 DEF Range
  <2> QED
    BY <1>1, <1>5, <2>1, <2>2
<1> QED
  BY <1>3, <1>4, <1>5 DEF Range, r

LEMMA InjectiveInserted ==
    ASSUME NEW S, NEW s \in Seq(S), IsInjective(s), NEW i \in 1..(Len(s) + 1), NEW e \in S, e \notin Range(s)
    PROVE /\ IsInjective(InsertAt(s, i, e))
          /\ Range(InsertAt(s, i, e)) = Range(s) \union {e}
<1> DEFINE r == InsertAt(s, i, e)
<1>1. Len(s) \in Nat /\ i \in 1..(Len(s) + 1) /\ DOMAIN s = 1..Len(s)
  BY LenProperties
<1>2. /\ DOMAIN r = 1..(Len(s) + 1)
      /\ \A k \in 1..(Len(s) + 1) : r[k] = IF k < i THEN s[k] ELSE IF k = i THEN e ELSE s[k - 1]
  BY InsertedAt, LenProperties
<1> HIDE DEF r
<1>3. \A k \in DOMAIN s : s[k] # e
  BY DEF Range
<1>4. IsInjective(r)
  BY <1>1, <1>2, <1>3 DEF IsInjective
<1>5. ASSUME NEW k \in DOMAIN r PROVE r[k] \in Range(s) \union {e}
  BY <1>1, <1>2 DEF Range
<1>6. ASSUME NEW k \in DOMAIN s PROVE s[k] \in Range(r)
  <2>1. CASE k < i
    BY <1>1, <1>2, <2>1 DEF Range
  <2>2. CASE k >= i
    <3>1. k + 1 \in DOMAIN r /\ ~(k + 1 < i) /\ k + 1 # i /\ (k + 1) - 1 = k
      BY <1>1, <1>2, <2>2
    <3>2. r[k + 1] = s[k]
      BY <1>2, <3>1
    <3> QED
      BY <3>1, <3>2 DEF Range
  <2> QED
    BY <1>1, <2>1, <2>2
<1>7. e \in Range(r)
  BY <1>1, <1>2 DEF Range
<1> QED
  BY <1>4, <1>5, <1>6, <1>7 DEF Range, r

LEMMA Swapped ==
    ASSUME NEW S, NEW s \in Seq(S), IsInjective(s), NEW i \in 1..(Len(s) - 1)
    PROVE LET r == [s EXCEPT ![i] = s[i + 1], ![i + 1] = s[i]] IN
          r \in Seq(S) /\ IsInjective(r) /\ Range(r) = Range(s)
<1> DEFINE r == [s EXCEPT ![i] = s[i + 1], ![i + 1] = s[i]]
<1>1. Len(s) \in Nat /\ i \in DOMAIN s /\ i + 1 \in DOMAIN s /\ i + 1 # i /\ DOMAIN s = 1..Len(s)
  BY LenProperties
<1>2. s[i] \in S /\ s[i + 1] \in S
  BY <1>1, ElementOfSeq
<1>3. DOMAIN r = DOMAIN s /\ r[i] = s[i + 1] /\ r[i + 1] = s[i] /\ \A k \in DOMAIN s \ {i, i + 1} : r[k] = s[k]
  BY <1>1
<1>4. r \in Seq(S)
  BY <1>2, ExceptSeq
<1> HIDE DEF r
<1>5. IsInjective(r)
  BY <1>1, <1>3 DEF IsInjective
<1>6. Range(r) = Range(s)
  BY <1>1, <1>3 DEF Range
<1> QED
  BY <1>4, <1>5, <1>6 DEF r

-----------------------------------------------------------------------------
(* The definitions every step expands.                                     *)

Running == {"checking", "downloading"}

USE DEF row, choice, runs, disk, rights, asks, timers, Others, Spend, Statuses, Reasons, Stages, Errors, Tidyings,
        Bounds, SetStatus, Row, Drop, Chosen, Profile, NoRetries, Discard, Searching, GivesUp, PauseFor, Running, Stop,
        Goto, Meet, Idle, Close, CloseLater, Budget, Active, Kinds

-----------------------------------------------------------------------------
(* What is true of a row between two steps, wherever its run is.           *)

\* What a stage may rely on: a budget that is about to be spent is not spent yet, the statuses a
\* stage excludes, and a run that somebody paused or whose row is gone has been told to stop.
Stage(k) ==
    /\ at[k] = "tidying" /\ why[k] = "stale" => retry[k] < RetryLimit
    /\ Kind[k] # "direct" /\ stream[k] # None => GivenUp(k) \/ tried[k] < SourceLimit
    /\ GivenUp(k) => tried[k] > 0
    /\ status[k] = "failed" => at[k] = "idle"
    /\ status[k] = "checking" => at[k] \notin {"moving", "publishing", "announcing"}
    /\ status[k] = "paused" /\ reason[k] = "user" /\ at[k] # "idle" => k \in pauseRequested
    /\ k \in pauseRequested => k \in aborted
    /\ at[k] # "idle" /\ k \notin Listed /\ (out = Nothing \/ k # out.job) => k \in aborted

\* What the list promises of a listed row: if it is shown as running it has a run that was not told
\* to stop, and while the queue is halted every run was. A removal whose write fails puts its row
\* back with a run that the events in between passed over, because the row was not listed.
Followed(k) ==
    spent["kept"] = 0 /\ k \in Listed =>
        /\ status[k] \in Running => at[k] # "idle" /\ k \notin aborted
        /\ at[k] = "announcing" => status[k] # "downloading"
        /\ reason[k] = "storage" /\ at[k] # "idle" => status[k] = "paused" /\ k \in aborted
        /\ status[k] = "paused" /\ reason[k] = "storage" => halt
        /\ halt /\ at[k] # "idle" => k \in aborted
\* A paused row has a run only if that run was told to stop. A row that the library watch listed may
\* be resumed and started before its turn comes, is then queued under its run, and paused as a
\* queued row is: that takes a resume and a library that changed its type.
Held(k) ==
    /\ spent["resumes"] = 0 \/ spent["sweeps"] = 0 => (status[k] = "paused" /\ at[k] # "idle" => k \in aborted)
    /\ spent["sweeps"] = 0 => reason[k] # "library" /\ k \in allowed
\* A finished row has no run but the one that announces it. The halt pauses that row too, and the
\* watch of the libraries queues it if it had listed it before.
Settled(k) ==
    spent["sweeps"] = 0 /\ spent["storage"] = 0 =>
        /\ status[k] = "completed" => at[k] \in {"idle", "announcing"}
        /\ at[k] \in {"failing", "tidying"} => why[k] # "storage"

\* What the counts say of the world: without resumes none is under way, and so on.
World ==
    /\ spent["resumes"] = 0 => resuming = {}
    /\ spent["sweeps"] = 0 => library = "accepts" /\ waking = {}
    /\ spent["removals"] = 0 => out = Nothing /\ spent["kept"] = 0
    /\ MaxRemovals = 0 => spent["removals"] = 0
    /\ MaxSweeps = 0 => spent["sweeps"] = 0
    /\ MaxStorage = 0 => spent["storage"] = 0

Listing == IsInjective(jobs) /\ (out # Nothing => out.job \notin Listed)
Sound == TypeOK /\ Listing /\ World /\ \A k \in Jobs : Stage(k) /\ Followed(k) /\ Held(k) /\ Settled(k)

-----------------------------------------------------------------------------
(* A step of a run touches its own row.                                    *)

Alone(j) ==
    /\ UNCHANGED <<jobs, halt, library, allowed, resuming, waking, out>>
    /\ spent'["storage"] = 0 => spent["storage"] = 0
    /\ UNCHANGED <<spent["kept"], spent["sweeps"], spent["resumes"], spent["removals"]>>
    /\ MaxStorage = 0 => spent'["storage"] = 0
    /\ \A k \in Jobs \ {j} :
         /\ UNCHANGED <<status[k], reason[k], stream[k], tried[k], retry[k], at[k], why[k]>>
         /\ k \in aborted' <=> k \in aborted
         /\ k \in pauseRequested' <=> k \in pauseRequested
RunKeeps(j) == TypeOK' /\ Alone(j) /\ Stage(j)' /\ Followed(j)' /\ Held(j)' /\ Settled(j)'

LEMMA Limits ==
    /\ RetryLimit \in Nat /\ SourceLimit \in Nat /\ SourceLimit > 0 /\ Kind \in [Jobs -> Kinds]
BY QueueAssumption

LEMMA Budgets == {MaxFaults, MaxStorage, MaxPauses, MaxResumes, MaxRemovals, MaxKept, MaxSweeps, MaxRestarts} \subseteq Nat
BY QueueAssumption

LEMMA SpentCounts ==
    ASSUME spent \in [Bounds -> Nat], NEW kind \in Bounds, NEW most \in Nat, Spend(kind, most)
    PROVE spent'[kind] # 0 /\ most # 0 /\ \A b \in Bounds \ {kind} : spent'[b] = spent[b]
<1>1. spent' = [spent EXCEPT ![kind] = spent[kind] + 1] /\ spent[kind] \in Nat /\ spent[kind] < most
  OBVIOUS
<1>2. spent[kind] + 1 # 0 /\ most # 0
  BY <1>1
<1> QED
  BY <1>1, <1>2

LEMMA SpentTyped ==
    ASSUME spent \in [Bounds -> Nat], NEW kind \in Bounds, NEW most, Spend(kind, most)
    PROVE spent' \in [Bounds -> Nat]
<1>1. spent' = [spent EXCEPT ![kind] = spent[kind] + 1]
  OBVIOUS
<1>2. spent[kind] \in Nat
  OBVIOUS
<1>3. spent[kind] + 1 \in Nat
  BY <1>2
<1> QED
  BY <1>1, <1>3

LEMMA StoppedAlone == ASSUME Sound, NEW j \in Jobs, Stopped(j) PROVE RunKeeps(j)
<1>1. TypeOK /\ Stage(j) /\ Followed(j) /\ Held(j) /\ Settled(j) /\ World
  BY DEF Sound
<1>2. TypeOK'
  <2>1. status' \in [Jobs -> Statuses] /\ reason' \in [Jobs -> Reasons]
    BY <1>1 DEF TypeOK, Stopped
  <2>2. stream' \in [Jobs -> Hosts \union {None}] /\ bound' \subseteq Jobs
    BY <1>1 DEF TypeOK, Stopped
  <2>3. tried' \in [Jobs -> 0..SourceLimit] /\ retry' \in [Jobs -> 0..RetryLimit] /\ later' \subseteq Jobs
    BY <1>1, Limits DEF TypeOK, Stage, Stopped
  <2>4. at' \in [Jobs -> Stages] /\ why' \in [Jobs -> Errors \union Tidyings]
    BY <1>1 DEF TypeOK, Stopped
  <2>5. aborted' \subseteq Active' /\ pauseRequested' \subseteq Active'
    BY <1>1 DEF TypeOK, Stopped
  <2>6. halt' \in BOOLEAN /\ room' \in BOOLEAN /\ pumpDue' \in BOOLEAN /\ retryTimer' \in BOOLEAN
    BY <1>1 DEF TypeOK, Stopped
  <2>7. spent' \in [Bounds -> Nat]
    BY <1>1, SpentTyped DEF TypeOK, Stopped
  <2>8. UNCHANGED <<jobs, library, allowed, resuming, waking, out, userPaused>>
    BY DEF Stopped
  <2> QED
    BY <1>1, <2>1, <2>2, <2>3, <2>4, <2>5, <2>6, <2>7, <2>8 DEF TypeOK
<1>3. Alone(j)
  BY <1>1 DEF TypeOK, World, Alone, Stopped
<1>l. Listed' = Listed
  BY <1>3 DEF Alone, Listed
<1>4. Stage(j)'
  BY <1>1, <1>l, Limits DEF TypeOK, Stage, GivenUp, Stopped
<1>5. Followed(j)'
  BY <1>1, <1>3, <1>l DEF TypeOK, Alone, Followed, Stage, Stopped
<1>6. Held(j)'
  BY <1>1, <1>3 DEF TypeOK, Alone, Held, World, Stopped
<1>7. Settled(j)'
  BY <1>1, <1>3 DEF TypeOK, Alone, Held, World, Settled, Stopped
<1> QED
  BY <1>2, <1>3, <1>4, <1>5, <1>6, <1>7 DEF RunKeeps

LEMMA RefusedAlone == ASSUME Sound, NEW j \in Jobs, Refused(j) PROVE RunKeeps(j)
<1>1. TypeOK /\ Stage(j) /\ Followed(j) /\ Held(j) /\ Settled(j) /\ World
  BY DEF Sound
<1>2. TypeOK'
  <2>1. status' \in [Jobs -> Statuses] /\ reason' \in [Jobs -> Reasons]
    BY <1>1 DEF TypeOK, Refused, Refusal, LibraryRefuses
  <2>2. stream' \in [Jobs -> Hosts \union {None}] /\ bound' \subseteq Jobs
    BY <1>1 DEF TypeOK, Refused, Refusal, LibraryRefuses
  <2>3. tried' \in [Jobs -> 0..SourceLimit] /\ retry' \in [Jobs -> 0..RetryLimit] /\ later' \subseteq Jobs
    BY <1>1, Limits DEF TypeOK, Stage, Refused, Refusal, LibraryRefuses
  <2>4. at' \in [Jobs -> Stages] /\ why' \in [Jobs -> Errors \union Tidyings]
    BY <1>1 DEF TypeOK, Refused, Refusal, LibraryRefuses
  <2>5. aborted' \subseteq Active' /\ pauseRequested' \subseteq Active'
    BY <1>1 DEF TypeOK, Refused, Refusal, LibraryRefuses
  <2>6. halt' \in BOOLEAN /\ room' \in BOOLEAN /\ pumpDue' \in BOOLEAN /\ retryTimer' \in BOOLEAN
    BY <1>1 DEF TypeOK, Refused, Refusal, LibraryRefuses
  <2>7. spent' \in [Bounds -> Nat]
    BY <1>1, SpentTyped DEF TypeOK, Refused, Refusal, LibraryRefuses
  <2>8. UNCHANGED <<jobs, library, allowed, resuming, waking, out, userPaused>>
    BY DEF Refused, Refusal, LibraryRefuses
  <2> QED
    BY <1>1, <2>1, <2>2, <2>3, <2>4, <2>5, <2>6, <2>7, <2>8 DEF TypeOK
<1>3. Alone(j)
  BY <1>1 DEF TypeOK, World, Alone, Refused, Refusal, LibraryRefuses
<1>l. Listed' = Listed
  BY <1>3 DEF Alone, Listed
<1>4. Stage(j)'
  BY <1>1, <1>l, Limits DEF TypeOK, Stage, GivenUp, Refused, Refusal, LibraryRefuses
<1>5. Followed(j)'
  BY <1>1, <1>3, <1>l DEF TypeOK, Alone, Followed, Stage, Refused, Refusal, LibraryRefuses
<1>6. Held(j)'
  BY <1>1, <1>3 DEF TypeOK, Alone, Held, World, Refused, Refusal, LibraryRefuses
<1>7. Settled(j)'
  BY <1>1, <1>3 DEF TypeOK, Alone, Held, World, Settled, Refused, Refusal, LibraryRefuses
<1> QED
  BY <1>2, <1>3, <1>4, <1>5, <1>6, <1>7 DEF RunKeeps

LEMMA ResolveAlone == ASSUME Sound, NEW j \in Jobs, Resolve(j) PROVE RunKeeps(j)
<1>1. TypeOK /\ Stage(j) /\ Followed(j) /\ Held(j) /\ Settled(j) /\ World
  BY DEF Sound
<1>2. TypeOK'
  <2>1. status' \in [Jobs -> Statuses] /\ reason' \in [Jobs -> Reasons]
    BY <1>1 DEF TypeOK, Resolve
  <2>2. stream' \in [Jobs -> Hosts \union {None}] /\ bound' \subseteq Jobs
    BY <1>1 DEF TypeOK, Resolve
  <2>3. tried' \in [Jobs -> 0..SourceLimit] /\ retry' \in [Jobs -> 0..RetryLimit] /\ later' \subseteq Jobs
    BY <1>1, Limits DEF TypeOK, Stage, Resolve
  <2>4. at' \in [Jobs -> Stages] /\ why' \in [Jobs -> Errors \union Tidyings]
    BY <1>1 DEF TypeOK, Resolve
  <2>5. aborted' \subseteq Active' /\ pauseRequested' \subseteq Active'
    BY <1>1 DEF TypeOK, Resolve
  <2>6. halt' \in BOOLEAN /\ room' \in BOOLEAN /\ pumpDue' \in BOOLEAN /\ retryTimer' \in BOOLEAN
    BY <1>1 DEF TypeOK, Resolve
  <2>7. spent' \in [Bounds -> Nat]
    BY <1>1, SpentTyped DEF TypeOK, Resolve
  <2>8. UNCHANGED <<jobs, library, allowed, resuming, waking, out, userPaused>>
    BY DEF Resolve
  <2> QED
    BY <1>1, <2>1, <2>2, <2>3, <2>4, <2>5, <2>6, <2>7, <2>8 DEF TypeOK
<1>3. Alone(j)
  BY <1>1 DEF TypeOK, World, Alone, Resolve
<1>l. Listed' = Listed
  BY <1>3 DEF Alone, Listed
<1>4. Stage(j)'
  BY <1>1, <1>l, Limits DEF TypeOK, Stage, GivenUp, Resolve
<1>5. Followed(j)'
  BY <1>1, <1>3, <1>l DEF TypeOK, Alone, Followed, Stage, Resolve
<1>6. Held(j)'
  BY <1>1, <1>3 DEF TypeOK, Alone, Held, World, Resolve
<1>7. Settled(j)'
  BY <1>1, <1>3 DEF TypeOK, Alone, Held, World, Settled, Resolve
<1> QED
  BY <1>2, <1>3, <1>4, <1>5, <1>6, <1>7 DEF RunKeeps

LEMMA NoneFoundAlone == ASSUME Sound, NEW j \in Jobs, NoneFound(j) PROVE RunKeeps(j)
<1>1. TypeOK /\ Stage(j) /\ Followed(j) /\ Held(j) /\ Settled(j) /\ World
  BY DEF Sound
<1>2. TypeOK'
  <2>1. status' \in [Jobs -> Statuses] /\ reason' \in [Jobs -> Reasons]
    BY <1>1 DEF TypeOK, NoneFound
  <2>2. stream' \in [Jobs -> Hosts \union {None}] /\ bound' \subseteq Jobs
    BY <1>1 DEF TypeOK, NoneFound
  <2>3. tried' \in [Jobs -> 0..SourceLimit] /\ retry' \in [Jobs -> 0..RetryLimit] /\ later' \subseteq Jobs
    BY <1>1, Limits DEF TypeOK, Stage, NoneFound
  <2>4. at' \in [Jobs -> Stages] /\ why' \in [Jobs -> Errors \union Tidyings]
    BY <1>1 DEF TypeOK, NoneFound
  <2>5. aborted' \subseteq Active' /\ pauseRequested' \subseteq Active'
    BY <1>1 DEF TypeOK, NoneFound
  <2>6. halt' \in BOOLEAN /\ room' \in BOOLEAN /\ pumpDue' \in BOOLEAN /\ retryTimer' \in BOOLEAN
    BY <1>1 DEF TypeOK, NoneFound
  <2>7. spent' \in [Bounds -> Nat]
    BY <1>1, SpentTyped DEF TypeOK, NoneFound
  <2>8. UNCHANGED <<jobs, library, allowed, resuming, waking, out, userPaused>>
    BY DEF NoneFound
  <2> QED
    BY <1>1, <2>1, <2>2, <2>3, <2>4, <2>5, <2>6, <2>7, <2>8 DEF TypeOK
<1>3. Alone(j)
  BY <1>1 DEF TypeOK, World, Alone, NoneFound
<1>l. Listed' = Listed
  BY <1>3 DEF Alone, Listed
<1>4. Stage(j)'
  BY <1>1, <1>l, Limits DEF TypeOK, Stage, GivenUp, NoneFound
<1>5. Followed(j)'
  BY <1>1, <1>3, <1>l DEF TypeOK, Alone, Followed, Stage, NoneFound
<1>6. Held(j)'
  BY <1>1, <1>3 DEF TypeOK, Alone, Held, World, NoneFound
<1>7. Settled(j)'
  BY <1>1, <1>3 DEF TypeOK, Alone, Held, World, Settled, NoneFound
<1> QED
  BY <1>2, <1>3, <1>4, <1>5, <1>6, <1>7 DEF RunKeeps

LEMMA LookupBreaksAlone == ASSUME Sound, NEW j \in Jobs, LookupBreaks(j) PROVE RunKeeps(j)
<1>1. TypeOK /\ Stage(j) /\ Followed(j) /\ Held(j) /\ Settled(j) /\ World
  BY DEF Sound
<1>2. TypeOK'
  <2>1. status' \in [Jobs -> Statuses] /\ reason' \in [Jobs -> Reasons]
    BY <1>1 DEF TypeOK, LookupBreaks
  <2>2. stream' \in [Jobs -> Hosts \union {None}] /\ bound' \subseteq Jobs
    BY <1>1 DEF TypeOK, LookupBreaks
  <2>3. tried' \in [Jobs -> 0..SourceLimit] /\ retry' \in [Jobs -> 0..RetryLimit] /\ later' \subseteq Jobs
    BY <1>1, Limits DEF TypeOK, Stage, LookupBreaks
  <2>4. at' \in [Jobs -> Stages] /\ why' \in [Jobs -> Errors \union Tidyings]
    BY <1>1 DEF TypeOK, LookupBreaks
  <2>5. aborted' \subseteq Active' /\ pauseRequested' \subseteq Active'
    BY <1>1 DEF TypeOK, LookupBreaks
  <2>6. halt' \in BOOLEAN /\ room' \in BOOLEAN /\ pumpDue' \in BOOLEAN /\ retryTimer' \in BOOLEAN
    BY <1>1 DEF TypeOK, LookupBreaks
  <2>7. spent' \in [Bounds -> Nat]
    BY <1>1, SpentTyped DEF TypeOK, LookupBreaks
  <2>8. UNCHANGED <<jobs, library, allowed, resuming, waking, out, userPaused>>
    BY DEF LookupBreaks
  <2> QED
    BY <1>1, <2>1, <2>2, <2>3, <2>4, <2>5, <2>6, <2>7, <2>8 DEF TypeOK
<1>3. Alone(j)
  BY <1>1 DEF TypeOK, World, Alone, LookupBreaks
<1>l. Listed' = Listed
  BY <1>3 DEF Alone, Listed
<1>4. Stage(j)'
  <2>1. /\ at[j] = "resolving" /\ at'[j] \in {"failing", "tidying"} /\ why'[j] \in {"transient", "again"}
        /\ UNCHANGED <<jobs, row, choice, retry, later, aborted, pauseRequested, out>>
    BY <1>1 DEF TypeOK, LookupBreaks
  <2> QED
    BY <1>1, <1>l, <2>1 DEF Stage, GivenUp
<1>5. Followed(j)'
  BY <1>1, <1>3, <1>l DEF TypeOK, Alone, Followed, Stage, LookupBreaks
<1>6. Held(j)'
  BY <1>1, <1>3 DEF TypeOK, Alone, Held, World, LookupBreaks
<1>7. Settled(j)'
  BY <1>1, <1>3 DEF TypeOK, Alone, Held, World, Settled, LookupBreaks
<1> QED
  BY <1>2, <1>3, <1>4, <1>5, <1>6, <1>7 DEF RunKeeps

LEMMA SourceFoundAlone == ASSUME Sound, NEW j \in Jobs, NEW h \in Hosts, SourceFound(j, h) PROVE RunKeeps(j)
<1>1. TypeOK /\ Stage(j) /\ Followed(j) /\ Held(j) /\ Settled(j) /\ World
  BY DEF Sound
<1>2. TypeOK'
  <2>1. status' \in [Jobs -> Statuses] /\ reason' \in [Jobs -> Reasons]
    BY <1>1 DEF TypeOK, SourceFound
  <2>2. stream' \in [Jobs -> Hosts \union {None}] /\ bound' \subseteq Jobs
    BY <1>1 DEF TypeOK, SourceFound
  <2>3. tried' \in [Jobs -> 0..SourceLimit] /\ retry' \in [Jobs -> 0..RetryLimit] /\ later' \subseteq Jobs
    BY <1>1, Limits DEF TypeOK, Stage, SourceFound
  <2>4. at' \in [Jobs -> Stages] /\ why' \in [Jobs -> Errors \union Tidyings]
    BY <1>1 DEF TypeOK, SourceFound
  <2>5. aborted' \subseteq Active' /\ pauseRequested' \subseteq Active'
    BY <1>1 DEF TypeOK, SourceFound
  <2>6. halt' \in BOOLEAN /\ room' \in BOOLEAN /\ pumpDue' \in BOOLEAN /\ retryTimer' \in BOOLEAN
    BY <1>1 DEF TypeOK, SourceFound
  <2>7. spent' \in [Bounds -> Nat]
    BY <1>1, SpentTyped DEF TypeOK, SourceFound
  <2>8. UNCHANGED <<jobs, library, allowed, resuming, waking, out, userPaused>>
    BY DEF SourceFound
  <2> QED
    BY <1>1, <2>1, <2>2, <2>3, <2>4, <2>5, <2>6, <2>7, <2>8 DEF TypeOK
<1>3. Alone(j)
  BY <1>1 DEF TypeOK, World, Alone, SourceFound
<1>l. Listed' = Listed
  BY <1>3 DEF Alone, Listed
<1>4. Stage(j)'
  BY <1>1, <1>l, Limits DEF TypeOK, Stage, GivenUp, SourceFound
<1>5. Followed(j)'
  BY <1>1, <1>3, <1>l DEF TypeOK, Alone, Followed, Stage, SourceFound
<1>6. Held(j)'
  BY <1>1, <1>3 DEF TypeOK, Alone, Held, World, SourceFound
<1>7. Settled(j)'
  BY <1>1, <1>3 DEF TypeOK, Alone, Held, World, Settled, SourceFound
<1> QED
  BY <1>2, <1>3, <1>4, <1>5, <1>6, <1>7 DEF RunKeeps

LEMMA NoLibraryAlone == ASSUME Sound, NEW j \in Jobs, NoLibrary(j) PROVE RunKeeps(j)
<1>1. TypeOK /\ Stage(j) /\ Followed(j) /\ Held(j) /\ Settled(j) /\ World
  BY DEF Sound
<1>2. TypeOK'
  <2>1. status' \in [Jobs -> Statuses] /\ reason' \in [Jobs -> Reasons]
    BY <1>1 DEF TypeOK, NoLibrary
  <2>2. stream' \in [Jobs -> Hosts \union {None}] /\ bound' \subseteq Jobs
    BY <1>1 DEF TypeOK, NoLibrary
  <2>3. tried' \in [Jobs -> 0..SourceLimit] /\ retry' \in [Jobs -> 0..RetryLimit] /\ later' \subseteq Jobs
    BY <1>1, Limits DEF TypeOK, Stage, NoLibrary
  <2>4. at' \in [Jobs -> Stages] /\ why' \in [Jobs -> Errors \union Tidyings]
    BY <1>1 DEF TypeOK, NoLibrary
  <2>5. aborted' \subseteq Active' /\ pauseRequested' \subseteq Active'
    BY <1>1 DEF TypeOK, NoLibrary
  <2>6. halt' \in BOOLEAN /\ room' \in BOOLEAN /\ pumpDue' \in BOOLEAN /\ retryTimer' \in BOOLEAN
    BY <1>1 DEF TypeOK, NoLibrary
  <2>7. spent' \in [Bounds -> Nat]
    BY <1>1, SpentTyped DEF TypeOK, NoLibrary
  <2>8. UNCHANGED <<jobs, library, allowed, resuming, waking, out, userPaused>>
    BY DEF NoLibrary
  <2> QED
    BY <1>1, <2>1, <2>2, <2>3, <2>4, <2>5, <2>6, <2>7, <2>8 DEF TypeOK
<1>3. Alone(j)
  BY <1>1 DEF TypeOK, World, Alone, NoLibrary
<1>l. Listed' = Listed
  BY <1>3 DEF Alone, Listed
<1>4. Stage(j)'
  BY <1>1, <1>l, Limits DEF TypeOK, Stage, GivenUp, NoLibrary
<1>5. Followed(j)'
  BY <1>1, <1>3, <1>l DEF TypeOK, Alone, Followed, Stage, NoLibrary
<1>6. Held(j)'
  BY <1>1, <1>3 DEF TypeOK, Alone, Held, World, NoLibrary
<1>7. Settled(j)'
  BY <1>1, <1>3 DEF TypeOK, Alone, Held, World, Settled, NoLibrary
<1> QED
  BY <1>2, <1>3, <1>4, <1>5, <1>6, <1>7 DEF RunKeeps

LEMMA ChoiceDroppedAlone == ASSUME Sound, NEW j \in Jobs, ChoiceDropped(j) PROVE RunKeeps(j)
<1>1. TypeOK /\ Stage(j) /\ Followed(j) /\ Held(j) /\ Settled(j) /\ World
  BY DEF Sound
<1>2. TypeOK'
  <2>1. status' \in [Jobs -> Statuses] /\ reason' \in [Jobs -> Reasons]
    <3>1. Refusal(j) \in Reasons
      BY DEF Refusal
    <3>2. \/ UNCHANGED row
          \/ status' = [status EXCEPT ![j] = "paused"] /\ reason' = [reason EXCEPT ![j] = Refusal(j)]
      BY DEF ChoiceDropped
    <3>3. status \in [Jobs -> Statuses] /\ reason \in [Jobs -> Reasons] /\ "paused" \in Statuses
      BY <1>1 DEF TypeOK, Statuses
    <3> QED
      BY <3>1, <3>2, <3>3
  <2>2. stream' \in [Jobs -> Hosts \union {None}] /\ bound' \subseteq Jobs
    BY <1>1 DEF TypeOK, ChoiceDropped, Refusal, LibraryRefuses
  <2>3. tried' \in [Jobs -> 0..SourceLimit] /\ retry' \in [Jobs -> 0..RetryLimit] /\ later' \subseteq Jobs
    BY <1>1, Limits DEF TypeOK, Stage, ChoiceDropped, Refusal, LibraryRefuses
  <2>4. at' \in [Jobs -> Stages] /\ why' \in [Jobs -> Errors \union Tidyings]
    BY <1>1 DEF TypeOK, ChoiceDropped, Refusal, LibraryRefuses
  <2>5. aborted' \subseteq Active' /\ pauseRequested' \subseteq Active'
    BY <1>1 DEF TypeOK, ChoiceDropped, Refusal, LibraryRefuses
  <2>6. halt' \in BOOLEAN /\ room' \in BOOLEAN /\ pumpDue' \in BOOLEAN /\ retryTimer' \in BOOLEAN
    BY <1>1 DEF TypeOK, ChoiceDropped, Refusal, LibraryRefuses
  <2>7. spent' \in [Bounds -> Nat]
    BY <1>1, SpentTyped DEF TypeOK, ChoiceDropped, Refusal, LibraryRefuses
  <2>8. UNCHANGED <<jobs, library, allowed, resuming, waking, out, userPaused>>
    BY DEF ChoiceDropped, Refusal, LibraryRefuses
  <2> QED
    BY <1>1, <2>1, <2>2, <2>3, <2>4, <2>5, <2>6, <2>7, <2>8 DEF TypeOK
<1>3. Alone(j)
  BY <1>1 DEF TypeOK, World, Alone, ChoiceDropped, Refusal, LibraryRefuses
<1>l. Listed' = Listed
  BY <1>3 DEF Alone, Listed
<1>4. Stage(j)'
  BY <1>1, <1>l, Limits DEF TypeOK, Stage, GivenUp, ChoiceDropped, Refusal, LibraryRefuses
<1>5. Followed(j)'
  BY <1>1, <1>3, <1>l DEF TypeOK, Alone, Followed, Stage, ChoiceDropped, Refusal, LibraryRefuses
<1>6. Held(j)'
  BY <1>1, <1>3 DEF TypeOK, Alone, Held, World, ChoiceDropped, Refusal, LibraryRefuses
<1>7. Settled(j)'
  BY <1>1, <1>3 DEF TypeOK, Alone, Held, World, Settled, ChoiceDropped, Refusal, LibraryRefuses
<1> QED
  BY <1>2, <1>3, <1>4, <1>5, <1>6, <1>7 DEF RunKeeps

LEMMA TransferAlone == ASSUME Sound, NEW j \in Jobs, Transfer(j) PROVE RunKeeps(j)
<1>1. TypeOK /\ Stage(j) /\ Followed(j) /\ Held(j) /\ Settled(j) /\ World
  BY DEF Sound
<1>2. TypeOK'
  <2>1. status' \in [Jobs -> Statuses] /\ reason' \in [Jobs -> Reasons]
    BY <1>1 DEF TypeOK, Transfer, Known
  <2>2. stream' \in [Jobs -> Hosts \union {None}] /\ bound' \subseteq Jobs
    BY <1>1 DEF TypeOK, Transfer, Known
  <2>3. tried' \in [Jobs -> 0..SourceLimit] /\ retry' \in [Jobs -> 0..RetryLimit] /\ later' \subseteq Jobs
    BY <1>1, Limits DEF TypeOK, Stage, Transfer, Known
  <2>4. at' \in [Jobs -> Stages] /\ why' \in [Jobs -> Errors \union Tidyings]
    BY <1>1 DEF TypeOK, Transfer, Known
  <2>5. aborted' \subseteq Active' /\ pauseRequested' \subseteq Active'
    BY <1>1 DEF TypeOK, Transfer, Known
  <2>6. halt' \in BOOLEAN /\ room' \in BOOLEAN /\ pumpDue' \in BOOLEAN /\ retryTimer' \in BOOLEAN
    BY <1>1 DEF TypeOK, Transfer, Known
  <2>7. spent' \in [Bounds -> Nat]
    BY <1>1, SpentTyped DEF TypeOK, Transfer, Known
  <2>8. UNCHANGED <<jobs, library, allowed, resuming, waking, out, userPaused>>
    BY DEF Transfer, Known
  <2> QED
    BY <1>1, <2>1, <2>2, <2>3, <2>4, <2>5, <2>6, <2>7, <2>8 DEF TypeOK
<1>3. Alone(j)
  BY <1>1 DEF TypeOK, World, Alone, Transfer, Known
<1>l. Listed' = Listed
  BY <1>3 DEF Alone, Listed
<1>4. Stage(j)'
  BY <1>1, <1>l, Limits DEF TypeOK, Stage, GivenUp, Transfer, Known
<1>5. Followed(j)'
  BY <1>1, <1>3, <1>l DEF TypeOK, Alone, Followed, Stage, Transfer, Known
<1>6. Held(j)'
  BY <1>1, <1>3 DEF TypeOK, Alone, Held, World, Transfer, Known
<1>7. Settled(j)'
  BY <1>1, <1>3 DEF TypeOK, Alone, Held, World, Settled, Transfer, Known
<1> QED
  BY <1>2, <1>3, <1>4, <1>5, <1>6, <1>7 DEF RunKeeps

LEMMA SourceGoneAlone == ASSUME Sound, NEW j \in Jobs, SourceGone(j) PROVE RunKeeps(j)
<1>1. TypeOK /\ Stage(j) /\ Followed(j) /\ Held(j) /\ Settled(j) /\ World
  BY DEF Sound
<1>2. TypeOK'
  <2>1. status' \in [Jobs -> Statuses] /\ reason' \in [Jobs -> Reasons]
    BY <1>1 DEF TypeOK, SourceGone, Known
  <2>2. stream' \in [Jobs -> Hosts \union {None}] /\ bound' \subseteq Jobs
    BY <1>1 DEF TypeOK, SourceGone, Known
  <2>3. tried' \in [Jobs -> 0..SourceLimit] /\ retry' \in [Jobs -> 0..RetryLimit] /\ later' \subseteq Jobs
    BY <1>1, Limits DEF TypeOK, Stage, SourceGone, Known
  <2>4. at' \in [Jobs -> Stages] /\ why' \in [Jobs -> Errors \union Tidyings]
    BY <1>1 DEF TypeOK, SourceGone, Known
  <2>5. aborted' \subseteq Active' /\ pauseRequested' \subseteq Active'
    BY <1>1 DEF TypeOK, SourceGone, Known
  <2>6. halt' \in BOOLEAN /\ room' \in BOOLEAN /\ pumpDue' \in BOOLEAN /\ retryTimer' \in BOOLEAN
    BY <1>1 DEF TypeOK, SourceGone, Known
  <2>7. spent' \in [Bounds -> Nat]
    BY <1>1, SpentTyped DEF TypeOK, SourceGone, Known
  <2>8. UNCHANGED <<jobs, library, allowed, resuming, waking, out, userPaused>>
    BY DEF SourceGone, Known
  <2> QED
    BY <1>1, <2>1, <2>2, <2>3, <2>4, <2>5, <2>6, <2>7, <2>8 DEF TypeOK
<1>3. Alone(j)
  BY <1>1 DEF TypeOK, World, Alone, SourceGone, Known
<1>l. Listed' = Listed
  BY <1>3 DEF Alone, Listed
<1>4. Stage(j)'
  BY <1>1, <1>l, Limits DEF TypeOK, Stage, GivenUp, SourceGone, Known
<1>5. Followed(j)'
  BY <1>1, <1>3, <1>l DEF TypeOK, Alone, Followed, Stage, SourceGone, Known
<1>6. Held(j)'
  BY <1>1, <1>3 DEF TypeOK, Alone, Held, World, SourceGone, Known
<1>7. Settled(j)'
  BY <1>1, <1>3 DEF TypeOK, Alone, Held, World, Settled, SourceGone, Known
<1> QED
  BY <1>2, <1>3, <1>4, <1>5, <1>6, <1>7 DEF RunKeeps

LEMMA HostTakenAlone == ASSUME Sound, NEW j \in Jobs, HostTaken(j) PROVE RunKeeps(j)
<1>1. TypeOK /\ Stage(j) /\ Followed(j) /\ Held(j) /\ Settled(j) /\ World
  BY DEF Sound
<1>2. TypeOK'
  <2>1. status' \in [Jobs -> Statuses] /\ reason' \in [Jobs -> Reasons]
    BY <1>1 DEF TypeOK, HostTaken, Known
  <2>2. stream' \in [Jobs -> Hosts \union {None}] /\ bound' \subseteq Jobs
    BY <1>1 DEF TypeOK, HostTaken, Known
  <2>3. tried' \in [Jobs -> 0..SourceLimit] /\ retry' \in [Jobs -> 0..RetryLimit] /\ later' \subseteq Jobs
    <3>1. UNCHANGED <<tried, later>> /\ (retry' = retry \/ retry' = [k \in Jobs |-> IF k \in {j} THEN 0 ELSE retry[k]])
      BY DEF HostTaken, Known
    <3>2. retry' \in [Jobs -> 0..RetryLimit]
      <4>1. CASE UNCHANGED retry
        BY <1>1, <4>1 DEF TypeOK
      <4>2. CASE retry' = [k \in Jobs |-> IF k \in {j} THEN 0 ELSE retry[k]]
        BY <1>1, <4>2, Limits DEF TypeOK
      <4> QED
        BY <3>1, <4>1, <4>2
    <3> QED
      BY <1>1, <3>1, <3>2 DEF TypeOK
  <2>4. at' \in [Jobs -> Stages] /\ why' \in [Jobs -> Errors \union Tidyings]
    BY <1>1 DEF TypeOK, HostTaken, Known
  <2>5. aborted' \subseteq Active' /\ pauseRequested' \subseteq Active'
    BY <1>1 DEF TypeOK, HostTaken, Known
  <2>6. halt' \in BOOLEAN /\ room' \in BOOLEAN /\ pumpDue' \in BOOLEAN /\ retryTimer' \in BOOLEAN
    BY <1>1 DEF TypeOK, HostTaken, Known
  <2>7. spent' \in [Bounds -> Nat]
    BY <1>1, SpentTyped DEF TypeOK, HostTaken, Known
  <2>8. UNCHANGED <<jobs, library, allowed, resuming, waking, out, userPaused>>
    BY DEF HostTaken, Known
  <2> QED
    BY <1>1, <2>1, <2>2, <2>3, <2>4, <2>5, <2>6, <2>7, <2>8 DEF TypeOK
<1>3. Alone(j)
  BY <1>1 DEF TypeOK, World, Alone, HostTaken, Known
<1>l. Listed' = Listed
  BY <1>3 DEF Alone, Listed
<1>4. Stage(j)'
  BY <1>1, <1>l, Limits DEF TypeOK, Stage, GivenUp, HostTaken, Known
<1>5. Followed(j)'
  BY <1>1, <1>3, <1>l DEF TypeOK, Alone, Followed, Stage, HostTaken, Known
<1>6. Held(j)'
  BY <1>1, <1>3 DEF TypeOK, Alone, Held, World, HostTaken, Known
<1>7. Settled(j)'
  BY <1>1, <1>3 DEF TypeOK, Alone, Held, World, Settled, HostTaken, Known
<1> QED
  BY <1>2, <1>3, <1>4, <1>5, <1>6, <1>7 DEF RunKeeps

LEMMA TransferEndsAlone == ASSUME Sound, NEW j \in Jobs, TransferEnds(j) PROVE RunKeeps(j)
<1>1. TypeOK /\ Stage(j) /\ Followed(j) /\ Held(j) /\ Settled(j) /\ World
  BY DEF Sound
<1>2. TypeOK'
  <2>1. status' \in [Jobs -> Statuses] /\ reason' \in [Jobs -> Reasons]
    BY <1>1 DEF TypeOK, TransferEnds
  <2>2. stream' \in [Jobs -> Hosts \union {None}] /\ bound' \subseteq Jobs
    BY <1>1 DEF TypeOK, TransferEnds
  <2>3. tried' \in [Jobs -> 0..SourceLimit] /\ retry' \in [Jobs -> 0..RetryLimit] /\ later' \subseteq Jobs
    BY <1>1, Limits DEF TypeOK, Stage, TransferEnds
  <2>4. at' \in [Jobs -> Stages] /\ why' \in [Jobs -> Errors \union Tidyings]
    BY <1>1 DEF TypeOK, TransferEnds
  <2>5. aborted' \subseteq Active' /\ pauseRequested' \subseteq Active'
    BY <1>1 DEF TypeOK, TransferEnds
  <2>6. halt' \in BOOLEAN /\ room' \in BOOLEAN /\ pumpDue' \in BOOLEAN /\ retryTimer' \in BOOLEAN
    BY <1>1 DEF TypeOK, TransferEnds
  <2>7. spent' \in [Bounds -> Nat]
    BY <1>1, SpentTyped DEF TypeOK, TransferEnds
  <2>8. UNCHANGED <<jobs, library, allowed, resuming, waking, out, userPaused>>
    BY DEF TransferEnds
  <2> QED
    BY <1>1, <2>1, <2>2, <2>3, <2>4, <2>5, <2>6, <2>7, <2>8 DEF TypeOK
<1>3. Alone(j)
  BY <1>1 DEF TypeOK, World, Alone, TransferEnds
<1>l. Listed' = Listed
  BY <1>3 DEF Alone, Listed
<1>4. Stage(j)'
  BY <1>1, <1>l, Limits DEF TypeOK, Stage, GivenUp, TransferEnds
<1>5. Followed(j)'
  BY <1>1, <1>3, <1>l DEF TypeOK, Alone, Followed, Stage, TransferEnds
<1>6. Held(j)'
  BY <1>1, <1>3 DEF TypeOK, Alone, Held, World, TransferEnds
<1>7. Settled(j)'
  BY <1>1, <1>3 DEF TypeOK, Alone, Held, World, Settled, TransferEnds
<1> QED
  BY <1>2, <1>3, <1>4, <1>5, <1>6, <1>7 DEF RunKeeps

LEMMA TransferBreaksAlone == ASSUME Sound, NEW j \in Jobs, NEW e \in Errors, TransferBreaks(j, e) PROVE RunKeeps(j)
<1>1. TypeOK /\ Stage(j) /\ Followed(j) /\ Held(j) /\ Settled(j) /\ World
  BY DEF Sound
<1>2. TypeOK'
  <2>1. status' \in [Jobs -> Statuses] /\ reason' \in [Jobs -> Reasons]
    BY <1>1 DEF TypeOK, TransferBreaks, Live
  <2>2. stream' \in [Jobs -> Hosts \union {None}] /\ bound' \subseteq Jobs
    BY <1>1 DEF TypeOK, TransferBreaks, Live
  <2>3. tried' \in [Jobs -> 0..SourceLimit] /\ retry' \in [Jobs -> 0..RetryLimit] /\ later' \subseteq Jobs
    BY <1>1, Limits DEF TypeOK, Stage, TransferBreaks, Live
  <2>4. at' \in [Jobs -> Stages] /\ why' \in [Jobs -> Errors \union Tidyings]
    BY <1>1 DEF TypeOK, TransferBreaks, Live
  <2>5. aborted' \subseteq Active' /\ pauseRequested' \subseteq Active'
    BY <1>1 DEF TypeOK, TransferBreaks, Live
  <2>6. halt' \in BOOLEAN /\ room' \in BOOLEAN /\ pumpDue' \in BOOLEAN /\ retryTimer' \in BOOLEAN
    BY <1>1 DEF TypeOK, TransferBreaks, Live
  <2>7. spent' \in [Bounds -> Nat]
    <3>1. Spend("storage", MaxStorage) \/ Spend("faults", MaxFaults)
      BY Zenon DEF TransferBreaks
    <3> QED
      BY <1>1, <3>1, SpentTyped DEF TypeOK
  <2>8. UNCHANGED <<jobs, library, allowed, resuming, waking, out, userPaused>>
    BY DEF TransferBreaks, Live
  <2> QED
    BY <1>1, <2>1, <2>2, <2>3, <2>4, <2>5, <2>6, <2>7, <2>8 DEF TypeOK
<1>3. Alone(j)
  BY <1>1 DEF TypeOK, World, Alone, TransferBreaks, Live
<1>l. Listed' = Listed
  BY <1>3 DEF Alone, Listed
<1>4. Stage(j)'
  <2>1. /\ at'[j] = "failing" /\ at[j] \in {"moving", "publishing"}
        /\ UNCHANGED <<jobs, row, choice, retry, later, aborted, pauseRequested, out>>
    BY <1>1 DEF TypeOK, TransferBreaks, Live
  <2> QED
    BY <1>1, <1>l, <2>1 DEF Stage, GivenUp
<1>5. Followed(j)'
  BY <1>1, <1>3, <1>l DEF TypeOK, Alone, Followed, Stage, TransferBreaks, Live
<1>6. Held(j)'
  BY <1>1, <1>3 DEF TypeOK, Alone, Held, World, TransferBreaks, Live
<1>7. Settled(j)'
  BY <1>1, <1>3 DEF TypeOK, Alone, Held, World, Settled, TransferBreaks, Live
<1> QED
  BY <1>2, <1>3, <1>4, <1>5, <1>6, <1>7 DEF RunKeeps

LEMMA PublicationStoppedAlone == ASSUME Sound, NEW j \in Jobs, PublicationStopped(j) PROVE RunKeeps(j)
<1>1. TypeOK /\ Stage(j) /\ Followed(j) /\ Held(j) /\ Settled(j) /\ World
  BY DEF Sound
<1>2. TypeOK'
  <2>1. status' \in [Jobs -> Statuses] /\ reason' \in [Jobs -> Reasons]
    BY <1>1 DEF TypeOK, PublicationStopped, Live
  <2>2. stream' \in [Jobs -> Hosts \union {None}] /\ bound' \subseteq Jobs
    BY <1>1 DEF TypeOK, PublicationStopped, Live
  <2>3. tried' \in [Jobs -> 0..SourceLimit] /\ retry' \in [Jobs -> 0..RetryLimit] /\ later' \subseteq Jobs
    BY <1>1, Limits DEF TypeOK, Stage, PublicationStopped, Live
  <2>4. at' \in [Jobs -> Stages] /\ why' \in [Jobs -> Errors \union Tidyings]
    BY <1>1 DEF TypeOK, PublicationStopped, Live
  <2>5. aborted' \subseteq Active' /\ pauseRequested' \subseteq Active'
    BY <1>1 DEF TypeOK, PublicationStopped, Live
  <2>6. halt' \in BOOLEAN /\ room' \in BOOLEAN /\ pumpDue' \in BOOLEAN /\ retryTimer' \in BOOLEAN
    BY <1>1 DEF TypeOK, PublicationStopped, Live
  <2>7. spent' \in [Bounds -> Nat]
    BY <1>1, SpentTyped DEF TypeOK, PublicationStopped, Live
  <2>8. UNCHANGED <<jobs, library, allowed, resuming, waking, out, userPaused>>
    BY DEF PublicationStopped, Live
  <2> QED
    BY <1>1, <2>1, <2>2, <2>3, <2>4, <2>5, <2>6, <2>7, <2>8 DEF TypeOK
<1>3. Alone(j)
  BY <1>1 DEF TypeOK, World, Alone, PublicationStopped, Live
<1>l. Listed' = Listed
  BY <1>3 DEF Alone, Listed
<1>4. Stage(j)'
  BY <1>1, <1>l, Limits DEF TypeOK, Stage, GivenUp, PublicationStopped, Live
<1>5. Followed(j)'
  BY <1>1, <1>3, <1>l DEF TypeOK, Alone, Followed, Stage, PublicationStopped, Live
<1>6. Held(j)'
  BY <1>1, <1>3 DEF TypeOK, Alone, Held, World, PublicationStopped, Live
<1>7. Settled(j)'
  BY <1>1, <1>3 DEF TypeOK, Alone, Held, World, Settled, PublicationStopped, Live
<1> QED
  BY <1>2, <1>3, <1>4, <1>5, <1>6, <1>7 DEF RunKeeps

LEMMA PublicationRefusedAlone == ASSUME Sound, NEW j \in Jobs, PublicationRefused(j) PROVE RunKeeps(j)
<1>1. TypeOK /\ Stage(j) /\ Followed(j) /\ Held(j) /\ Settled(j) /\ World
  BY DEF Sound
<1>2. TypeOK'
  <2>1. status' \in [Jobs -> Statuses] /\ reason' \in [Jobs -> Reasons]
    BY <1>1 DEF TypeOK, PublicationRefused, Live, Refusal, LibraryRefuses, Withdrawn
  <2>2. stream' \in [Jobs -> Hosts \union {None}] /\ bound' \subseteq Jobs
    BY <1>1 DEF TypeOK, PublicationRefused, Live, Refusal, LibraryRefuses, Withdrawn
  <2>3. tried' \in [Jobs -> 0..SourceLimit] /\ retry' \in [Jobs -> 0..RetryLimit] /\ later' \subseteq Jobs
    BY <1>1, Limits DEF TypeOK, Stage, PublicationRefused, Live, Refusal, LibraryRefuses, Withdrawn
  <2>4. at' \in [Jobs -> Stages] /\ why' \in [Jobs -> Errors \union Tidyings]
    BY <1>1 DEF TypeOK, PublicationRefused, Live, Refusal, LibraryRefuses, Withdrawn
  <2>5. aborted' \subseteq Active' /\ pauseRequested' \subseteq Active'
    BY <1>1 DEF TypeOK, PublicationRefused, Live, Refusal, LibraryRefuses, Withdrawn
  <2>6. halt' \in BOOLEAN /\ room' \in BOOLEAN /\ pumpDue' \in BOOLEAN /\ retryTimer' \in BOOLEAN
    BY <1>1 DEF TypeOK, PublicationRefused, Live, Refusal, LibraryRefuses, Withdrawn
  <2>7. spent' \in [Bounds -> Nat]
    BY <1>1, SpentTyped DEF TypeOK, PublicationRefused, Live, Refusal, LibraryRefuses, Withdrawn
  <2>8. UNCHANGED <<jobs, library, allowed, resuming, waking, out, userPaused>>
    BY DEF PublicationRefused, Live, Refusal, LibraryRefuses, Withdrawn
  <2> QED
    BY <1>1, <2>1, <2>2, <2>3, <2>4, <2>5, <2>6, <2>7, <2>8 DEF TypeOK
<1>3. Alone(j)
  BY <1>1 DEF TypeOK, World, Alone, PublicationRefused, Live, Refusal, LibraryRefuses, Withdrawn
<1>l. Listed' = Listed
  BY <1>3 DEF Alone, Listed
<1>4. Stage(j)'
  BY <1>1, <1>l, Limits DEF TypeOK, Stage, GivenUp, PublicationRefused, Live, Refusal, LibraryRefuses, Withdrawn
<1>5. Followed(j)'
  BY <1>1, <1>3, <1>l DEF TypeOK, Alone, Followed, Stage, PublicationRefused, Live, Refusal, LibraryRefuses, Withdrawn
<1>6. Held(j)'
  BY <1>1, <1>3 DEF TypeOK, Alone, Held, World, PublicationRefused, Live, Refusal, LibraryRefuses, Withdrawn
<1>7. Settled(j)'
  BY <1>1, <1>3 DEF TypeOK, Alone, Held, World, Settled, PublicationRefused, Live, Refusal, LibraryRefuses, Withdrawn
<1> QED
  BY <1>2, <1>3, <1>4, <1>5, <1>6, <1>7 DEF RunKeeps

LEMMA PublishAlone == ASSUME Sound, NEW j \in Jobs, Publish(j) PROVE RunKeeps(j)
<1>1. TypeOK /\ Stage(j) /\ Followed(j) /\ Held(j) /\ Settled(j) /\ World
  BY DEF Sound
<1>2. TypeOK'
  <2>1. status' \in [Jobs -> Statuses] /\ reason' \in [Jobs -> Reasons]
    BY <1>1 DEF TypeOK, Publish, Live
  <2>2. stream' \in [Jobs -> Hosts \union {None}] /\ bound' \subseteq Jobs
    BY <1>1 DEF TypeOK, Publish, Live
  <2>3. tried' \in [Jobs -> 0..SourceLimit] /\ retry' \in [Jobs -> 0..RetryLimit] /\ later' \subseteq Jobs
    BY <1>1, Limits DEF TypeOK, Stage, Publish, Live
  <2>4. at' \in [Jobs -> Stages] /\ why' \in [Jobs -> Errors \union Tidyings]
    BY <1>1 DEF TypeOK, Publish, Live
  <2>5. aborted' \subseteq Active' /\ pauseRequested' \subseteq Active'
    BY <1>1 DEF TypeOK, Publish, Live
  <2>6. halt' \in BOOLEAN /\ room' \in BOOLEAN /\ pumpDue' \in BOOLEAN /\ retryTimer' \in BOOLEAN
    BY <1>1 DEF TypeOK, Publish, Live
  <2>7. spent' \in [Bounds -> Nat]
    BY <1>1, SpentTyped DEF TypeOK, Publish, Live
  <2>8. UNCHANGED <<jobs, library, allowed, resuming, waking, out, userPaused>>
    BY DEF Publish, Live
  <2> QED
    BY <1>1, <2>1, <2>2, <2>3, <2>4, <2>5, <2>6, <2>7, <2>8 DEF TypeOK
<1>3. Alone(j)
  BY <1>1 DEF TypeOK, World, Alone, Publish, Live
<1>l. Listed' = Listed
  BY <1>3 DEF Alone, Listed
<1>4. Stage(j)'
  BY <1>1, <1>l, Limits DEF TypeOK, Stage, GivenUp, Publish, Live
<1>5. Followed(j)'
  BY <1>1, <1>3, <1>l DEF TypeOK, Alone, Followed, Stage, Publish, Live
<1>6. Held(j)'
  BY <1>1, <1>3 DEF TypeOK, Alone, Held, World, Publish, Live
<1>7. Settled(j)'
  BY <1>1, <1>3 DEF TypeOK, Alone, Held, World, Settled, Publish, Live
<1> QED
  BY <1>2, <1>3, <1>4, <1>5, <1>6, <1>7 DEF RunKeeps

LEMMA AnnouncedAlone == ASSUME Sound, NEW j \in Jobs, Announced(j) PROVE RunKeeps(j)
<1>1. TypeOK /\ Stage(j) /\ Followed(j) /\ Held(j) /\ Settled(j) /\ World
  BY DEF Sound
<1>2. TypeOK'
  <2>1. status' \in [Jobs -> Statuses] /\ reason' \in [Jobs -> Reasons]
    BY <1>1 DEF TypeOK, Announced
  <2>2. stream' \in [Jobs -> Hosts \union {None}] /\ bound' \subseteq Jobs
    BY <1>1 DEF TypeOK, Announced
  <2>3. tried' \in [Jobs -> 0..SourceLimit] /\ retry' \in [Jobs -> 0..RetryLimit] /\ later' \subseteq Jobs
    BY <1>1, Limits DEF TypeOK, Stage, Announced
  <2>4. at' \in [Jobs -> Stages] /\ why' \in [Jobs -> Errors \union Tidyings]
    BY <1>1 DEF TypeOK, Announced
  <2>5. aborted' \subseteq Active' /\ pauseRequested' \subseteq Active'
    BY <1>1 DEF TypeOK, Announced
  <2>6. halt' \in BOOLEAN /\ room' \in BOOLEAN /\ pumpDue' \in BOOLEAN /\ retryTimer' \in BOOLEAN
    BY <1>1 DEF TypeOK, Announced
  <2>7. spent' \in [Bounds -> Nat]
    BY <1>1, SpentTyped DEF TypeOK, Announced
  <2>8. UNCHANGED <<jobs, library, allowed, resuming, waking, out, userPaused>>
    BY DEF Announced
  <2> QED
    BY <1>1, <2>1, <2>2, <2>3, <2>4, <2>5, <2>6, <2>7, <2>8 DEF TypeOK
<1>3. Alone(j)
  BY <1>1 DEF TypeOK, World, Alone, Announced
<1>l. Listed' = Listed
  BY <1>3 DEF Alone, Listed
<1>4. Stage(j)'
  BY <1>1, <1>l, Limits DEF TypeOK, Stage, GivenUp, Announced
<1>5. Followed(j)'
  BY <1>1, <1>3, <1>l DEF TypeOK, Alone, Followed, Stage, Announced
<1>6. Held(j)'
  BY <1>1, <1>3 DEF TypeOK, Alone, Held, World, Announced
<1>7. Settled(j)'
  BY <1>1, <1>3 DEF TypeOK, Alone, Held, World, Settled, Announced
<1> QED
  BY <1>2, <1>3, <1>4, <1>5, <1>6, <1>7 DEF RunKeeps

LEMMA CatchRefusedAlone == ASSUME Sound, NEW j \in Jobs, CatchRefused(j) PROVE RunKeeps(j)
<1>1. TypeOK /\ Stage(j) /\ Followed(j) /\ Held(j) /\ Settled(j) /\ World
  BY DEF Sound
<1>2. TypeOK'
  <2>1. status' \in [Jobs -> Statuses] /\ reason' \in [Jobs -> Reasons]
    BY <1>1 DEF TypeOK, CatchRefused, LibraryRefuses
  <2>2. stream' \in [Jobs -> Hosts \union {None}] /\ bound' \subseteq Jobs
    <3>1. stream' = stream \/ stream' = [stream EXCEPT ![j] = None]
      BY DEF CatchRefused
    <3>2. bound' \in {bound, bound \union {j}, bound \ {j}}
      BY DEF CatchRefused
    <3> QED
      BY <1>1, <3>1, <3>2 DEF TypeOK
  <2>3. tried' \in [Jobs -> 0..SourceLimit] /\ retry' \in [Jobs -> 0..RetryLimit] /\ later' \subseteq Jobs
    BY <1>1, Limits DEF TypeOK, Stage, CatchRefused, LibraryRefuses
  <2>4. at' \in [Jobs -> Stages] /\ why' \in [Jobs -> Errors \union Tidyings]
    BY <1>1 DEF TypeOK, CatchRefused, LibraryRefuses
  <2>5. aborted' \subseteq Active' /\ pauseRequested' \subseteq Active'
    BY <1>1 DEF TypeOK, CatchRefused, LibraryRefuses
  <2>6. halt' \in BOOLEAN /\ room' \in BOOLEAN /\ pumpDue' \in BOOLEAN /\ retryTimer' \in BOOLEAN
    BY <1>1 DEF TypeOK, CatchRefused, LibraryRefuses
  <2>7. spent' \in [Bounds -> Nat]
    BY <1>1, SpentTyped DEF TypeOK, CatchRefused, LibraryRefuses
  <2>8. UNCHANGED <<jobs, library, allowed, resuming, waking, out, userPaused>>
    BY DEF CatchRefused, LibraryRefuses
  <2> QED
    BY <1>1, <2>1, <2>2, <2>3, <2>4, <2>5, <2>6, <2>7, <2>8 DEF TypeOK
<1>3. Alone(j)
  BY <1>1 DEF TypeOK, World, Alone, CatchRefused, LibraryRefuses
<1>l. Listed' = Listed
  BY <1>3 DEF Alone, Listed
<1>4. Stage(j)'
  <2>1. /\ at'[j] = "idle" /\ status'[j] = "paused" /\ reason'[j] # "user" /\ j \notin aborted' /\ j \notin pauseRequested'
        /\ UNCHANGED <<jobs, tried, out>> /\ (stream'[j] = stream[j] \/ stream'[j] = None)
        /\ at[j] = "failing"
    BY <1>1 DEF TypeOK, CatchRefused
  <2> QED
    BY <1>1, <2>1, Limits DEF Stage, GivenUp
<1>5. Followed(j)'
  BY <1>1, <1>3, <1>l DEF TypeOK, Alone, Followed, Stage, CatchRefused, LibraryRefuses
<1>6. Held(j)'
  BY <1>1, <1>3 DEF TypeOK, Alone, Held, World, CatchRefused, LibraryRefuses
<1>7. Settled(j)'
  BY <1>1, <1>3 DEF TypeOK, Alone, Held, World, Settled, CatchRefused, LibraryRefuses
<1> QED
  BY <1>2, <1>3, <1>4, <1>5, <1>6, <1>7 DEF RunKeeps

LEMMA CatchPausedAlone == ASSUME Sound, NEW j \in Jobs, CatchPaused(j) PROVE RunKeeps(j)
<1>1. TypeOK /\ Stage(j) /\ Followed(j) /\ Held(j) /\ Settled(j) /\ World
  BY DEF Sound
<1>2. TypeOK'
  <2>1. status' \in [Jobs -> Statuses] /\ reason' \in [Jobs -> Reasons]
    BY <1>1 DEF TypeOK, CatchPaused, KeptReason, PauseAsked
  <2>2. stream' \in [Jobs -> Hosts \union {None}] /\ bound' \subseteq Jobs
    BY <1>1 DEF TypeOK, CatchPaused, KeptReason, PauseAsked
  <2>3. tried' \in [Jobs -> 0..SourceLimit] /\ retry' \in [Jobs -> 0..RetryLimit] /\ later' \subseteq Jobs
    BY <1>1, Limits DEF TypeOK, Stage, CatchPaused, KeptReason, PauseAsked
  <2>4. at' \in [Jobs -> Stages] /\ why' \in [Jobs -> Errors \union Tidyings]
    BY <1>1 DEF TypeOK, CatchPaused, KeptReason, PauseAsked
  <2>5. aborted' \subseteq Active' /\ pauseRequested' \subseteq Active'
    BY <1>1 DEF TypeOK, CatchPaused, KeptReason, PauseAsked
  <2>6. halt' \in BOOLEAN /\ room' \in BOOLEAN /\ pumpDue' \in BOOLEAN /\ retryTimer' \in BOOLEAN
    BY <1>1 DEF TypeOK, CatchPaused, KeptReason, PauseAsked
  <2>7. spent' \in [Bounds -> Nat]
    BY <1>1, SpentTyped DEF TypeOK, CatchPaused, KeptReason, PauseAsked
  <2>8. UNCHANGED <<jobs, library, allowed, resuming, waking, out, userPaused>>
    BY DEF CatchPaused, KeptReason, PauseAsked
  <2> QED
    BY <1>1, <2>1, <2>2, <2>3, <2>4, <2>5, <2>6, <2>7, <2>8 DEF TypeOK
<1>3. Alone(j)
  BY <1>1 DEF TypeOK, World, Alone, CatchPaused, KeptReason, PauseAsked
<1>l. Listed' = Listed
  BY <1>3 DEF Alone, Listed
<1>4. Stage(j)'
  BY <1>1, <1>l, Limits DEF TypeOK, Stage, GivenUp, CatchPaused, KeptReason, PauseAsked
<1>5. Followed(j)'
  BY <1>1, <1>3, <1>l DEF TypeOK, Alone, Followed, Stage, CatchPaused, KeptReason, PauseAsked
<1>6. Held(j)'
  BY <1>1, <1>3 DEF TypeOK, Alone, Held, World, CatchPaused, KeptReason, PauseAsked
<1>7. Settled(j)'
  BY <1>1, <1>3 DEF TypeOK, Alone, Held, World, Settled, CatchPaused, KeptReason, PauseAsked
<1> QED
  BY <1>2, <1>3, <1>4, <1>5, <1>6, <1>7 DEF RunKeeps

LEMMA CatchProfileAlone == ASSUME Sound, NEW j \in Jobs, CatchProfile(j) PROVE RunKeeps(j)
<1>1. TypeOK /\ Stage(j) /\ Followed(j) /\ Held(j) /\ Settled(j) /\ World
  BY DEF Sound
<1>2. TypeOK'
  <2>1. status' \in [Jobs -> Statuses] /\ reason' \in [Jobs -> Reasons]
    BY <1>1 DEF TypeOK, CatchProfile, Caught, PauseAsked
  <2>2. stream' \in [Jobs -> Hosts \union {None}] /\ bound' \subseteq Jobs
    BY <1>1 DEF TypeOK, CatchProfile, Caught, PauseAsked
  <2>3. tried' \in [Jobs -> 0..SourceLimit] /\ retry' \in [Jobs -> 0..RetryLimit] /\ later' \subseteq Jobs
    <3>1. tried' = [tried EXCEPT ![j] = tried[j] + 1] /\ UNCHANGED later
      BY DEF CatchProfile, Caught
    <3>2. retry' = [k \in Jobs |-> IF k \in {j} THEN 0 ELSE retry[k]]
      BY DEF CatchProfile, Caught
    <3>3. tried[j] \in 0..SourceLimit /\ tried[j] < SourceLimit
      BY <1>1 DEF TypeOK, Stage, GivenUp, CatchProfile, Caught
    <3>4. tried[j] + 1 \in 0..SourceLimit
      BY <3>3, Limits
    <3> QED
      BY <1>1, <3>1, <3>2, <3>4, Limits DEF TypeOK
  <2>4. at' \in [Jobs -> Stages] /\ why' \in [Jobs -> Errors \union Tidyings]
    BY <1>1 DEF TypeOK, CatchProfile, Caught, PauseAsked
  <2>5. aborted' \subseteq Active' /\ pauseRequested' \subseteq Active'
    BY <1>1 DEF TypeOK, CatchProfile, Caught, PauseAsked
  <2>6. halt' \in BOOLEAN /\ room' \in BOOLEAN /\ pumpDue' \in BOOLEAN /\ retryTimer' \in BOOLEAN
    BY <1>1 DEF TypeOK, CatchProfile, Caught, PauseAsked
  <2>7. spent' \in [Bounds -> Nat]
    BY <1>1, SpentTyped DEF TypeOK, CatchProfile, Caught, PauseAsked
  <2>8. UNCHANGED <<jobs, library, allowed, resuming, waking, out, userPaused>>
    BY DEF CatchProfile, Caught, PauseAsked
  <2> QED
    BY <1>1, <2>1, <2>2, <2>3, <2>4, <2>5, <2>6, <2>7, <2>8 DEF TypeOK
<1>3. Alone(j)
  BY <1>1 DEF TypeOK, World, Alone, CatchProfile, Caught, PauseAsked
<1>l. Listed' = Listed
  BY <1>3 DEF Alone, Listed
<1>4. Stage(j)'
  BY <1>1, <1>l, Limits DEF TypeOK, Stage, GivenUp, CatchProfile, Caught, PauseAsked
<1>5. Followed(j)'
  BY <1>1, <1>3, <1>l DEF TypeOK, Alone, Followed, Stage, CatchProfile, Caught, PauseAsked
<1>6. Held(j)'
  BY <1>1, <1>3 DEF TypeOK, Alone, Held, World, CatchProfile, Caught, PauseAsked
<1>7. Settled(j)'
  BY <1>1, <1>3 DEF TypeOK, Alone, Held, World, Settled, CatchProfile, Caught, PauseAsked
<1> QED
  BY <1>2, <1>3, <1>4, <1>5, <1>6, <1>7 DEF RunKeeps

LEMMA CatchUnfitAlone == ASSUME Sound, NEW j \in Jobs, CatchUnfit(j) PROVE RunKeeps(j)
<1>1. TypeOK /\ Stage(j) /\ Followed(j) /\ Held(j) /\ Settled(j) /\ World
  BY DEF Sound
<1>2. TypeOK'
  <2>1. status' \in [Jobs -> Statuses] /\ reason' \in [Jobs -> Reasons]
    BY <1>1 DEF TypeOK, CatchUnfit, Caught, PauseAsked, Dropped
  <2>2. stream' \in [Jobs -> Hosts \union {None}] /\ bound' \subseteq Jobs
    BY <1>1 DEF TypeOK, CatchUnfit, Caught, PauseAsked, Dropped
  <2>3. tried' \in [Jobs -> 0..SourceLimit] /\ retry' \in [Jobs -> 0..RetryLimit] /\ later' \subseteq Jobs
    BY <1>1, Limits DEF TypeOK, Stage, CatchUnfit, Caught, PauseAsked, Dropped
  <2>4. at' \in [Jobs -> Stages] /\ why' \in [Jobs -> Errors \union Tidyings]
    BY <1>1 DEF TypeOK, CatchUnfit, Caught, PauseAsked, Dropped
  <2>5. aborted' \subseteq Active' /\ pauseRequested' \subseteq Active'
    BY <1>1 DEF TypeOK, CatchUnfit, Caught, PauseAsked, Dropped
  <2>6. halt' \in BOOLEAN /\ room' \in BOOLEAN /\ pumpDue' \in BOOLEAN /\ retryTimer' \in BOOLEAN
    BY <1>1 DEF TypeOK, CatchUnfit, Caught, PauseAsked, Dropped
  <2>7. spent' \in [Bounds -> Nat]
    BY <1>1, SpentTyped DEF TypeOK, CatchUnfit, Caught, PauseAsked, Dropped
  <2>8. UNCHANGED <<jobs, library, allowed, resuming, waking, out, userPaused>>
    BY DEF CatchUnfit, Caught, PauseAsked, Dropped
  <2> QED
    BY <1>1, <2>1, <2>2, <2>3, <2>4, <2>5, <2>6, <2>7, <2>8 DEF TypeOK
<1>3. Alone(j)
  BY <1>1 DEF TypeOK, World, Alone, CatchUnfit, Caught, PauseAsked, Dropped
<1>l. Listed' = Listed
  BY <1>3 DEF Alone, Listed
<1>4. Stage(j)'
  <2>1. /\ at'[j] = "tidying" /\ why'[j] \in {"noranges", "stale"} /\ (why'[j] = "stale" => retry[j] < RetryLimit)
        /\ at[j] = "failing" /\ UNCHANGED <<jobs, row, choice, retry, later, aborted, pauseRequested, out>>
    BY <1>1 DEF TypeOK, CatchUnfit, Caught, Dropped
  <2> QED
    BY <1>1, <1>l, <2>1 DEF Stage, GivenUp
<1>5. Followed(j)'
  BY <1>1, <1>3, <1>l DEF TypeOK, Alone, Followed, Stage, CatchUnfit, Caught, PauseAsked, Dropped
<1>6. Held(j)'
  BY <1>1, <1>3 DEF TypeOK, Alone, Held, World, CatchUnfit, Caught, PauseAsked, Dropped
<1>7. Settled(j)'
  BY <1>1, <1>3 DEF TypeOK, Alone, Held, World, Settled, CatchUnfit, Caught, PauseAsked, Dropped
<1> QED
  BY <1>2, <1>3, <1>4, <1>5, <1>6, <1>7 DEF RunKeeps

LEMMA CatchRetryAlone == ASSUME Sound, NEW j \in Jobs, CatchRetry(j) PROVE RunKeeps(j)
<1>1. TypeOK /\ Stage(j) /\ Followed(j) /\ Held(j) /\ Settled(j) /\ World
  BY DEF Sound
<1>2. TypeOK'
  <2>1. status' \in [Jobs -> Statuses] /\ reason' \in [Jobs -> Reasons]
    BY <1>1 DEF TypeOK, CatchRetry, Caught, PauseAsked, Dropped
  <2>2. stream' \in [Jobs -> Hosts \union {None}] /\ bound' \subseteq Jobs
    BY <1>1 DEF TypeOK, CatchRetry, Caught, PauseAsked, Dropped
  <2>3. tried' \in [Jobs -> 0..SourceLimit] /\ retry' \in [Jobs -> 0..RetryLimit] /\ later' \subseteq Jobs
    <3>1. UNCHANGED tried /\ later' = later \union {j} /\ retry' = [retry EXCEPT ![j] = @ + 1]
          /\ retry[j] < RetryLimit
      BY DEF CatchRetry, Dropped
    <3>2. /\ tried \in [Jobs -> 0..SourceLimit] /\ retry \in [Jobs -> 0..RetryLimit] /\ later \subseteq Jobs
          /\ retry[j] \in 0..RetryLimit
      BY <1>1 DEF TypeOK
    <3>3. retry[j] + 1 \in 0..RetryLimit
      BY <3>1, <3>2, Limits
    <3> QED
      BY <3>1, <3>2, <3>3
  <2>4. at' \in [Jobs -> Stages] /\ why' \in [Jobs -> Errors \union Tidyings]
    BY <1>1 DEF TypeOK, CatchRetry, Caught, PauseAsked, Dropped
  <2>5. aborted' \subseteq Active' /\ pauseRequested' \subseteq Active'
    BY <1>1 DEF TypeOK, CatchRetry, Caught, PauseAsked, Dropped
  <2>6. halt' \in BOOLEAN /\ room' \in BOOLEAN /\ pumpDue' \in BOOLEAN /\ retryTimer' \in BOOLEAN
    BY <1>1 DEF TypeOK, CatchRetry, Caught, PauseAsked, Dropped
  <2>7. spent' \in [Bounds -> Nat]
    BY <1>1, SpentTyped DEF TypeOK, CatchRetry, Caught, PauseAsked, Dropped
  <2>8. UNCHANGED <<jobs, library, allowed, resuming, waking, out, userPaused>>
    BY DEF CatchRetry, Caught, PauseAsked, Dropped
  <2> QED
    BY <1>1, <2>1, <2>2, <2>3, <2>4, <2>5, <2>6, <2>7, <2>8 DEF TypeOK
<1>3. Alone(j)
  BY <1>1 DEF TypeOK, World, Alone, CatchRetry, Caught, PauseAsked, Dropped
<1>l. Listed' = Listed
  BY <1>3 DEF Alone, Listed
<1>4. Stage(j)'
  BY <1>1, <1>l, Limits DEF TypeOK, Stage, GivenUp, CatchRetry, Caught, PauseAsked, Dropped
<1>5. Followed(j)'
  BY <1>1, <1>3, <1>l DEF TypeOK, Alone, Followed, Stage, CatchRetry, Caught, PauseAsked, Dropped
<1>6. Held(j)'
  BY <1>1, <1>3 DEF TypeOK, Alone, Held, World, CatchRetry, Caught, PauseAsked, Dropped
<1>7. Settled(j)'
  BY <1>1, <1>3 DEF TypeOK, Alone, Held, World, Settled, CatchRetry, Caught, PauseAsked, Dropped
<1> QED
  BY <1>2, <1>3, <1>4, <1>5, <1>6, <1>7 DEF RunKeeps

LEMMA CatchNextAlone == ASSUME Sound, NEW j \in Jobs, CatchNext(j) PROVE RunKeeps(j)
<1>1. TypeOK /\ Stage(j) /\ Followed(j) /\ Held(j) /\ Settled(j) /\ World
  BY DEF Sound
<1>2. TypeOK'
  <2>1. status' \in [Jobs -> Statuses] /\ reason' \in [Jobs -> Reasons]
    BY <1>1 DEF TypeOK, CatchNext, Caught, PauseAsked, Spent, CanTryNext
  <2>2. stream' \in [Jobs -> Hosts \union {None}] /\ bound' \subseteq Jobs
    BY <1>1 DEF TypeOK, CatchNext, Caught, PauseAsked, Spent, CanTryNext
  <2>3. tried' \in [Jobs -> 0..SourceLimit] /\ retry' \in [Jobs -> 0..RetryLimit] /\ later' \subseteq Jobs
    <3>1. tried' = [tried EXCEPT ![j] = tried[j] + 1] /\ UNCHANGED later
      BY DEF CatchNext, Caught
    <3>2. UNCHANGED retry
      BY DEF CatchNext, Caught
    <3>3. tried[j] \in 0..SourceLimit /\ tried[j] < SourceLimit
      BY <1>1 DEF TypeOK, Stage, GivenUp, CatchNext, Caught, CanTryNext
    <3>4. tried[j] + 1 \in 0..SourceLimit
      BY <3>3, Limits
    <3> QED
      BY <1>1, <3>1, <3>2, <3>4 DEF TypeOK
  <2>4. at' \in [Jobs -> Stages] /\ why' \in [Jobs -> Errors \union Tidyings]
    BY <1>1 DEF TypeOK, CatchNext, Caught, PauseAsked, Spent, CanTryNext
  <2>5. aborted' \subseteq Active' /\ pauseRequested' \subseteq Active'
    BY <1>1 DEF TypeOK, CatchNext, Caught, PauseAsked, Spent, CanTryNext
  <2>6. halt' \in BOOLEAN /\ room' \in BOOLEAN /\ pumpDue' \in BOOLEAN /\ retryTimer' \in BOOLEAN
    BY <1>1 DEF TypeOK, CatchNext, Caught, PauseAsked, Spent, CanTryNext
  <2>7. spent' \in [Bounds -> Nat]
    BY <1>1, SpentTyped DEF TypeOK, CatchNext, Caught, PauseAsked, Spent, CanTryNext
  <2>8. UNCHANGED <<jobs, library, allowed, resuming, waking, out, userPaused>>
    BY DEF CatchNext, Caught, PauseAsked, Spent, CanTryNext
  <2> QED
    BY <1>1, <2>1, <2>2, <2>3, <2>4, <2>5, <2>6, <2>7, <2>8 DEF TypeOK
<1>3. Alone(j)
  BY <1>1 DEF TypeOK, World, Alone, CatchNext, Caught, PauseAsked, Spent, CanTryNext
<1>l. Listed' = Listed
  BY <1>3 DEF Alone, Listed
<1>4. Stage(j)'
  BY <1>1, <1>l, Limits DEF TypeOK, Stage, GivenUp, CatchNext, Caught, PauseAsked, Spent, CanTryNext
<1>5. Followed(j)'
  BY <1>1, <1>3, <1>l DEF TypeOK, Alone, Followed, Stage, CatchNext, Caught, PauseAsked, Spent, CanTryNext
<1>6. Held(j)'
  BY <1>1, <1>3 DEF TypeOK, Alone, Held, World, CatchNext, Caught, PauseAsked, Spent, CanTryNext
<1>7. Settled(j)'
  BY <1>1, <1>3 DEF TypeOK, Alone, Held, World, Settled, CatchNext, Caught, PauseAsked, Spent, CanTryNext
<1> QED
  BY <1>2, <1>3, <1>4, <1>5, <1>6, <1>7 DEF RunKeeps

LEMMA CatchFailedAlone == ASSUME Sound, NEW j \in Jobs, CatchFailed(j) PROVE RunKeeps(j)
<1>1. TypeOK /\ Stage(j) /\ Followed(j) /\ Held(j) /\ Settled(j) /\ World
  BY DEF Sound
<1>2. TypeOK'
  <2>1. status' \in [Jobs -> Statuses] /\ reason' \in [Jobs -> Reasons]
    BY <1>1 DEF TypeOK, CatchFailed, Caught, PauseAsked, Spent
  <2>2. stream' \in [Jobs -> Hosts \union {None}] /\ bound' \subseteq Jobs
    BY <1>1 DEF TypeOK, CatchFailed, Caught, PauseAsked, Spent
  <2>3. tried' \in [Jobs -> 0..SourceLimit] /\ retry' \in [Jobs -> 0..RetryLimit] /\ later' \subseteq Jobs
    BY <1>1, Limits DEF TypeOK, Stage, CatchFailed, Caught, PauseAsked, Spent
  <2>4. at' \in [Jobs -> Stages] /\ why' \in [Jobs -> Errors \union Tidyings]
    BY <1>1 DEF TypeOK, CatchFailed, Caught, PauseAsked, Spent
  <2>5. aborted' \subseteq Active' /\ pauseRequested' \subseteq Active'
    BY <1>1 DEF TypeOK, CatchFailed, Caught, PauseAsked, Spent
  <2>6. halt' \in BOOLEAN /\ room' \in BOOLEAN /\ pumpDue' \in BOOLEAN /\ retryTimer' \in BOOLEAN
    BY <1>1 DEF TypeOK, CatchFailed, Caught, PauseAsked, Spent
  <2>7. spent' \in [Bounds -> Nat]
    BY <1>1, SpentTyped DEF TypeOK, CatchFailed, Caught, PauseAsked, Spent
  <2>8. UNCHANGED <<jobs, library, allowed, resuming, waking, out, userPaused>>
    BY DEF CatchFailed, Caught, PauseAsked, Spent
  <2> QED
    BY <1>1, <2>1, <2>2, <2>3, <2>4, <2>5, <2>6, <2>7, <2>8 DEF TypeOK
<1>3. Alone(j)
  BY <1>1 DEF TypeOK, World, Alone, CatchFailed, Caught, PauseAsked, Spent
<1>l. Listed' = Listed
  BY <1>3 DEF Alone, Listed
<1>4. Stage(j)'
  BY <1>1, <1>l, Limits DEF TypeOK, Stage, GivenUp, CatchFailed, Caught, PauseAsked, Spent
<1>5. Followed(j)'
  BY <1>1, <1>3, <1>l DEF TypeOK, Alone, Followed, Stage, CatchFailed, Caught, PauseAsked, Spent
<1>6. Held(j)'
  BY <1>1, <1>3 DEF TypeOK, Alone, Held, World, CatchFailed, Caught, PauseAsked, Spent
<1>7. Settled(j)'
  BY <1>1, <1>3 DEF TypeOK, Alone, Held, World, Settled, CatchFailed, Caught, PauseAsked, Spent
<1> QED
  BY <1>2, <1>3, <1>4, <1>5, <1>6, <1>7 DEF RunKeeps

LEMMA TidiedFailedAlone == ASSUME Sound, NEW j \in Jobs, TidiedFailed(j) PROVE RunKeeps(j)
<1>1. TypeOK /\ Stage(j) /\ Followed(j) /\ Held(j) /\ Settled(j) /\ World
  BY DEF Sound
<1>2. TypeOK'
  <2>1. status' \in [Jobs -> Statuses] /\ reason' \in [Jobs -> Reasons]
    BY <1>1 DEF TypeOK, TidiedFailed
  <2>2. stream' \in [Jobs -> Hosts \union {None}] /\ bound' \subseteq Jobs
    BY <1>1 DEF TypeOK, TidiedFailed
  <2>3. tried' \in [Jobs -> 0..SourceLimit] /\ retry' \in [Jobs -> 0..RetryLimit] /\ later' \subseteq Jobs
    BY <1>1, Limits DEF TypeOK, Stage, TidiedFailed
  <2>4. at' \in [Jobs -> Stages] /\ why' \in [Jobs -> Errors \union Tidyings]
    BY <1>1 DEF TypeOK, TidiedFailed
  <2>5. aborted' \subseteq Active' /\ pauseRequested' \subseteq Active'
    BY <1>1 DEF TypeOK, TidiedFailed
  <2>6. halt' \in BOOLEAN /\ room' \in BOOLEAN /\ pumpDue' \in BOOLEAN /\ retryTimer' \in BOOLEAN
    BY <1>1 DEF TypeOK, TidiedFailed
  <2>7. spent' \in [Bounds -> Nat]
    BY <1>1, SpentTyped DEF TypeOK, TidiedFailed
  <2>8. UNCHANGED <<jobs, library, allowed, resuming, waking, out, userPaused>>
    BY DEF TidiedFailed
  <2> QED
    BY <1>1, <2>1, <2>2, <2>3, <2>4, <2>5, <2>6, <2>7, <2>8 DEF TypeOK
<1>3. Alone(j)
  BY <1>1 DEF TypeOK, World, Alone, TidiedFailed
<1>l. Listed' = Listed
  BY <1>3 DEF Alone, Listed
<1>4. Stage(j)'
  BY <1>1, <1>l, Limits DEF TypeOK, Stage, GivenUp, TidiedFailed
<1>5. Followed(j)'
  BY <1>1, <1>3, <1>l DEF TypeOK, Alone, Followed, Stage, TidiedFailed
<1>6. Held(j)'
  BY <1>1, <1>3 DEF TypeOK, Alone, Held, World, TidiedFailed
<1>7. Settled(j)'
  BY <1>1, <1>3 DEF TypeOK, Alone, Held, World, Settled, TidiedFailed
<1> QED
  BY <1>2, <1>3, <1>4, <1>5, <1>6, <1>7 DEF RunKeeps

LEMMA TidiedQueuedAlone == ASSUME Sound, NEW j \in Jobs, TidiedQueued(j) PROVE RunKeeps(j)
<1>1. TypeOK /\ Stage(j) /\ Followed(j) /\ Held(j) /\ Settled(j) /\ World
  BY DEF Sound
<1>2. TypeOK'
  <2>1. status' \in [Jobs -> Statuses] /\ reason' \in [Jobs -> Reasons]
    BY <1>1 DEF TypeOK, TidiedQueued
  <2>2. stream' \in [Jobs -> Hosts \union {None}] /\ bound' \subseteq Jobs
    BY <1>1 DEF TypeOK, TidiedQueued
  <2>3. tried' \in [Jobs -> 0..SourceLimit] /\ retry' \in [Jobs -> 0..RetryLimit] /\ later' \subseteq Jobs
    <3>1. UNCHANGED tried /\ (later' = later \/ later' = later \union {j})
      BY DEF TidiedQueued
    <3>2. CASE why[j] = "stale"
      <4>1. retry' = [retry EXCEPT ![j] = retry[j] + 1]
        BY <3>2 DEF TidiedQueued
      <4>2. retry[j] \in 0..RetryLimit /\ retry[j] < RetryLimit
        BY <1>1, <3>2 DEF TypeOK, Stage, TidiedQueued
      <4>3. retry[j] + 1 \in 0..RetryLimit
        BY <4>2, Limits
      <4> QED
        BY <1>1, <3>1, <4>1, <4>3 DEF TypeOK
    <3>3. CASE why[j] = "next"
      <4>1. retry' = [k \in Jobs |-> IF k \in {j} THEN 0 ELSE retry[k]]
        BY <3>3 DEF TidiedQueued
      <4> QED
        BY <1>1, <3>1, <4>1, Limits DEF TypeOK
    <3>4. CASE why[j] \notin {"stale", "next"}
      <4>1. UNCHANGED retry
        BY <3>4 DEF TidiedQueued
      <4> QED
        BY <1>1, <3>1, <4>1 DEF TypeOK
    <3> QED
      BY <3>2, <3>3, <3>4
  <2>4. at' \in [Jobs -> Stages] /\ why' \in [Jobs -> Errors \union Tidyings]
    BY <1>1 DEF TypeOK, TidiedQueued
  <2>5. aborted' \subseteq Active' /\ pauseRequested' \subseteq Active'
    BY <1>1 DEF TypeOK, TidiedQueued
  <2>6. halt' \in BOOLEAN /\ room' \in BOOLEAN /\ pumpDue' \in BOOLEAN /\ retryTimer' \in BOOLEAN
    BY <1>1 DEF TypeOK, TidiedQueued
  <2>7. spent' \in [Bounds -> Nat]
    BY <1>1, SpentTyped DEF TypeOK, TidiedQueued
  <2>8. UNCHANGED <<jobs, library, allowed, resuming, waking, out, userPaused>>
    BY DEF TidiedQueued
  <2> QED
    BY <1>1, <2>1, <2>2, <2>3, <2>4, <2>5, <2>6, <2>7, <2>8 DEF TypeOK
<1>3. Alone(j)
  BY <1>1 DEF TypeOK, World, Alone, TidiedQueued
<1>l. Listed' = Listed
  BY <1>3 DEF Alone, Listed
<1>4. Stage(j)'
  BY <1>1, <1>l, Limits DEF TypeOK, Stage, GivenUp, TidiedQueued
<1>5. Followed(j)'
  BY <1>1, <1>3, <1>l DEF TypeOK, Alone, Followed, Stage, TidiedQueued
<1>6. Held(j)'
  BY <1>1, <1>3 DEF TypeOK, Alone, Held, World, TidiedQueued
<1>7. Settled(j)'
  BY <1>1, <1>3 DEF TypeOK, Alone, Held, World, Settled, TidiedQueued
<1> QED
  BY <1>2, <1>3, <1>4, <1>5, <1>6, <1>7 DEF RunKeeps

LEMMA ElapsedAlone == ASSUME Sound, NEW j \in Jobs, Elapsed(j) PROVE RunKeeps(j)
<1>1. TypeOK /\ Stage(j) /\ Followed(j) /\ Held(j) /\ Settled(j) /\ World
  BY DEF Sound
<1>2. TypeOK'
  <2>1. status' \in [Jobs -> Statuses] /\ reason' \in [Jobs -> Reasons]
    BY <1>1 DEF TypeOK, Elapsed
  <2>2. stream' \in [Jobs -> Hosts \union {None}] /\ bound' \subseteq Jobs
    BY <1>1 DEF TypeOK, Elapsed
  <2>3. tried' \in [Jobs -> 0..SourceLimit] /\ retry' \in [Jobs -> 0..RetryLimit] /\ later' \subseteq Jobs
    BY <1>1, Limits DEF TypeOK, Stage, Elapsed
  <2>4. at' \in [Jobs -> Stages] /\ why' \in [Jobs -> Errors \union Tidyings]
    BY <1>1 DEF TypeOK, Elapsed
  <2>5. aborted' \subseteq Active' /\ pauseRequested' \subseteq Active'
    BY <1>1 DEF TypeOK, Elapsed
  <2>6. halt' \in BOOLEAN /\ room' \in BOOLEAN /\ pumpDue' \in BOOLEAN /\ retryTimer' \in BOOLEAN
    BY <1>1 DEF TypeOK, Elapsed
  <2>7. spent' \in [Bounds -> Nat]
    BY <1>1, SpentTyped DEF TypeOK, Elapsed
  <2>8. UNCHANGED <<jobs, library, allowed, resuming, waking, out, userPaused>>
    BY DEF Elapsed
  <2> QED
    BY <1>1, <2>1, <2>2, <2>3, <2>4, <2>5, <2>6, <2>7, <2>8 DEF TypeOK
<1>3. Alone(j)
  BY <1>1 DEF TypeOK, World, Alone, Elapsed
<1>l. Listed' = Listed
  BY <1>3 DEF Alone, Listed
<1>4. Stage(j)'
  BY <1>1, <1>l, Limits DEF TypeOK, Stage, GivenUp, Elapsed
<1>5. Followed(j)'
  BY <1>1, <1>3, <1>l DEF TypeOK, Alone, Followed, Stage, Elapsed
<1>6. Held(j)'
  BY <1>1, <1>3 DEF TypeOK, Alone, Held, World, Elapsed
<1>7. Settled(j)'
  BY <1>1, <1>3 DEF TypeOK, Alone, Held, World, Settled, Elapsed
<1> QED
  BY <1>2, <1>3, <1>4, <1>5, <1>6, <1>7 DEF RunKeeps

LEMMA RecoverAlone == ASSUME Sound, NEW j \in Jobs, Recover(j) PROVE RunKeeps(j)
<1>1. TypeOK /\ Stage(j) /\ Followed(j) /\ Held(j) /\ Settled(j) /\ World
  BY DEF Sound
<1>2. TypeOK'
  <2>1. status' \in [Jobs -> Statuses] /\ reason' \in [Jobs -> Reasons]
    BY <1>1 DEF TypeOK, Recover
  <2>2. stream' \in [Jobs -> Hosts \union {None}] /\ bound' \subseteq Jobs
    BY <1>1 DEF TypeOK, Recover
  <2>3. tried' \in [Jobs -> 0..SourceLimit] /\ retry' \in [Jobs -> 0..RetryLimit] /\ later' \subseteq Jobs
    BY <1>1, Limits DEF TypeOK, Stage, Recover
  <2>4. at' \in [Jobs -> Stages] /\ why' \in [Jobs -> Errors \union Tidyings]
    BY <1>1 DEF TypeOK, Recover
  <2>5. aborted' \subseteq Active' /\ pauseRequested' \subseteq Active'
    BY <1>1 DEF TypeOK, Recover
  <2>6. halt' \in BOOLEAN /\ room' \in BOOLEAN /\ pumpDue' \in BOOLEAN /\ retryTimer' \in BOOLEAN
    BY <1>1 DEF TypeOK, Recover
  <2>7. spent' \in [Bounds -> Nat]
    BY <1>1, SpentTyped DEF TypeOK, Recover
  <2>8. UNCHANGED <<jobs, library, allowed, resuming, waking, out, userPaused>>
    BY DEF Recover
  <2> QED
    BY <1>1, <2>1, <2>2, <2>3, <2>4, <2>5, <2>6, <2>7, <2>8 DEF TypeOK
<1>3. Alone(j)
  BY <1>1 DEF TypeOK, World, Alone, Recover
<1>l. Listed' = Listed
  BY <1>3 DEF Alone, Listed
<1>4. Stage(j)'
  BY <1>1, <1>l, Limits DEF TypeOK, Stage, GivenUp, Recover
<1>5. Followed(j)'
  BY <1>1, <1>3, <1>l DEF TypeOK, Alone, Followed, Stage, Recover
<1>6. Held(j)'
  BY <1>1, <1>3 DEF TypeOK, Alone, Held, World, Recover
<1>7. Settled(j)'
  BY <1>1, <1>3 DEF TypeOK, Alone, Held, World, Settled, Recover
<1> QED
  BY <1>2, <1>3, <1>4, <1>5, <1>6, <1>7 DEF RunKeeps

-----------------------------------------------------------------------------
(* What touches many rows.                                                 *)

LEMMA ListedAreJobs == ASSUME TypeOK PROVE Listed \subseteq Jobs
BY ElementOfSeq DEF TypeOK, Listed

LEMMA OthersAreKept == ASSUME Sound, NEW j \in Jobs, RunKeeps(j) PROVE Sound'
<1>1. TypeOK /\ Listing /\ World /\ \A k \in Jobs : Stage(k) /\ Followed(k) /\ Held(k) /\ Settled(k)
  BY DEF Sound
<1>2. TypeOK' /\ Alone(j) /\ Stage(j)' /\ Followed(j)' /\ Held(j)' /\ Settled(j)'
  BY DEF RunKeeps
<1>3. Listing' /\ World'
  BY <1>1, <1>2 DEF Alone, Listing, Listed, World
<1>4. ASSUME NEW k \in Jobs, k # j PROVE Stage(k)' /\ Followed(k)' /\ Held(k)' /\ Settled(k)'
  <2>1. /\ UNCHANGED <<jobs, halt, library, allowed, out, status[k], reason[k], stream[k], tried[k], retry[k], at[k], why[k]>>
        /\ UNCHANGED <<spent["kept"], spent["sweeps"], spent["resumes"]>> /\ (spent'["storage"] = 0 => spent["storage"] = 0)
        /\ (k \in aborted') = (k \in aborted) /\ (k \in pauseRequested') = (k \in pauseRequested)
    BY <1>2, <1>4 DEF Alone
  <2>2. Stage(k)'
    BY <1>1, <2>1 DEF Stage, GivenUp, Listed
  <2>3. Followed(k)'
    BY <1>1, <2>1 DEF Followed, Listed
  <2>4. Held(k)'
    BY <1>1, <2>1 DEF Held
  <2>5. Settled(k)'
    BY <1>1, <2>1 DEF Settled
  <2> QED
    BY <2>2, <2>3, <2>4, <2>5
<1> QED
  BY <1>2, <1>3, <1>4 DEF Sound

\* haltForStorage() out of a catch, or after the files of the row were deleted.
HaltStep(j) ==
    /\ at[j] \in {"failing", "tidying"} /\ why[j] = "storage" /\ HaltFor(j)
    /\ UNCHANGED <<jobs, choice, retry, later, rights, asks, spent, userPaused>>

LEMMA HaltForSound == ASSUME Sound, NEW j \in Jobs, HaltStep(j) PROVE Sound'
<1>1. TypeOK /\ Listing /\ World /\ \A k \in Jobs : Stage(k) /\ Followed(k) /\ Held(k) /\ Settled(k)
  BY DEF Sound
<1>2. TypeOK'
  <2>1. jobs' \in Seq(Jobs) /\ out' \in {Nothing} \union [job : Jobs, place : Nat \ {0}]
    BY <1>1 DEF TypeOK, HaltStep, HaltFor
  <2>2. status' \in [Jobs -> Statuses] /\ reason' \in [Jobs -> Reasons]
    BY <1>1 DEF TypeOK, HaltStep, HaltFor
  <2>3. stream' \in [Jobs -> Hosts \union {None}] /\ bound' \subseteq Jobs
    BY <1>1 DEF TypeOK, HaltStep, HaltFor
  <2>4. tried' \in [Jobs -> 0..SourceLimit] /\ retry' \in [Jobs -> 0..RetryLimit] /\ later' \subseteq Jobs
    BY <1>1, Limits DEF TypeOK, Stage, HaltStep, HaltFor
  <2>5. at' \in [Jobs -> Stages] /\ why' \in [Jobs -> Errors \union Tidyings]
    BY <1>1 DEF TypeOK, HaltStep, HaltFor
  <2>6. aborted' \subseteq Active' /\ pauseRequested' \subseteq Active'
    BY <1>1 DEF TypeOK, HaltStep, HaltFor
  <2>7. halt' \in BOOLEAN /\ room' \in BOOLEAN /\ pumpDue' \in BOOLEAN /\ retryTimer' \in BOOLEAN
    BY <1>1 DEF TypeOK, HaltStep, HaltFor
  <2>8. spent' \in [Bounds -> Nat]
    BY <1>1, SpentTyped DEF TypeOK, HaltStep, HaltFor
  <2>9. /\ library' \in {"accepts", "refuses"} /\ allowed' \subseteq Jobs /\ userPaused' \subseteq Jobs
        /\ resuming' \subseteq Jobs \X BOOLEAN /\ waking' \subseteq Jobs
    BY <1>1 DEF TypeOK, HaltStep, HaltFor
  <2> QED
    BY <2>1, <2>2, <2>3, <2>4, <2>5, <2>6, <2>7, <2>8, <2>9 DEF TypeOK
<1>3. Listing'
  BY <1>1 DEF Listing, Listed, HaltStep, HaltFor
<1>4. World'
  BY <1>1, QueueAssumption DEF TypeOK, World, HaltStep, HaltFor
<1>l. Listed' = Listed
  BY DEF Listed, HaltStep, HaltFor
<1>5. ASSUME NEW k \in Jobs PROVE Stage(k)' /\ Followed(k)' /\ Held(k)' /\ Settled(k)'
  <2>1. Stage(k)'
    <3>1. UNCHANGED <<jobs, stream, tried, retry, why, out>> /\ why[j] = "storage"
      BY DEF HaltStep, HaltFor
    <3>2. CASE k = j
      <4>1. at'[j] = "idle" /\ j \notin pauseRequested'
        BY <1>1 DEF TypeOK, HaltStep, HaltFor
      <4> QED
        BY <1>1, <3>1, <3>2, <4>1 DEF Stage, GivenUp
    <3>3. CASE k # j
      <4>1. /\ at'[k] = at[k] /\ (k \in pauseRequested => k \in pauseRequested') /\ (k \in aborted => k \in aborted')
            /\ k \in pauseRequested' => k \in pauseRequested \/ k \in aborted'
            /\ \/ status'[k] = status[k] /\ reason'[k] = reason[k]
               \/ status'[k] = "paused" /\ reason'[k] = "storage"
        BY <1>1, <3>3 DEF TypeOK, HaltStep, HaltFor
      <4> QED
        BY <1>1, <1>l, <3>1, <4>1 DEF Stage, GivenUp
    <3> QED
      BY <3>2, <3>3
  <2>2. Followed(k)'
    BY <1>1, <1>l DEF TypeOK, Stage, Followed, HaltStep, HaltFor
  <2>3. Held(k)'
    BY <1>1 DEF TypeOK, Held, World, HaltStep, HaltFor
  <2>4. Settled(k)'
    BY <1>1 DEF TypeOK, Held, World, Settled, HaltStep, HaltFor
  <2> QED
    BY <2>1, <2>2, <2>3, <2>4
<1> QED
  BY <1>2, <1>3, <1>4, <1>5 DEF Sound

LEMMA PauseSound == ASSUME Sound, NEW j \in Jobs, Pause(j) PROVE Sound'
<1>1. TypeOK /\ Listing /\ World /\ \A k \in Jobs : Stage(k) /\ Followed(k) /\ Held(k) /\ Settled(k)
  BY DEF Sound
<1>2. TypeOK'
  <2>1. jobs' \in Seq(Jobs) /\ out' \in {Nothing} \union [job : Jobs, place : Nat \ {0}]
    BY <1>1 DEF TypeOK, Pause
  <2>2. status' \in [Jobs -> Statuses] /\ reason' \in [Jobs -> Reasons]
    BY <1>1 DEF TypeOK, Pause
  <2>3. stream' \in [Jobs -> Hosts \union {None}] /\ bound' \subseteq Jobs
    BY <1>1 DEF TypeOK, Pause
  <2>4. tried' \in [Jobs -> 0..SourceLimit] /\ retry' \in [Jobs -> 0..RetryLimit] /\ later' \subseteq Jobs
    BY <1>1, Limits DEF TypeOK, Stage, Pause
  <2>5. at' \in [Jobs -> Stages] /\ why' \in [Jobs -> Errors \union Tidyings]
    BY <1>1 DEF TypeOK, Pause
  <2>6. aborted' \subseteq Active' /\ pauseRequested' \subseteq Active'
    BY <1>1 DEF TypeOK, Pause
  <2>7. halt' \in BOOLEAN /\ room' \in BOOLEAN /\ pumpDue' \in BOOLEAN /\ retryTimer' \in BOOLEAN
    BY <1>1 DEF TypeOK, Pause
  <2>8. spent' \in [Bounds -> Nat]
    BY <1>1, SpentTyped DEF TypeOK, Pause
  <2>9. /\ library' \in {"accepts", "refuses"} /\ allowed' \subseteq Jobs /\ userPaused' \subseteq Jobs
        /\ resuming' \subseteq Jobs \X BOOLEAN /\ waking' \subseteq Jobs
    BY <1>1 DEF TypeOK, Pause
  <2> QED
    BY <2>1, <2>2, <2>3, <2>4, <2>5, <2>6, <2>7, <2>8, <2>9 DEF TypeOK
<1>3. Listing'
  BY <1>1 DEF Listing, Listed, Pause
<1>4. World'
  BY <1>1, QueueAssumption DEF TypeOK, World, Pause
<1>l. Listed' = Listed
  BY DEF Listed, Pause
<1>5. ASSUME NEW k \in Jobs PROVE Stage(k)' /\ Followed(k)' /\ Held(k)' /\ Settled(k)'
  <2>1. Stage(k)'
    BY <1>1, <1>l, Limits DEF TypeOK, Stage, GivenUp, Pause
  <2>2. Followed(k)'
    BY <1>1, <1>l DEF TypeOK, Stage, Followed, Pause
  <2>3. Held(k)'
    BY <1>1 DEF TypeOK, Held, World, Pause
  <2>4. Settled(k)'
    BY <1>1 DEF TypeOK, Held, World, Settled, Pause
  <2> QED
    BY <2>1, <2>2, <2>3, <2>4
<1> QED
  BY <1>2, <1>3, <1>4, <1>5 DEF Sound

LEMMA AskResumeSound == ASSUME Sound, NEW j \in Jobs, NEW anew \in BOOLEAN, AskResume(j, anew) PROVE Sound'
<1>1. TypeOK /\ Listing /\ World /\ \A k \in Jobs : Stage(k) /\ Followed(k) /\ Held(k) /\ Settled(k)
  BY DEF Sound
<1>2. TypeOK'
  <2>1. jobs' \in Seq(Jobs) /\ out' \in {Nothing} \union [job : Jobs, place : Nat \ {0}]
    BY <1>1 DEF TypeOK, AskResume
  <2>2. status' \in [Jobs -> Statuses] /\ reason' \in [Jobs -> Reasons]
    BY <1>1 DEF TypeOK, AskResume
  <2>3. stream' \in [Jobs -> Hosts \union {None}] /\ bound' \subseteq Jobs
    BY <1>1 DEF TypeOK, AskResume
  <2>4. tried' \in [Jobs -> 0..SourceLimit] /\ retry' \in [Jobs -> 0..RetryLimit] /\ later' \subseteq Jobs
    BY <1>1, Limits DEF TypeOK, Stage, AskResume
  <2>5. at' \in [Jobs -> Stages] /\ why' \in [Jobs -> Errors \union Tidyings]
    BY <1>1 DEF TypeOK, AskResume
  <2>6. aborted' \subseteq Active' /\ pauseRequested' \subseteq Active'
    BY <1>1 DEF TypeOK, AskResume
  <2>7. halt' \in BOOLEAN /\ room' \in BOOLEAN /\ pumpDue' \in BOOLEAN /\ retryTimer' \in BOOLEAN
    BY <1>1 DEF TypeOK, AskResume
  <2>8. spent' \in [Bounds -> Nat]
    BY <1>1, SpentTyped DEF TypeOK, AskResume
  <2>9. /\ library' \in {"accepts", "refuses"} /\ allowed' \subseteq Jobs /\ userPaused' \subseteq Jobs
        /\ resuming' \subseteq Jobs \X BOOLEAN /\ waking' \subseteq Jobs
    <3>1. PICK named \in BOOLEAN : resuming' = resuming \union {<<j, named>>}
      <4>1. (j \in bound) \in BOOLEAN /\ resuming' = resuming \union {<<j, j \in bound>>}
        BY DEF AskResume
      <4> QED
        BY <4>1, Zenon
    <3>2. UNCHANGED <<library, allowed, userPaused, waking>>
      BY DEF AskResume
    <3> QED
      BY <1>1, <3>1, <3>2 DEF TypeOK
  <2> QED
    BY <2>1, <2>2, <2>3, <2>4, <2>5, <2>6, <2>7, <2>8, <2>9 DEF TypeOK
<1>3. Listing'
  BY <1>1 DEF Listing, Listed, AskResume
<1>4. World'
  <2>1. Spend("resumes", MaxResumes) /\ UNCHANGED <<library, waking, out>>
    BY DEF AskResume
  <2>2. spent'["resumes"] # 0 /\ \A b \in Bounds \ {"resumes"} : spent'[b] = spent[b]
    BY <1>1, <2>1, SpentCounts, Budgets DEF TypeOK
  <2> QED
    BY <1>1, <2>1, <2>2 DEF World
<1>l. Listed' = Listed
  BY DEF Listed, AskResume
<1>5. ASSUME NEW k \in Jobs PROVE Stage(k)' /\ Followed(k)' /\ Held(k)' /\ Settled(k)'
  <2>1. Stage(k)'
    <3>1. UNCHANGED <<jobs, row, runs, out>>
      BY DEF AskResume
    <3>2. /\ stream'[k] \in {stream[k], None} /\ retry'[k] \in {retry[k], 0}
          /\ \/ tried'[k] = tried[k]
             \/ tried'[k] = 0 /\ status[k] = "failed"
      BY <1>1 DEF TypeOK, AskResume
    <3>3. tried[k] \in Nat /\ retry[k] \in Nat
      BY <1>1, Limits DEF TypeOK
    <3> QED
      BY <1>1, <1>l, <3>1, <3>2, <3>3, Limits DEF Stage, GivenUp
  <2>2. Followed(k)'
    BY <1>1, <1>l DEF TypeOK, Stage, Followed, AskResume
  <2>3. Held(k)'
    BY <1>1 DEF TypeOK, Held, World, AskResume
  <2>4. Settled(k)'
    BY <1>1 DEF TypeOK, Held, World, Settled, AskResume
  <2> QED
    BY <2>1, <2>2, <2>3, <2>4
<1> QED
  BY <1>2, <1>3, <1>4, <1>5 DEF Sound

LEMMA ResumeSound == ASSUME Sound, NEW j \in Jobs, Resume(j) PROVE Sound'
<1>1. TypeOK /\ Listing /\ World /\ \A k \in Jobs : Stage(k) /\ Followed(k) /\ Held(k) /\ Settled(k)
  BY DEF Sound
<1>2. TypeOK'
  <2>1. jobs' \in Seq(Jobs) /\ out' \in {Nothing} \union [job : Jobs, place : Nat \ {0}]
    BY <1>1 DEF TypeOK, Resume, Refusal, LibraryRefuses, Requeue, Named, Waited, Group, NoRoom, NoHome, Resuming
  <2>2. status' \in [Jobs -> Statuses] /\ reason' \in [Jobs -> Reasons]
    <3>1. CASE Refusal(j) # "none"
      <4>1. Refusal(j) \in Reasons /\ PauseFor(j, Refusal(j))
        BY <3>1 DEF Refusal, Resume
      <4> QED
        BY <1>1, <4>1 DEF TypeOK
    <3>2. CASE Refusal(j) = "none" /\ (NoHome(j) \/ NoRoom(j))
      BY <1>1, <3>2 DEF TypeOK, Resume, Named, Resuming
    <3>3. CASE Refusal(j) = "none" /\ ~NoHome(j) /\ ~NoRoom(j)
      <4>1. \E S : Requeue(S)
        BY <3>3 DEF Resume
      <4>2. PICK S : Requeue(S)
        BY <4>1
      <4>3. status \in [Jobs -> Statuses] /\ reason \in [Jobs -> Reasons] /\ "queued" \in Statuses /\ "none" \in Reasons
        BY <1>1 DEF TypeOK, Statuses, Reasons
      <4> QED
        BY <4>2, <4>3 DEF Requeue
    <3> QED
      BY <3>1, <3>2, <3>3
  <2>3. stream' \in [Jobs -> Hosts \union {None}] /\ bound' \subseteq Jobs
    <3>1. CASE Refusal(j) # "none"
      <4>1. Refusal(j) \in Reasons /\ PauseFor(j, Refusal(j))
        BY <3>1 DEF Refusal, Resume
      <4> QED
        BY <1>1, <4>1 DEF TypeOK
    <3>2. CASE Refusal(j) = "none" /\ (NoHome(j) \/ NoRoom(j))
      BY <1>1, <3>2 DEF TypeOK, Resume, Named, Resuming
    <3>3. CASE Refusal(j) = "none" /\ ~NoHome(j) /\ ~NoRoom(j)
      BY <1>1, <3>3 DEF TypeOK, Resume, Named, Requeue, Group, Resuming
    <3> QED
      BY <3>1, <3>2, <3>3
  <2>4. tried' \in [Jobs -> 0..SourceLimit] /\ retry' \in [Jobs -> 0..RetryLimit] /\ later' \subseteq Jobs
    <3>1. retry' = retry /\ (tried' = tried)
      BY DEF Resume
    <3>2. later' \subseteq later
      BY DEF Resume, Requeue
    <3> QED
      BY <1>1, <3>1, <3>2 DEF TypeOK
  <2>5. at' \in [Jobs -> Stages] /\ why' \in [Jobs -> Errors \union Tidyings]
    BY <1>1 DEF TypeOK, Resume, Refusal, LibraryRefuses, Requeue, Named, Waited, Group, NoRoom, NoHome, Resuming
  <2>6. aborted' \subseteq Active' /\ pauseRequested' \subseteq Active'
    BY <1>1 DEF TypeOK, Resume, Refusal, LibraryRefuses, Requeue, Named, Waited, Group, NoRoom, NoHome, Resuming
  <2>7. halt' \in BOOLEAN /\ room' \in BOOLEAN /\ pumpDue' \in BOOLEAN /\ retryTimer' \in BOOLEAN
    BY <1>1 DEF TypeOK, Resume, Refusal, LibraryRefuses, Requeue, Named, Waited, Group, NoRoom, NoHome, Resuming
  <2>8. spent' \in [Bounds -> Nat]
    BY <1>1, SpentTyped DEF TypeOK, Resume, Refusal, LibraryRefuses, Requeue, Named, Waited, Group, NoRoom, NoHome, Resuming
  <2>9. /\ library' \in {"accepts", "refuses"} /\ allowed' \subseteq Jobs /\ userPaused' \subseteq Jobs
        /\ resuming' \subseteq Jobs \X BOOLEAN /\ waking' \subseteq Jobs
    BY <1>1 DEF TypeOK, Resume, Refusal, LibraryRefuses, Requeue, Named, Waited, Group, NoRoom, NoHome, Resuming
  <2> QED
    BY <2>1, <2>2, <2>3, <2>4, <2>5, <2>6, <2>7, <2>8, <2>9 DEF TypeOK
<1>3. Listing'
  BY <1>1 DEF Listing, Listed, Resume, Refusal, LibraryRefuses, Requeue, Named, Waited, Group, NoRoom, NoHome, Resuming
<1>4. World'
  BY <1>1, QueueAssumption DEF TypeOK, World, Resume, Refusal, LibraryRefuses, Requeue, Named, Waited, Group, NoRoom, NoHome, Resuming
<1>l. Listed' = Listed
  BY DEF Listed, Resume
<1>5. ASSUME NEW k \in Jobs PROVE Stage(k)' /\ Followed(k)' /\ Held(k)' /\ Settled(k)'
  <2>1. Stage(k)'
    <3>1. CASE Refusal(j) # "none"
      <4>1. Refusal(j) \in {"library", "permission"} /\ PauseFor(j, Refusal(j))
        BY <3>1 DEF Refusal, Resume
      <4>2. UNCHANGED <<jobs, retry, at, why, aborted, pauseRequested, out>>
        BY <3>1 DEF Resume
      <4>3. CASE k = j
        BY <1>1, <1>l, <4>1, <4>2, <4>3 DEF TypeOK, Stage, GivenUp
      <4>4. CASE k # j
        BY <1>1, <1>l, <4>1, <4>2, <4>4 DEF TypeOK, Stage, GivenUp
      <4> QED
        BY <4>3, <4>4
    <3>2. CASE Refusal(j) = "none" /\ (NoHome(j) \/ NoRoom(j))
      BY <1>1, <1>l, Limits, <3>2 DEF TypeOK, Stage, GivenUp, Resume, Named, Resuming
    <3>3. CASE Refusal(j) = "none" /\ ~NoHome(j) /\ ~NoRoom(j)
      <4>1. PICK S \in SUBSET Jobs : Requeue(S)
        <5>1. /\ Group \in SUBSET Jobs /\ {j} \in SUBSET Jobs
              /\ Requeue((IF halt \/ reason[j] = "storage" THEN Group ELSE {})
                          \union (IF status[j] \in {"paused", "failed"} THEN {j} ELSE {}))
          BY <1>1, <3>3, ListedAreJobs DEF TypeOK, Resume, Group
        <5> QED
          BY <5>1
      <4>2. UNCHANGED <<jobs, stream, tried, retry, at, why, aborted, out>> /\ pauseRequested' = pauseRequested \ {j}
        BY <3>3 DEF Resume
      <4>3. j \notin pauseRequested' /\ (status'[j] = "paused" => status[j] # "paused")
        BY <3>3, <4>1 DEF Resume, Requeue, TypeOK, Group
      <4> QED
        BY <1>1, <1>l, <4>1, <4>2, <4>3 DEF TypeOK, Stage, GivenUp, Requeue
    <3> QED
      BY <3>1, <3>2, <3>3
  <2>2. Followed(k)'
    <3>0. UNCHANGED <<at, aborted, spent>>
      BY DEF Resume
    <3>1. CASE Refusal(j) # "none"
      <4>1. Refusal(j) \in {"library", "permission"} /\ PauseFor(j, Refusal(j)) /\ UNCHANGED halt
        BY <3>1 DEF Refusal, Resume
      <4>2. \/ status'[k] = status[k] /\ reason'[k] = reason[k]
            \/ status'[k] = "paused" /\ reason'[k] \in {"library", "permission"}
        BY <1>1, <4>1 DEF TypeOK
      <4> QED
        BY <1>1, <1>l, <3>0, <4>1, <4>2 DEF Followed
    <3>2. CASE Refusal(j) = "none" /\ (NoHome(j) \/ NoRoom(j))
      <4>1. UNCHANGED <<row, halt>>
        BY <3>2 DEF Resume
      <4> QED
        BY <1>1, <1>l, <3>0, <4>1 DEF Followed
    <3>3. CASE Refusal(j) = "none" /\ ~NoHome(j) /\ ~NoRoom(j)
      <4>1. /\ (status'[k] = status[k] /\ reason'[k] = reason[k]) \/ (status'[k] = "queued" /\ reason'[k] = "none")
            /\ k \in Group /\ (halt \/ reason[j] = "storage") => status'[k] = "queued"
            /\ halt' = FALSE
        BY <1>1, <3>3 DEF TypeOK, Resume, Requeue
      <4> QED
        BY <1>1, <1>l, <3>0, <4>1 DEF Followed, Group
    <3> QED
      BY <3>1, <3>2, <3>3
  <2>3. Held(k)'
    <3>0. UNCHANGED <<at, aborted, spent, allowed>>
      BY DEF Resume
    <3>1. CASE Refusal(j) # "none"
      <4>1. PauseFor(j, Refusal(j)) /\ (Refusal(j) = "library" => library = "refuses")
            /\ (Refusal(j) = "permission" => j \notin allowed) /\ Refusal(j) \in {"library", "permission"}
            /\ j \in Resuming
        BY <3>1 DEF Refusal, LibraryRefuses, Resume
      <4>2. resuming # {}
        BY <4>1 DEF Resuming
      <4> QED
        BY <1>1, <3>0, <4>1, <4>2 DEF TypeOK, Held, World
    <3>2. CASE Refusal(j) = "none" /\ (NoHome(j) \/ NoRoom(j))
      <4>1. UNCHANGED row
        BY <3>2 DEF Resume
      <4> QED
        BY <1>1, <3>0, <4>1 DEF Held
    <3>3. CASE Refusal(j) = "none" /\ ~NoHome(j) /\ ~NoRoom(j)
      <4>1. (status'[k] = status[k] /\ reason'[k] = reason[k]) \/ (status'[k] = "queued" /\ reason'[k] = "none")
        BY <1>1, <3>3 DEF TypeOK, Resume, Requeue
      <4> QED
        BY <1>1, <3>0, <4>1 DEF Held
    <3> QED
      BY <3>1, <3>2, <3>3
  <2>4. Settled(k)'
    BY <1>1 DEF TypeOK, Held, World, Settled, Resume, Refusal, LibraryRefuses, Requeue, Named, Waited, Group, NoRoom, NoHome, Resuming
  <2> QED
    BY <2>1, <2>2, <2>3, <2>4
<1> QED
  BY <1>2, <1>3, <1>4, <1>5 DEF Sound

LEMMA RemovalUnlists ==
    ASSUME TypeOK, Listing, NEW j \in Jobs, AskRemove(j)
    PROVE jobs' \in Seq(Jobs) /\ IsInjective(jobs') /\ Listed' = Listed \ {j} /\ Place(j) \in Nat \ {0}
<1>1. jobs' = RemoveAt(jobs, Place(j)) /\ jobs \in Seq(Jobs) /\ IsInjective(jobs)
  BY DEF AskRemove, TypeOK, Listing
<1>2. Place(j) \in DOMAIN jobs /\ jobs[Place(j)] = j
  BY DEF AskRemove, Listed, Place
<1>3. Place(j) \in Nat \ {0}
  BY <1>1, <1>2, LenProperties
<1>4. jobs' \in Seq(Jobs) /\ IsInjective(jobs') /\ Range(jobs') = Range(jobs) \ {j}
  BY <1>1, <1>2, RemovedAt, InjectiveRemoved
<1> QED
  BY <1>3, <1>4 DEF Range, Listed

LEMMA AskRemoveSound == ASSUME Sound, NEW j \in Jobs, AskRemove(j) PROVE Sound'
<1>1. TypeOK /\ Listing /\ World /\ \A k \in Jobs : Stage(k) /\ Followed(k) /\ Held(k) /\ Settled(k)
  BY DEF Sound
<1>l. jobs' \in Seq(Jobs) /\ IsInjective(jobs') /\ Listed' = Listed \ {j} /\ Place(j) \in Nat \ {0}
  BY <1>1, RemovalUnlists
<1>2. TypeOK'
  <2>1. jobs' \in Seq(Jobs) /\ out' \in {Nothing} \union [job : Jobs, place : Nat \ {0}]
    BY <1>l DEF AskRemove
  <2>2. status' \in [Jobs -> Statuses] /\ reason' \in [Jobs -> Reasons]
    BY <1>1 DEF TypeOK, AskRemove
  <2>3. stream' \in [Jobs -> Hosts \union {None}] /\ bound' \subseteq Jobs
    BY <1>1 DEF TypeOK, AskRemove
  <2>4. tried' \in [Jobs -> 0..SourceLimit] /\ retry' \in [Jobs -> 0..RetryLimit] /\ later' \subseteq Jobs
    BY <1>1, Limits DEF TypeOK, Stage, AskRemove
  <2>5. at' \in [Jobs -> Stages] /\ why' \in [Jobs -> Errors \union Tidyings]
    BY <1>1 DEF TypeOK, AskRemove
  <2>6. aborted' \subseteq Active' /\ pauseRequested' \subseteq Active'
    BY <1>1 DEF TypeOK, AskRemove
  <2>7. halt' \in BOOLEAN /\ room' \in BOOLEAN /\ pumpDue' \in BOOLEAN /\ retryTimer' \in BOOLEAN
    BY <1>1 DEF TypeOK, AskRemove
  <2>8. spent' \in [Bounds -> Nat]
    BY <1>1, SpentTyped DEF TypeOK, AskRemove
  <2>9. /\ library' \in {"accepts", "refuses"} /\ allowed' \subseteq Jobs /\ userPaused' \subseteq Jobs
        /\ resuming' \subseteq Jobs \X BOOLEAN /\ waking' \subseteq Jobs
    BY <1>1 DEF TypeOK, AskRemove
  <2> QED
    BY <2>1, <2>2, <2>3, <2>4, <2>5, <2>6, <2>7, <2>8, <2>9 DEF TypeOK
<1>3. Listing'
  BY <1>l DEF Listing, AskRemove
<1>4. World'
  <2>1. Spend("removals", MaxRemovals) /\ UNCHANGED <<library, waking, resuming>>
    BY DEF AskRemove
  <2>2. spent'["removals"] # 0 /\ MaxRemovals # 0 /\ \A b \in Bounds \ {"removals"} : spent'[b] = spent[b]
    BY <1>1, <2>1, SpentCounts, Budgets DEF TypeOK
  <2> QED
    BY <1>1, <2>1, <2>2 DEF World
<1>5. ASSUME NEW k \in Jobs PROVE Stage(k)' /\ Followed(k)' /\ Held(k)' /\ Settled(k)'
  <2>1. Stage(k)'
    <3>1. out = Nothing /\ out'.job = j /\ out' # Nothing
      BY DEF AskRemove, Nothing
    <3>2. UNCHANGED <<row, choice, retry, runs>>
      BY DEF AskRemove
    <3> QED
      BY <1>1, <1>l, <3>1, <3>2 DEF Stage, GivenUp
  <2>2. Followed(k)'
    BY <1>1, <1>l DEF TypeOK, Stage, Followed, AskRemove
  <2>3. Held(k)'
    BY <1>1 DEF TypeOK, Held, World, AskRemove
  <2>4. Settled(k)'
    BY <1>1 DEF TypeOK, Held, World, Settled, AskRemove
  <2> QED
    BY <2>1, <2>2, <2>3, <2>4
<1> QED
  BY <1>2, <1>3, <1>4, <1>5 DEF Sound

LEMMA RemovedSound == ASSUME Sound, Removed PROVE Sound'
<1>1. TypeOK /\ Listing /\ World /\ \A k \in Jobs : Stage(k) /\ Followed(k) /\ Held(k) /\ Settled(k)
  BY DEF Sound
<1>o. out.job \in Jobs /\ out.job \notin Listed
  BY <1>1 DEF TypeOK, Listing, Removed, Nothing
<1>2. TypeOK'
  <2>1. jobs' \in Seq(Jobs) /\ out' \in {Nothing} \union [job : Jobs, place : Nat \ {0}]
    BY <1>1 DEF TypeOK, Removed
  <2>2. status' \in [Jobs -> Statuses] /\ reason' \in [Jobs -> Reasons]
    BY <1>1 DEF TypeOK, Removed
  <2>3. stream' \in [Jobs -> Hosts \union {None}] /\ bound' \subseteq Jobs
    BY <1>1 DEF TypeOK, Removed
  <2>4. tried' \in [Jobs -> 0..SourceLimit] /\ retry' \in [Jobs -> 0..RetryLimit] /\ later' \subseteq Jobs
    BY <1>1, Limits DEF TypeOK, Stage, Removed
  <2>5. at' \in [Jobs -> Stages] /\ why' \in [Jobs -> Errors \union Tidyings]
    BY <1>1 DEF TypeOK, Removed
  <2>6. aborted' \subseteq Active' /\ pauseRequested' \subseteq Active'
    BY <1>1 DEF TypeOK, Removed
  <2>7. halt' \in BOOLEAN /\ room' \in BOOLEAN /\ pumpDue' \in BOOLEAN /\ retryTimer' \in BOOLEAN
    BY <1>1 DEF TypeOK, Removed
  <2>8. spent' \in [Bounds -> Nat]
    BY <1>1, SpentTyped DEF TypeOK, Removed
  <2>9. /\ library' \in {"accepts", "refuses"} /\ allowed' \subseteq Jobs /\ userPaused' \subseteq Jobs
        /\ resuming' \subseteq Jobs \X BOOLEAN /\ waking' \subseteq Jobs
    BY <1>1 DEF TypeOK, Removed
  <2> QED
    BY <2>1, <2>2, <2>3, <2>4, <2>5, <2>6, <2>7, <2>8, <2>9 DEF TypeOK
<1>3. Listing'
  BY <1>1 DEF Listing, Listed, Removed
<1>4. World'
  BY <1>1, QueueAssumption DEF TypeOK, World, Removed
<1>l. Listed' = Listed
  BY DEF Listed, Removed
<1>5. ASSUME NEW k \in Jobs PROVE Stage(k)' /\ Followed(k)' /\ Held(k)' /\ Settled(k)'
  <2>1. Stage(k)'
    BY <1>1, <1>o, <1>l, Limits DEF TypeOK, Stage, GivenUp, Removed
  <2>2. Followed(k)'
    BY <1>1, <1>o, <1>l DEF TypeOK, Stage, Followed, Removed
  <2>3. Held(k)'
    BY <1>1 DEF TypeOK, Held, World, Removed
  <2>4. Settled(k)'
    BY <1>1 DEF TypeOK, Held, World, Settled, Removed
  <2> QED
    BY <2>1, <2>2, <2>3, <2>4
<1> QED
  BY <1>2, <1>3, <1>4, <1>5 DEF Sound

LEMMA KeptSound == ASSUME Sound, Kept PROVE Sound'
<1>1. TypeOK /\ Listing /\ World /\ \A k \in Jobs : Stage(k) /\ Followed(k) /\ Held(k) /\ Settled(k)
  BY DEF Sound
<1>o. out # Nothing /\ out.job \in Jobs /\ out.place \in Nat \ {0} /\ out.job \notin Listed
  BY <1>1 DEF TypeOK, Listing, Kept, Nothing
<1>l. jobs' \in Seq(Jobs) /\ IsInjective(jobs') /\ Listed' = Listed \union {out.job}
  <2> DEFINE place == IF out.place > Len(jobs) THEN Len(jobs) + 1 ELSE out.place
  <2>1. jobs' = InsertAt(jobs, place, out.job) /\ jobs \in Seq(Jobs) /\ IsInjective(jobs)
    BY <1>1 DEF Kept, TypeOK, Listing
  <2>2. place \in 1..(Len(jobs) + 1)
    BY <1>o, <2>1, LenProperties
  <2>3. out.job \notin Range(jobs)
    BY <1>o DEF Range, Listed
  <2> HIDE DEF place
  <2>4. jobs' \in Seq(Jobs) /\ IsInjective(jobs') /\ Range(jobs') = Range(jobs) \union {out.job}
    BY <1>o, <2>1, <2>2, <2>3, InsertedAt, InjectiveInserted
  <2> QED
    BY <2>4 DEF Range, Listed
<1>2. TypeOK'
  <2>1. jobs' \in Seq(Jobs) /\ out' \in {Nothing} \union [job : Jobs, place : Nat \ {0}]
    BY <1>l DEF Kept
  <2>2. status' \in [Jobs -> Statuses] /\ reason' \in [Jobs -> Reasons]
    BY <1>1 DEF TypeOK, Kept
  <2>3. stream' \in [Jobs -> Hosts \union {None}] /\ bound' \subseteq Jobs
    BY <1>1 DEF TypeOK, Kept
  <2>4. tried' \in [Jobs -> 0..SourceLimit] /\ retry' \in [Jobs -> 0..RetryLimit] /\ later' \subseteq Jobs
    BY <1>1, Limits DEF TypeOK, Stage, Kept
  <2>5. at' \in [Jobs -> Stages] /\ why' \in [Jobs -> Errors \union Tidyings]
    BY <1>1 DEF TypeOK, Kept
  <2>6. aborted' \subseteq Active' /\ pauseRequested' \subseteq Active'
    BY <1>1 DEF TypeOK, Kept
  <2>7. halt' \in BOOLEAN /\ room' \in BOOLEAN /\ pumpDue' \in BOOLEAN /\ retryTimer' \in BOOLEAN
    BY <1>1 DEF TypeOK, Kept
  <2>8. spent' \in [Bounds -> Nat]
    BY <1>1, SpentTyped DEF TypeOK, Kept
  <2>9. /\ library' \in {"accepts", "refuses"} /\ allowed' \subseteq Jobs /\ userPaused' \subseteq Jobs
        /\ resuming' \subseteq Jobs \X BOOLEAN /\ waking' \subseteq Jobs
    BY <1>1 DEF TypeOK, Kept
  <2> QED
    BY <2>1, <2>2, <2>3, <2>4, <2>5, <2>6, <2>7, <2>8, <2>9 DEF TypeOK
<1>3. Listing'
  BY <1>l DEF Listing, Kept
<1>4. World'
  BY <1>1, QueueAssumption DEF TypeOK, World, Kept
<1>5. ASSUME NEW k \in Jobs PROVE Stage(k)' /\ Followed(k)' /\ Held(k)' /\ Settled(k)'
  <2>1. Stage(k)'
    BY <1>1, <1>o, <1>l, Limits DEF TypeOK, Stage, GivenUp, Kept
  <2>2. Followed(k)'
    BY <1>1, <1>l DEF TypeOK, Stage, Followed, Kept
  <2>3. Held(k)'
    BY <1>1 DEF TypeOK, Held, World, Kept
  <2>4. Settled(k)'
    BY <1>1 DEF TypeOK, Held, World, Settled, Kept
  <2> QED
    BY <2>1, <2>2, <2>3, <2>4
<1> QED
  BY <1>2, <1>3, <1>4, <1>5 DEF Sound

LEMMA MoveKeepsListed ==
    ASSUME TypeOK, Listing, NEW i \in DOMAIN jobs, Move(i)
    PROVE jobs' \in Seq(Jobs) /\ IsInjective(jobs') /\ Listed' = Listed
<1>1. jobs \in Seq(Jobs) /\ IsInjective(jobs)
  BY DEF TypeOK, Listing
<1>2. i \in 1..(Len(jobs) - 1) /\ jobs' = [jobs EXCEPT ![i] = jobs[i + 1], ![i + 1] = jobs[i]]
  BY DEF Move
<1>3. jobs' \in Seq(Jobs) /\ IsInjective(jobs') /\ Range(jobs') = Range(jobs)
  BY <1>1, <1>2, Swapped
<1> QED
  BY <1>3 DEF Range, Listed

LEMMA MoveSound == ASSUME Sound, NEW i \in DOMAIN jobs, Move(i) PROVE Sound'
<1>1. TypeOK /\ Listing /\ World /\ \A k \in Jobs : Stage(k) /\ Followed(k) /\ Held(k) /\ Settled(k)
  BY DEF Sound
<1>l. jobs' \in Seq(Jobs) /\ IsInjective(jobs') /\ Listed' = Listed
  BY <1>1, MoveKeepsListed
<1>2. TypeOK'
  <2>1. jobs' \in Seq(Jobs) /\ out' \in {Nothing} \union [job : Jobs, place : Nat \ {0}]
    BY <1>1, <1>l DEF TypeOK, Move
  <2>2. status' \in [Jobs -> Statuses] /\ reason' \in [Jobs -> Reasons]
    BY <1>1 DEF TypeOK, Move
  <2>3. stream' \in [Jobs -> Hosts \union {None}] /\ bound' \subseteq Jobs
    BY <1>1 DEF TypeOK, Move
  <2>4. tried' \in [Jobs -> 0..SourceLimit] /\ retry' \in [Jobs -> 0..RetryLimit] /\ later' \subseteq Jobs
    BY <1>1, Limits DEF TypeOK, Stage, Move
  <2>5. at' \in [Jobs -> Stages] /\ why' \in [Jobs -> Errors \union Tidyings]
    BY <1>1 DEF TypeOK, Move
  <2>6. aborted' \subseteq Active' /\ pauseRequested' \subseteq Active'
    BY <1>1 DEF TypeOK, Move
  <2>7. halt' \in BOOLEAN /\ room' \in BOOLEAN /\ pumpDue' \in BOOLEAN /\ retryTimer' \in BOOLEAN
    BY <1>1 DEF TypeOK, Move
  <2>8. spent' \in [Bounds -> Nat]
    BY <1>1, SpentTyped DEF TypeOK, Move
  <2>9. /\ library' \in {"accepts", "refuses"} /\ allowed' \subseteq Jobs /\ userPaused' \subseteq Jobs
        /\ resuming' \subseteq Jobs \X BOOLEAN /\ waking' \subseteq Jobs
    BY <1>1 DEF TypeOK, Move
  <2> QED
    BY <2>1, <2>2, <2>3, <2>4, <2>5, <2>6, <2>7, <2>8, <2>9 DEF TypeOK
<1>3. Listing'
  BY <1>1, <1>l DEF Listing, Move
<1>4. World'
  BY <1>1, QueueAssumption DEF TypeOK, World, Move
<1>5. ASSUME NEW k \in Jobs PROVE Stage(k)' /\ Followed(k)' /\ Held(k)' /\ Settled(k)'
  <2>1. Stage(k)'
    BY <1>1, <1>l, Limits DEF TypeOK, Stage, GivenUp, Move
  <2>2. Followed(k)'
    BY <1>1, <1>l DEF TypeOK, Stage, Followed, Move
  <2>3. Held(k)'
    BY <1>1 DEF TypeOK, Held, World, Move
  <2>4. Settled(k)'
    BY <1>1 DEF TypeOK, Held, World, Settled, Move
  <2> QED
    BY <2>1, <2>2, <2>3, <2>4
<1> QED
  BY <1>2, <1>3, <1>4, <1>5 DEF Sound

LEMMA WithdrawSound == ASSUME Sound, NEW j \in Jobs, Withdraw(j) PROVE Sound'
<1>1. TypeOK /\ Listing /\ World /\ \A k \in Jobs : Stage(k) /\ Followed(k) /\ Held(k) /\ Settled(k)
  BY DEF Sound
<1>2. TypeOK'
  <2>1. jobs' \in Seq(Jobs) /\ out' \in {Nothing} \union [job : Jobs, place : Nat \ {0}]
    BY <1>1 DEF TypeOK, Withdraw
  <2>2. status' \in [Jobs -> Statuses] /\ reason' \in [Jobs -> Reasons]
    BY <1>1 DEF TypeOK, Withdraw
  <2>3. stream' \in [Jobs -> Hosts \union {None}] /\ bound' \subseteq Jobs
    BY <1>1 DEF TypeOK, Withdraw
  <2>4. tried' \in [Jobs -> 0..SourceLimit] /\ retry' \in [Jobs -> 0..RetryLimit] /\ later' \subseteq Jobs
    BY <1>1, Limits DEF TypeOK, Stage, Withdraw
  <2>5. at' \in [Jobs -> Stages] /\ why' \in [Jobs -> Errors \union Tidyings]
    BY <1>1 DEF TypeOK, Withdraw
  <2>6. aborted' \subseteq Active' /\ pauseRequested' \subseteq Active'
    BY <1>1 DEF TypeOK, Withdraw
  <2>7. halt' \in BOOLEAN /\ room' \in BOOLEAN /\ pumpDue' \in BOOLEAN /\ retryTimer' \in BOOLEAN
    BY <1>1 DEF TypeOK, Withdraw
  <2>8. spent' \in [Bounds -> Nat]
    BY <1>1, SpentTyped DEF TypeOK, Withdraw
  <2>9. /\ library' \in {"accepts", "refuses"} /\ allowed' \subseteq Jobs /\ userPaused' \subseteq Jobs
        /\ resuming' \subseteq Jobs \X BOOLEAN /\ waking' \subseteq Jobs
    BY <1>1 DEF TypeOK, Withdraw
  <2> QED
    BY <2>1, <2>2, <2>3, <2>4, <2>5, <2>6, <2>7, <2>8, <2>9 DEF TypeOK
<1>3. Listing'
  BY <1>1 DEF Listing, Listed, Withdraw
<1>4. World'
  <2>1. Spend("sweeps", MaxSweeps) /\ UNCHANGED <<library, waking, resuming, out>>
    BY DEF Withdraw
  <2>2. spent'["sweeps"] # 0 /\ MaxSweeps # 0 /\ \A b \in Bounds \ {"sweeps"} : spent'[b] = spent[b]
    BY <1>1, <2>1, SpentCounts, Budgets DEF TypeOK
  <2> QED
    BY <1>1, <2>1, <2>2 DEF World
<1>l. Listed' = Listed
  BY DEF Listed, Withdraw
<1>5. ASSUME NEW k \in Jobs PROVE Stage(k)' /\ Followed(k)' /\ Held(k)' /\ Settled(k)'
  <2>1. Stage(k)'
    BY <1>1, <1>l, Limits DEF TypeOK, Stage, GivenUp, Withdraw
  <2>2. Followed(k)'
    BY <1>1, <1>l DEF TypeOK, Stage, Followed, Withdraw
  <2>3. Held(k)'
    BY <1>1 DEF TypeOK, Held, World, Withdraw
  <2>4. Settled(k)'
    BY <1>1 DEF TypeOK, Held, World, Settled, Withdraw
  <2> QED
    BY <2>1, <2>2, <2>3, <2>4
<1> QED
  BY <1>2, <1>3, <1>4, <1>5 DEF Sound

LEMMA GrantSound == ASSUME Sound, NEW j \in Jobs, Grant(j) PROVE Sound'
<1>1. TypeOK /\ Listing /\ World /\ \A k \in Jobs : Stage(k) /\ Followed(k) /\ Held(k) /\ Settled(k)
  BY DEF Sound
<1>2. TypeOK'
  <2>1. jobs' \in Seq(Jobs) /\ out' \in {Nothing} \union [job : Jobs, place : Nat \ {0}]
    BY <1>1 DEF TypeOK, Grant
  <2>2. status' \in [Jobs -> Statuses] /\ reason' \in [Jobs -> Reasons]
    BY <1>1 DEF TypeOK, Grant
  <2>3. stream' \in [Jobs -> Hosts \union {None}] /\ bound' \subseteq Jobs
    BY <1>1 DEF TypeOK, Grant
  <2>4. tried' \in [Jobs -> 0..SourceLimit] /\ retry' \in [Jobs -> 0..RetryLimit] /\ later' \subseteq Jobs
    BY <1>1, Limits DEF TypeOK, Stage, Grant
  <2>5. at' \in [Jobs -> Stages] /\ why' \in [Jobs -> Errors \union Tidyings]
    BY <1>1 DEF TypeOK, Grant
  <2>6. aborted' \subseteq Active' /\ pauseRequested' \subseteq Active'
    BY <1>1 DEF TypeOK, Grant
  <2>7. halt' \in BOOLEAN /\ room' \in BOOLEAN /\ pumpDue' \in BOOLEAN /\ retryTimer' \in BOOLEAN
    BY <1>1 DEF TypeOK, Grant
  <2>8. spent' \in [Bounds -> Nat]
    BY <1>1, SpentTyped DEF TypeOK, Grant
  <2>9. /\ library' \in {"accepts", "refuses"} /\ allowed' \subseteq Jobs /\ userPaused' \subseteq Jobs
        /\ resuming' \subseteq Jobs \X BOOLEAN /\ waking' \subseteq Jobs
    BY <1>1 DEF TypeOK, Grant
  <2> QED
    BY <2>1, <2>2, <2>3, <2>4, <2>5, <2>6, <2>7, <2>8, <2>9 DEF TypeOK
<1>3. Listing'
  BY <1>1 DEF Listing, Listed, Grant
<1>4. World'
  BY <1>1, QueueAssumption DEF TypeOK, World, Grant
<1>l. Listed' = Listed
  BY DEF Listed, Grant
<1>5. ASSUME NEW k \in Jobs PROVE Stage(k)' /\ Followed(k)' /\ Held(k)' /\ Settled(k)'
  <2>1. Stage(k)'
    BY <1>1, <1>l, Limits DEF TypeOK, Stage, GivenUp, Grant
  <2>2. Followed(k)'
    BY <1>1, <1>l DEF TypeOK, Stage, Followed, Grant
  <2>3. Held(k)'
    BY <1>1 DEF TypeOK, Held, World, Grant
  <2>4. Settled(k)'
    BY <1>1 DEF TypeOK, Held, World, Settled, Grant
  <2> QED
    BY <2>1, <2>2, <2>3, <2>4
<1> QED
  BY <1>2, <1>3, <1>4, <1>5 DEF Sound

LEMMA PauseMatchingSound == ASSUME Sound, PauseMatching PROVE Sound'
<1>1. TypeOK /\ Listing /\ World /\ \A k \in Jobs : Stage(k) /\ Followed(k) /\ Held(k) /\ Settled(k)
  BY DEF Sound
<1>2. TypeOK'
  <2>1. jobs' \in Seq(Jobs) /\ out' \in {Nothing} \union [job : Jobs, place : Nat \ {0}]
    BY <1>1 DEF TypeOK, PauseMatching, Swept, InPlay
  <2>2. status' \in [Jobs -> Statuses] /\ reason' \in [Jobs -> Reasons]
    BY <1>1 DEF TypeOK, PauseMatching, Swept, InPlay
  <2>3. stream' \in [Jobs -> Hosts \union {None}] /\ bound' \subseteq Jobs
    BY <1>1 DEF TypeOK, PauseMatching, Swept, InPlay
  <2>4. tried' \in [Jobs -> 0..SourceLimit] /\ retry' \in [Jobs -> 0..RetryLimit] /\ later' \subseteq Jobs
    BY <1>1, Limits DEF TypeOK, Stage, PauseMatching, Swept, InPlay
  <2>5. at' \in [Jobs -> Stages] /\ why' \in [Jobs -> Errors \union Tidyings]
    BY <1>1 DEF TypeOK, PauseMatching, Swept, InPlay
  <2>6. aborted' \subseteq Active' /\ pauseRequested' \subseteq Active'
    BY <1>1 DEF TypeOK, PauseMatching, Swept, InPlay
  <2>7. halt' \in BOOLEAN /\ room' \in BOOLEAN /\ pumpDue' \in BOOLEAN /\ retryTimer' \in BOOLEAN
    BY <1>1 DEF TypeOK, PauseMatching, Swept, InPlay
  <2>8. spent' \in [Bounds -> Nat]
    BY <1>1, SpentTyped DEF TypeOK, PauseMatching, Swept, InPlay
  <2>9. /\ library' \in {"accepts", "refuses"} /\ allowed' \subseteq Jobs /\ userPaused' \subseteq Jobs
        /\ resuming' \subseteq Jobs \X BOOLEAN /\ waking' \subseteq Jobs
    BY <1>1 DEF TypeOK, PauseMatching, Swept, InPlay
  <2> QED
    BY <2>1, <2>2, <2>3, <2>4, <2>5, <2>6, <2>7, <2>8, <2>9 DEF TypeOK
<1>3. Listing'
  BY <1>1 DEF Listing, Listed, PauseMatching, Swept, InPlay
<1>4. World'
  BY <1>1, QueueAssumption DEF TypeOK, World, PauseMatching, Swept, InPlay
<1>l. Listed' = Listed
  BY DEF Listed, PauseMatching
<1>5. ASSUME NEW k \in Jobs PROVE Stage(k)' /\ Followed(k)' /\ Held(k)' /\ Settled(k)'
  <2>1. Stage(k)'
    BY <1>1, <1>l, Limits DEF TypeOK, Stage, GivenUp, PauseMatching, Swept, InPlay
  <2>2. Followed(k)'
    BY <1>1, <1>l DEF TypeOK, Stage, Followed, PauseMatching, Swept, InPlay
  <2>3. Held(k)'
    BY <1>1 DEF TypeOK, Held, World, PauseMatching, Swept, InPlay
  <2>4. Settled(k)'
    BY <1>1 DEF TypeOK, Held, World, Settled, PauseMatching, Swept, InPlay
  <2> QED
    BY <2>1, <2>2, <2>3, <2>4
<1> QED
  BY <1>2, <1>3, <1>4, <1>5 DEF Sound

LEMMA ChangeTypeSound == ASSUME Sound, ChangeType PROVE Sound'
<1>1. TypeOK /\ Listing /\ World /\ \A k \in Jobs : Stage(k) /\ Followed(k) /\ Held(k) /\ Settled(k)
  BY DEF Sound
<1>2. TypeOK'
  <2>1. jobs' \in Seq(Jobs) /\ out' \in {Nothing} \union [job : Jobs, place : Nat \ {0}]
    BY <1>1 DEF TypeOK, ChangeType
  <2>2. status' \in [Jobs -> Statuses] /\ reason' \in [Jobs -> Reasons]
    BY <1>1 DEF TypeOK, ChangeType
  <2>3. stream' \in [Jobs -> Hosts \union {None}] /\ bound' \subseteq Jobs
    BY <1>1 DEF TypeOK, ChangeType
  <2>4. tried' \in [Jobs -> 0..SourceLimit] /\ retry' \in [Jobs -> 0..RetryLimit] /\ later' \subseteq Jobs
    BY <1>1, Limits DEF TypeOK, Stage, ChangeType
  <2>5. at' \in [Jobs -> Stages] /\ why' \in [Jobs -> Errors \union Tidyings]
    BY <1>1 DEF TypeOK, ChangeType
  <2>6. aborted' \subseteq Active' /\ pauseRequested' \subseteq Active'
    BY <1>1 DEF TypeOK, ChangeType
  <2>7. halt' \in BOOLEAN /\ room' \in BOOLEAN /\ pumpDue' \in BOOLEAN /\ retryTimer' \in BOOLEAN
    BY <1>1 DEF TypeOK, ChangeType
  <2>8. spent' \in [Bounds -> Nat]
    BY <1>1, SpentTyped DEF TypeOK, ChangeType
  <2>9. /\ library' \in {"accepts", "refuses"} /\ allowed' \subseteq Jobs /\ userPaused' \subseteq Jobs
        /\ resuming' \subseteq Jobs \X BOOLEAN /\ waking' \subseteq Jobs
    BY <1>1 DEF TypeOK, ChangeType
  <2> QED
    BY <2>1, <2>2, <2>3, <2>4, <2>5, <2>6, <2>7, <2>8, <2>9 DEF TypeOK
<1>3. Listing'
  BY <1>1 DEF Listing, Listed, ChangeType
<1>4. World'
  <2>1. UNCHANGED <<waking, resuming, out>>
    BY DEF ChangeType
  <2>2. CASE library = "accepts"
    <3>1. Spend("sweeps", MaxSweeps)
      BY <2>2 DEF ChangeType
    <3>2. spent'["sweeps"] # 0 /\ MaxSweeps # 0 /\ \A b \in Bounds \ {"sweeps"} : spent'[b] = spent[b]
      BY <1>1, <3>1, SpentCounts, Budgets DEF TypeOK
    <3> QED
      BY <1>1, <2>1, <3>2 DEF World
  <2>3. CASE library # "accepts"
    BY <1>1, <2>1, <2>3 DEF World, ChangeType
  <2> QED
    BY <2>2, <2>3
<1>l. Listed' = Listed
  BY DEF Listed, ChangeType
<1>5. ASSUME NEW k \in Jobs PROVE Stage(k)' /\ Followed(k)' /\ Held(k)' /\ Settled(k)'
  <2>1. Stage(k)'
    BY <1>1, <1>l, Limits DEF TypeOK, Stage, GivenUp, ChangeType
  <2>2. Followed(k)'
    BY <1>1, <1>l DEF TypeOK, Stage, Followed, ChangeType
  <2>3. Held(k)'
    BY <1>1 DEF TypeOK, Held, World, ChangeType
  <2>4. Settled(k)'
    BY <1>1 DEF TypeOK, Held, World, Settled, ChangeType
  <2> QED
    BY <2>1, <2>2, <2>3, <2>4
<1> QED
  BY <1>2, <1>3, <1>4, <1>5 DEF Sound

LEMMA PauseIncompatibleSound == ASSUME Sound, PauseIncompatible PROVE Sound'
<1>1. TypeOK /\ Listing /\ World /\ \A k \in Jobs : Stage(k) /\ Followed(k) /\ Held(k) /\ Settled(k)
  BY DEF Sound
<1>2. TypeOK'
  <2>1. jobs' \in Seq(Jobs) /\ out' \in {Nothing} \union [job : Jobs, place : Nat \ {0}]
    BY <1>1 DEF TypeOK, PauseIncompatible, Swept, InPlay
  <2>2. status' \in [Jobs -> Statuses] /\ reason' \in [Jobs -> Reasons]
    BY <1>1 DEF TypeOK, PauseIncompatible, Swept, InPlay
  <2>3. stream' \in [Jobs -> Hosts \union {None}] /\ bound' \subseteq Jobs
    BY <1>1 DEF TypeOK, PauseIncompatible, Swept, InPlay
  <2>4. tried' \in [Jobs -> 0..SourceLimit] /\ retry' \in [Jobs -> 0..RetryLimit] /\ later' \subseteq Jobs
    BY <1>1, Limits DEF TypeOK, Stage, PauseIncompatible, Swept, InPlay
  <2>5. at' \in [Jobs -> Stages] /\ why' \in [Jobs -> Errors \union Tidyings]
    BY <1>1 DEF TypeOK, PauseIncompatible, Swept, InPlay
  <2>6. aborted' \subseteq Active' /\ pauseRequested' \subseteq Active'
    BY <1>1 DEF TypeOK, PauseIncompatible, Swept, InPlay
  <2>7. halt' \in BOOLEAN /\ room' \in BOOLEAN /\ pumpDue' \in BOOLEAN /\ retryTimer' \in BOOLEAN
    BY <1>1 DEF TypeOK, PauseIncompatible, Swept, InPlay
  <2>8. spent' \in [Bounds -> Nat]
    BY <1>1, SpentTyped DEF TypeOK, PauseIncompatible, Swept, InPlay
  <2>9. /\ library' \in {"accepts", "refuses"} /\ allowed' \subseteq Jobs /\ userPaused' \subseteq Jobs
        /\ resuming' \subseteq Jobs \X BOOLEAN /\ waking' \subseteq Jobs
    BY <1>1 DEF TypeOK, PauseIncompatible, Swept, InPlay
  <2> QED
    BY <2>1, <2>2, <2>3, <2>4, <2>5, <2>6, <2>7, <2>8, <2>9 DEF TypeOK
<1>3. Listing'
  BY <1>1 DEF Listing, Listed, PauseIncompatible, Swept, InPlay
<1>4. World'
  BY <1>1, QueueAssumption DEF TypeOK, World, PauseIncompatible, Swept, InPlay
<1>l. Listed' = Listed
  BY DEF Listed, PauseIncompatible
<1>5. ASSUME NEW k \in Jobs PROVE Stage(k)' /\ Followed(k)' /\ Held(k)' /\ Settled(k)'
  <2>1. Stage(k)'
    BY <1>1, <1>l, Limits DEF TypeOK, Stage, GivenUp, PauseIncompatible, Swept, InPlay
  <2>2. Followed(k)'
    BY <1>1, <1>l DEF TypeOK, Stage, Followed, PauseIncompatible, Swept, InPlay
  <2>3. Held(k)'
    BY <1>1 DEF TypeOK, Held, World, PauseIncompatible, Swept, InPlay
  <2>4. Settled(k)'
    BY <1>1 DEF TypeOK, Held, World, Settled, PauseIncompatible, Swept, InPlay
  <2> QED
    BY <2>1, <2>2, <2>3, <2>4
<1> QED
  BY <1>2, <1>3, <1>4, <1>5 DEF Sound

LEMMA WatchLibrariesSound == ASSUME Sound, WatchLibraries PROVE Sound'
<1>1. TypeOK /\ Listing /\ World /\ \A k \in Jobs : Stage(k) /\ Followed(k) /\ Held(k) /\ Settled(k)
  BY DEF Sound
<1>2. TypeOK'
  <2>1. jobs' \in Seq(Jobs) /\ out' \in {Nothing} \union [job : Jobs, place : Nat \ {0}]
    BY <1>1 DEF TypeOK, WatchLibraries
  <2>2. status' \in [Jobs -> Statuses] /\ reason' \in [Jobs -> Reasons]
    BY <1>1 DEF TypeOK, WatchLibraries
  <2>3. stream' \in [Jobs -> Hosts \union {None}] /\ bound' \subseteq Jobs
    BY <1>1 DEF TypeOK, WatchLibraries
  <2>4. tried' \in [Jobs -> 0..SourceLimit] /\ retry' \in [Jobs -> 0..RetryLimit] /\ later' \subseteq Jobs
    BY <1>1, Limits DEF TypeOK, Stage, WatchLibraries
  <2>5. at' \in [Jobs -> Stages] /\ why' \in [Jobs -> Errors \union Tidyings]
    BY <1>1 DEF TypeOK, WatchLibraries
  <2>6. aborted' \subseteq Active' /\ pauseRequested' \subseteq Active'
    BY <1>1 DEF TypeOK, WatchLibraries
  <2>7. halt' \in BOOLEAN /\ room' \in BOOLEAN /\ pumpDue' \in BOOLEAN /\ retryTimer' \in BOOLEAN
    BY <1>1 DEF TypeOK, WatchLibraries
  <2>8. spent' \in [Bounds -> Nat]
    BY <1>1, SpentTyped DEF TypeOK, WatchLibraries
  <2>9. /\ library' \in {"accepts", "refuses"} /\ allowed' \subseteq Jobs /\ userPaused' \subseteq Jobs
        /\ resuming' \subseteq Jobs \X BOOLEAN /\ waking' \subseteq Jobs
    BY <1>1 DEF TypeOK, WatchLibraries
  <2> QED
    BY <2>1, <2>2, <2>3, <2>4, <2>5, <2>6, <2>7, <2>8, <2>9 DEF TypeOK
<1>3. Listing'
  BY <1>1 DEF Listing, Listed, WatchLibraries
<1>4. World'
  <2>1. UNCHANGED <<spent, library, resuming, out>>
    BY DEF WatchLibraries
  <2>2. ASSUME spent["sweeps"] = 0 PROVE waking' = {}
    BY <1>1, <2>2, ListedAreJobs DEF Held, WatchLibraries
  <2> QED
    BY <1>1, <2>1, <2>2 DEF World
<1>l. Listed' = Listed
  BY DEF Listed, WatchLibraries
<1>5. ASSUME NEW k \in Jobs PROVE Stage(k)' /\ Followed(k)' /\ Held(k)' /\ Settled(k)'
  <2>1. Stage(k)'
    BY <1>1, <1>l, Limits DEF TypeOK, Stage, GivenUp, WatchLibraries
  <2>2. Followed(k)'
    BY <1>1, <1>l DEF TypeOK, Stage, Followed, WatchLibraries
  <2>3. Held(k)'
    BY <1>1 DEF TypeOK, Held, World, WatchLibraries
  <2>4. Settled(k)'
    BY <1>1 DEF TypeOK, Held, World, Settled, WatchLibraries
  <2> QED
    BY <2>1, <2>2, <2>3, <2>4
<1> QED
  BY <1>2, <1>3, <1>4, <1>5 DEF Sound

LEMMA WakeSound == ASSUME Sound, NEW j \in Jobs, Wake(j) PROVE Sound'
<1>1. TypeOK /\ Listing /\ World /\ \A k \in Jobs : Stage(k) /\ Followed(k) /\ Held(k) /\ Settled(k)
  BY DEF Sound
<1>2. TypeOK'
  <2>1. jobs' \in Seq(Jobs) /\ out' \in {Nothing} \union [job : Jobs, place : Nat \ {0}]
    BY <1>1 DEF TypeOK, Wake
  <2>2. status' \in [Jobs -> Statuses] /\ reason' \in [Jobs -> Reasons]
    BY <1>1 DEF TypeOK, Wake
  <2>3. stream' \in [Jobs -> Hosts \union {None}] /\ bound' \subseteq Jobs
    <3>1. bound' = bound /\ (stream' = stream \/ stream' = [stream EXCEPT ![j] = None])
      BY DEF Wake
    <3> QED
      BY <1>1, <3>1 DEF TypeOK
  <2>4. tried' \in [Jobs -> 0..SourceLimit] /\ retry' \in [Jobs -> 0..RetryLimit] /\ later' \subseteq Jobs
    <3>1. UNCHANGED <<tried, later>>
      BY DEF Wake
    <3>2. CASE UNCHANGED retry
      BY <1>1, <3>1, <3>2 DEF TypeOK
    <3>3. CASE NoRetries({j} \intersect {k \in Jobs : Chosen(k)})
      BY <1>1, <3>1, <3>3, Limits DEF TypeOK
    <3> QED
      BY <3>2, <3>3 DEF Wake
  <2>5. at' \in [Jobs -> Stages] /\ why' \in [Jobs -> Errors \union Tidyings]
    BY <1>1 DEF TypeOK, Wake
  <2>6. aborted' \subseteq Active' /\ pauseRequested' \subseteq Active'
    BY <1>1 DEF TypeOK, Wake
  <2>7. halt' \in BOOLEAN /\ room' \in BOOLEAN /\ pumpDue' \in BOOLEAN /\ retryTimer' \in BOOLEAN
    BY <1>1 DEF TypeOK, Wake
  <2>8. spent' \in [Bounds -> Nat]
    BY <1>1, SpentTyped DEF TypeOK, Wake
  <2>9. /\ library' \in {"accepts", "refuses"} /\ allowed' \subseteq Jobs /\ userPaused' \subseteq Jobs
        /\ resuming' \subseteq Jobs \X BOOLEAN /\ waking' \subseteq Jobs
    BY <1>1 DEF TypeOK, Wake
  <2> QED
    BY <2>1, <2>2, <2>3, <2>4, <2>5, <2>6, <2>7, <2>8, <2>9 DEF TypeOK
<1>3. Listing'
  BY <1>1 DEF Listing, Listed, Wake
<1>4. World'
  BY <1>1, QueueAssumption DEF TypeOK, World, Wake
<1>l. Listed' = Listed
  BY DEF Listed, Wake
<1>5. ASSUME NEW k \in Jobs PROVE Stage(k)' /\ Followed(k)' /\ Held(k)' /\ Settled(k)'
  <2>1. Stage(k)'
    BY <1>1, <1>l, Limits DEF TypeOK, Stage, GivenUp, Wake
  <2>2. Followed(k)'
    BY <1>1, <1>l DEF TypeOK, Stage, Followed, Wake
  <2>3. Held(k)'
    BY <1>1 DEF TypeOK, Held, World, Wake
  <2>4. Settled(k)'
    BY <1>1 DEF TypeOK, Held, World, Settled, Wake
  <2> QED
    BY <2>1, <2>2, <2>3, <2>4
<1> QED
  BY <1>2, <1>3, <1>4, <1>5 DEF Sound

LEMMA RoomBackSound == ASSUME Sound, RoomBack PROVE Sound'
<1>1. TypeOK /\ Listing /\ World /\ \A k \in Jobs : Stage(k) /\ Followed(k) /\ Held(k) /\ Settled(k)
  BY DEF Sound
<1>2. TypeOK'
  <2>1. jobs' \in Seq(Jobs) /\ out' \in {Nothing} \union [job : Jobs, place : Nat \ {0}]
    BY <1>1 DEF TypeOK, RoomBack
  <2>2. status' \in [Jobs -> Statuses] /\ reason' \in [Jobs -> Reasons]
    BY <1>1 DEF TypeOK, RoomBack
  <2>3. stream' \in [Jobs -> Hosts \union {None}] /\ bound' \subseteq Jobs
    BY <1>1 DEF TypeOK, RoomBack
  <2>4. tried' \in [Jobs -> 0..SourceLimit] /\ retry' \in [Jobs -> 0..RetryLimit] /\ later' \subseteq Jobs
    BY <1>1, Limits DEF TypeOK, Stage, RoomBack
  <2>5. at' \in [Jobs -> Stages] /\ why' \in [Jobs -> Errors \union Tidyings]
    BY <1>1 DEF TypeOK, RoomBack
  <2>6. aborted' \subseteq Active' /\ pauseRequested' \subseteq Active'
    BY <1>1 DEF TypeOK, RoomBack
  <2>7. halt' \in BOOLEAN /\ room' \in BOOLEAN /\ pumpDue' \in BOOLEAN /\ retryTimer' \in BOOLEAN
    BY <1>1 DEF TypeOK, RoomBack
  <2>8. spent' \in [Bounds -> Nat]
    BY <1>1, SpentTyped DEF TypeOK, RoomBack
  <2>9. /\ library' \in {"accepts", "refuses"} /\ allowed' \subseteq Jobs /\ userPaused' \subseteq Jobs
        /\ resuming' \subseteq Jobs \X BOOLEAN /\ waking' \subseteq Jobs
    BY <1>1 DEF TypeOK, RoomBack
  <2> QED
    BY <2>1, <2>2, <2>3, <2>4, <2>5, <2>6, <2>7, <2>8, <2>9 DEF TypeOK
<1>3. Listing'
  BY <1>1 DEF Listing, Listed, RoomBack
<1>4. World'
  BY <1>1, QueueAssumption DEF TypeOK, World, RoomBack
<1>l. Listed' = Listed
  BY DEF Listed, RoomBack
<1>5. ASSUME NEW k \in Jobs PROVE Stage(k)' /\ Followed(k)' /\ Held(k)' /\ Settled(k)'
  <2>1. Stage(k)'
    BY <1>1, <1>l, Limits DEF TypeOK, Stage, GivenUp, RoomBack
  <2>2. Followed(k)'
    BY <1>1, <1>l DEF TypeOK, Stage, Followed, RoomBack
  <2>3. Held(k)'
    BY <1>1 DEF TypeOK, Held, World, RoomBack
  <2>4. Settled(k)'
    BY <1>1 DEF TypeOK, Held, World, Settled, RoomBack
  <2> QED
    BY <2>1, <2>2, <2>3, <2>4
<1> QED
  BY <1>2, <1>3, <1>4, <1>5 DEF Sound

LEMMA CheckSpaceSound == ASSUME Sound, CheckSpace PROVE Sound'
<1>1. TypeOK /\ Listing /\ World /\ \A k \in Jobs : Stage(k) /\ Followed(k) /\ Held(k) /\ Settled(k)
  BY DEF Sound
<1>2. TypeOK'
  <2>1. jobs' \in Seq(Jobs) /\ out' \in {Nothing} \union [job : Jobs, place : Nat \ {0}]
    BY <1>1 DEF TypeOK, CheckSpace, Group, Requeue
  <2>2. status' \in [Jobs -> Statuses] /\ reason' \in [Jobs -> Reasons]
    BY <1>1 DEF TypeOK, CheckSpace, Group, Requeue
  <2>3. stream' \in [Jobs -> Hosts \union {None}] /\ bound' \subseteq Jobs
    BY <1>1 DEF TypeOK, CheckSpace, Group, Requeue
  <2>4. tried' \in [Jobs -> 0..SourceLimit] /\ retry' \in [Jobs -> 0..RetryLimit] /\ later' \subseteq Jobs
    BY <1>1, Limits DEF TypeOK, Stage, CheckSpace, Group, Requeue
  <2>5. at' \in [Jobs -> Stages] /\ why' \in [Jobs -> Errors \union Tidyings]
    BY <1>1 DEF TypeOK, CheckSpace, Group, Requeue
  <2>6. aborted' \subseteq Active' /\ pauseRequested' \subseteq Active'
    BY <1>1 DEF TypeOK, CheckSpace, Group, Requeue
  <2>7. halt' \in BOOLEAN /\ room' \in BOOLEAN /\ pumpDue' \in BOOLEAN /\ retryTimer' \in BOOLEAN
    BY <1>1 DEF TypeOK, CheckSpace, Group, Requeue
  <2>8. spent' \in [Bounds -> Nat]
    BY <1>1, SpentTyped DEF TypeOK, CheckSpace, Group, Requeue
  <2>9. /\ library' \in {"accepts", "refuses"} /\ allowed' \subseteq Jobs /\ userPaused' \subseteq Jobs
        /\ resuming' \subseteq Jobs \X BOOLEAN /\ waking' \subseteq Jobs
    BY <1>1 DEF TypeOK, CheckSpace, Group, Requeue
  <2> QED
    BY <2>1, <2>2, <2>3, <2>4, <2>5, <2>6, <2>7, <2>8, <2>9 DEF TypeOK
<1>3. Listing'
  BY <1>1 DEF Listing, Listed, CheckSpace, Group, Requeue
<1>4. World'
  BY <1>1, QueueAssumption DEF TypeOK, World, CheckSpace, Group, Requeue
<1>l. Listed' = Listed
  BY DEF Listed, CheckSpace
<1>5. ASSUME NEW k \in Jobs PROVE Stage(k)' /\ Followed(k)' /\ Held(k)' /\ Settled(k)'
  <2>1. Stage(k)'
    BY <1>1, <1>l, Limits DEF TypeOK, Stage, GivenUp, CheckSpace, Group, Requeue
  <2>2. Followed(k)'
    BY <1>1, <1>l DEF TypeOK, Stage, Followed, CheckSpace, Group, Requeue
  <2>3. Held(k)'
    BY <1>1 DEF TypeOK, Held, World, CheckSpace, Group, Requeue
  <2>4. Settled(k)'
    BY <1>1 DEF TypeOK, Held, World, Settled, CheckSpace, Group, Requeue
  <2> QED
    BY <2>1, <2>2, <2>3, <2>4
<1> QED
  BY <1>2, <1>3, <1>4, <1>5 DEF Sound

LEMMA RestartSound == ASSUME Sound, Restart PROVE Sound'
<1>1. TypeOK /\ Listing /\ World /\ \A k \in Jobs : Stage(k) /\ Followed(k) /\ Held(k) /\ Settled(k)
  BY DEF Sound
<1>2. TypeOK'
  <2>1. jobs' \in Seq(Jobs) /\ out' \in {Nothing} \union [job : Jobs, place : Nat \ {0}]
    BY <1>1 DEF TypeOK, Restart, Reloaded, Group
  <2>2. status' \in [Jobs -> Statuses] /\ reason' \in [Jobs -> Reasons]
    BY <1>1 DEF TypeOK, Restart, Reloaded, Group
  <2>3. stream' \in [Jobs -> Hosts \union {None}] /\ bound' \subseteq Jobs
    BY <1>1 DEF TypeOK, Restart, Reloaded, Group
  <2>4. tried' \in [Jobs -> 0..SourceLimit] /\ retry' \in [Jobs -> 0..RetryLimit] /\ later' \subseteq Jobs
    <3>1. /\ retry' \in [Jobs -> 0..RetryLimit] /\ later' = {}
          /\ tried' = [i \in Jobs |-> IF GivenUp(i) THEN tried[i] - 1 ELSE tried[i]]
      BY <1>1, Limits DEF TypeOK, Restart
    <3>2. ASSUME NEW i \in Jobs PROVE tried'[i] \in 0..SourceLimit
      <4>1. tried[i] \in 0..SourceLimit /\ (GivenUp(i) => tried[i] > 0)
        BY <1>1 DEF TypeOK, Stage
      <4> QED
        BY <3>1, <4>1, Limits
    <3> QED
      BY <3>1, <3>2
  <2>5. at' \in [Jobs -> Stages] /\ why' \in [Jobs -> Errors \union Tidyings]
    BY <1>1 DEF TypeOK, Restart, Reloaded, Group
  <2>6. aborted' \subseteq Active' /\ pauseRequested' \subseteq Active'
    BY <1>1 DEF TypeOK, Restart, Reloaded, Group
  <2>7. halt' \in BOOLEAN /\ room' \in BOOLEAN /\ pumpDue' \in BOOLEAN /\ retryTimer' \in BOOLEAN
    BY <1>1 DEF TypeOK, Restart, Reloaded, Group
  <2>8. spent' \in [Bounds -> Nat]
    BY <1>1, SpentTyped DEF TypeOK, Restart, Reloaded, Group
  <2>9. /\ library' \in {"accepts", "refuses"} /\ allowed' \subseteq Jobs /\ userPaused' \subseteq Jobs
        /\ resuming' \subseteq Jobs \X BOOLEAN /\ waking' \subseteq Jobs
    BY <1>1 DEF TypeOK, Restart, Reloaded, Group
  <2> QED
    BY <2>1, <2>2, <2>3, <2>4, <2>5, <2>6, <2>7, <2>8, <2>9 DEF TypeOK
<1>3. Listing'
  BY <1>1 DEF Listing, Listed, Restart, Reloaded, Group
<1>4. World'
  BY <1>1, QueueAssumption DEF TypeOK, World, Restart, Reloaded, Group
<1>l. Listed' = Listed
  BY DEF Listed, Restart
<1>5. ASSUME NEW k \in Jobs PROVE Stage(k)' /\ Followed(k)' /\ Held(k)' /\ Settled(k)'
  <2>1. Stage(k)'
    BY <1>1, <1>l, Limits DEF TypeOK, Stage, GivenUp, Restart, Reloaded, Group
  <2>2. Followed(k)'
    BY <1>1, <1>l DEF TypeOK, Stage, Followed, Restart, Reloaded, Group
  <2>3. Held(k)'
    BY <1>1 DEF TypeOK, Held, World, Restart, Reloaded, Group
  <2>4. Settled(k)'
    BY <1>1 DEF TypeOK, Held, World, Settled, Restart, Reloaded, Group
  <2> QED
    BY <2>1, <2>2, <2>3, <2>4
<1> QED
  BY <1>2, <1>3, <1>4, <1>5 DEF Sound

LEMMA PumpStarts == ASSUME TypeOK, Pump
    PROVE \E S \in SUBSET Listed :
        /\ halt => S = {}
        /\ ~halt => Picked(S)
        /\ \A k \in S : status[k] = "queued" /\ at[k] = "idle"
        /\ at' = [k \in Jobs |-> IF k \in S THEN "starting" ELSE at[k]]
        /\ status' = [k \in Jobs |-> IF k \notin S THEN status[k]
                                      ELSE IF stream[k] = None THEN "checking" ELSE "downloading"]
        /\ reason' = [k \in Jobs |-> IF k \in S THEN "none" ELSE reason[k]]
<1>1. CASE halt
  <2>1. UNCHANGED <<status, reason, at>>
    BY <1>1 DEF Pump, Halted
  <2>2. {} \in SUBSET Listed /\ \A k \in {} : status[k] = "queued" /\ at[k] = "idle"
    OBVIOUS
  <2> QED
    BY <1>1, <2>1, <2>2 DEF TypeOK
<1>2. CASE ~halt
  <2>1. PICK S \in SUBSET Listed : Picked(S) /\ Started(S)
    BY <1>2 DEF Pump, Halted
  <2>2. ASSUME NEW k \in S PROVE status[k] = "queued" /\ at[k] = "idle"
    <3>1. PICK i \in DOMAIN jobs : jobs[i] = k
      BY DEF Listed
    <3>2. Ready(k)
      BY <2>1, <3>1 DEF Picked
    <3>3. k \in Jobs
      BY <3>1, ElementOfSeq DEF TypeOK
    <3> QED
      BY <3>2, <3>3 DEF Ready
  <2> QED
    BY <1>2, <2>1, <2>2 DEF Started
<1> QED
  BY <1>1, <1>2

LEMMA PumpSound == ASSUME Sound, Pump PROVE Sound'
<1>1. TypeOK /\ Listing /\ World /\ \A k \in Jobs : Stage(k) /\ Followed(k) /\ Held(k) /\ Settled(k)
  BY DEF Sound
<1>u. UNCHANGED <<jobs, choice, retry, later, why, aborted, pauseRequested, disk, rights, asks, spent, userPaused>>
  BY DEF Pump
<1>p. PICK S \in SUBSET Listed :
        /\ halt => S = {}
        /\ ~halt => Picked(S)
        /\ \A k \in S : status[k] = "queued" /\ at[k] = "idle"
        /\ at' = [k \in Jobs |-> IF k \in S THEN "starting" ELSE at[k]]
        /\ status' = [k \in Jobs |-> IF k \notin S THEN status[k]
                                      ELSE IF stream[k] = None THEN "checking" ELSE "downloading"]
        /\ reason' = [k \in Jobs |-> IF k \in S THEN "none" ELSE reason[k]]
  BY <1>1, PumpStarts
<1>2. TypeOK'
  <2>1. jobs' \in Seq(Jobs) /\ out' \in {Nothing} \union [job : Jobs, place : Nat \ {0}]
    BY <1>1, <1>u, <1>p DEF TypeOK
  <2>2. status' \in [Jobs -> Statuses] /\ reason' \in [Jobs -> Reasons]
    BY <1>1, <1>u, <1>p DEF TypeOK
  <2>3. stream' \in [Jobs -> Hosts \union {None}] /\ bound' \subseteq Jobs
    BY <1>1, <1>u, <1>p DEF TypeOK
  <2>4. tried' \in [Jobs -> 0..SourceLimit] /\ retry' \in [Jobs -> 0..RetryLimit] /\ later' \subseteq Jobs
    BY <1>1, <1>u, <1>p, Limits DEF TypeOK, Stage
  <2>5. at' \in [Jobs -> Stages] /\ why' \in [Jobs -> Errors \union Tidyings]
    BY <1>1, <1>u, <1>p DEF TypeOK
  <2>6. aborted' \subseteq Active' /\ pauseRequested' \subseteq Active'
    BY <1>1, <1>u, <1>p DEF TypeOK
  <2>7. halt' \in BOOLEAN /\ room' \in BOOLEAN /\ pumpDue' \in BOOLEAN /\ retryTimer' \in BOOLEAN
    <3>1. retryTimer' = retryTimer \/ retryTimer' = Rearm
      BY DEF Pump
    <3>2. Rearm \in BOOLEAN
      BY <1>1 DEF Rearm, TypeOK
    <3>3. pumpDue' = FALSE /\ UNCHANGED <<halt, room>>
      BY DEF Pump
    <3> QED
      BY <1>1, <3>1, <3>2, <3>3 DEF TypeOK
  <2>8. spent' \in [Bounds -> Nat]
    BY <1>1, <1>u, <1>p, SpentTyped DEF TypeOK
  <2>9. /\ library' \in {"accepts", "refuses"} /\ allowed' \subseteq Jobs /\ userPaused' \subseteq Jobs
        /\ resuming' \subseteq Jobs \X BOOLEAN /\ waking' \subseteq Jobs
    BY <1>1, <1>u, <1>p DEF TypeOK
  <2> QED
    BY <2>1, <2>2, <2>3, <2>4, <2>5, <2>6, <2>7, <2>8, <2>9 DEF TypeOK
<1>3. Listing'
  BY <1>1, <1>u, <1>p DEF Listing, Listed
<1>4. World'
  BY <1>1, <1>u, <1>p, QueueAssumption DEF TypeOK, World
<1>l. Listed' = Listed
  BY <1>u DEF Listed
<1>5. ASSUME NEW k \in Jobs PROVE Stage(k)' /\ Followed(k)' /\ Held(k)' /\ Settled(k)'
  <2>1. Stage(k)'
    BY <1>1, <1>u, <1>p, <1>l, Limits DEF TypeOK, Stage, GivenUp
  <2>2. Followed(k)'
    BY <1>1, <1>u, <1>p, <1>l DEF TypeOK, Stage, Followed
  <2>3. Held(k)'
    BY <1>1, <1>u, <1>p DEF TypeOK, Held, World
  <2>4. Settled(k)'
    BY <1>1, <1>u, <1>p DEF TypeOK, Held, World, Settled
  <2> QED
    BY <2>1, <2>2, <2>3, <2>4
<1> QED
  BY <1>2, <1>3, <1>4, <1>5 DEF Sound

LEMMA RetryTimerSound == ASSUME Sound, RetryTimer PROVE Sound'
<1>1. TypeOK /\ Listing /\ World /\ \A k \in Jobs : Stage(k) /\ Followed(k) /\ Held(k) /\ Settled(k)
  BY DEF Sound
<1>2. TypeOK'
  <2>1. jobs' \in Seq(Jobs) /\ out' \in {Nothing} \union [job : Jobs, place : Nat \ {0}]
    BY <1>1 DEF TypeOK, RetryTimer
  <2>2. status' \in [Jobs -> Statuses] /\ reason' \in [Jobs -> Reasons]
    BY <1>1 DEF TypeOK, RetryTimer
  <2>3. stream' \in [Jobs -> Hosts \union {None}] /\ bound' \subseteq Jobs
    BY <1>1 DEF TypeOK, RetryTimer
  <2>4. tried' \in [Jobs -> 0..SourceLimit] /\ retry' \in [Jobs -> 0..RetryLimit] /\ later' \subseteq Jobs
    BY <1>1, Limits DEF TypeOK, Stage, RetryTimer
  <2>5. at' \in [Jobs -> Stages] /\ why' \in [Jobs -> Errors \union Tidyings]
    BY <1>1 DEF TypeOK, RetryTimer
  <2>6. aborted' \subseteq Active' /\ pauseRequested' \subseteq Active'
    BY <1>1 DEF TypeOK, RetryTimer
  <2>7. halt' \in BOOLEAN /\ room' \in BOOLEAN /\ pumpDue' \in BOOLEAN /\ retryTimer' \in BOOLEAN
    BY <1>1 DEF TypeOK, RetryTimer
  <2>8. spent' \in [Bounds -> Nat]
    BY <1>1, SpentTyped DEF TypeOK, RetryTimer
  <2>9. /\ library' \in {"accepts", "refuses"} /\ allowed' \subseteq Jobs /\ userPaused' \subseteq Jobs
        /\ resuming' \subseteq Jobs \X BOOLEAN /\ waking' \subseteq Jobs
    BY <1>1 DEF TypeOK, RetryTimer
  <2> QED
    BY <2>1, <2>2, <2>3, <2>4, <2>5, <2>6, <2>7, <2>8, <2>9 DEF TypeOK
<1>3. Listing'
  BY <1>1 DEF Listing, Listed, RetryTimer
<1>4. World'
  BY <1>1, QueueAssumption DEF TypeOK, World, RetryTimer
<1>l. Listed' = Listed
  BY DEF Listed, RetryTimer
<1>5. ASSUME NEW k \in Jobs PROVE Stage(k)' /\ Followed(k)' /\ Held(k)' /\ Settled(k)'
  <2>1. Stage(k)'
    BY <1>1, <1>l, Limits DEF TypeOK, Stage, GivenUp, RetryTimer
  <2>2. Followed(k)'
    BY <1>1, <1>l DEF TypeOK, Stage, Followed, RetryTimer
  <2>3. Held(k)'
    BY <1>1 DEF TypeOK, Held, World, RetryTimer
  <2>4. Settled(k)'
    BY <1>1 DEF TypeOK, Held, World, Settled, RetryTimer
  <2> QED
    BY <2>1, <2>2, <2>3, <2>4
<1> QED
  BY <1>2, <1>3, <1>4, <1>5 DEF Sound

LEMMA CatchStorageAlone == ASSUME Sound, NEW j \in Jobs, CatchStorage(j) PROVE RunKeeps(j) \/ HaltStep(j)
<1>1. TypeOK /\ Stage(j) /\ Followed(j) /\ Held(j) /\ Settled(j) /\ World
  BY DEF Sound
<1>2. at[j] = "failing" /\ why[j] = "storage"
  BY DEF CatchStorage, Caught
<1>3. CASE ~Chosen(j)
  BY <1>2, <1>3 DEF CatchStorage, HaltStep
<1>4. CASE Chosen(j)
  <2>1. /\ Discard(j) /\ Meet(j, "tidying", "storage")
        /\ UNCHANGED <<jobs, row, disk, later, rights, asks, spent, userPaused>>
    BY <1>4 DEF CatchStorage
  <2>2. TypeOK'
    <3>1. stream' \in [Jobs -> Hosts \union {None}] /\ bound' \subseteq Jobs /\ tried' = tried
      BY <1>1, <2>1 DEF TypeOK
    <3>2. retry' \in [Jobs -> 0..RetryLimit]
      BY <1>1, <2>1, Limits DEF TypeOK
    <3>3. at' \in [Jobs -> Stages] /\ why' \in [Jobs -> Errors \union Tidyings]
      BY <1>1, <2>1 DEF TypeOK
    <3>4. aborted' \subseteq Active' /\ pauseRequested' \subseteq Active'
      BY <1>1, <1>2, <2>1 DEF TypeOK
    <3>5. UNCHANGED <<jobs, status, reason, later, halt, room, library, allowed, resuming, waking, out,
                      pumpDue, retryTimer, spent, userPaused>>
      BY <2>1
    <3> QED
      BY <1>1, <3>1, <3>2, <3>3, <3>4, <3>5 DEF TypeOK
  <2>3. Alone(j)
    BY <1>1, <2>1 DEF TypeOK, World, Alone
  <2>l. Listed' = Listed
    BY <2>1 DEF Listed
  <2>4. Stage(j)'
    BY <1>1, <1>2, <2>1, <2>l, Limits DEF TypeOK, Stage, GivenUp
  <2>5. Followed(j)' /\ Held(j)' /\ Settled(j)'
    BY <1>1, <1>2, <2>1, <2>l DEF TypeOK, Followed, Held, Settled
  <2> QED
    BY <2>2, <2>3, <2>4, <2>5 DEF RunKeeps
<1> QED
  BY <1>3, <1>4

LEMMA RunAlone == ASSUME Sound, NEW j \in Jobs, Run(j) PROVE RunKeeps(j) \/ HaltStep(j)
<1>1. CASE Stopped(j) \/ Refused(j) \/ Resolve(j) \/ NoneFound(j) \/ LookupBreaks(j) \/ NoLibrary(j) \/ ChoiceDropped(j)
  BY <1>1, StoppedAlone, RefusedAlone, ResolveAlone, NoneFoundAlone, LookupBreaksAlone, NoLibraryAlone, ChoiceDroppedAlone
<1>2. CASE Transfer(j) \/ SourceGone(j) \/ HostTaken(j) \/ TransferEnds(j) \/ PublicationStopped(j) \/ PublicationRefused(j) \/ Publish(j) \/ Announced(j)
  BY <1>2, TransferAlone, SourceGoneAlone, HostTakenAlone, TransferEndsAlone, PublicationStoppedAlone, PublicationRefusedAlone, PublishAlone, AnnouncedAlone
<1>3. CASE CatchRefused(j) \/ CatchPaused(j) \/ CatchProfile(j) \/ CatchUnfit(j) \/ CatchRetry(j) \/ CatchNext(j) \/ CatchFailed(j) \/ TidiedFailed(j) \/ TidiedQueued(j)
  BY <1>3, CatchRefusedAlone, CatchPausedAlone, CatchProfileAlone, CatchUnfitAlone, CatchRetryAlone, CatchNextAlone, CatchFailedAlone, TidiedFailedAlone, TidiedQueuedAlone
<1>4. CASE \E h \in Hosts : SourceFound(j, h)
  BY <1>4, SourceFoundAlone
<1>5. CASE \E e \in Errors : TransferBreaks(j, e)
  BY <1>5, TransferBreaksAlone
<1>6. CASE CatchStorage(j)
  BY <1>6, CatchStorageAlone
<1>7. CASE TidiedHalt(j)
  BY <1>7 DEF TidiedHalt, HaltStep
<1> QED
  BY <1>1, <1>2, <1>3, <1>4, <1>5, <1>6, <1>7 DEF Run

LEMMA RunSound == ASSUME Sound, NEW j \in Jobs, Run(j) PROVE Sound'
BY RunAlone, OthersAreKept, HaltForSound

LEMMA NextSound == Sound /\ [Next]_vars => Sound'
<1> SUFFICES ASSUME Sound, [Next]_vars PROVE Sound'
  OBVIOUS
<1>1. CASE UNCHANGED vars
  <2>1. TypeOK'
    BY <1>1 DEF Sound, TypeOK, vars
  <2>2. Listing' /\ World'
    BY <1>1 DEF Sound, Listing, World, Listed, vars
  <2>3. ASSUME NEW k \in Jobs PROVE Stage(k)' /\ Followed(k)' /\ Held(k)' /\ Settled(k)'
    BY <1>1 DEF Sound, Stage, GivenUp, Followed, Held, Settled, Listed, vars
  <2> QED
    BY <2>1, <2>2, <2>3 DEF Sound
<1>2. ASSUME NEW j \in Jobs, Run(j) PROVE Sound'
  BY <1>2, RunSound
<1>3. ASSUME NEW j \in Jobs, Elapsed(j) \/ Recover(j) PROVE Sound'
  BY <1>3, OthersAreKept, ElapsedAlone, RecoverAlone
<1>4. ASSUME NEW j \in Jobs, People(j) PROVE Sound'
  BY <1>4, PauseSound, AskRemoveSound, ResumeSound, AskResumeSound DEF People
<1>5. ASSUME NEW j \in Jobs, Withdraw(j) \/ Grant(j) \/ Wake(j) PROVE Sound'
  BY <1>5, WithdrawSound, GrantSound, WakeSound
<1>6. ASSUME NEW i \in DOMAIN jobs, Move(i) PROVE Sound'
  BY <1>6, MoveSound
<1>7. CASE Pump \/ RetryTimer \/ Removed \/ Kept
  BY <1>7, PumpSound, RetryTimerSound, RemovedSound, KeptSound
<1>8. CASE PauseMatching \/ ChangeType \/ PauseIncompatible \/ WatchLibraries
  BY <1>8, PauseMatchingSound, ChangeTypeSound, PauseIncompatibleSound, WatchLibrariesSound
<1>9. CASE RoomBack \/ CheckSpace \/ Restart
  BY <1>9, RoomBackSound, CheckSpaceSound, RestartSound
<1> QED
  BY <1>1, <1>2, <1>3, <1>4, <1>5, <1>6, <1>7, <1>8, <1>9 DEF Next

LEMMA InitSound == Init => Sound
<1> SUFFICES ASSUME Init PROVE Sound
  OBVIOUS
<1>1. TypeOK
  <2>1. jobs \in Seq(Jobs)
    BY QueueAssumption DEF Init
  <2>2. /\ status \in [Jobs -> Statuses] /\ reason \in [Jobs -> Reasons]
        /\ stream \in [Jobs -> Hosts \union {None}] /\ bound \subseteq Jobs
    BY QueueAssumption DEF Init
  <2>3. /\ tried \in [Jobs -> 0..SourceLimit] /\ retry \in [Jobs -> 0..RetryLimit] /\ later \subseteq Jobs
    BY Limits DEF Init
  <2> QED
    BY <2>1, <2>2, <2>3 DEF Init, TypeOK
<1>2. Listing
  BY QueueAssumption DEF Init, Listing
<1>3. World
  BY DEF Init, World
<1>4. ASSUME NEW k \in Jobs PROVE Stage(k) /\ Followed(k) /\ Held(k) /\ Settled(k)
  BY Limits DEF Init, Stage, GivenUp, Followed, Held, Settled
<1> QED
  BY <1>1, <1>2, <1>3, <1>4 DEF Sound

\* The invariant of the queue holds in every reachable state.
THEOREM QueueInvariant == Spec => []Sound
BY InitSound, NextSound, PTL DEF Spec

-----------------------------------------------------------------------------
(* The settings. A host is counted when the pump starts a row, but the     *)
(* host of a lazy row is learnt later, and the check before the transfer   *)
(* counts again: Hosting is about transfers, Slots about runs.             *)

Slots == Cardinality(Active) <= Limit
Hosting == spent["kept"] = 0 => \A h \in Hosts : From(h, Transfers \intersect Listed) <= PerProvider

\* A step that starts no run and no transfer, and moves none to another host.
Narrow ==
    /\ Active' \subseteq Active
    /\ spent'["kept"] = 0 =>
        /\ spent["kept"] = 0
        /\ \A k \in Transfers' \intersect Listed' :
              k \in Transfers \intersect Listed /\ (stream'[k] = stream[k] \/ stream'[k] = None)

LEMMA RowsAreFinite == ASSUME NEW S \in SUBSET Jobs PROVE IsFiniteSet(S) /\ Cardinality(S) \in Nat
BY QueueAssumption, FS_Subset, FS_CardinalityType

LEMMA NarrowKeeps == ASSUME Narrow, Slots, Hosting PROVE Slots' /\ Hosting'
<1>1. Slots'
  <2> DEFINE A == Active
             B == Active'
  <2>1. A \in SUBSET Jobs /\ B \subseteq A /\ Cardinality(A) <= Limit
    BY DEF Narrow, Slots
  <2>2. Cardinality(B) <= Cardinality(A) /\ Cardinality(B) \in Nat /\ Cardinality(A) \in Nat
    <3> HIDE DEF A, B
    <3> QED
      BY <2>1, RowsAreFinite, FS_Subset
  <2>3. Cardinality(B) <= Limit
    <3> HIDE DEF A, B
    <3> QED
      BY <2>1, <2>2, QueueAssumption
  <2> QED
    BY <2>3 DEF Slots
<1>2. ASSUME spent'["kept"] = 0, NEW h \in Hosts
      PROVE Cardinality({k \in Transfers' \intersect Listed' : stream'[k] = h}) <= PerProvider
  <2> DEFINE A == {k \in Transfers \intersect Listed : stream[k] = h}
             B == {k \in Transfers' \intersect Listed' : stream'[k] = h}
  <2>1. h # None
    BY QueueAssumption
  <2>2. A \in SUBSET Jobs /\ B \subseteq A
    BY <1>2, <2>1 DEF Narrow, Transfers
  <2>3. Cardinality(A) <= PerProvider
    BY <1>2 DEF Narrow, Hosting, From
  <2> HIDE DEF A, B
  <2>4. Cardinality(B) <= Cardinality(A) /\ Cardinality(B) \in Nat /\ Cardinality(A) \in Nat
    BY <2>2, RowsAreFinite, FS_Subset
  <2>5. Cardinality(B) <= PerProvider
    BY <2>3, <2>4, QueueAssumption
  <2> QED
    BY <2>5 DEF B
<1> QED
  BY <1>1, <1>2 DEF Hosting, From

LEMMA StillNarrow ==
    ASSUME jobs' = jobs, at' = at, spent'["kept"] = spent["kept"], aborted \subseteq aborted',
           \A k \in Jobs : stream'[k] = stream[k] \/ stream'[k] = None
    PROVE Narrow
BY DEF Narrow, Transfers, Listed

LEMMA RunEndsMoving == ASSUME TypeOK, NEW j \in Jobs, Run(j) PROVE at[j] # "idle" /\ (Transfer(j) \/ at'[j] # "moving")
<1>1. CASE \/ Stopped(j) \/ Refused(j) \/ Resolve(j) \/ NoneFound(j) \/ NoLibrary(j) \/ ChoiceDropped(j)
           \/ LookupBreaks(j) \/ \E h \in Hosts : SourceFound(j, h)
  BY <1>1 DEF TypeOK, Stopped, Refused, Resolve, NoneFound, NoLibrary, ChoiceDropped, LookupBreaks, SourceFound
<1>2. CASE SourceGone(j) \/ HostTaken(j) \/ TransferEnds(j) \/ \E e \in Errors : TransferBreaks(j, e)
  BY <1>2 DEF TypeOK, SourceGone, HostTaken, Known, TransferEnds, TransferBreaks
<1>3. CASE PublicationStopped(j) \/ PublicationRefused(j) \/ Publish(j) \/ Announced(j)
  BY <1>3 DEF TypeOK, PublicationStopped, PublicationRefused, Publish, Announced
<1>4. CASE \/ CatchRefused(j) \/ CatchPaused(j) \/ CatchStorage(j) \/ CatchProfile(j) \/ CatchUnfit(j)
           \/ CatchRetry(j) \/ CatchNext(j) \/ CatchFailed(j)
  BY <1>4 DEF TypeOK, CatchRefused, CatchPaused, CatchStorage, CatchProfile, CatchUnfit, CatchRetry, CatchNext, CatchFailed, Caught, HaltFor
<1>5. CASE TidiedHalt(j) \/ TidiedFailed(j) \/ TidiedQueued(j)
  BY <1>5 DEF TypeOK, TidiedHalt, TidiedFailed, TidiedQueued, HaltFor
<1>6. CASE Transfer(j)
  BY <1>6 DEF Transfer, Known
<1> QED
  BY <1>1, <1>2, <1>3, <1>4, <1>5, <1>6 DEF Run

LEMMA RunNarrow == ASSUME Sound, NEW j \in Jobs, Run(j), ~Transfer(j) PROVE Narrow
<1>1. TypeOK /\ at[j] # "idle" /\ at'[j] # "moving"
  BY RunEndsMoving DEF Sound
<1>2. CASE RunKeeps(j)
  BY <1>1, <1>2 DEF RunKeeps, Alone, Narrow, Transfers, Listed
<1>3. CASE HaltStep(j)
  BY <1>1, <1>3 DEF HaltStep, HaltFor, TypeOK, Narrow, Transfers, Listed
<1> QED
  BY <1>2, <1>3, RunAlone

LEMMA TransferFits == ASSUME Sound, NEW j \in Jobs, Transfer(j), Slots, Hosting PROVE Slots' /\ Hosting'
<1>1. TypeOK
  BY DEF Sound
<1>2. /\ at' = [at EXCEPT ![j] = "moving"] /\ at[j] # "idle" /\ stream[j] # None /\ ~HostBusy(j)
      /\ UNCHANGED <<jobs, stream, aborted, spent>>
  BY DEF Transfer, Known
<1>3. Active' = Active
  BY <1>1, <1>2 DEF TypeOK
<1>l. Listed' = Listed /\ Transfers' \subseteq Transfers \union {j} /\ Transfers \subseteq Active
  BY <1>1, <1>2 DEF TypeOK, Transfers, Listed
<1>4. ASSUME spent["kept"] = 0, NEW h \in Hosts
      PROVE Cardinality({k \in Transfers' \intersect Listed' : stream'[k] = h}) <= PerProvider
  <2> DEFINE A == {k \in Transfers \intersect Listed : stream[k] = h}
             B == {k \in Transfers' \intersect Listed' : stream'[k] = h}
             C == {k \in (Active \intersect Listed) \ {j} : stream[k] = h}
  <2>1. A \in SUBSET Jobs /\ B \in SUBSET Jobs /\ C \in SUBSET Jobs
    BY DEF Transfers
  <2>2. Cardinality(A) <= PerProvider
    BY <1>4 DEF Hosting, From
  <2>3. CASE stream[j] # h
    <3>1. B \subseteq A
      BY <1>2, <1>l, <2>3
    <3> HIDE DEF A, B
    <3>2. Cardinality(B) <= Cardinality(A) /\ Cardinality(B) \in Nat /\ Cardinality(A) \in Nat
      BY <2>1, <3>1, RowsAreFinite, FS_Subset
    <3>3. Cardinality(B) <= PerProvider
      BY <2>2, <3>2, QueueAssumption
    <3> QED
      BY <3>3 DEF B
  <2>4. CASE stream[j] = h
    <3>1. B \subseteq C \union {j}
      BY <1>2, <1>l
    <3>2. ~(Cardinality(C) >= PerProvider)
      BY <1>2, <2>4 DEF HostBusy, From, HostLimit
    <3> HIDE DEF A, B, C
    <3>3. /\ IsFiniteSet(C \union {j}) /\ Cardinality(C) \in Nat
          /\ Cardinality(C \union {j}) \in {Cardinality(C), Cardinality(C) + 1}
      BY <2>1, RowsAreFinite, FS_AddElement
    <3>4. Cardinality(B) <= Cardinality(C \union {j}) /\ Cardinality(B) \in Nat
      BY <2>1, <3>1, <3>3, RowsAreFinite, FS_Subset
    <3>5. Cardinality(B) <= PerProvider
      BY <3>2, <3>3, <3>4, QueueAssumption
    <3> QED
      BY <3>5 DEF B
  <2> QED
    BY <2>3, <2>4
<1> QED
  BY <1>2, <1>3, <1>4 DEF Slots, Hosting, From

LEMMA LargestIndex == ASSUME NEW n \in Nat, NEW I \in SUBSET (1..n), I # {} PROVE \E i \in I : \A m \in I : m <= i
<1> DEFINE T == {n - i : i \in I}
<1>1. T \subseteq Nat /\ T # {}
  <2>1. \A i \in I : n - i \in Nat
    OBVIOUS
  <2> QED
    BY <2>1
<1>2. PICK x \in T : \A y \in T : ~(<<y, x>> \in OpToRel(<, Nat))
  BY <1>1, NatLessThanWellFounded, WFMin
<1>3. \A y \in T : ~(y < x)
  BY <1>1, <1>2 DEF OpToRel
<1>4. PICK i \in I : x = n - i
  OBVIOUS
<1>5. ASSUME NEW m \in I PROVE m <= i
  <2>1. n - m \in T
    OBVIOUS
  <2>2. ~(n - m < n - i)
    BY <1>3, <1>4, <2>1
  <2> QED
    BY <2>2
<1> QED
  BY <1>5

LEMMA DisjointUnion ==
    ASSUME NEW A \in SUBSET Jobs, NEW B \in SUBSET Jobs, A \intersect B = {}
    PROVE Cardinality(A \union B) = Cardinality(A) + Cardinality(B)
<1>1. IsFiniteSet(A) /\ IsFiniteSet(B) /\ Cardinality(A) \in Nat /\ Cardinality(B) \in Nat
  BY RowsAreFinite
<1>2. Cardinality({}) = 0
  BY FS_EmptySet
<1>3. Cardinality(A \union B) = Cardinality(A) + Cardinality(B) - Cardinality(A \intersect B)
  BY <1>1, FS_Union
<1>4. Cardinality(A \union B) = Cardinality(A) + Cardinality(B) - 0
  BY <1>2, <1>3
<1> QED
  BY <1>1, <1>4

LEMMA PickedFits ==
    ASSUME TypeOK, Listing, NEW S \in SUBSET Listed, Picked(S), S # {}
    PROVE Cardinality(Active) + Cardinality(S) <= Limit
<1> DEFINE I == {i \in DOMAIN jobs : jobs[i] \in S}
<1>1. Len(jobs) \in Nat /\ DOMAIN jobs = 1..Len(jobs) /\ Listed \subseteq Jobs
  BY LenProperties, ListedAreJobs DEF TypeOK
<1>2. I \in SUBSET (1..Len(jobs)) /\ I # {}
  BY <1>1 DEF Listed
<1>3. PICK i \in I : \A m \in I : m <= i
  <2> HIDE DEF I
  <2> QED
    BY <1>1, <1>2, LargestIndex
<1>4. Fits(jobs[i], S \intersect {jobs[k] : k \in 1..(i - 1)})
  BY DEF Picked
<1>5. S \intersect {jobs[k] : k \in 1..(i - 1)} = S \ {jobs[i]}
  <2>1. ASSUME NEW s \in S, s # jobs[i] PROVE s \in {jobs[k] : k \in 1..(i - 1)}
    <3>1. PICK m \in DOMAIN jobs : jobs[m] = s
      BY DEF Listed
    <3>2. m \in I /\ m # i
      BY <2>1, <3>1
    <3>3. m <= i
      BY <1>3, <3>2
    <3>4. m \in 1..(i - 1)
      BY <1>1, <3>2, <3>3
    <3> QED
      BY <3>1, <3>4
  <2>2. ASSUME NEW k \in 1..(i - 1) PROVE jobs[k] # jobs[i]
    BY <1>1 DEF Listing, IsInjective
  <2> QED
    BY <2>1, <2>2
<1>6. Cardinality(Active) + Cardinality(S \ {jobs[i]}) < Limit
  BY <1>4, <1>5 DEF Fits
<1>7. jobs[i] \in S /\ IsFiniteSet(S) /\ Cardinality(S) \in Nat
  BY <1>1, RowsAreFinite
<1>8. Cardinality(S \ {jobs[i]}) = Cardinality(S) - 1
  BY <1>7, FS_RemoveElement
<1>9. Active \in SUBSET Jobs
  OBVIOUS
<1>10. Cardinality(Active) \in Nat
  BY <1>9, RowsAreFinite
<1> DEFINE n == Cardinality(Active)
           m == Cardinality(S)
<1>11. n + (m - 1) < Limit /\ n \in Nat /\ m \in Nat
  BY <1>6, <1>7, <1>8, <1>10
<1>12. n + m <= Limit
  <2> HIDE DEF n, m
  <2> QED
    BY <1>11, QueueAssumption
<1> QED
  BY <1>12

LEMMA PumpFits == ASSUME Sound, Pump, Slots, Hosting PROVE Slots' /\ Hosting'
<1>1. TypeOK /\ Listing
  BY DEF Sound
<1>2. UNCHANGED <<jobs, stream, aborted, spent>>
  BY DEF Pump
<1>3. PICK S \in SUBSET Listed :
        /\ halt => S = {}
        /\ ~halt => Picked(S)
        /\ \A k \in S : status[k] = "queued" /\ at[k] = "idle"
        /\ at' = [k \in Jobs |-> IF k \in S THEN "starting" ELSE at[k]]
  BY <1>1, PumpStarts
<1>4. CASE S = {}
  <2>1. UNCHANGED at
    BY <1>1, <1>3, <1>4 DEF TypeOK
  <2>2. Narrow
    BY <1>2, <2>1 DEF Narrow, Transfers, Listed
  <2> QED
    BY <2>2, NarrowKeeps
<1>5. CASE S # {}
  <2>1. S \subseteq Jobs
    BY <1>1, ListedAreJobs
  <2> DEFINE A == Active
  <2>2. A \in SUBSET Jobs /\ A \intersect S = {} /\ Active' = A \union S
    BY <1>3, <2>1
  <2>3. Cardinality(A) + Cardinality(S) <= Limit
    BY <1>1, <1>3, <1>5, PickedFits
  <2>4. Cardinality(A \union S) = Cardinality(A) + Cardinality(S)
    <3> HIDE DEF A
    <3> QED
      BY <2>1, <2>2, DisjointUnion
  <2>5. Slots'
    BY <2>2, <2>3, <2>4 DEF Slots
  <2>6. Transfers' \subseteq Transfers /\ Listed' = Listed
    BY <1>1, <1>2, <1>3 DEF TypeOK, Transfers, Listed
  <2>7. Transfers' = Transfers
    BY <1>1, <1>2, <1>3 DEF TypeOK, Transfers
  <2>8. Hosting'
    BY <1>2, <2>6, <2>7 DEF Hosting, From
  <2> QED
    BY <2>5, <2>8
<1> QED
  BY <1>4, <1>5

LEMMA NextFits == Sound /\ Slots /\ Hosting /\ [Next]_vars => Slots' /\ Hosting'
<1> SUFFICES ASSUME Sound, Slots, Hosting, [Next]_vars PROVE Slots' /\ Hosting'
  OBVIOUS
<1>0. TypeOK /\ Listing
  BY DEF Sound
<1>1. CASE UNCHANGED vars
  <2>1. Narrow
    BY <1>1 DEF Narrow, Transfers, Listed, vars
  <2> QED
    BY <2>1, NarrowKeeps
<1>2. ASSUME NEW j \in Jobs, Run(j) PROVE Slots' /\ Hosting'
  BY <1>2, RunNarrow, NarrowKeeps, TransferFits
<1>3. ASSUME NEW j \in Jobs, Elapsed(j) \/ Recover(j) PROVE Narrow
  BY <1>3 DEF Narrow, Transfers, Listed, Elapsed, Recover
<1>4. ASSUME NEW j \in Jobs, Pause(j) PROVE Narrow
  BY <1>0, <1>4 DEF TypeOK, Narrow, Transfers, Listed, Pause
<1>5. ASSUME NEW j \in Jobs, NEW anew \in BOOLEAN, AskResume(j, anew) PROVE Narrow
  BY <1>0, <1>5 DEF TypeOK, Narrow, Transfers, Listed, AskResume
<1>6. ASSUME NEW j \in Jobs, Resume(j) PROVE Narrow
  <2>1. UNCHANGED <<jobs, at, aborted, spent>>
    BY <1>6 DEF Resume
  <2>2. stream' = stream \/ stream' = [stream EXCEPT ![j] = None]
    BY <1>6 DEF Resume
  <2> QED
    <3>1. \A k \in Jobs : stream'[k] = stream[k] \/ stream'[k] = None
      BY <1>0, <2>2 DEF TypeOK
    <3>2. Transfers' = Transfers /\ Listed' = Listed /\ Transfers \subseteq Jobs
      BY <2>1 DEF Transfers, Listed
    <3> QED
      BY <2>1, <3>1, <3>2 DEF Narrow
<1>7. ASSUME NEW j \in Jobs, AskRemove(j) PROVE Narrow
  <2>1. Listed' \subseteq Listed
    BY <1>0, <1>7, RemovalUnlists
  <2>2. UNCHANGED <<at, aborted, stream>> /\ spent'["kept"] = spent["kept"]
    BY <1>0, <1>7 DEF AskRemove, TypeOK
  <2> QED
    BY <2>1, <2>2 DEF Narrow, Transfers
<1>8. ASSUME NEW j \in Jobs, Withdraw(j) \/ Grant(j) PROVE Narrow
  BY <1>0, <1>8 DEF TypeOK, Narrow, Transfers, Listed, Withdraw, Grant
<1>9. ASSUME NEW j \in Jobs, Wake(j) PROVE Narrow
  <2>1. UNCHANGED <<jobs, at, aborted, spent>> /\ (stream' = stream \/ stream' = [stream EXCEPT ![j] = None])
    BY <1>9 DEF Wake
  <2> QED
    <3>1. \A k \in Jobs : stream'[k] = stream[k] \/ stream'[k] = None
      BY <1>0, <2>1 DEF TypeOK
    <3>2. Transfers' = Transfers /\ Listed' = Listed /\ Transfers \subseteq Jobs
      BY <2>1 DEF Transfers, Listed
    <3> QED
      BY <2>1, <3>1, <3>2 DEF Narrow
<1>10. ASSUME NEW i \in DOMAIN jobs, Move(i) PROVE Narrow
  <2>1. UNCHANGED <<at, aborted, stream, spent>>
    BY <1>10 DEF Move
  <2>2. Listed' = Listed
    BY <1>0, <1>10, MoveKeepsListed
  <2> QED
    BY <2>1, <2>2 DEF Narrow, Transfers
<1>11. CASE Kept
  <2>1. Spend("kept", MaxKept)
    BY <1>11 DEF Kept
  <2>2. spent'["kept"] # 0
    BY <1>0, <2>1, SpentCounts, Budgets DEF TypeOK
  <2>3. at' = at
    BY <1>11 DEF Kept
  <2>4. Narrow
    BY <2>2, <2>3 DEF Narrow
  <2> QED
    BY <2>4, NarrowKeeps
<1>12. CASE RetryTimer \/ Removed \/ ChangeType \/ WatchLibraries \/ RoomBack \/ CheckSpace
  <2>1. jobs' = jobs /\ at' = at /\ stream' = stream /\ aborted \subseteq aborted'
    BY <1>12 DEF RetryTimer, Removed, ChangeType, WatchLibraries, RoomBack, CheckSpace
  <2>2. spent'["kept"] = spent["kept"]
    BY <1>0, <1>12 DEF TypeOK, RetryTimer, Removed, ChangeType, WatchLibraries, RoomBack, CheckSpace
  <2> QED
    BY <2>1, <2>2, StillNarrow, NarrowKeeps
<1>13. CASE PauseMatching \/ PauseIncompatible
  <2>1. jobs' = jobs /\ at' = at /\ spent' = spent /\ aborted \subseteq aborted'
    BY <1>13 DEF PauseMatching, PauseIncompatible
  <2>2. \A k \in Jobs : stream'[k] = stream[k] \/ stream'[k] = None
    BY <1>13 DEF PauseMatching, PauseIncompatible
  <2> QED
    BY <2>1, <2>2, StillNarrow, NarrowKeeps
<1>14. CASE Restart
  <2>1. at' = [k \in Jobs |-> "idle"]
    BY <1>14 DEF Restart
  <2>2. Active' = {} /\ Transfers' = {}
    BY <2>1 DEF Transfers
  <2>3. Spend("restarts", MaxRestarts)
    BY <1>14 DEF Restart
  <2>4. spent'["kept"] = spent["kept"]
    BY <1>0, <2>3 DEF TypeOK
  <2>5. Narrow
    BY <2>2, <2>4 DEF Narrow
  <2> QED
    BY <2>5, NarrowKeeps
<1>15. CASE Pump
  BY <1>15, PumpFits
<1> QED
  BY <1>1, <1>2, <1>3, <1>4, <1>5, <1>6, <1>7, <1>8, <1>9, <1>10, <1>11, <1>12, <1>13, <1>14, <1>15, NarrowKeeps
     DEF Next, People

\* Never more runs than the setting allows, and never more transfers of listed rows from one host than
\* it allows, with a removal whose write failed as the only exception of the second (pump(), busy()).
THEOREM SettingsInvariant == Spec => [](Slots /\ Hosting)
<1>1. Init => Slots /\ Hosting
  <2> SUFFICES ASSUME Init PROVE Slots /\ Hosting
    OBVIOUS
  <2>1. Active = {} /\ Transfers = {}
    BY DEF Init, Transfers
  <2>2. Slots
    <3>1. Cardinality({}) <= Limit
      BY FS_EmptySet, QueueAssumption
    <3> QED
      BY <2>1, <3>1 DEF Slots
  <2>3. \A h \in Hosts : {k \in Transfers \intersect Listed : stream[k] = h} = {}
    BY <2>1
  <2>4. Cardinality({}) <= PerProvider
    BY FS_EmptySet, QueueAssumption
  <2>5. Hosting
    BY <2>3, <2>4 DEF Hosting, From
  <2> QED
    BY <2>2, <2>5
<1> QED
  BY <1>1, NextFits, QueueInvariant, PTL DEF Spec

\* Every variable has its type: no budget is overspent, no row is listed that the queue does not know,
\* and only a run can be told to stop.
THEOREM QueueTyped == Spec => []TypeOK
<1>1. Sound => TypeOK
  BY DEF Sound
<1> QED
  BY <1>1, QueueInvariant, PTL

\* A row that was removed has no live run that would still write or publish a file for it: remove()
\* stops it with the step that takes it from the list for good.
THEOREM RemovedRowsAreStopped == Spec => []RemovedIsStopped
<1>1. Sound => RemovedIsStopped
  BY DEF Sound, Stage, RemovedIsStopped
<1> QED
  BY <1>1, QueueInvariant, PTL

\* While the queue is halted for storage every run of a listed row was told to stop, also one that was
\* just started, looks for a source or deletes files (haltForStorage()). Not so if the write of a
\* removal failed: its row was not listed when the halt came, and is put back with a live run.
THEOREM HaltReachesEveryRun == Spec => [](spent["kept"] = 0 => HaltStopsAll)
<1>1. Sound => (spent["kept"] = 0 => HaltStopsAll)
  BY DEF Sound, Followed, HaltStopsAll
<1> QED
  BY <1>1, QueueInvariant, PTL

\* A row that the halt paused is there only as long as the halt is, which keeps the space watch going
\* (releaseStorageHalt()). A row that was not listed when the halt was released, and is put back, is
\* left behind.
THEOREM HaltedRowsKeepTheHalt == Spec => [](spent["kept"] = 0 => HaltedRowsAreWatched)
<1>1. Sound => (spent["kept"] = 0 => HaltedRowsAreWatched)
  BY ListedAreJobs DEF Sound, Followed, HaltedRowsAreWatched
<1> QED
  BY <1>1, QueueInvariant, PTL

\* A row shown as being looked up or downloaded has a run (the finally of download() comes last). A row
\* put back may have lost its run in the meantime.
THEOREM ShownRowsRun == Spec => [](spent["kept"] = 0 => ShownRunningIsRunning)
<1>1. Sound => (spent["kept"] = 0 => ShownRunningIsRunning)
  BY ListedAreJobs DEF Sound, Followed, ShownRunningIsRunning
<1> QED
  BY <1>1, QueueInvariant, PTL

\* A paused row transfers and publishes nothing: whoever paused it has stopped its run. The exception
\* takes a resume and a library that changed its type in one history: the watch listed the row, the
\* resume started it, and the watch queues it under its run.
THEOREM PausedRowsAreStopped == Spec => [](spent["resumes"] = 0 \/ spent["sweeps"] = 0 => PausedIsStopped)
<1>1. Sound => (spent["resumes"] = 0 \/ spent["sweeps"] = 0 => PausedIsStopped)
  BY ListedAreJobs DEF Sound, Held, PausedIsStopped
<1> QED
  BY <1>1, QueueInvariant, PTL

\* The setting of runs at once holds without exception, restarts and failed removals included.
THEOREM SlotsAreKept == Spec => [](Cardinality(Active) <= Limit)
BY SettingsInvariant, PTL DEF Slots

\* The setting of transfers from one host holds of the listed rows.
THEOREM HostsAreKept == Spec => [](spent["kept"] = 0 => \A h \in Hosts : From(h, Transfers \intersect Listed) <= PerProvider)
BY SettingsInvariant, PTL DEF Hosting

\* Both settings as they are promised, over all rows, in a history without a removal: a removed row may
\* still transfer while the write of its removal is under way, and the pump does not count it.
THEOREM SettingsHold == Spec => [](spent["removals"] = 0 => SettingsAreKept)
<1>1. Sound /\ Slots /\ Hosting => (spent["removals"] = 0 => SettingsAreKept)
  <2> SUFFICES ASSUME Sound, Slots, Hosting, spent["removals"] = 0 PROVE SettingsAreKept
    OBVIOUS
  <2>1. Transfers \subseteq Listed
    BY DEF Sound, World, Stage, Transfers
  <2>2. Transfers \intersect Listed = Transfers /\ spent["kept"] = 0
    BY <2>1 DEF Sound, World
  <2> QED
    BY <2>2 DEF Slots, Hosting, SettingsAreKept
<1> QED
  BY <1>1, QueueInvariant, SettingsInvariant, PTL

-----------------------------------------------------------------------------
(* A person's pause.                                                       *)

Left(j) ==
    status[j] = "paused" /\ reason[j] = "user" /\ ~(status'[j] = "paused" /\ reason'[j] = "user")
        => \/ resuming' # resuming /\ j \in Resuming
           \/ j \in waking \ waking'
           \/ at[j] = "tidying" /\ at'[j] = "idle"
           \/ j \in Active /\ halt'
           \/ at[j] \in {"failing", "chosen"} /\ Refusal(j) # "none"

LEMMA RunLeaves == ASSUME Sound, NEW j \in Jobs, Run(j) PROVE Left(j)
<1> SUFFICES ASSUME status[j] = "paused", reason[j] = "user" PROVE Left(j)
  BY DEF Left
<1>0. TypeOK /\ at[j] # "idle"
  BY RunEndsMoving DEF Sound
<1>1. j \in pauseRequested /\ j \in aborted
  BY <1>0 DEF Sound, Stage
<1>2. CASE Stopped(j) \/ PublicationStopped(j) \/ Announced(j) \/ (\E e \in Errors : TransferBreaks(j, e)) \/ TransferEnds(j)
  BY <1>2 DEF Stopped, PublicationStopped, Announced, TransferBreaks, TransferEnds, Left
<1>3. CASE \/ Refused(j) \/ Resolve(j) \/ NoneFound(j) \/ NoLibrary(j) \/ LookupBreaks(j) \/ \E h \in Hosts : SourceFound(j, h)
  BY <1>1, <1>3 DEF Refused, Resolve, NoneFound, NoLibrary, LookupBreaks, SourceFound
<1>4. CASE ChoiceDropped(j)
  <2>1. at[j] = "chosen" /\ (IF Refusal(j) = "none" THEN UNCHANGED row ELSE Row(j, "paused", Refusal(j)))
    BY <1>4 DEF ChoiceDropped
  <2> QED
    BY <2>1 DEF Left
<1>5. CASE Transfer(j) \/ SourceGone(j) \/ HostTaken(j) \/ PublicationRefused(j) \/ Publish(j)
  BY <1>1, <1>5 DEF Transfer, SourceGone, HostTaken, Known, PublicationRefused, Publish, Live
<1>6. CASE CatchRefused(j)
  <2>1. at[j] = "failing" /\ Refusal(j) # "none"
    BY <1>6 DEF CatchRefused, Refusal
  <2> QED
    BY <2>1 DEF Left
<1>7. CASE CatchPaused(j)
  <2>1. status' = [status EXCEPT ![j] = "paused"] /\ reason' = [reason EXCEPT ![j] = KeptReason(j)]
    BY <1>7 DEF CatchPaused
  <2>2. KeptReason(j) = "user"
    BY DEF KeptReason
  <2> QED
    BY <1>0, <2>1, <2>2 DEF TypeOK, Left
<1>8. CASE CatchStorage(j) \/ CatchProfile(j) \/ CatchUnfit(j) \/ CatchRetry(j) \/ CatchNext(j) \/ CatchFailed(j)
  BY <1>1, <1>8 DEF CatchStorage, CatchProfile, CatchUnfit, CatchRetry, CatchNext, CatchFailed, Caught, PauseAsked
<1>9. CASE TidiedHalt(j) \/ TidiedFailed(j) \/ TidiedQueued(j)
  BY <1>0, <1>9 DEF TypeOK, TidiedHalt, HaltFor, TidiedFailed, TidiedQueued, Left
<1> QED
  BY <1>2, <1>3, <1>4, <1>5, <1>6, <1>7, <1>8, <1>9 DEF Run

LEMMA ResumeLeaves == ASSUME TypeOK, NEW k \in Jobs, Resume(k), NEW j \in Jobs PROVE Left(j)
<1>1. k \in Resuming /\ resuming' # resuming
  BY DEF Resume, Resuming
<1>2. CASE j = k
  BY <1>1, <1>2 DEF Left
<1>3. CASE j # k
  <2> SUFFICES ASSUME status[j] = "paused", reason[j] = "user" PROVE status'[j] = "paused" /\ reason'[j] = "user"
    BY DEF Left
  <2>1. CASE PauseFor(k, Refusal(k)) \/ UNCHANGED row
    BY <1>3, <2>1 DEF TypeOK
  <2>2. CASE Requeue((IF halt \/ reason[k] = "storage" THEN Group ELSE {})
                     \union (IF status[k] \in {"paused", "failed"} THEN {k} ELSE {}))
    BY <1>3, <2>2 DEF TypeOK, Requeue, Group
  <2> QED
    BY <2>1, <2>2 DEF Resume
<1> QED
  BY <1>2, <1>3

\* A sweep takes no row that is paused, finished or failed.
LEMMA SweptRows ==
    ASSUME TypeOK, PauseMatching \/ PauseIncompatible, NEW j \in Jobs, status[j] \notin {"queued", "checking", "downloading"}
    PROVE status'[j] = status[j] /\ reason'[j] = reason[j]
<1>1. \A S \in SUBSET Jobs : j \notin Swept(S)
  BY DEF Swept, InPlay
<1>2. CASE PauseMatching
  <2> DEFINE hit == Swept(Jobs \ allowed)
  <2>1. /\ status' = [k \in Jobs |-> IF k \in hit THEN "paused" ELSE status[k]]
        /\ reason' = [k \in Jobs |-> IF k \in hit THEN "permission" ELSE reason[k]]
    BY <1>2 DEF PauseMatching
  <2>2. j \notin hit
    BY <1>1
  <2> QED
    BY <2>1, <2>2
<1>3. CASE PauseIncompatible
  <2> DEFINE hit == Swept(bound)
  <2>1. /\ status' = [k \in Jobs |-> IF k \in hit THEN "paused" ELSE status[k]]
        /\ reason' = [k \in Jobs |-> IF k \in hit THEN "library" ELSE reason[k]]
    BY <1>3 DEF PauseIncompatible
  <2>2. j \notin hit
    BY <1>1 DEF TypeOK
  <2> QED
    BY <2>1, <2>2
<1> QED
  BY <1>2, <1>3

LEMMA StepLeaves == ASSUME Sound, [Next]_vars, NEW j \in Jobs PROVE Left(j)
<1>0. TypeOK
  BY DEF Sound
<1>1. CASE UNCHANGED <<status, reason>>
  BY <1>1 DEF Left
<1>2. ASSUME NEW k \in Jobs, Run(k), k # j PROVE Left(j)
  <2>1. CASE RunKeeps(k)
    BY <1>2, <2>1 DEF RunKeeps, Alone, Left
  <2>2. CASE HaltStep(k)
    <3> SUFFICES ASSUME status[j] = "paused", ~(j \in Active) PROVE UNCHANGED <<status[j], reason[j]>>
      BY <2>2 DEF HaltStep, HaltFor, Left
    <3> QED
      BY <1>0, <2>2 DEF TypeOK, HaltStep, HaltFor
  <2> QED
    BY <1>2, <2>1, <2>2, RunAlone
<1>3. CASE Run(j)
  BY <1>3, RunLeaves
<1>4. ASSUME NEW k \in Jobs, Pause(k) PROVE Left(j)
  BY <1>0, <1>4 DEF TypeOK, Pause, Left
<1>5. ASSUME NEW k \in Jobs, Resume(k) PROVE Left(j)
  BY <1>0, <1>5, ResumeLeaves
<1>6. ASSUME NEW k \in Jobs, Wake(k) PROVE Left(j)
  <2>1. k \in waking \ waking' /\ (UNCHANGED row \/ Row(k, "queued", "none"))
    BY <1>6 DEF Wake
  <2> QED
    BY <1>0, <2>1 DEF TypeOK, Left
<1>7. CASE PauseMatching \/ PauseIncompatible
  BY <1>0, <1>7, SweptRows DEF Left
<1>8. CASE CheckSpace
  BY <1>0, <1>8 DEF TypeOK, CheckSpace, Requeue, Group, Left
<1>9. CASE Restart
  BY <1>0, <1>9 DEF TypeOK, Restart, Reloaded, Left
<1>10. CASE Pump
  BY <1>0, <1>10, PumpStarts DEF Left
<1>11. CASE UNCHANGED vars
  BY <1>1, <1>11 DEF vars
<1>12. CASE \/ RetryTimer \/ Removed \/ Kept \/ ChangeType \/ WatchLibraries \/ RoomBack
            \/ \E i \in DOMAIN jobs : Move(i)
  BY <1>1, <1>12 DEF RetryTimer, Removed, Kept, ChangeType, WatchLibraries, RoomBack, Move
<1>13. ASSUME NEW k \in Jobs,
              Elapsed(k) \/ Recover(k) \/ AskRemove(k) \/ Withdraw(k) \/ Grant(k) \/ \E anew \in BOOLEAN : AskResume(k, anew)
       PROVE Left(j)
  BY <1>1, <1>13 DEF Elapsed, Recover, AskRemove, Withdraw, Grant, AskResume
<1> QED
  BY <1>2, <1>3, <1>4, <1>5, <1>6, <1>7, <1>8, <1>9, <1>10, <1>11, <1>12, <1>13 DEF Next, People

\* A row that a person paused leaves that pause by a resume, by the watch that had listed it before, by
\* its own run that was deleting files or met a halt or a refusal, and by nothing else: not by the
\* pump, the timers, the space watch, a sweep or a restart.
THEOREM PausesHold == Spec => PauseIsLeftBy
<1>1. Sound /\ [Next]_vars => [\A j \in Jobs : Left(j)]_vars
  BY StepLeaves
<1>2. Sound /\ [Next]_vars =>
        [\A j \in Jobs :
            status[j] = "paused" /\ reason[j] = "user" /\ ~(status'[j] = "paused" /\ reason'[j] = "user")
                => \/ resuming' # resuming /\ j \in Resuming
                   \/ j \in waking \ waking'
                   \/ at[j] = "tidying" /\ at'[j] = "idle"
                   \/ j \in Active /\ halt'
                   \/ at[j] \in {"failing", "chosen"} /\ Refusal(j) # "none"]_vars
  BY <1>1, Zenon DEF Left
<1> QED
  BY <1>2, QueueInvariant, PTL DEF Spec, PauseIsLeftBy

-----------------------------------------------------------------------------
(* A finished row.                                                         *)

Finished(j) == status[j] = "completed" => status'[j] = "completed"

LEMMA FinishedRun ==
    ASSUME Sound, spent["sweeps"] = 0, spent["storage"] = 0, NEW k \in Jobs, Run(k), NEW j \in Jobs
    PROVE Finished(j)
<1>0. TypeOK /\ at[k] # "idle" /\ Settled(j) /\ Settled(k)
  BY RunEndsMoving DEF Sound
<1>1. RunKeeps(k)
  BY <1>0, RunAlone DEF HaltStep, Settled
<1>2. CASE j # k
  BY <1>1, <1>2 DEF RunKeeps, Alone, Finished
<1>3. CASE j = k
  <2> SUFFICES ASSUME status[k] = "completed" PROVE status'[k] = "completed"
    BY <1>3 DEF Finished
  <2>1. at[k] = "announcing"
    BY <1>0, <1>3 DEF Settled
  <2>2. CASE \/ Stopped(k) \/ Refused(k) \/ Resolve(k) \/ NoneFound(k) \/ NoLibrary(k) \/ ChoiceDropped(k)
             \/ LookupBreaks(k) \/ \E h \in Hosts : SourceFound(k, h)
    BY <2>1, <2>2 DEF Stopped, Refused, Resolve, NoneFound, NoLibrary, ChoiceDropped, LookupBreaks, SourceFound
  <2>3. CASE Transfer(k) \/ SourceGone(k) \/ HostTaken(k) \/ TransferEnds(k) \/ \E e \in Errors : TransferBreaks(k, e)
    BY <2>1, <2>3 DEF Transfer, SourceGone, HostTaken, Known, TransferEnds, TransferBreaks
  <2>4. CASE PublicationStopped(k) \/ PublicationRefused(k) \/ Publish(k) \/ Announced(k)
    BY <2>1, <2>4 DEF PublicationStopped, PublicationRefused, Publish, Announced
  <2>5. CASE \/ CatchRefused(k) \/ CatchPaused(k) \/ CatchStorage(k) \/ CatchProfile(k) \/ CatchUnfit(k)
             \/ CatchRetry(k) \/ CatchNext(k) \/ CatchFailed(k)
    BY <2>1, <2>5 DEF CatchRefused, CatchPaused, CatchStorage, CatchProfile, CatchUnfit, CatchRetry, CatchNext, CatchFailed, Caught
  <2>6. CASE TidiedHalt(k) \/ TidiedFailed(k) \/ TidiedQueued(k)
    BY <2>1, <2>6 DEF TidiedHalt, TidiedFailed, TidiedQueued
  <2> QED
    BY <2>2, <2>3, <2>4, <2>5, <2>6 DEF Run
<1> QED
  BY <1>2, <1>3

LEMMA FinishedStep ==
    ASSUME Sound, [Next]_vars, spent["sweeps"] = 0, spent["storage"] = 0, NEW j \in Jobs
    PROVE Finished(j)
<1>0. TypeOK /\ World /\ \A k \in Jobs : Held(k)
  BY DEF Sound
<1>1. CASE UNCHANGED status
  BY <1>1 DEF Finished
<1>2. ASSUME NEW k \in Jobs, Run(k) PROVE Finished(j)
  BY <1>2, FinishedRun
<1>3. ASSUME NEW k \in Jobs, Pause(k) PROVE Finished(j)
  BY <1>0, <1>3 DEF TypeOK, Pause, Finished
<1>4. ASSUME NEW k \in Jobs, Resume(k) PROVE Finished(j)
  <2>1. Refusal(k) = "none"
    BY <1>0 DEF World, Held, Refusal, LibraryRefuses
  <2>2. CASE UNCHANGED row
    BY <1>1, <2>2
  <2>3. CASE Requeue((IF halt \/ reason[k] = "storage" THEN Group ELSE {})
                     \union (IF status[k] \in {"paused", "failed"} THEN {k} ELSE {}))
    BY <1>0, <2>3 DEF TypeOK, Requeue, Group, Finished
  <2> QED
    BY <1>4, <2>1, <2>2, <2>3 DEF Resume
<1>5. ASSUME NEW k \in Jobs, Wake(k) PROVE Finished(j)
  BY <1>0, <1>5 DEF World, Wake
<1>6. CASE PauseMatching \/ PauseIncompatible
  BY <1>0, <1>6, SweptRows DEF Finished
<1>7. CASE CheckSpace
  BY <1>0, <1>7 DEF TypeOK, CheckSpace, Requeue, Group, Finished
<1>8. CASE Restart
  BY <1>0, <1>8 DEF TypeOK, Restart, Reloaded, Finished
<1>9. CASE Pump
  BY <1>0, <1>9, PumpStarts DEF Finished
<1>10. CASE UNCHANGED vars
  BY <1>1, <1>10 DEF vars
<1>11. CASE \/ RetryTimer \/ Removed \/ Kept \/ ChangeType \/ WatchLibraries \/ RoomBack
            \/ \E i \in DOMAIN jobs : Move(i)
  BY <1>1, <1>11 DEF RetryTimer, Removed, Kept, ChangeType, WatchLibraries, RoomBack, Move
<1>12. ASSUME NEW k \in Jobs,
              Elapsed(k) \/ Recover(k) \/ AskRemove(k) \/ Withdraw(k) \/ Grant(k) \/ \E anew \in BOOLEAN : AskResume(k, anew)
       PROVE Finished(j)
  BY <1>1, <1>12 DEF Elapsed, Recover, AskRemove, Withdraw, Grant, AskResume
<1> QED
  BY <1>2, <1>3, <1>4, <1>5, <1>6, <1>7, <1>8, <1>9, <1>10, <1>11, <1>12 DEF Next, People

\* A finished row stays finished as long as no disk was full and no library or right was withdrawn:
\* pauses, resumes, retries, removals, failures and restarts do not touch it. haltForStorage() pauses
\* the row that is being announced, and the watch of the libraries queues a row it had listed.
THEOREM CompletedRowsStay ==
    Spec => [][spent["sweeps"] = 0 /\ spent["storage"] = 0
                 => \A j \in Listed : status[j] = "completed" => status'[j] = "completed"]_vars
<1>1. Sound /\ [Next]_vars =>
        [spent["sweeps"] = 0 /\ spent["storage"] = 0
            => \A j \in Listed : status[j] = "completed" => status'[j] = "completed"]_vars
  BY FinishedStep, ListedAreJobs DEF Finished, Sound
<1> QED
  BY <1>1, QueueInvariant, PTL DEF Spec

\* The same as a promise of the whole queue, where those two events do not happen.
THEOREM CompletedIsKept ==
    ASSUME MaxSweeps = 0, MaxStorage = 0
    PROVE Spec => CompletedIsFinal
<1>1. Sound /\ [Next]_vars => [\A j \in Listed : status[j] = "completed" => status'[j] = "completed"]_vars
  BY FinishedStep, ListedAreJobs DEF Finished, Sound, World
<1> QED
  BY <1>1, QueueInvariant, PTL DEF Spec, CompletedIsFinal

-----------------------------------------------------------------------------
(* A row that could start is waited for.                                   *)

\* The run of a row with an address of its own never asks for a source and never lets go of it.
DirectRow(k) ==
    Kind[k] = "direct" =>
        /\ stream[k] # None
        /\ at[k] \notin {"resolving", "chosen"}
        /\ at[k] = "tidying" => why[k] \in {"noranges", "stale"}

\* No pump is on its way, from anywhere, and no run is left whose end would bring one because it
\* looks for a source.
Quiet ==
    /\ spent["kept"] = 0 /\ ~halt /\ ~pumpDue /\ ~retryTimer /\ out = Nothing
    /\ \A k \in Active : Kind[k] = "direct"

Waits(j) == j \in Listed /\ status[j] = "queued" /\ at[j] = "idle"

\* Then what the last pump found is still so: a row that waits does so for a slot or a host.
Waiting == Quiet => \A j \in Jobs : Waits(j) => j \notin later /\ ~Fits(j, {})
Awaited == Waiting /\ \A k \in Jobs : DirectRow(k)

\* A step of a run: it ends in a pump or in the retry timer, or the run goes on, and the run of a
\* direct row with the source it had.
Onward(j) ==
    /\ DirectRow(j)'
    /\ \/ pumpDue' \/ retryTimer'
       \/ /\ at'[j] # "idle" /\ UNCHANGED <<later, timers>>
          /\ Kind[j] = "direct" => stream'[j] = stream[j]

LEMMA RunOnward == ASSUME Sound, NEW j \in Jobs, DirectRow(j), Run(j) PROVE Onward(j)
<1>0. TypeOK
  BY DEF Sound
<1>1. CASE Stopped(j) \/ Refused(j) \/ Resolve(j) \/ NoneFound(j) \/ NoLibrary(j) \/ LookupBreaks(j)
  BY <1>0, <1>1 DEF TypeOK, Onward, DirectRow, Stopped, Refused, Resolve, NoneFound, NoLibrary, LookupBreaks
<1>2. CASE ChoiceDropped(j) \/ \E h \in Hosts : SourceFound(j, h)
  BY <1>0, <1>2 DEF TypeOK, Onward, DirectRow, ChoiceDropped, SourceFound
<1>3. CASE Transfer(j) \/ SourceGone(j) \/ TransferEnds(j) \/ \E e \in Errors : TransferBreaks(j, e)
  BY <1>0, <1>3 DEF TypeOK, Onward, DirectRow, Transfer, SourceGone, TransferEnds, TransferBreaks
<1>4. CASE HostTaken(j)
  BY <1>0, <1>4 DEF TypeOK, Onward, DirectRow, HostTaken
<1>5. CASE PublicationStopped(j) \/ PublicationRefused(j) \/ Publish(j) \/ Announced(j)
  BY <1>0, <1>5 DEF TypeOK, Onward, DirectRow, PublicationStopped, PublicationRefused, Publish, Announced
<1>6. CASE CatchRefused(j) \/ CatchPaused(j) \/ CatchUnfit(j) \/ CatchRetry(j) \/ CatchFailed(j)
  BY <1>0, <1>6 DEF TypeOK, Onward, DirectRow, CatchRefused, CatchPaused, CatchUnfit, CatchRetry, CatchFailed
<1>7. CASE CatchNext(j) \/ CatchProfile(j) \/ CatchStorage(j)
  BY <1>0, <1>7 DEF TypeOK, Onward, DirectRow, CatchNext, CanTryNext, CatchProfile, CatchStorage, HaltFor
<1>8. CASE TidiedHalt(j) \/ TidiedFailed(j) \/ TidiedQueued(j)
  BY <1>0, <1>8 DEF TypeOK, Onward, DirectRow, TidiedHalt, TidiedFailed, TidiedQueued, HaltFor
<1> QED
  BY <1>1, <1>2, <1>3, <1>4, <1>5, <1>6, <1>7, <1>8 DEF Run

\* Of every other row a run leaves the source and the stage alone.
LEMMA RunOfOne ==
    ASSUME Sound, NEW j \in Jobs, Run(j), NEW k \in Jobs \ {j}
    PROVE UNCHANGED <<stream[k], at[k], why[k], jobs, out>> /\ spent'["kept"] = spent["kept"]
<1>1. CASE RunKeeps(j)
  BY <1>1 DEF RunKeeps, Alone
<1>2. CASE HaltStep(j)
  BY <1>2 DEF Sound, TypeOK, HaltStep, HaltFor
<1> QED
  BY <1>1, <1>2, RunAlone

\* A row that waits still finds no slot while the runs and their sources are as they were.
LEMMA FitsAsBefore ==
    ASSUME jobs' = jobs, Active' = Active, NEW i \in Jobs, stream'[i] = stream[i],
           \A k \in Active : stream'[k] = stream[k]
    PROVE Fits(i, {})' <=> Fits(i, {})
<1>1. Listed' = Listed
  BY DEF Listed
<1>2. {k \in Active' \intersect Listed' : stream'[k] = stream'[i]} = {k \in Active \intersect Listed : stream[k] = stream[i]}
  BY <1>1
<1>3. {k \in {} : stream'[k] = stream'[i]} = {k \in {} : stream[k] = stream[i]}
  OBVIOUS
<1> QED
  BY <1>2, <1>3 DEF Fits, From, HostLimit

\* A step that starts nothing, ends nothing and queues nothing.
LEMMA StillWaiting ==
    ASSUME Waiting, jobs' = jobs, Active' = Active, later' \subseteq later,
           Quiet' => Quiet /\ \A k \in Active : stream'[k] = stream[k],
           \A i \in Jobs : Waits(i)' => Waits(i) /\ stream'[i] = stream[i]
    PROVE Waiting'
BY FitsAsBefore DEF Waiting

LEMMA RunAwaited == ASSUME Sound, Awaited, NEW j \in Jobs, Run(j) PROVE Awaited'
<1>1. Onward(j) /\ at[j] # "idle" /\ TypeOK
  BY RunOnward, RunEndsMoving DEF Awaited, Sound
<1>2. \A k \in Jobs : DirectRow(k)'
  BY <1>1, RunOfOne DEF Onward, Awaited, DirectRow
<1>3. CASE pumpDue' \/ retryTimer'
  BY <1>2, <1>3 DEF Awaited, Waiting, Quiet
<1>4. CASE ~pumpDue' /\ ~retryTimer'
  <2>1. at'[j] # "idle" /\ UNCHANGED <<later, timers>> /\ (Kind[j] = "direct" => stream'[j] = stream[j])
    BY <1>1, <1>4 DEF Onward
  <2>2. Active' = Active
    BY <1>1, <2>1, RunOfOne
  <2>3. RunKeeps(j)
    BY <1>4, RunAlone DEF HaltStep, HaltFor
  <2>4. UNCHANGED <<jobs, out, halt>> /\ spent'["kept"] = spent["kept"]
    BY <2>3 DEF RunKeeps, Alone
  <2>5. Quiet' => Quiet /\ \A k \in Active : stream'[k] = stream[k]
    <3> SUFFICES ASSUME Quiet' PROVE Quiet /\ \A k \in Active : stream'[k] = stream[k]
      OBVIOUS
    <3>1. Quiet
      BY <1>4, <2>1, <2>2, <2>4 DEF Quiet
    <3>2. Kind[j] = "direct"
      BY <1>1, <3>1 DEF Quiet
    <3> QED
      BY <2>1, <3>1, <3>2, RunOfOne
  <2>6. ASSUME NEW i \in Jobs, Waits(i)' PROVE Waits(i) /\ stream'[i] = stream[i]
    <3>1. i # j
      BY <2>1, <2>6 DEF Waits
    <3>2. status'[i] = status[i]
      BY <2>3, <3>1 DEF RunKeeps, Alone
    <3> QED
      BY <2>4, <2>6, <3>1, <3>2, RunOfOne DEF Waits, Listed
  <2>7. jobs' = jobs /\ later' \subseteq later
    BY <2>1, <2>4
  <2>8. Waiting'
    BY <2>2, <2>5, <2>6, <2>7, StillWaiting DEF Awaited
  <2> QED
    BY <1>2, <2>8 DEF Awaited
<1> QED
  BY <1>3, <1>4

\* Rows that start take slots and hosts, and give none back.
LEMMA FullerFits ==
    ASSUME TypeOK, NEW S \in SUBSET Listed, NEW T \in SUBSET S, NEW i \in Jobs, ~Fits(i, T),
           UNCHANGED <<jobs, stream>>, S \subseteq Jobs, S \intersect Active = {}, Active' = Active \union S
    PROVE ~Fits(i, {})'
<1> DEFINE A == Active
           H == {k \in Active \intersect Listed : stream[k] = stream[i]}
           U == {k \in S : stream[k] = stream[i]}
           V == {k \in T : stream[k] = stream[i]}
           N == {k \in Active' \intersect Listed' : stream'[k] = stream'[i]}
<1>1. Cardinality(Active') = Cardinality(A) + Cardinality(S)
  <2>1. A \in SUBSET Jobs /\ S \in SUBSET Jobs /\ A \intersect S = {} /\ Active' = A \union S
    OBVIOUS
  <2> HIDE DEF A
  <2> QED
    BY <2>1, DisjointUnion
<1>2. Cardinality(N) = Cardinality(H) + Cardinality(U)
  <2>1. H \in SUBSET Jobs /\ U \in SUBSET Jobs /\ H \intersect U = {}
    OBVIOUS
  <2>2. N = H \union U
    BY DEF Listed
  <2> HIDE DEF H, U, N
  <2> QED
    BY <2>1, <2>2, DisjointUnion
<1>3. Cardinality(T) <= Cardinality(S) /\ Cardinality(T) \in Nat /\ Cardinality(S) \in Nat
  BY RowsAreFinite, FS_Subset
<1>4. Cardinality(V) <= Cardinality(U) /\ Cardinality(V) \in Nat /\ Cardinality(U) \in Nat
  <2>1. V \subseteq U /\ U \in SUBSET Jobs /\ V \in SUBSET Jobs
    OBVIOUS
  <2> HIDE DEF U, V
  <2> QED
    BY <2>1, RowsAreFinite, FS_Subset
<1>5. Cardinality(A) \in Nat /\ Cardinality(H) \in Nat
  <2>1. A \in SUBSET Jobs /\ H \in SUBSET Jobs
    OBVIOUS
  <2> HIDE DEF A, H
  <2> QED
    BY <2>1, RowsAreFinite
<1>6. ~(Cardinality(A) + Cardinality(T) < Limit /\ Cardinality(H) + Cardinality(V) < HostLimit(stream[i]))
  BY DEF Fits, From
<1>7. HostLimit(stream[i]) \in Nat /\ Limit \in Nat
  BY QueueAssumption DEF HostLimit
<1> DEFINE a == Cardinality(A)
           s == Cardinality(S)
           t == Cardinality(T)
           h == Cardinality(H)
           u == Cardinality(U)
           v == Cardinality(V)
           most == HostLimit(stream[i])
<1>8. ~(a + s < Limit /\ h + u < most)
  <2>1. /\ t <= s /\ v <= u /\ {a, h, s, t, u, v, most, Limit} \subseteq Nat
        /\ ~(a + t < Limit /\ h + v < most)
    BY <1>3, <1>4, <1>5, <1>6, <1>7
  <2> HIDE DEF a, s, t, h, u, v, most
  <2> QED
    BY <2>1
<1>9. ~(Cardinality(Active') < Limit /\ Cardinality(N) < HostLimit(stream[i]))
  BY <1>1, <1>2, <1>8
<1>10. /\ Cardinality({}) = 0 /\ {k \in {} : stream'[k] = stream'[i]} = {}
       /\ Cardinality(Active') \in Nat /\ Cardinality(N) \in Nat
  BY <1>1, <1>2, <1>3, <1>4, <1>5, FS_EmptySet
<1>11. HostLimit(stream[i])' = HostLimit(stream[i])
  BY DEF HostLimit
<1> HIDE DEF N
<1>12. Fits(i, {})' <=> Cardinality(Active') + 0 < Limit /\ Cardinality(N) + 0 < HostLimit(stream[i])
  BY <1>10, <1>11 DEF Fits, From, N
<1> QED
  BY <1>9, <1>10, <1>12

\* What the pump leaves waiting found no slot among the rows it had started before, and finds
\* none among all of them.
LEMMA PumpAwaited == ASSUME Sound, Awaited, Pump PROVE Awaited'
<1>1. TypeOK /\ Listed \subseteq Jobs /\ jobs \in Seq(Jobs)
  BY ListedAreJobs DEF Sound, TypeOK
<1>2. UNCHANGED <<jobs, stream, later, why, halt, out, spent>>
  BY DEF Pump
<1>3. CASE halt
  <2>1. UNCHANGED at
    BY <1>3 DEF Pump, Halted
  <2>2. \A k \in Jobs : DirectRow(k)'
    BY <1>2, <2>1 DEF Awaited, DirectRow
  <2> QED
    BY <1>2, <1>3, <2>2 DEF Awaited, Waiting, Quiet
<1>4. CASE ~halt
  <2>1. PICK S \in SUBSET Listed : Picked(S) /\ Started(S)
    BY <1>4 DEF Pump, Halted
  <2>2. retryTimer' = Rearm
    BY <1>4 DEF Pump, Halted
  <2>3. at' = [k \in Jobs |-> IF k \in S THEN "starting" ELSE at[k]]
    BY <2>1 DEF Started
  <2>4. \A k \in Jobs : DirectRow(k)'
    BY <1>2, <2>3 DEF Awaited, DirectRow
  <2>5. ASSUME Quiet', NEW i \in Jobs, Waits(i)' PROVE i \notin later' /\ ~Fits(i, {})'
    <3>1. i \in Listed /\ i \notin S /\ status[i] = "queued" /\ at[i] = "idle"
      BY <1>2, <2>1, <2>3, <2>5 DEF Waits, Started, Listed
    <3>2. i \notin later
      BY <2>2, <2>5, <3>1 DEF Quiet, Rearm
    <3>3. PICK n \in DOMAIN jobs : jobs[n] = i
      BY <3>1 DEF Listed
    <3> DEFINE T == S \intersect {jobs[k] : k \in 1..(n - 1)}
    <3>4. ~Fits(i, T)
      BY <2>1, <3>1, <3>2, <3>3 DEF Picked, Ready
    <3>5. T \subseteq S
      OBVIOUS
    <3> HIDE DEF T
    <3>6. S \subseteq Jobs /\ S \intersect Active = {} /\ Active' = Active \union S
      <4>1. \A k \in S : Ready(k)
        BY <2>1 DEF Picked, Listed
      <4> QED
        BY <1>1, <2>1, <2>3, <4>1 DEF Ready
    <3>7. ~Fits(i, {})'
      BY <1>1, <1>2, <2>1, <3>4, <3>5, <3>6, FullerFits
    <3> QED
      BY <1>2, <3>2, <3>7
  <2> QED
    BY <2>4, <2>5 DEF Awaited, Waiting
<1> QED
  BY <1>3, <1>4

\* A step of somebody else that starts and ends no run and queues no row.
LEMMA AwaitedStill ==
    ASSUME Awaited, TypeOK, jobs' = jobs, at' = at, why' = why, halt' = halt, out' = out,
           pumpDue' = pumpDue, retryTimer' = retryTimer, spent'["kept"] = spent["kept"], later' \subseteq later,
           \A k \in Jobs : status'[k] = "queued" => status[k] = "queued",
           \A k \in Jobs : stream'[k] = stream[k] \/ (Kind[k] # "direct" /\ (at[k] # "idle" \/ status'[k] # "queued"))
    PROVE Awaited'
<1>1. \A k \in Jobs : DirectRow(k)'
  BY DEF Awaited, DirectRow
<1>2. Active' = Active
  OBVIOUS
<1>3. Quiet' => Quiet /\ \A k \in Active : stream'[k] = stream[k]
  BY DEF Quiet
<1>4. \A i \in Jobs : Waits(i)' => Waits(i) /\ stream'[i] = stream[i]
  BY DEF Waits, Listed
<1> QED
  BY <1>1, <1>2, <1>3, <1>4, StillWaiting DEF Awaited

\* A step that asks for a pump.
LEMMA AwaitedPump ==
    ASSUME Awaited, pumpDue', \A k \in Jobs : Kind[k] = "direct" => stream'[k] = stream[k],
           why' = why, \A k \in Jobs : at'[k] = at[k] \/ at'[k] = "idle"
    PROVE Awaited'
BY DEF Awaited, Waiting, Quiet, DirectRow

LEMMA ResumeAwaited == ASSUME Sound, Awaited, NEW j \in Jobs, Resume(j) PROVE Awaited'
<1>1. TypeOK
  BY DEF Sound
<1>2. UNCHANGED <<jobs, at, why, out, spent>>
  BY DEF Resume
<1>3. CASE PauseFor(j, Refusal(j)) /\ UNCHANGED <<later, disk, timers>>
  <2>1. \A k \in Jobs : status'[k] = "queued" => status[k] = "queued"
    BY <1>1, <1>3 DEF TypeOK
  <2>2. stream' = stream \/ (stream' = [stream EXCEPT ![j] = None] /\ Kind[j] # "direct")
    BY <1>3
  <2>3. status'[j] = "paused"
    BY <1>1, <1>3 DEF TypeOK
  <2>4. \A k \in Jobs : stream'[k] = stream[k] \/ (Kind[k] # "direct" /\ status'[k] # "queued")
    BY <1>1, <2>2, <2>3 DEF TypeOK
  <2>5. /\ jobs' = jobs /\ at' = at /\ why' = why /\ halt' = halt /\ out' = out
        /\ pumpDue' = pumpDue /\ retryTimer' = retryTimer /\ spent' = spent /\ later' = later
    BY <1>2, <1>3
  <2> QED
    BY <1>1, <2>1, <2>4, <2>5, AwaitedStill
<1>4. CASE UNCHANGED <<row, stream, later, disk, timers>>
  <2>1. /\ jobs' = jobs /\ at' = at /\ why' = why /\ halt' = halt /\ out' = out
        /\ pumpDue' = pumpDue /\ retryTimer' = retryTimer /\ spent' = spent /\ later' = later
        /\ status' = status /\ stream' = stream
    BY <1>2, <1>4
  <2> QED
    BY <1>1, <2>1, AwaitedStill
<1>5. CASE pumpDue' = TRUE /\ UNCHANGED stream
  BY <1>2, <1>5, AwaitedPump
<1> QED
  BY <1>3, <1>4, <1>5 DEF Resume

LEMMA StepAwaited == Sound /\ Awaited /\ [Next]_vars => Awaited'
<1> SUFFICES ASSUME Sound, Awaited, [Next]_vars PROVE Awaited'
  OBVIOUS
<1>0. TypeOK
  BY DEF Sound
<1>1. CASE UNCHANGED vars
  <2>1. /\ jobs' = jobs /\ at' = at /\ why' = why /\ halt' = halt /\ out' = out
        /\ pumpDue' = pumpDue /\ retryTimer' = retryTimer /\ spent' = spent /\ later' = later
        /\ status' = status /\ stream' = stream
    BY <1>1 DEF vars
  <2> QED
    BY <1>0, <2>1, AwaitedStill
<1>2. ASSUME NEW j \in Jobs, Run(j) PROVE Awaited'
  BY <1>2, RunAwaited
<1>3. CASE Pump
  BY <1>3, PumpAwaited
<1>4. ASSUME NEW j \in Jobs, Recover(j) \/ Withdraw(j) \/ Grant(j) \/ Elapsed(j) PROVE Awaited'
  <2>1. /\ jobs' = jobs /\ at' = at /\ why' = why /\ halt' = halt /\ out' = out
        /\ pumpDue' = pumpDue /\ retryTimer' = retryTimer
        /\ status' = status /\ stream' = stream /\ later' \subseteq later /\ spent'["kept"] = spent["kept"]
    BY <1>0, <1>4 DEF TypeOK, Recover, Withdraw, Grant, Elapsed
  <2> QED
    BY <1>0, <2>1, AwaitedStill
<1>5. ASSUME NEW j \in Jobs, Pause(j) PROVE Awaited'
  <2>1. /\ jobs' = jobs /\ at' = at /\ why' = why /\ halt' = halt /\ out' = out
        /\ pumpDue' = pumpDue /\ retryTimer' = retryTimer
        /\ stream' = stream /\ later' = later /\ spent'["kept"] = spent["kept"]
    BY <1>0, <1>5 DEF TypeOK, Pause
  <2>2. \A k \in Jobs : status'[k] = "queued" => status[k] = "queued"
    BY <1>0, <1>5 DEF TypeOK, Pause
  <2> QED
    BY <1>0, <2>1, <2>2, AwaitedStill
<1>6. ASSUME NEW j \in Jobs, NEW anew \in BOOLEAN, AskResume(j, anew) PROVE Awaited'
  <2>1. /\ jobs' = jobs /\ at' = at /\ why' = why /\ halt' = halt /\ out' = out
        /\ pumpDue' = pumpDue /\ retryTimer' = retryTimer
        /\ status' = status /\ spent'["kept"] = spent["kept"]
    BY <1>0, <1>6 DEF TypeOK, AskResume
  <2>2. later' \subseteq later /\ status[j] # "queued"
    BY <1>6 DEF AskResume
  <2>3. stream' = stream \/ (stream' = [stream EXCEPT ![j] = None] /\ Kind[j] # "direct")
    BY <1>6 DEF AskResume
  <2>4. \A k \in Jobs : stream'[k] = stream[k] \/ (Kind[k] # "direct" /\ status'[k] # "queued")
    BY <1>0, <2>1, <2>2, <2>3 DEF TypeOK
  <2> QED
    BY <1>0, <2>1, <2>2, <2>4, AwaitedStill
<1>7. ASSUME NEW j \in Jobs, Resume(j) PROVE Awaited'
  BY <1>7, ResumeAwaited
<1>8. ASSUME NEW j \in Jobs, AskRemove(j) PROVE Awaited'
  <2>1. out' # Nothing /\ UNCHANGED <<at, why, stream>>
    BY <1>0, <1>8, RemovalUnlists DEF AskRemove, Nothing
  <2> QED
    BY <2>1 DEF Awaited, Waiting, Quiet, DirectRow
<1>9. CASE Kept
  <2>1. spent'["kept"] # 0 /\ UNCHANGED <<at, why, stream>>
    BY <1>0, <1>9, SpentCounts, Budgets DEF TypeOK, Kept
  <2> QED
    BY <2>1 DEF Awaited, Waiting, Quiet, DirectRow
<1>10. ASSUME NEW j \in Jobs, Wake(j) PROVE Awaited'
  <2>1. UNCHANGED <<jobs, at, why, later, halt, out, spent>>
    BY <1>10 DEF Wake
  <2>2. CASE UNCHANGED <<status, stream, timers>>
    <3>1. /\ jobs' = jobs /\ at' = at /\ why' = why /\ halt' = halt /\ out' = out
          /\ pumpDue' = pumpDue /\ retryTimer' = retryTimer /\ spent' = spent /\ later' = later
          /\ status' = status /\ stream' = stream
      BY <2>1, <2>2
    <3> QED
      BY <1>0, <3>1, AwaitedStill
  <2>3. CASE pumpDue' /\ \A k \in Jobs : Kind[k] = "direct" => stream'[k] = stream[k]
    BY <2>1, <2>3, AwaitedPump
  <2> QED
    BY <1>0, <1>10, <2>2, <2>3 DEF TypeOK, Wake
<1>11. CASE WatchLibraries \/ RoomBack \/ ChangeType
  <2>1. /\ jobs' = jobs /\ at' = at /\ why' = why /\ halt' = halt /\ out' = out
        /\ pumpDue' = pumpDue /\ retryTimer' = retryTimer
        /\ status' = status /\ stream' = stream /\ later' = later /\ spent'["kept"] = spent["kept"]
    BY <1>0, <1>11 DEF TypeOK, WatchLibraries, RoomBack, ChangeType
  <2> QED
    BY <1>0, <2>1, AwaitedStill
<1>12. CASE RetryTimer \/ Removed \/ CheckSpace \/ \E i \in DOMAIN jobs : Move(i)
  BY <1>12, AwaitedPump DEF RetryTimer, Removed, CheckSpace, Move
<1>13. CASE PauseMatching
  <2> DEFINE searching == {k \in Swept(Jobs \ allowed) : Searching(k)}
  <2>1. stream' = [k \in Jobs |-> IF k \in searching THEN None ELSE stream[k]] /\ UNCHANGED <<at, why>> /\ pumpDue'
    BY <1>13 DEF PauseMatching
  <2>2. \A k \in searching : Kind[k] # "direct"
    OBVIOUS
  <2> HIDE DEF searching
  <2> QED
    BY <2>1, <2>2, AwaitedPump
<1>14. CASE PauseIncompatible
  BY <1>14, AwaitedPump DEF PauseIncompatible
<1>15. CASE Restart
  <2> DEFINE anew == {k \in Listed : Chosen(k) /\ status[k] # "completed"}
  <2>1. /\ stream' = [k \in Jobs |-> IF k \in anew THEN None ELSE stream[k]]
        /\ why' = why /\ pumpDue' /\ at' = [k \in Jobs |-> "idle"]
    BY <1>15 DEF Restart
  <2>2. \A k \in anew : Kind[k] # "direct"
    OBVIOUS
  <2> HIDE DEF anew
  <2> QED
    BY <2>1, <2>2, AwaitedPump
<1> QED
  BY <1>1, <1>2, <1>3, <1>4, <1>5, <1>6, <1>7, <1>8, <1>9, <1>10, <1>11, <1>12, <1>13, <1>14, <1>15 DEF Next, People

\* While no removal has failed to be written, a row that could start is waited for.
\* A row that could start is waited for: a pump is on its way, or a run that looks for sources will end
\* in one. The finally of download() pumps after the slot is free, and a run that sets the retry timer
\* leaves the pump to it. The row of a removal whose write failed is put back without a pump.
THEOREM QueuedRowsAreWaitedFor == Spec => [](spent["kept"] = 0 => QueuedWaitsForASlot)
<1>1. Init => Awaited
  BY QueueAssumption DEF Init, Awaited, Waiting, Quiet, DirectRow
<1>2. Sound /\ Awaited => (spent["kept"] = 0 => QueuedWaitsForASlot)
  <2> SUFFICES ASSUME Sound, Awaited, spent["kept"] = 0, CanStart, ~halt, ~PumpComes
               PROVE \E k \in Active : Kind[k] # "direct"
    BY DEF QueuedWaitsForASlot
  <2>1. PICK j \in Listed : Ready(j) /\ Fits(j, {})
    BY DEF CanStart
  <2>2. Waits(j) /\ j \in Jobs
    BY <2>1, ListedAreJobs DEF Sound, Ready, Waits
  <2>3. ~Quiet
    BY <2>1, <2>2 DEF Awaited, Waiting
  <2> QED
    BY <2>3 DEF Quiet, PumpComes
<1> QED
  BY <1>1, <1>2, StepAwaited, QueueInvariant, PTL DEF Spec

=============================================================================
