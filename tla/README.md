# Formal models of Stremio Offline

TLA+ models of the server in `server/src`, the configurations that check them with
TLC, and theorems about them that TLAPS checks. They cover the parts of the server that
keep something across an await, a failure or a restart and could lose it there: the
download queue (`downloads.ts`), the operations on library content (`library-ops.ts`,
`library-transfer.ts`), the settings store (`store.ts`) and the searches over many sources
(`search-session.ts`, `search-scheduler.ts`).

`PROJECT.json` holds the same information for tools: the components, the runs and the
properties each checks, the source lines of every definition, the hazards, the findings,
the theorems, and for every property a plausible bug (a "Slip" operator beside the
definition it changes) that makes the property fail.

1. [The system](#1-the-system)
2. [The modules](#2-the-modules)
3. [QueueStore: what is stored, and who is told](#3-queuestore-what-is-stored-and-who-is-told)
4. [DownloadQueue: which row runs](#4-downloadqueue-which-row-runs)
5. [PartFile: what is in the file](#5-partfile-what-is-in-the-file)
6. [LibraryOps: what becomes of an item that is sent elsewhere](#6-libraryops-what-becomes-of-an-item-that-is-sent-elsewhere)
7. [StateStore: one change of two files](#7-statestore-one-change-of-two-files)
8. [SearchSession: many sources, few slots](#8-searchsession-many-sources-few-slots)
9. [Findings](#9-findings)
10. [What is proved](#10-what-is-proved)
11. [What is not modelled](#11-what-is-not-modelled)
12. [Plan](#12-plan)
13. [Running](#13-running)

## 1. The system

A Node server (TypeScript, one event loop, some worker threads) serves a React client, an
Electron shell and an Android TV app. It finds streams of films and episodes through
addons, plays them, and downloads them into libraries.

| Part (`server/src/`) | State it keeps | Operations | Interacts with | Hard behaviour | What makes it correct |
| --- | --- | --- | --- | --- | --- |
| Download queue (`downloads`, `download-segments`, `download-rules`, `download-policy`, `library-actions`) | the job list, the active runs, the write chain, halt and retry timers, the partial files | add, pause, resume, retry, remove, clear, move, pump, runs, sweeps, load, flush | addons and Debrid accounts for sources, libraries for the place of a file, accounts for rights, the database | every handler interleaves with others at its awaits; failed writes; a full disk; crashes | an accepted job is stored; a finished file is whole; limits hold; no row is forgotten or run against a person's will |
| Playback (`playback`, `conversion-pace`, `remote-read-ahead`) | direct and HLS sessions, ffmpeg processes, leases | open, seek, ping, pause of a conversion, expiry | queue (a file still being fetched), media servers | a seek while ffmpeg restarts; expiry racing a request | one converter per session; none outlives its session; no segment of an old conversion is served |
| Search Everywhere (`search-session`, `search-scheduler`, `search-catalog-session`, `library-match`) | sessions, revisions, running source calls | start, poll, extend, cancel, expire | addons, libraries, media servers, accounts | late answers of a cancelled call; fair sharing of slots | revisions grow; a released session gets nothing more; slots are returned |
| Followed shows (`follows`) | followed series, last seen episode, pending additions | follow, check, queue, unfollow | metadata addons, queue | a check racing a change; a failing addition | an episode is queued at most once and is not passed over |
| Source profiles (`source-profiles`, `source-profile-resolver`, `source-rules`, `source-admission`, `packages/source-selection`) | profiles, cached listings | rank, admit, resolve | addons, Debrid, queue | a listing that changes between ranking and use | the choice obeys the profile it is made under |
| Libraries (`libraries`, `library*`, `library-transfer`, `library-ops`) | folders, index, metadata, journals of moves | scan, match, move, delete, watch | queue, database | a move cut off between copy, switch and delete; two operations on one title | a file is in exactly one place or recoverable; operations on one title take turns |
| Live media server (`media-server-*`, `media-resources`) | connections, grants, secrets, personal links, snapshots | connect, refresh, pin, revoke, browse | Plex, Jellyfin and Emby servers, accounts | a revocation racing a refresh; two refreshes of one token | no answer from a revoked grant; a newer token is not overwritten |
| Database and stores (`store`, `storage/*`, `backup`) | SQLite in a worker, dirty maps, JSON files | batch, flush, migrate, backup, restore | everything that persists | flush while entries change; a crash during a migration | what was flushed is read back; a dirty entry is not lost |
| Accounts (`auth`, `users`, `pairing`, `revocation`, `device-transfers`) | users, sessions, codes, transfer tickets | log in, pair, poll, approve, revoke, transfer | all routes | approve racing expiry; revoke racing use | a code gives one session; nothing works after it was revoked |
| Caches (`value-cache`, `byte-cache`, `in-flight`, `stream-listing-cache`, `images`) | values with ages, running fetches | get, refresh, invalidate | their users | an old refresh that ends after an invalidation | one fetch per key; no stale value after an invalidation |
| Debrid (`debrid`, `source-resolver`) | accounts, torrents being prepared | add, poll, select, unrestrict | queue | a poll answered after the row was removed | one torrent per row; a row does not wait for ever |
| Outbound requests and addons (`outbound`, `addon-refresh`) | limits per host | request, retry | all fetchers | retries and redirects | a request stays within its policy |
| HTTP surface (`index`, `server-shutdown`) | timers | routes, shutdown | all parts | the order of a shutdown | nothing acknowledged is lost |
| Clients (`web/src`, `desktop/src`, `android-tv`) | view state; the local process; an ExoPlayer | – | HTTP surface | the playback controller of the TV app | – |

## 2. The modules

A row of the download queue is `queued`, `waiting`, `checking`, `downloading`, `paused` (for a
person, the storage, the library or a right), `completed` or `failed`. `download()` runs a row
from its start to its end, `pump()` starts rows, and the HTTP handlers, a library watch, a
space watch and timers change rows whenever a run awaits. All writes of the list go
through one chain. Three modules look at that one file from three sides. What one abstracts,
another has:

| Module | Question | Takes from the others |
| --- | --- | --- |
| `QueueStore` | what is in storage, and what has the caller been told, when a write fails or the process dies | a run is idle, running or aborted, and completes or fails |
| `DownloadQueue` | which row runs, why not, and what do people and watches do to it meanwhile | a save takes a moment and succeeds, except that of a removal; a transfer ends or breaks off |
| `PartFile` | are the published bytes those of one source, whole and in order | the row runs again at any time; its rows are saved or, with `SavesFail`, perhaps not |

The other modules are composed: `LibraryOps` extends `LibraryTransfer` (the queue of operations
moves items by the steps a direct request takes too, and both run side by side), and
`SearchSession` extends `SearchScheduler` (what a session does and what the scheduler makes of
it is one step, as it is in the code, where both run without an await in between).

| File | Contents |
| --- | --- |
| `QueueStore.tla`, `MCQueueStore.tla`, `MCQueueStore.cfg`, `MCQueueStoreShutdown.cfg` | the write chain and its runs |
| `DurableQueue.tla` | the abstract queue: a request is stored and answered in one step |
| `QueueStoreProofs.tla`, `DurableQueueProofs.tla` | their theorems, and the refinement |
| `DownloadQueue.tla`, `MCDownloadQueue.tla`, `MCDownloadQueue*.cfg` | scheduling and its runs |
| `DownloadQueueProofs.tla` | its theorems |
| `PartFile.tla`, `MCPartFile.tla`, `MCPartFile.cfg` | the partial file and its run |
| `PartFileProofs.tla` | its theorems |
| `LibraryTransfer.tla`, `LibraryOps.tla` | one item on its way; the queue of operations over it |
| `MCLibraryOps.tla`, `MCLibraryOps*.cfg` | their runs |
| `LibraryTransferProofs.tla`, `LibraryOpsProofs.tla` | what each step of a transfer keeps; the theorems about the queue |
| `StateStore.tla`, `MCStateStore.tla`, `MCStateStore.cfg` | the settings store and its run |
| `AtomicStore.tla` | the abstract store: one file, written in one step |
| `StateStoreProofs.tla` | its theorems, and the refinement |
| `SearchScheduler.tla`, `SearchSession.tla` | the slots, and the searches that share them |
| `MCSearchSession.tla`, `MCSearchSession.cfg` | their run |
| `SearchSessionProofs.tla` | the theorems about them |

One step of a model is what the code does from one await to the next. JavaScript runs that
without interruption, so nothing finer can be observed; anything may happen in between.
Where two awaits in a row have nothing between them that others can see, they are one step;
section 11 names those. `SearchSession` goes the other way and splits what one call does into
several steps, because it starts runs within runs; there nothing else happens until the call
has returned (`Returned`, `Idle`).

## 3. QueueStore: what is stored, and who is told

**State.** `jobs` is `this.jobs`, `rec` the job objects (phase, and `rev`: which of its byte
counts the job has, in the order it took them), `noted` the last count after which a save or a
checkpoint was due, `disk` the rows in SQLite (or in the JSON file that replaces them), `chain` and `writing` the promise
chain of `write()`, `saveFailing`, `retryTimer` and `checkpoint` the best-effort saves,
`admission` the chain `add()` serialises on, `answer` and `removal` what a client knows.

**Actions.** `WriteBegin`, `WriteOk` and `WriteFail` are a turn of the chain: the change is
made in memory, an image is taken, the batch commits or fails, and a failure undoes the
change. The continuation of the caller belongs to the step that settles the write, because it
runs before any other event. `Ask`, `CheckDuplicate` and `AdmitJob` are `add()`, `AskRemove`
and `RemoveJob` are `remove()`, `ClearCompleted` is `clearCompleted()`; `StartRun`, `Progress`,
`Recount`, `CompleteRun`, `EndRun` and `Resume` are what a run or a person does to a stored row;
`RetrySave` and `CheckpointSave` are the timers; `Flush`, `FlushDone`, `Freeze`, `Exit` and
`Start` are `server-shutdown.ts` and `load()`; `Crash` ends the process anywhere.

**Byte counts.** `received` does not only grow. A partial file that is dropped, a plan that no
longer fits or a choice that is given up sets it to 0 (`downloads.ts:3753, 3982, 3992, 4013, 1357`), a
transfer begins with what its file holds (`:3786`), and `load()` may set it back (`:1190, :1203`).
Storage has to keep the latest count, not the highest. So a record holds the number of its
count in the order the job took them, and every step that assigns `received` takes the next number:
`Progress` with a checkpoint to follow, `Recount` with nothing to save it before the next note,
`EndRun` and `Resume` with the save they end in, `Start` with the save of `load()`.

**`store_chain`** (two requests of one account for the same address, one failing write, one
crash, one waiting write beyond those under way; 860 000 states): an accepted request is stored until
its own removal is (`AcceptedIsStored`), a refused one is nowhere (`RefusedIsNowhere`), a
confirmed removal is final (`RemovedStaysRemoved`), the list and the storage agree between
writes (`ListMatchesStorage`), so a removal that failed leaves the row in both. Two open rows of
one account never share an address unless a failed one was resumed or put back
(`OneOpenJobPerSource`); the code lets two accounts queue the same address (`ownedBy`, `:1557-1562`),
and so does the model. The whole chain implements `DurableQueue` (`ImplementsDurableQueue`):
nobody can tell it from a queue that stores and answers in one step, except for answers that a
crash swallowed.

**`store_shutdown`** (one job, a byte count that changes once, a flush, a failing write, a crash; 530 000
states): when a flush is through and no save has failed, storage has of every row the count
noted when it began, or one taken later (`FlushedIsStored`); no write, retry, crash or restart puts an
older count in the place of a newer one, whichever is higher (`StoredCountsFollow`); and storage
catches up with what was noted, again and again (`NotedReachesStorage`).

**Fairness** (`FairSpec`, for the last of these only): the chain moves
(`WriteBegin \/ WriteOk \/ WriteFail`: its head is taken, or the database answers what is under
way), and the two timers fire. The event loop and the worker do that; nothing is
assumed of clients, of runs, or of whether a write succeeds. The number of failures is
bounded, which is what the property needs: a database that fails for ever stores nothing.

**Bounds.** Two requests are the fewest that can race for an address and for the chain; they
are interchangeable, hence the symmetry. Requests of two accounts do not meet in the check for open rows, so a
second account is left to the theorems. `store_chain` has no byte counts and `store_shutdown` no
second job, since neither asks about both. The properties compare two counts
of a row, so one change of the count is enough to confuse them; one flush of the two a shutdown makes is enough to wait for a busy chain. A waiting write beside the one under way is enough
for any order of an addition, a removal, a clearing and a save. A second failure adds nothing
to `store_chain` that TLC found; the theorems hold for any number. `CHECK_DEADLOCK FALSE`
because clients ask once and the bounds run out.

## 4. DownloadQueue: which row runs

**State.** `status`, `reason`, `stream` (the host of the chosen source), `bound` (the row has
a `libraryId`), `tried`, `retry`, `later` (`notBefore` has not come) are fields of a job;
`at` is the await a run of `download()` is in, `aborted` and `pauseRequested` the flags of an
active run; `halt`, `room`, `library` and `allowed` are what the row depends on; `resuming`,
`waking` and `out` are handlers between two awaits: a resume, the library watch with the
rows it has listed, a removal being written.

**Kinds of rows.** `direct` has an address, `lazy` looks for the source of an episode and
tries the next one, `profile` chooses by a source profile and loses its choice whenever it
is not running.

**Actions.** `Pump` is `pump()` with its picks by row order, host and limit. The steps of a
run follow `download()`: `Stopped` and `Refused` at its start, `Resolve`, `SourceFound`,
`NoneFound`, `LookupBreaks`, `NoLibrary`, `ChoiceDropped` for its lookup, `HostTaken`,
`Transfer`, `SourceGone`, `TransferEnds`, `TransferBreaks`, `Recover`, `Publish` and its
refusals, `Announced`; its catch and finally are `CatchRefused` … `CatchFailed`, and the
`Tidied…` steps after the awaits in the catch. `Pause`, `AskResume` with `Resume`,
`AskRemove` with `Removed` or `Kept`, and `Move` are people; `PauseMatching`,
`PauseIncompatible`, `WatchLibraries` with `Wake`, `CheckSpace`, `RetryTimer` and `Elapsed`
are the sweeps, watches and timers; `Restart` is an orderly restart. `Withdraw`, `Grant`,
`ChangeType` and `RoomBack` are the world.

| Run | Instance | Shows |
| --- | --- | --- |
| `queue_schedule` (301 000 states) | two direct rows and a lazy one, two slots, one transfer per host, a fault, a pause | the limits hold although hosts become known late; a row that could start is never left without a coming pump; only the named events end a person's pause |
| `queue_halt` (640 000) | a direct and a profile row, a write that meets a full disk, a sweep, a resume, a restart | a halt stops all runs; no halted row is left without the space watch; no row stays `downloading` without a run |
| `queue_rights` (289 000) | a lazy and a profile row, a right or the library's type withdrawn and given back, a pause, a removal whose write may fail | a paused or removed row has no live run; completed stays completed |
| `queue_live` (448 000) | a direct and a profile row, a fault, a full disk, a sweep | every row settles, and none stays paused for the storage |

**Fairness** (`queue_live`): every await of a run or a handler ends: a
transfer that carries nothing is aborted after a time (`stallInitialMs`, `stallTransferMs`),
other requests have timeouts of their own, and the rest is local; timers fire; the watches run on an interval; a full disk is
emptied some day. People, rights and the type of a library owe nothing.

**Where the properties stop.** A property is checked where it holds; what the bounds leave out
is this, and what matters of it is in section 9. The theorems of section 10 name the same
events as hypotheses on the history.
- `SettingsAreKept`, `ShownRunningIsRunning` and `QueuedWaitsForASlot` are checked without
  removals: the code does not keep them during a removal, above all one whose write fails.
- `QueuedWaitsForASlot` counts the run of a row that looks for its source as something to wait
  for. It lets go of its source, or learns its host, and pumps only when it ends; what it has
  freed before lies idle until then.
- `CompletedIsFinal` is checked without a storage halt, `HaltedRowsAreWatched` without
  removals that fail, `PausedIsStopped` and `CompletedIsFinal` without resumes beside sweeps:
  the library watch queues a row it has listed, also one that a resume has started meanwhile.
- `StoragePausesEnd` speaks of rows paused *for the storage*. The space watch may release the halt
  before a run it aborted has unwound; the catch of that run then finds no halt and writes the
  pause of a person (`downloads.ts:3945-3948`). Such a row rests until a person resumes it;
  `EveryRowSettles` takes that for rest, as it does every pause.
- `QueuedWaitsForASlot` takes the run that frees the bucket `?` (`:2992`) for something to wait
  for, and `PauseIsLeftBy` allows the requeue of section 9: they say what holds beside these.

**Bounds.** Every property relates at most two rows, and the limits of two slots and one
transfer per host make them compete. One fault per run is enough for each catch branch,
since `TransferBreaks` takes any kind of error. A halt that meets a halt, and a person who resumes
a row after the pause, are left to the theorems of section 10, which bound none of these:
with them the runs take many minutes and fire no other action. The retry limit is 1 instead of 3: the code compares it once.
`CHECK_DEADLOCK FALSE`: when all rows are done the queue rests.

## 5. PartFile: what is in the file

**State.** `job` and `stored` are the row in memory and in storage (source, name, plan with
what each range has, the sources given up); `part` and `published` the files, as sequences of
cells that say of which source and place they are; `at`, `name`, `offset` and `body` the run.

**Actions.** `Choose` with `ChoiceSaved` or `ChoiceDropped`; `Look` and `Probe` decide between
a plan for ranges (`PlanStored`, `Truncate`, `SegmentMoves`, `SegmentsEnd`) and one stream
(`Ask`, `StreamMoves`, `StreamEnds`); `Reserve` and `Publish` are the sync and the exclusive rename under a
free name; `Breaks`, `RangesIgnored`, `NoSuchRange`, `GivesUp` are how a transfer fails and
`KeepPart`, `DropPart`, `NextSource`, `NoneLeft` what the catch does. `Unlink` may fail
without anybody noticing, as `.catch(() => undefined)` has it. `Restart` ends the process
anywhere; `Vanish` is a person who deletes the partial file.

**`part_file`** (two sources of the same size, so that no length check tells them apart, three
cells, two names, two ranges; 1.5 M states): a published file is one source, whole and in
order (`PublishedIsWhole`), what a plan counts is in the file (`CountedIsWritten`), and a file with
holes whose deletion did not fail belongs to the stored plan (`HolesArePlanned`), so that a
preallocated file is not taken for a fetched one. `docs/bug-hunt-error-swallowing-inventory.md:213-227`
marks the swallowed deletions as "needs review". For those on this path (a plan that does not
fit the file, a retry from the start, an answer 416, the next source) the run answers: with
saves that succeed they never mix two files, because what is left behind is either bytes of the same
source or lies beside a name that is no longer free. A crash between the rename and the save of the completed row downloads the file
again and publishes it under the next name; the file is whole, and it is there twice.

A partial answer (206) without a usable `Content-Range`, which the code takes for what it asked for
(`downloads.ts:3848-3862`), is left out: only a server that breaks the protocol sends it.

**Bounds.** Three cells in two ranges make the last range longer than the first and leave a
boundary inside the file. Two sources and two names are the fewest that can be confused, and
each pair is interchangeable. The proofs cover any number. `CHECK_DEADLOCK FALSE`: a row that
is done, or has no source left, stops.

## 6. LibraryOps: what becomes of an item that is sent elsewhere

**State.** `at` says what each path holds: nothing, an item, a torn item (a removal that stopped
half way) or the empty placeholder a transfer takes a name with. `known`, `kept` and `dirty` are the
match history in memory, on disk and the libraries whose debounced write is due. `work` is
what each worker is doing; a worker is the pump of the queue or a direct `POST /api/library/move`.
`unkept` and `lost` are the items whose flush gave up and those whose rows a death then took.
`jobs`, `stored` and `saves` are the queue in memory, its state file and the chain of saves;
`run` is where `run()` stands, `ending` where each `finish()` stands, `wakes` the timers of blocked
jobs, `clients` what was answered, `moved` the libraries that were re-pointed. A job has an item at least:
every caller of `enqueue()` sees to it (`library-admin.ts` refuses an empty re-root), and the last
item is counted in the step that ends the job, so the branch of `run()` for a job with nothing left
(`library-ops.ts:257`) is never taken and has no action.

**Actions.** In `LibraryTransfer`: `Check`, `Reserve`, `Rename`, `Copy`, `Swap`, `RemoveSource`
(or `SourceTears`, `SourceStays`) are `transferLibraryPath()` up to the moment the item is at
its target; `Resume` and `Clear` are `resumeTransfer()`; `Carry`, `MetaWrite`, `Flushed` and
`FlushGivesUp` are the match history that follows the item. In `LibraryOps`: `Enqueue`, `Cancel` and their answers
are the routes; `Next1`, `Blocked`, `Parked`, `Wake`, `Starts`, `StopsShort`, `Executes`, `Record`,
`Settle`, `GoesOn` are `run()`, await by await; `Reported`, `Hook`, `HookFails`, `HookThrows`, `Closed` are
`finish()` with the hook of `library-admin.ts`; `Crash` and `Load` are a death anywhere and the start after it.

| Run | Instance | Shows |
| --- | --- | --- |
| `library_ops` (1.49 M states) | a job of two folders, one across file systems, a re-root, and a direct request for the first folder's name; two crashes and one further mishap of any kind | every item is whole at one end of its way (`NothingLost`), what a report says is so after a crash (`ReportedIsThere`), the title is on disk before the report is, unless its flush gave up (`IdentityKept`), a library is re-pointed last (`RootFollowsContent`), and a cancel holds (`CancelHolds`) |
| `library_live` (44 000) | the same jobs, one crash and one further mishap | every accepted job ends and its hook has had its say (`JobsEnd`) |
| `library_name_lost` | a job of two files and a direct request, two crashes | the finding of section 9 |

**The match history.** A write of it that fails is only logged (`library-meta-store.ts:579-592`):
the library is owed again, with no timer before the next save, and `flush()`, which tries
twice, returns as if all were written (`:595-603`). `finishTransfer()` reports the item either way: a
title may be reported with its rows in memory only, and be lost if the process dies before another
save. `FlushGivesUp` is that, and `IdentityKept` says what is left: the rows are under the new path
on disk, or the flush gave up and memory owes them, or it gave up and the process died.

**The hook.** `switchRerootedRoot()` rejects when `state.json` is refused (`library-admin.ts:185`), and
may reject after it was written (`switched`). `finish()` then logs a warning and returns
(`library-ops.ts:346-352`): the job keeps its verdict and its flag, and the next start asks the hook
again. `HookThrows` is that; `JobsEnd` counts such a job as ended, as it does one whose hook
found the folder taken: both rest until the next start.

**Fairness** (`library_live`): one weak fairness of everything the process does by itself: the
pump is one loop, promises settle and timers fire. Crashes, cancels, refused saves and blocked
disks are owed by nobody.

**Bounds.** Two workers and two names are the fewest that can meet; a job of two items has an
item before and one after a crash. Two crashes are there because a resumption can be cut
off too. A second mishap of another kind multiplies the states tenfold; the pairs that
matter (a crash with each) are in. `wedged` marks the state that section 9 describes; `JobsEnd`
says nothing of it.

## 7. StateStore: one change of two files

**State.** `file` is `state.json` (everything but the personal rows, and the journal), `db` the
rows in the database, `mem` the state in memory, `before` what the current turn found; the rest
are the fields of `JsonStore`: `persistedCold`, `persistedRows`, `coldStripPending`,
`deferredPending`, the revision (`bumped`) and the timer.

**Actions.** `Update`, `UpdateNothing`, `UpdateLater`, `WriteDeferred` and `Flush` take a turn of the
chain; `JournalLands`, `BatchLands`, `ColdLands` (the strip included) with `BatchOwed`,
`StripFails` and `WriteFails` are the writes of `writePersisted()`; `Landed` and `Failed` end the
turn; `Crash` and `Load` are a death anywhere and `loadPersonalRows()`.

**`state_store`** (a change of both files, one of two rows, one that deletes; two failing writes,
two deaths; 95 000 states): read with its journal, storage implements a store of one file
(`ImplementsAtomicStore`), nothing that is owed is forgotten (`SettledIsStored`), and what is
owed is written (`DeferredLands`). For the last one a write lands or fails, the timer fires, and
a late save gets its turn in the chain, which is first come, first served (`SF`).

**Bounds.** Three requests cover the routes of `Route`: both files, the rows alone, neither. Two failures
are needed: the batch and then the strip or the late save. The theorems hold for any number.

## 8. SearchSession: many sources, few slots

**State.** `SearchScheduler` has the fields of the class: the entries that wait and run, the
counts per session and class and per pool, and where the rotation stands; `settled` are the
results whose callbacks have not run. `SearchSession` has a session per search (`phase`, `slots`,
`sources`, `limited`, `initial`), a `SourceState` per source, the pages asked of sources
(`fetching`) and the runs that have ended (`ended`); `todo`, `starting` and `pumping` are what is left
of the current call.

**Actions.** `Start`, `Look`, `PageAll`, `Retry`, `Delete`, `Refuse`, `InvalidateContent` are the
calls; `SchedulePage`, `Pump` and `Run` are what a call goes on to do; `FetchReturns`,
`FetchFails` and `FetchIsEarly` are the answers of sources; `Finish`, `FinishPageJob` and `Answer` are
promise callbacks; `HardLimit` and `InitialTimeout` are timers; `Publish` is the first local index
and `LoseRights` the rest of the server.

**`search_sessions`** (three searches of three sources, two of them of one server, two slots, one
job per class and server; replaced, evicted, deleted, retried, cut off and refused; 163 000 states):
- `SchedulerSound`: the counts are exact, no limit is passed, no job that may run waits beside a
  free slot, and a search that is gone leaves no job behind that takes one;
- `PagesInOrder`: a source shows its rows in order, skips none and does not come back from
  its end, whatever answers after its time was up;
- `PendingEnds`: a source that is queued or loading gets an answer, a failure or a timeout, unless
  its page was cancelled below (`cut`).

**The cancelled page.** When another request's 401 drops the runtime of a media server, the pages
asked of it fail as cancelled with a live token (`media-server-manager.ts:3228-3234`,
`media-server-security.ts:1901-1903`, `search-sources.ts:388`). `applyFailure()` puts the source back
to what it was before the page (`before`, `search-session.ts:980-983`) and schedules nothing. After
a first page that is `queued`, and neither `retry()` nor `pageAll()` takes a queued source: it
stays so, and the snapshot `partial`, for as long as the search lives. `FetchFails` and `Finished` have
it; `PendingEnds` excuses it and nothing else of the kind.

**A full server.** `start()` gives up the caller's search, and perhaps others, before it finds that
there is no room and throws (`:358-368`). The number of searches never passes the limit, so one
that gives a search up has room: a start that is refused has given up nothing. It changes nothing and
has no action.

**Fairness**: what the process runs by itself is run, one condition each for the rest of a call and for the callbacks,
and one for the hard limit of the jobs of each source. No source has to answer.

**Bounds.** The third search has no sources: it is there to take the slot of the first while
its jobs run. One failure, lost right or retry each (`MaxMishaps`); a source has at most two
batches, the second of which is not new, so that it stalls (`StallAfter`) or ends.

**What it abstracts.** Time: a timer may fire whenever it runs, and the interval between two retries
is left out. Rows are batches of what one page job may take, numbered by the source; of
clusters and their members only that a batch has something new. `failed` stands for
`unavailable` too. The results of cancelled jobs are not kept, since whoever cancels is gone before
the callback runs. `start()` up to its first wait is one step. A server that has given its last
page starts over if it is asked again, as its adapter does.

## 9. Findings

**`library_name_lost`** (`NothingLost`). A restart resumes the move of a file and finds an empty file
under its target name. `resumeTransfer()` takes it for the placeholder its own first attempt left
and removes it; it is the reservation of a direct request that has started meanwhile. Both then
rename onto the name, and the second replaces the first, whose source is gone. The comment at
`library-transfer.ts:164-166` says this cannot happen ("it never reaches the rename"). Folders
are safe, since a rename does not replace a folder with content.

Five more disagreements have a property in a module and an instance that shows them. They are
not runs of the project; each takes one line in a configuration:

| Property | Change | What happens |
| --- | --- | --- |
| `DownloadQueue!PauseHolds` | `MCDownloadQueueLive.cfg` with `Spec`, `Jobs = {d}`, `Stored <- MCStoredD`, `MaxPauses = 1`, `MaxStorage = MaxSweeps = 0` | A transfer fails, its catch awaits the deletion of the partial file, a person pauses the row, and the catch goes on to set `queued` (`downloads.ts:3983`). The row runs again although it was paused. |
| `DownloadQueue!CompletedIsFinal` | `MCDownloadQueueHalt.cfg` with `MaxSweeps = MaxResumes = 0` | One row is completed and still awaits `onCompleted()`, another meets a full disk: `haltForStorage()` pauses both (`:2459`), and the release downloads the completed one again. |
| `DownloadQueue!WaitingRowsGoOn` | `MCDownloadQueueLive.cfg` with `Jobs = {p}`, `Stored <- MCStoredP` | A row waits for its library; dropping its chosen source clears `libraryId`, and `wakeLibraries()` passes over it for ever (`:1393`). |
| `PartFile!PublishedIsWhole` | `MCPartFile.cfg` with `SavesFail = TRUE` | The choice of the second source is not saved, its run writes part of the file, the process dies, and the restarted row completes the file with the first source. |
| `LibraryOps!IdentityCrosses` | `MCLibraryOps.cfg` with `Libraries = {L, M}`, `LibraryOf <- MCFar` | An item goes to another library; the file of its old library is written without its rows, the process dies before that of the new one is, and the title is lost (`library-meta-store.ts:600`). |

Met while modelling, without a property of their own, in the queue:
- a removal takes the row out before its write. While the write is under way the transfer of
  the row is not counted for its host (`downloads.ts:2417`), and when the write fails the row
  comes back, perhaps as `downloading` with its run ended meanwhile (`:2167`), and nobody pumps for it;
- a halt may be released before the runs it aborted have unwound, and their catch then
  relabels rows that were queued, as paused by a person too (`:2445`, `:3945-3948`);
- a run that finds its source frees a slot of the bucket `?` and does not pump (`:2992`);
- the library watch and a late refusal of a resume act on what they read before an await:
  the row may be running, paused by a person or removed by then (`:1447`, `:1882`);
- `remove()` answers success for a row that another removal has out only tentatively
  (`:2160`); that is why `removal` has an answer `absent` for which nothing is promised.

In the operations on library content:
- a save that `run()` awaits and that is refused rejects `run()`: the job stays `running` and nothing
  carries it on before the next start (`library-ops.ts:293`); `wedged` marks it;
- the same for the first save of a job: the client is refused, but the job is in the list and
  the pump may run it;
- a direct request that publishes under the name of an item whose record says `moving`, but whose
  transfer died before its reservation, makes the next start report that item as landed; hence
  `Contested` in `ReportedIsThere`;
- an item is reported although the write of its match history failed, and a hook that throws leaves
  its job to the next start (section 6);
- a cancelled job is dropped with its records, also that of an item which landed before the
  crash and whose rows have not followed it yet (`:299`);
- a job at the head that is blocked lets those after it wait;
- the subtitles beside a video are moved outside the journal.

In the settings store: a batch may have committed in a database worker that dies before its answer.
The update is refused, and the rows are in the database (`store.ts:838`).

In the searches:
- `retry()`, or an index that has become ready, puts a source of a search at its record limit
  back to `queued`, and `schedulePage()` then schedules nothing (`search-session.ts:512-518`,
  `:711-719`, `:829-834`): the source stays queued and the snapshot `partial`. `PendingEnds` excludes
  searches at their limit; without `s \notin limited` in `Pending` TLC shows it.
- a page that is cancelled below leaves its source queued with nothing scheduled (section 8);
- the rotation goes on from the last session it served in the order of the ids; with three
  sessions or more a session that is served while it is not in the list starts it over, and
  another one may be passed over again and again. `docs/search-everywhere-implementation.md:701-705`
  promises turns. `SearchSession` asks that no slot be idle, not whose turn it is.
- the rotation's maps per session are never shortened.

## 10. What is proved

TLC checks the instances above; the theorems below hold for every value of the constants
that satisfies the module's ASSUME. Where the code keeps a promise only while something does
not happen, the theorem says so: as a hypothesis on the history (`spent["kept"] = 0`: no
removal's write has failed so far), which the theorem carries from state to state, or on the
constants. Nothing is assumed of the order in which things happen.

**QueueStore** (`QueueStoreProofs`). The properties are not inductive: whether an accepted row
stays stored depends on what waits in the chain and on what the write under way will undo.
The invariant `IInv` therefore adds to `TypeOK`:
- `ChainInv`: which answers an addition or a removal in the chain, or under way, belongs to, and
  that it is there at most once;
- `AdmissionInv`: who waits in the admission chain, and that only its head has a write;
- `WritingInv`: how `jobs`, the image of the write under way and `disk` differ, which is what makes a revert
  restore exactly what storage has;
- `UnwrittenInv`, `RemovedInv`: a job is in memory or in storage only once the write of its
  own admission has begun, and a removed one is in neither again;
- `DownInv`: a dead process has nothing in memory;
- `ListMatchesStorage` and `AcceptedIsStored` themselves.

`StoreInvariant` is `Spec => []IInv`, by one step per action and under it one per conjunct.
From it: `StoreTyped`, `AcceptedStaysStored`, `RefusedStaysNowhere`, `RemovedNeverReturns`,
`ListAlwaysMatchesStorage`, and `StoreImplementsDurableQueue`, the refinement: with the
mapping `stored <- DOMAIN disk`, `told <- Known`, `erased <- Erased`, a committed write is an `Accept`, `Erase` or
`Clear`, a failed addition is a `Refuse`, a death is a `Crash`, and every other action stutters.
`DurableQueueProofs` proves of the abstract queue that a refused request is never stored
(`RefusedNeverStored`).

Three more results stand on `IInv` with an invariant of their own each:
- `SourcesOpenOnce`: no two open rows of one account and one address, in memory, in storage or in the image under
  way, but for a failed one that was resumed or put back. The check of `add()` and the write are far apart; between them the admission chain keeps
  every other addition out, so that who has passed the check has no open twin (`TwinsInv`);
- `CountsLandInOrder` (`StoredCountsFollow`): an image taken earlier is never written after a
  later one, because every image of a row is at least as recent as the stored one and no more
  recent than memory;
- `FlushedCountsAreStored` (`FlushedIsStored`): the counts noted when a flush began, or later ones, are
  in storage, or in the image of a write that is under way, or a save that will take them is in the
  part of the chain the flush waits for.

**DownloadQueue** (`DownloadQueueProofs`). The invariant `Sound` has, beside `TypeOK`:
- `Stage`: what a stage of a run may rely on. No budget is spent twice, a failed row has no run,
  a publishing row is not `checking`, a run that a person paused, or whose row is gone, has been
  told to stop;
- `Followed`: a row shown as running has a run nobody has told to stop; a halted queue has told all
  of them; a row paused for the storage is there only under a halt;
- `Held` and `Settled`: a paused row's run was told to stop; a completed row has no run but the one
  that announces it;
- `World`: what the history has not had does not show. Without resumes none is under way, without
  sweeps the library accepts and nothing waits for the watch;
- `Listing`: no row is listed twice, and the row of a removal under way is not listed.

The one step of a run changes its own row only (`RunKeeps`), so a lemma per stage looks at that row
and `OthersAreKept` adds the rest; the halt, the pump, the sweeps and the handlers have a lemma each
over all rows. `QueueInvariant` is `Spec => []Sound`.

| Theorem | Property | Needs | Because |
| --- | --- | --- | --- |
| `QueueTyped` | `TypeOK` | – | |
| `SlotsAreKept`, `HostsAreKept`, `SettingsHold` | `SettingsAreKept` | slots: nothing; hosts: no failed removal; over unlisted rows: no removal | a row whose removal is being written transfers and is not counted |
| `RemovedRowsAreStopped` | `RemovedIsStopped` | – | |
| `PausedRowsAreStopped` | `PausedIsStopped` | no resumes, or no sweeps | the watch queues a row it has listed, also one a resume has started meanwhile |
| `HaltReachesEveryRun`, `HaltedRowsKeepTheHalt`, `ShownRowsRun` | `HaltStopsAll`, `HaltedRowsAreWatched`, `ShownRunningIsRunning` | no failed removal | the row comes back as it left, with whatever passed over it meanwhile |
| `PausesHold` | `PauseIsLeftBy` | – | |
| `CompletedRowsStay`, `CompletedIsKept` | `CompletedIsFinal` | no full disk, no sweep | a halt pauses a row that is announced; the watch as above |
| `QueuedRowsAreWaitedFor` | `QueuedWaitsForASlot` | no failed removal | the row comes back and nobody pumps |

The limits need more than `Sound`: `Slots` and `Hosting` are kept by every step that neither starts
a run nor a transfer (`Narrow`), the check before a transfer keeps them for that, and for the pump
`PickedFits` counts the rows it has taken before the last one of a host. `QueuedRowsAreWaitedFor`
is about what the last pump left: `Awaited` says that when no pump is coming, every waiting row is
one the pump has passed over for want of a slot or a host, and that this is so still (`FullerFits`:
what a pump has started fills the places it counted; `RunAwaited`: whatever gives one back ends in a pump).

**PartFile** (`PartFileProofs`), under `SavesFail = FALSE`, without which the instance in section 9
refutes it. The invariant is `TypeOK`, the pairing of stages and locals, where the run writes, what the partial
file of a row is when the row is about to go on with it (`Sound`), that holes are planned (`Planned`), and
`PublishedIsWhole`. `Sound` and `Planned` are stated of both `job` and `stored`, because a restart
makes the one the other: what is on the disk must be right for both rows at any time. The
lemmas about `Start` and `End` (ranges follow one another and cover the file) are proved for
every size and number of ranges. Results: `SpecTypeOK`, `SpecPublishedIsWhole`,
`SpecCountedIsWritten`, `SpecHolesArePlanned`.

**StateStore** (`StateStoreProofs`). `SettledIsStored` speaks of the moments between turns; that it
holds there depends on what each write of a turn has done. `IInv` adds what the store believes of
the files (`KnownInv`), what each step of `writePersisted()` has already done (`TurnInv`), and that a
turn which can still be refused has changed nothing its refusal would have to undo
(`RefusalInv`). The lemmas on journals say that a replay gives the new rows, however often it is
repeated. Results: `StateTyped`, `SettledStaysStored`, `StateImplementsAtomicStore` (`JournalLands`, a
lone `BatchLands` and a lone `ColdLands` are the `Commit`; a change that is not owed and changes nothing is
committed from the start), `AcceptedUpdateIsStored`.

**LibraryTransfer, LibraryOps** (`LibraryTransferProofs`, `LibraryOpsProofs`), from
`TransferAssumption` and `OpsAssumption`, for any libraries, items, jobs, requests, file systems and
any number of crashes, refusals and failures. `TransferInv` says what a path holds, that an
item is at one of its two paths (`PlaceInv`), what a worker may rely on once it is past the rename or
the flush (`WorkInv`), and that the rows in memory and on disk are the item's own, under one of its
paths (`RowsInv`). Each step of a transfer keeps it and undoes nothing (`Lasting`: what has landed
stays, on disk and in the rows); that is all the queue has to know of the steps of the others.
`OpsInv` adds `ImagesInv`, which says the same of the jobs in memory, of the state file and of every image in
the chain of saves, because a crash may bring back any image that lands: what a job counts as
done is done (`Honest`), and what it counts is its items in order (`Sane`); and `RunInv`, which ties
the pump's place to its job and to the worker it drives. Results:
- `NothingIsLost`, if items that share a target name are folders. The finding in section 9 is why:
  two files lose one of them. Folders do not, however many want the name, crash and resume;
- `ReportsAreTrue` and `IdentitiesAreKept`, without any hypothesis beside those the properties
  state; `LibraryTyped`;
- `RootsFollow`, if the items of a re-root share their names with nobody: `resumeTransfer()` takes any
  content at a name for its own item, and the check that no other library has the new root
  (`libraryRootTaken`) is what keeps names in it from being contested;
- `CancelsHold`. The mark of a cancel is in memory until the next start reads the state file. `CancelInv`
  therefore says that a mark, once stored, is in every later image (`MarksInv`), and that an answer
  under way waits for an image that has it (`Promised`).

**SearchSession** (`SearchSessionProofs`), from `SchedulerAssumption` and `SessionAssumption`, for
any number of sessions, sources, pools, and any limits. The counts alone are not inductive over
the sessions: that no job waits for a session that is gone needs to know that an entry in the
queue is the one job its source knows. `IInv` is `TypeOK`, `Sched` (the parts of `SchedulerSound`
that speak of the scheduler, and that `pump()` runs only while it has something to admit) and
`Linked`: a job that waits has its source's token, no job of a source is newer than the token, a
job whose result has come does not wait, and a session that was never started has none. The lemmas about
`Enqueue`, `Cancel`, `Admit` and `Release` keep `Sched`; `AliveKept` keeps `Linked` for every action that
asks nothing of a source; scheduling a page and hearing of one are the two that change
the token.

The rows of a source need more: that no late page is taken for the new one and that "exhausted" is not undone
depends on which calls may still change the source. `PInv` adds to `IInv`, per source, `InStep`:
- what it shows and has left over is what comes before its cursor, or all there is, until the search is at its limit;
- a job that has not begun finds its source queued;
- the one page of a job that is waited for goes on where the source stands, so that a page that
  comes after a timeout and a retry is not taken for the new one;
- when the end of a job is about to be told, and it failed or its time was up, its source is not
  exhausted: a job whose page was the last ends with that page, before its hard limit can.

and `AskedFor`: a page that is scheduled without a look at the state of the source is asked only where
it is not exhausted. Every action either leaves a source as it is, gives it up with its search, or changes it in
one way (`Moved`): a look, a page, an early answer or an end. Results: `SearchTyped`,
`SchedulerStaysSound`, `SearchInOrder`.

**Only model-checked**: the liveness properties (`NotedReachesStorage`, `EveryRowSettles`,
`StoragePausesEnd`, `JobsEnd`, `DeferredLands`, `PendingEnds`) and everything that needs ENABLED, which the
prover does not reach.

## 11. What is not modelled

Of the queue:
- torrents that wait for a Debrid service, rows completed from a copy that is already there,
  copies from media servers with their subtitles, playlists, the gates and the withdrawal of a
  publication, the deletion of a whole account's rows (`removeMatching()`);
- libraries whose record is gone, and the deadline after which a waiting row gives up: in the
  model a library refuses the row or takes it;
- in `DownloadQueue`: admission, clearing and a crash, which are in `QueueStore`; its writes succeed
  except those of a removal. The awaits inside one resume, the second check of the owner after
  a choice, and the resolution of the library are one step each with what surrounds them;
- in `QueueStore`: fields other than phase and byte count, of the count all but its place in the
  order of counts, and the order of rows; the save of a plan with its revert (`downloads.ts:3805`), which
  `PartFile` has; playlists (`:3364`, `:3444`) and rows completed from a local copy (`:3591`); rows
  that `load()` refuses, remote copies, and a queue file that is unreadable or damaged;
- in `PartFile`: a 206 without a usable `Content-Range`; a removal, whose deletion may meet the late opening of the file by the run it
  has aborted; rows of a profile and playlists, which start anew each time; a power loss that undoes synced or loses unsynced bytes, and a source whose
  content changes under the same address and size.

Of the operations on library content: deletion and matching, the scan and the index, byte
counts and progress, thumbnails, subtitles beside a video, the personal rows that name a path, the
trimming of old jobs, and the win32 branch of the swap.

Of the settings store: the first import of the rows into the database, the repairs of a state
that is loaded, and the checks of its shape; the SQLite worker, statistics, activity and backup.

Of the searches: the revision and the poll that waits for a new one, expansion jobs,
tombstones, clustering and the members of a cluster, the searches inside one catalog
(`search-catalog-session.ts`), and the adapters of `search-sources.ts` but for what they say of
their last page.

Of the system: live media servers, playback, followed shows, source profiles, accounts and pairing,
the caches, Debrid accounts, outbound requests, the routes, and the clients. `PROJECT.json` lists each
with its reason. None is out of reach in principle; they are left because the parts above are
where data can be lost or a promise broken across a failure, and the ones that come closest to that are
in the plan. The web client, the routes and the translations are the larger part of the
repository's lines, and mostly presentation.

## 12. Plan

1. **Accounts**: pairing codes and transfer tickets (approve racing expiry, revoke racing use).
   **Caches**: `FreshValueCache` and `InFlight`, with one fetch per key and no stale value after an
   invalidation, for any number of callers by proof.
2. **Publication**: the gates between the last byte and the name (second check of the owner,
   reservation of the name, rename, subtitles, completed row, withdrawal), with a
   crash between any two; with `PartFile`'s `Whole` as the abstract file.
3. **Proofs**: `PartFileProofs` with less assumed: only the save of a choice has to
   succeed, so `SavesFail` is to be split in two; `CompletedIsFinal` with sweeps, where nothing is
   resumed or breaks off.
4. **Search**: the revision and its poll, and an abstract search whose source pages appear in order,
   which `PagesInOrder` would then be.
5. **Store**: the worker that dies between a commit and its answer, the backup, and the whole
   shutdown sequence over queue and store.
6. **Playback**: sessions, converter processes and seeks; **Follows**; **Live media servers**: grants
   and refreshes; the playback controller of the TV app.

Each comes as a module with an abstract specification where the part promises one, a run per
question, two or three actors and one failure at first, and proofs of what TLC has agreed to.

## 13. Running

    tlc -workers 2 -config MCQueueStore.cfg MCQueueStore
    tlapm QueueStoreProofs.tla

Every run takes from seconds to about four minutes with two workers; the proofs take a few
minutes each.
