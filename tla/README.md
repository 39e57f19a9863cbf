# TLA+ models of Flummox

Flummox compresses installed games in place (btrfs, APFS, NTFS) or switches them to a
compressed store that is mounted at the game's path. This directory models the parts in
which a mistake costs a user a game, a saving that was claimed, or leaves a job stuck. TLC
checks the modules on small instances; TLAPS proves the most important safety properties for
every value of the constants.

Paths below are relative to the crate (`src/` in the repository root).

## 1. The system

| Component | State it keeps | Operations | Hard part |
|---|---|---|---|
| Coordinator loop, `src/jobs/service.rs` | `snapshot.jobs`, exclusions, the one active worker, the one storage thread; the `queue` and `settings` tables | client requests, `drive`, `poll_pack`, reaping, starting, recovery at start | memory and tables change at different moments; each pass has stages, and a worker, a thread, clients and a crash can act between any two |
| Worker process, `src/jobs/worker.rs`, `src/backend/mod.rs` | pause and cancel flags, the operation lock | reads control lines on one thread, works on another, writes event lines | lines cross: an event written before a command is read after it was sent |
| Storage thread and `PackControl`, `service.rs` | cancel, paused and interruptible flags | start, pause, stop, entering a step that must finish | a stop races with that entry |
| `operation.lock`, `src/jobs/mod.rs` | who holds it | taken by workers, the storage thread, command-line overrides, workers left behind by a dead coordinator | four kinds of holders with separate lifetimes |
| Installed-store lifecycle, `src/pack/install.rs`, `src/jobs/packs.rs` | the install record in memory and in settings row 4, the folder, the retained original, stores, layers, the mount | activate, recover, reclaim, compact, prune, roll back, verify restored | the record and the disk change in turns; deleting and merging trees is not atomic |
| FUSE mount and write gate, `src/pack/mount.rs` | session, inode table, write gate, generation | file operations of the game, freeze, stop | writes race with compaction; numbers outlive names |
| Update layer, `src/pack/overlay.rs` | upper tree, whiteouts, journal | write, remove, rename, apply to a folder | a crash inside one mutation; whiteouts only for files of the store |
| Store format and reader, `src/pack/{format,create,restore}.rs` | the index and frames of a store | cut, pack, validate, read, restore, compare | boundaries, shared frames, sparse ends |
| Store creation and shared pool, `src/pack/create.rs` | staging folders, pool objects, pool lock | build, publish, verify, prune | the launcher writes meanwhile; objects published but not yet linked |
| Maintenance and store upkeep, `service.rs` | `Observations`, `Upkeep`, settings rows | queue an update after a game changed, compact and reclaim by itself | what was seen is recorded before what follows from it succeeded |
| Live compression, `service.rs`, `src/backend/btrfs.rs`, `hook` | property and marker of directories | switch a library on and off | two writes per directory, and a user who sets the same property |
| btrfs passes, receipts and state database, `src/backend/btrfs.rs`, `src/db.rs`, `src/cli/mod.rs` | receipts, fingerprints, the row of a game | rewrite by ranges, skip what is done, undo | files replaced during a rewrite; evidence written by two processes |
| Client protocol, `src/jobs/client.rs` | the lock, the socket, versions | connect, start or replace a coordinator | several versions at once |
| Discovery, `src/launchers/*`, `src/libraries.rs` | the scan thread, the remembered list | scan, merge, remember, publish | drives that are away or replaced; late events of a cancelled scan |
| Steam watcher, `src/watch.rs` | what has settled | notice manifests, queue jobs | events during a read |
| Desktop queue and Windows coordinator, `src/desktop_jobs.rs`, `src/windows/*` | one file with queue and baseline | like the Linux queue, over a different store | saved at most once a second |
| Journals of the other platforms, `src/windows/mod.rs`, `src/macos.rs` | staging files, journal | verified replacement, recovery | a death or a write between any two steps |
| Graphical interface, `src/gui/{app,native,qualification}.rs` | what the window last learnt | messages, requests, polls, preferences | answers in any order, always older than the state they reach |
| Compatibility evidence, `src/compatibility.rs` | reports, hashes of a game's files | measure, save, import, find, check before activation | the game changes while it is hashed |
| Estimates and recommendation, `src/{estimate,recommendation,classify}.rs` | a shared byte budget | sample, total, advise | threads, boundaries of windows |
| Space planning, `src/storage.rs` | none | plan, check, check again | what was checked is old when it is used |
| Login entry, sandbox, process probing, launcher parsing, rendering | little or none | I/O, formatting | none that a state machine shows |

How they interact. Clients (GUI, tray, command line) send one request per connection to the
coordinator, which answers between two stages of its loop. It talks to a worker by lines on
stdin and stdout, and to the storage thread by three flags and a channel. Both take
`operation.lock` before they touch a file. The storage thread runs the transactions of the
store lifecycle; while it runs, the loop lends it the record, so the two never use the
record at the same time. The FUSE session runs in the coordinator process: it dies with it,
and the kernel keeps the dead mount at the path. A worker's finished files become receipts
only when the coordinator reads the events. Scans, the watcher and maintenance turn what
launchers write into jobs. On Windows a coordinator over one file does what the Linux one does
over tables; on macOS the window does the work on its own threads.

What makes each part correct, in one line:

* coordinator: one runner per job, one writer at a time, no accepted request lost by a
  crash, an outcome shown is final, every cancel ends its job, every queued job starts;
* storage thread: a cancel that was accepted keeps the task out of the step that must finish;
* store lifecycle: only the game changes its files, whatever is interrupted; what is served is
  what is recorded; a recorded game comes back;
* mount and layer: the mount shows what the game made, a restoration gives that back, and a
  compaction publishes nothing it missed;
* stores: a reader gives back the bytes a store was made from; a prune takes what nobody uses;
* maintenance: no update is hidden; passes: no record claims more than the files hold;
* desktop journals: an unfinished pass is known, the newest bytes are not deleted, but for two windows of section 6;
* clients and windows: nothing is asked for twice, at rest the window shows the coordinator,
  preferences on disk are those shown;
* evidence, estimates, catalog, live compression, space: each says only what is so.

## 2. Modules

| Module | What it is |
|---|---|
| `Coordinator` | loop, queue, tables, worker process, storage thread, lock, orphans |
| `CoordinatorProofs` | its proofs |
| `GameFiles` | abstract specification: a game is a set of files only the game changes |
| `InstallLifecycle` | one install: record, folder, original, stores, layers, mount; refines `GameFiles` |
| `InstallLifecycleProofs` | types and what the order of saves gives; the stores, the original and the refinement; in a part of its own, the proofs about `NativeWindow` |
| `Maintenance`, `MaintenanceProofs` | scans, observations, upkeep, and the jobs they ask for |
| `Overlay` | inode table, whiteouts, upper tree and journal of a mounted store |
| `WriteGate` | handlers beside a compaction; what is published misses nothing |
| `StoreFormat` | a store as data: cutting, packing, validation, reads, restoration, comparison |
| `StoreBuild` | builds, the shared pool and its prune |
| `StoreProofs` | proofs about `Overlay`, `WriteGate` and `StoreBuild` |
| `Rewrite`, `RewriteProofs` | btrfs passes, receipts, fingerprints, the property of the folder |
| `DesktopQueue` | the Windows coordinator, its job thread, the journal of a folder |
| `MacReplace` | the journaled replacement of a file on a Mac |
| `DesktopProofs` | the Windows journal and queue, and the Mac replacement |
| `Exchange` | connecting to, starting and replacing the coordinator |
| `Window` | the Linux window |
| `WindowProofs` | proofs about `Window` and `Exchange` |
| `NativeWindow` | the window on macOS and Windows |
| `Watch` | the Steam watcher |
| `Evidence` | corpora, reports, the wizard, the checks before an activation |
| `Sampling` | estimates from samples, shared budgets, advice |
| `LiveCompression` | properties of directories and who set them |
| `Discovery` | the scan over launchers and locations, and the remembered list |
| `SpacePlans` | plans of free space, their checks and the work under them |
| `ToolsProofs` | proofs about `Evidence`, `Discovery`, `LiveCompression`, `SpacePlans`, `Sampling` and `Watch` |
| `MCCoordinator`, `MCInstallLifecycle`, `MCMaintenance`, `MCOverlay`, `MCRewrite`, `MCDesktop`, `MCWindow`, `MCNative`, `MCTools` | instances for TLC |

An MC module that extends several components has a variable `unit`: a behaviour is about one
of them and the others rest where they start. They share nothing, so nothing is lost.

### Coordinator

`pc` is the stage the loop is in: `client` (maintenance and one request), `drive` (send pause,
resume), `events` (apply the lines of the worker), `pack` (`poll_pack`), `reap`, `choose` (pick
and start the next job), or `down`. `jobs` is the snapshot, `rows` the queue table; a
position in `jobs` is the job's id. `control` and `events` are the two pipes with the lines
in them; the channel the reader thread fills is part of `events`. `thread` holds the three flags
of `PackControl`, what the thread last announced and its result. `orphan` and `late` are workers a dead coordinator left: one that holds the
lock, and those that have not tried it yet.

* `Enqueue`, `Retry`, `Pause`, `CancelWorker`/`CancelStorage`/`CancelIdle`, `Exclude`, `Include`
  are the arms of the request handler, each with its early returns and saves.
* `Drive(ready)` chooses the games that are ready (not running, not missing) by
  nondeterminism, as the answers of `/proc` and of the file system are outside.
* `ApplyUpdate` and `ApplyOutcome` apply one line each; `EventsRead` leaves the stage.
* `StartWorker`, `StartThread`, `StartFails`, `NothingToStart` are the last stage.
* `WorkerReads` is the worker's control thread, `WorkerWorks` its main thread: sampling, working,
  pausing, ending. `WorkerDies` is a kill or an abort.
* `ThreadStep` cuts the storage task at every point where it looks at its flags.
* `open_store` is the start: it loads the table and marks active jobs as queued or interrupted.

`promised` in `thread` is a history variable: a stop was answered with success while the
task could still stop. Nothing reads it but `PromiseKept`. `ThreadPanics` exists only in
builds that unwind: both profiles of `Cargo.toml` say `panic = "abort"`, where a panic is a `Crash`.

### InstallLifecycle

`mem` is `snapshot.packs` for the game and `saved` settings row 4. A record has its `phase`, the
number `at` of its store and layer, whether it offers a retained original (`backup`), and the
number `prev` of the version a compaction replaced. `folder`, `backup`, `store` and `layer` are
what is on disk, `mount` what the kernel shows at the path and `handle` whether the
coordinator still holds that session. `pc` is the step of the transaction and `by` who runs
it, since `recover_packs` turns a failure into phase `Attention` and a storage job does not.

A transaction is one action per point at which the process can die or a call can fail:

* activate: `BeginActivate`, `Verifies`, `Records`, `MovesOriginal`, `Mounts`, `Saves`;
* reclaim: `BeginReclaim`, `DeletesFile` for each file, `Deleted`, `Saves`;
* compact: `BeginCompact`, `Freezes` or `Discards` or `Cancels`, `RecordsSwitch`,
  `Unmounts("stopping", ..)`, `Switches`, `Clears`, `Mounts`, `Saves`;
* prune: `BeginPrune`, `PruneChecks`, `StoreTears`, `StoreRemoved`, `LayerTears`, `Pruned`, `Saves`;
* roll back: `BeginRollback`, `Unmounts("unmounting", ..)`, `Empties`, `MergesFile` for each file,
  `RemovesMountPoint`, `Publishes`, `Restored`, `Saves`;
* recover: `Starts`, `Recovers`, then into the middle of the transaction the phase names;
* `VerifyRestored` closes the record of an interrupted restoration, `Upkeep` drops dead sessions.

Every `...Fails` action is the error path of the step it is named after. `Returns` is where a
failed step goes: back to the loop, with or without the save that follows a storage job.

Faults have a budget per behaviour, one number per kind, chosen from `Budgets` by `Init`. Crashes,
failed moves, mounts and unmounts, stores that do not open now, deletes and merges that
stop part way, and saves that fail are such kinds. `interim` allows the game to
write while an unfinished activation waits, and `race` between the last comparison and the
rename.

### Maintenance

`world` is what launchers wrote and whether a game runs, `scan` the thread with the list it
read, `games` and `discovered` what the coordinator made of it. The pass after a finished scan is
cut after the jobs are queued and before the observations are saved: `known` and `upkeep` are the
two maps in memory, `rows` what was saved of them. `handled` is a history: builds a job was asked for.

### Overlay, WriteGate

`nodes` is the inode table: a number per name, and per number the list of its names, in which a name that
was replaced leaves a gap. A
request of the game (`op`) is cut at each point where the process can die: copy up, journal,
move of the upper entry. `tree` is a history, an ordinary tree on which the same requests act in
one step. A request that fails or dies (`Settles`) has happened exactly when its name was in place, and only then
may names of the store below that name be back (`Adopted`); `lost` says that a journal write failed, after which the
tree is no longer promised. `open` and `apply_to` are operators over the layer. `WriteGate` holds the read side
per handler, the write generation and the copying compaction.

### StoreFormat, StoreBuild

`StoreFormat` has no steps: `given` is one input (a tree, an index, a sequence of reads), and the
properties compare operators for cutting, grouping, validation, reading, restoring and comparing with
what a store is for. `StoreBuild` has the file by file build with the stamps of its walks, the
pool with its lock, staging folders of dead builds, publication by rename, and the prune.

### Rewrite

A file is its version and the level of each range. A pass (`pass`) walks, opens, rewrites range
by range and ends; the launcher replaces files between any two steps. `events` are finished files the
coordinator has not read; `receipts` the queue's table; `db` the game's row and fingerprints. A command starts whatever
is in the pipe; `late` remembers in a record that a command had taken the lock to do its file again when its event was unread.

### DesktopQueue, MacReplace

One turn of the Windows loop is three steps: what the scan brought, a command with the rules that
follow from the preferences, and the job thread. `queue` and `saved` are the file in memory and on disk;
a save may be put off for up to a second, which `dirty` says. `holder` is the pass that holds `native.lock` and
`journal` the file that names its folder. `MacReplace` has the file at the path, the staged one, the
journal record and the process at work, with each step of `stage` and of `recover_original`, and the inodes the launcher has open.

### Exchange, Window, NativeWindow, Watch

`Exchange` keeps the nested calls of `exchange` per client as a sequence, the innermost last.
`Window` and `NativeWindow` keep a window's state, which only messages change, and sets of answers
on their way; the coordinator is what a window can see of it. `Watch` keeps events queued by
inotify and the read of each library in steps.

### Evidence, Sampling, LiveCompression, Discovery, SpacePlans

`Evidence` walks and hashes a game file by file (`hashers`) beside a launcher that writes;
a version of a file stands for its fingerprint, which every write changes, its content may be one it had
before (`Content`), and `left` and `returned` are histories of that. `Sampling` runs tasks of three files over threads that share a
budget. `LiveCompression` has the two writes per directory and a record of who asked
(`users`, `torn` are histories). `Discovery` reads places one after the other into a list and merges it
with the remembered one; a location the user added covers a folder that is a game or the folders in it, and
a failing write leaves the old cache or the new one. `SpacePlans` has the plan a client reviewed, the one the job makes for
itself, a Mac's checks per file, drives that others fill or that take each other's place; `calm`
is a history: nobody else wrote since the work was checked.

### Abstractions

* Progress figures, messages, priorities of the operating system and layout are left out. Batches
  of lines, of files and of ranges are single ones where nothing tells them apart.
* A client sends one request per pass, as the loop accepts one.
* A game is its folder and its id. A file is present in some version, or absent (0); a byte, a
  chunk and a hash are small values, a path a short sequence of names.
* The process check before a transaction is left out: the game may start right after it,
  so an action that is guarded by it can race with the game anyway.
* A store and its layer share a number, as the layer's path follows from the store's.
* The game never removes its last file: an empty folder is how `install.rs` recognises an
  empty mount point, and a game without files is not one that discovery lists.
* In `InstallLifecycle` a write of the game is one step and either in the store's copy being built or
  after it; `Overlay` and `WriteGate` have the steps inside one write.
* Building a store takes a copy at `BeginCompact`; the file by file reading is in `StoreBuild`.
* A stat stamp changes with every write (`StoreBuild`, `Evidence`).
* `Discovery` follows the path of Windows and macOS (`discover_catalog`), where the list is merged and
  remembered in one call.
* `MacReplace` with `QuietRecovery` excludes a write between a recovery's check and its swap.

## 3. Runs

| Run | Question | Bounds |
|---|---|---|
| `single_job` | one writer, exclusions, promises, durability of choices and outcomes, and that each accepted cancel ends | one game, one job of any of four operations, two lines per pipe, one late orphan; failing steps, crashes, command-line overrides |
| `queued_starts` | one job per folder and operation, outcomes stay, and every queued job starts once nothing outside holds it | an analysis and a storage job of one game, one slot, retries and preemption |
| `crash_anywhere` | `ServedIsRecorded`, `RecordedFirst`, `OriginalServes`, the refinement of `GameFiles`, `DeletesRecorded` | two files, two versions, two stores, two writes; two crashes or failed mounts, or a failed mount and a store that does not open |
| `game_returns` | stores in use are never deleted; a recorded game comes back | one fault of any kind, or a crash and a store that does not open; files can be removed |
| `upkeep_work` | no update is hidden, a settled one is queued in the end | one game, two builds; a crash with a failed scan or a client's order, a failing or a refused job |
| `layer_kept` | the layer shows and gives back the tree; compaction misses nothing; stores are exact; a prune takes what nobody uses; publication is whole | below |
| `rewrite` | every record of work is true; a pass ends and the folder claims only what it did | a file of two ranges and one of one, the preset `max` (which has both levels) and undoing; two passes and a launcher's write, two passes and a crash, or three passes |
| `desktop` | journals, newest bytes, the queue, stopping | two folders of two files; two orders with a crash, a command and an error, an update with scans and settings, or a play; on a Mac three writes and three passes or recoveries |
| `window` | nothing is shown or asked for again, the window follows the coordinator, every request ends and is carried out at most once | one game, two builds, four jobs; two installed versions, three requests |
| `native` | preferences, one operation at a time, the list follows; the watcher neither sleeps through a change nor misses a game | two folders, two settings, two edits with a failed load or save, a plan, a recovery, a death; two games of two libraries, up to four changes, reads that fail at the seeding too |
| `tools` | evidence is real, estimates are sound, properties have owners, the catalog is true, work has the room it was promised | two games of two files with two contents; files around a sector, a block and a window; a library of two directories; a folder on two drives with two scanners; two files and two drives |
| `layer_swap` (violation) | what a whiteout hid two levels below shows again after a folder with a like folder moved there | a store of two folders with a folder each, two renames, no fault |

`layer_kept` has four units. The layer: stores of a folder and a file, of two folders, of a folder in a folder, and of a
file with two names, four requests over seven paths and one crash or failed step. The gate: two
handlers, two files, two writes. The format: every small tree, chosen large ones and hand-made
indexes, chunks of three to five bytes. Builds: two builds of two games to one destination,
two writes, one fault, one prune.

Why the bounds are enough. A job's interleavings involve its own runner, the lock, one
client at a time and the tables, so one job with full faults reaches each of them; two jobs
are needed for the slot, the queue order, duplicates and preemption, and a third only
repeats the second. Two lines per pipe let a command and an event cross, with one of each
behind. A late orphan and a worker of the next coordinator are two competing writers. For the
lifecycle, two stores are a current and a previous one, the most a record names. Two files
tell a partial change from a whole one; two versions and absence tell the store's file, the
layer's and a removed one apart. Two faults include a crash during the recovery from a crash. In
the layer a mutation, a removal, a new file at the same name and one more request reach every
order of whiteout and upper entry. A file of two ranges is half done once. Two builds and one
destination have both races, for the pool and for the name. The windows are bounded by what may happen
(one restart, one lost reply, two edits): each such event is rare, and the answers around it overlap in
any order.

Deadlock is checked for the coordinator. `CHECK_DEADLOCK FALSE` stands where the system may rest: an
ordinary folder with nothing left to do, a coordinator that was shut down, an input that was examined, budgets
that are spent.

### Properties worth a word

* `OneWriter`: the lock is acquired at a different moment by each holder and outlives the
  coordinator in an orphan; the property is about the processes, not about the lock.
* `Durable` relates memory to the tables at every step, so no crash takes back what a client was told,
  and no job that is stopping is without whoever ends it.
* `CancelEnds` includes a late line that hides the phase `Cancelling`; the job still ends.
* `QueuedStarts` assumes that from some time on nobody pauses or excludes a job and no game runs.
* `KeepsGame` is a refinement: what a restart would find, ordinary files at the path or else the recorded
  store with its layer, changes only when the game writes. A transaction that loses, revives or
  alters a file, at any crash, violates it.
* `OriginalServes`: as long as a rollback would use the retained original, the original with the
  layer is what the mount shows. It would break if a compaction could start
  while the original is still offered (packs.rs:320).
* `GameReturns`: a recorded game is mounted again or ordinary again, whatever one fault did.
* `UpkeepTrue`: an observation in memory or on disk never names a build for which no job was asked.
* `LayerTrue`: through crashes, failed steps and remounts the mount shows the tree the requests made, and
  `apply_to` gives a folder with exactly that tree. A crash between a new name and the journal write after it may bring
  back what the store holds below that name; the property allows just that, so a removal that moved the upper entry before
  it wrote the whiteout, or any name that shows again elsewhere, violates it.
* `NothingMissed` is the point of the write gate: also what failed requests wrote partway, and what was
  being written when the count was read.
* `StoreExact`: whatever is built is accepted, whatever is accepted restores to what its index says, reads at
  any boundary give those bytes, the comparison before an activation tells a changed folder, and the chunk cache keeps the recent ones.
* `PruneExact`: objects published but not yet linked, and those of dead builds.
* `RecordsTrue`: receipts and fingerprints outlive the pass, the worker and the file they are about.
* `NewestKept`: the bytes written last are not deleted, whatever the order of opens, writes, steps, deaths and
  recoveries, unless the write came after the last look at its file (macOS in section 6).
* `Follows`, `ListFollows`: when the other side comes to rest, the window shows it, whatever answers crossed.
* `PreferencesKept`: saves before the load, after a failed load and during another save. An edit made before the load is the
  file's to replace (section 6).
* `EvidenceReal`: a report's hash is of files that existed together, and a qualified store holds
  just the contents that were measured, except of files that changed and came back between the two hashes (section 6).
* `EstimateSound`: threads that charge a budget they read before, and windows that must not
  overlap at any length of a file.
* `PropertiesOwned`: what a user set stays set, unless the update had looked at the directory before it was
  set; what the coordinator set carries its mark, except between the two writes or after a death there.
* `RoomKept`: work that began with room is never refused half way and never takes its drive below the
  floor while nobody else writes. On a Mac it relates two different sums: the one for the folder, asked once,
  and the one asked before every file.

### Fairness

Coordinator: the loop goes round every 50 ms (`WF` of `Pass`), the reader thread delivers what
a worker wrote before the loop reads nothing for ever (`SF` of `ApplyUpdate \/ ApplyOutcome`: `EventsRead`
may leave the stage while the channel is still empty), and processes and threads that can go on do (`WF` of
`WorkerReads`, `WorkerWorks`, `ThreadStep`). No client, crash or death is fair.

Lifecycle: a transaction that has started runs to its end (`WF` of `Progress`). Recovery is tried
every five seconds while a mount is missing and no storage job runs (service.rs 1967-1973),
hence `SF` of `Recovers`. For a record in `Attention` the retry is fair by itself: a client that
sends rollbacks without a pause could keep a storage job running at each retry, and `GameReturns` is about a
client that does not.

Maintenance: the loop's pass, the scan thread and jobs go on. Rewrite: a pass takes its next step. Desktop: the loop
and the job thread. Window and Exchange: polls, replies, and every thread and process of a request; nobody has to ask.
NativeWindow: saves, scans, polls, orders and started work. Watch: the watcher and a job's end. Each is a thread
or a process the code runs without waiting for anybody but those named; users, launchers, deaths and
failures are never fair.

## 4. What is proved

TLAPS checks each of these for every set of games, operations, files, stores and bounds.

| Theorem | Property | Along |
|---|---|---|
| `CoordinatorProofs!TypeCorrect` | `TypeOK` | `TypeInv`: types, and a runner is the runner of a job in the queue |
| `CoordinatorProofs!OneWriterEver` | `OneWriter` | `HeldAlone`: whoever writes holds the lock, and only one of worker, thread and orphan does |
| `CoordinatorProofs!OneJobPerFolderEver` | `OneJobPerFolder` | `QueueInv`, below |
| `CoordinatorProofs!StoppingHasRunnerEver` | `StoppingHasRunner` | `RunnerInv`: phases of jobs without a runner, at each stage |
| `CoordinatorProofs!OutcomeDurableEver`, `OutcomeStaysEver`, `ChoicesDurableEver`, `DurableEver` | the same names | `QueueInv`: a row is as active as its job, and follows it |
| `CoordinatorProofs!PromiseKeptEver` | `PromiseKept` | `PromiseInv`: a promise is made only while the flag that is read at entry is set |
| `CoordinatorProofs!ExcludedStopsEver` | `ExcludedStops` | `ExclusionsSaved`: the worker reads exclusions that are already on disk |
| `InstallLifecycleProofs!TypeCorrect` | `TypeOK` | `StepInv`: which record and target a step may rely on |
| `InstallLifecycleProofs!ServedIsRecordedEver` | `ServedIsRecorded` | `AtInv`: the records name one store, until a forgotten one is forgotten on disk |
| `InstallLifecycleProofs!DeletesRecordedEver` | `DeletesRecorded` | `PhaseInv`: the steps that take files run under the saved phase |
| `InstallLifecycleProofs!StoresKeptEver` | `StoresKept` | `FilesInv`: which stores and layers each record, in memory and saved, needs whole |
| `InstallLifecycleProofs!RecordedFirstEver` | `RecordedFirst` | `FilesInv` |
| `InstallLifecycleProofs!OriginalServesEver` | `OriginalServes`, if `Undisturbed` | `OriginalInv`: what the original holds at each step of a switch, a reclaim and a rollback |
| `InstallLifecycleProofs!KeepsGameEver` | `KeepsGame` (refinement of `GameFiles`), if `Undisturbed` | `GameInv`: the original, the store with its layer and the mount hold what the game is owed, each at the steps that serve it |
| `MaintenanceProofs!UpkeepTrueEver` | `UpkeepTrue` | `UpkeepInv`: stamps are there only once a first scan was taken, and between passes all that is listed is stamped with the present choice |
| `StoreProofs!LayerIsTrue` | `LayerTrue` | `Inv`, below: what the layer shows at each point of a request, and what it will show when the request is done or undone |
| `StoreProofs!NothingMissedEver` | `NothingMissed` | what was copied differs from the mount only if the count has moved or a handler will still move it |
| `StoreProofs!PruneExactEver`, `PublishedWholeEver` | `PruneExact`, `PublishedWhole` | `StoreInv`: what a build has linked or published is in the pool, and what it verified is of one moment |
| `RewriteProofs!RecordsTrueEver` | `RecordsTrue` | `RewriteInv`: what an event, the pass under way, a receipt and a fingerprint say is so of the bytes, or of the file they were about |
| `RewriteProofs!ClaimEarnedEver` | the safety half of `PassEnds` | `RewriteInv`: a pass that claims the folder has finished every file |
| `DesktopProofs!UnfinishedJournaledEver` | `UnfinishedJournaled` | `PassInv`: a pass has the journal of its folder from before its first file |
| `DesktopProofs!OrdersKeptEver` | `OrdersKept` | `DeskInv`: the file has one active job per folder too, the thread's job alone is shown as on the thread, and after the rules nothing that waits is against them |
| `DesktopProofs!NewestKeptEver` | `NewestKept` | `MacInv`: where the bytes written last are at each step of a replacement and of its recovery, and what the launcher can have open then |
| `ToolsProofs!EvidenceRealEver` | `EvidenceReal` | `EvidenceInv`: a hash under way knows of each file it read a version the folder had; a file that did not come back still is what the report says or has left it |
| `ToolsProofs!CatalogTrueEver` | `CatalogTrue` | `CatalogInv`: the list a scan merges is under the lock, and a place is of one drive; `FoundInv`, below: from the lock on, no folder is twice in what a scan found |
| `ToolsProofs!PropertiesOwnedEver` | `PropertiesOwned` | `LiveInv`: an update writes only directories that were clean or marked, or that became the user's after it looked (`raced`) |
| `ToolsProofs!WakesRightEver` | `WakesRight` | `WatchInv`: a manifest that can be read is known, in the list, or will be read again; a watcher that still owes a report has made fewer than there were |
| `ToolsProofs!RoomIsKept` | `RoomKept` | `SpaceInv`, below: what undisturbed work still owes its drive fits |
| `ToolsProofs!EstimatesSound` | `EstimateSound` | `SampleInv`, below: what the budget was charged for, and one file of slack for each busy thread |
| `InstallLifecycleProofs!PreferencesAreKept` | `PreferencesKept` | `NativeInv`: the copy being saved is the one shown unless another save must follow, and what it leaves out the user removed |
| `WindowProofs!EndedStaysEver`, `WindowFits` | `EndedStays` and `WindowOK`, of `NeverAgain` | `WindowInv`, below: of any two answers that somebody holds, the later has every job ended that the other has |
| `WindowProofs!DoneOnceEver` | `DoneOnce`, of `RequestsHonoured` | `ExInv`: only the lowest call of a request is its command, and a coordinator that carried it out has the version its client takes for an answer |

The properties are not inductive. `OneJobPerFolder` in memory, for one, does not survive a
restart unless the table has it too, and whether an inactive row can become active depends on how rows follow
jobs: `QueueInv` says that the rows load a queue that keeps the property. `OneWriter`
needs that a process which writes got the lock and nobody released it since. `TypeOK` of the
lifecycle needs that a step which uses `target` was reached through one that set it. `KeepsGame` stands on three
layers: which trees are whole (`FilesInv`), what the original holds (`OriginalInv`), and what the game is
owed (`GameInv`); each uses the one before.

`LayerTrue` speaks of the moments between requests. Its invariant (`Inv`) follows a request. `Sound` relates
a store, an upper tree, whiteouts, an inode table and a tree: the layer is well formed, each reachable name shows what
the tree has there, two names show one file just if they are one file in the tree, and a number stands for the
names of one file. Between requests the present layer is `Sound` for `tree`. While names are copied up
(`CopyPhase`) it stays so, as copying shows nothing new. When a whiteout is written and the upper entry still there (`TrashPhase`,
`MovePhase`), the layer without that whiteout is sound for `tree` and the layer after the move for `op.after`; before the
last whiteouts go (`RevealPhase`), the layer that `reveal` will leave is. So a step that fails and is taken back, and
an `open` after a death, which drops the whiteouts beside upper entries, find a layer that is sound for one of the two trees, or for one
with names of the store come back (`Adopted`), and the lemmas about requests (`CreateSound`, `LinkSound`, `RenameSound`,
`BackSound`, `CrashSound` and others) say which.

`RoomKept` asks at the start for room for all of a plan, and later for one file at a time. `SpaceInv` says that while nobody
else writes, the drive the work is for has room for what the work `Owes`: all pieces it has still to do, and the reserve
that every single question asks for. `Weight` is a sum over a set, and that it falls by a piece's part when the piece is done
(`WeightTakes`) is shown by the least counterexample, as induction is out of reach.

`EstimateSound` bounds what threads read beyond a budget they read first and charge later. `SampleInv` keeps two sums: the
budget is what is left of the task's after every result but those threads still hold (`Charged`), and `Charged` with one
file's most for each busy thread stays below the budget with one file's most for each thread, as a thread that starts found the budget above zero.
That samples lie apart (`SamplesLieApart`) is arithmetic on evenly spread quotients; that no total grows is a comparison of weights
(`WeightBelow`); that the advice forgoes little is a case analysis of the thresholds (`Thresholds`, `AdviceIs`).

`CatalogTrue` speaks of the list that a fold makes of the sightings. `JoinsExist` shows that the function the fold is defined by
exists, `MergedBySteps` that its value is reached by one `Joins` after the other, both by the least counterexample; what one
`Joins` preserves (`JoinsKeeps`: no folder twice, never less busy) is then so of the whole list (`MergedTrue`).

`EndedStays` is about two answers the window shows one after the other, but any answer under way may be the next. `SeenTrue`
therefore speaks of all of them and of the coordinator: none is later than the coordinator (`NoLater` compares epoch, then revision),
no id in them is above the last one given, and a job that ended in one has ended in every later one that still has it
(`Agree`). A step of the coordinator adds one state that is later than all (`Advances`); every other step only passes answers on
(`Held`). That trimming the history brings no job back, for any length of it, rests on the places of what is kept (`PlacesOf`); the
instance keeps more jobs than it queues.

Assumptions, besides those of the constants:

* `SavesSucceed` (`ServedIsRecordedEver`, `DeletesRecordedEver`, `StoresKeptEver`, `RecordedFirstEver`): the settings table can be
  written. Without it they are false: a switch whose save failed is in memory only, and the
  next recovery mounts from memory. `StoresKeptEver` and `RecordedFirstEver` also assume that no store is activated twice (`~Reuse`).
* `Undisturbed` (`OriginalServesEver`, `KeepsGameEver`): the two theorems are about an installation in which no store is
  activated twice, saves and deletes succeed, the folder changes neither between the last check of a switch and its rename
  nor while an unfinished activation waits, crashes do not come together with stores that do not open, and a game whose
  merges may stop or be cut by a crash removes no files. Within that they hold for any number of crashes, failed mounts, stopped merges,
  compactions and recoveries. The code can meet each of the other cases and does not survive it, so none can be dropped: see
  `RestoresEverything`, `ShowsCheckedFiles`, `SwitchesChecked`, `RecordedFirst` and Lifecycle in section 6. `crash_anywhere` satisfies it.
* `OwnNames`, `~Aliases`, `~Swaps` (`LayerIsTrue`): each file of the store has one name; the game may give it more. The requests in
  which the code differs from a tree (section 5, and `ViewIsTree` and `AppliedIsView` in section 6) are left out: a name that
  was one of several is not made anew or moved, the process does not die while such names are copied up, and a folder with
  folders does not move to where the store has folders of these names. The mount serves these requests; the theorem says nothing of them.
  Stores with two names per file are checked by `layer_kept`.

Only model-checked: liveness (`CancelEnds`, `QueuedStarts`, `GameReturns`, `UpdateQueued`, `StopsEnd`,
`Follows`, `RequestsEnd`, `ListFollows`, `SettledIsReported`, and that a pass ends at all in `PassEnds`), which is out
of the prover's reach; `StoreExact`, as the operators of `StoreFormat` are recursive; `ExchangeOK`, which has bounds of the instance;
and `AnalysedOnce` of `NeverAgain`, which holds of the instance and not of every one: an update
that is taken back leaves an analysis under the build it started with, so the earlier build is analysed again, and so is a
build whose analysis the history has dropped.

## 5. Where the code differs from what the repository says

`layer_swap` shows it. `overlay.rs:678-680` says of `reveal`: "The whiteout on `path` also hid everything the store
holds below it. Those children get whiteouts of their own, so a folder recreated or moved here starts with only what
the update layer holds." It whites out the direct children of the store and then drops the whiteouts that
have an upper entry (692). Take a store with `t`, `t/a`, `t/a/x`, `d` and `d/a`; rename `t` to `z`, then `d` to `t`.
The moved folder brings an upper `t/a`, so the whiteout of `t/a` goes, nothing hides `t/a/x`, and a file that moved to `z` shows at
its old name again, below a folder that never held it. `reveal` would have to white out, below each
dropped whiteout, what the store holds there. `Swaps = FALSE` in `layer_kept` leaves out just the renames of a folder
that bring a folder to a name where the store has one.

## 6. Further disagreements

The modules also state the properties of this table; no configuration here checks them. Each is what a
comment or a document says, and each is violated on the given instance: the constants of a
configuration here, with the property in place of its own, and with the changes named.

| Property | The repository says | The code does | Instance |
|---|---|---|---|
| `RunningHasRunner` | jobs/mod.rs:99 "A worker process or storage thread is running." | after a control line could not be written the job is interrupted (service.rs:1816-1823), but lines still in the channel are applied in the same pass and make it `Running` again without a worker (929-935) | `single_job`, `Operations = {"Compress"}`, `Faults = {"step"}` |
| `ExclusionKept` | service.rs:720-721 "The id is removed and, when excluding, added back, so it is listed once." | excluding an excluded game again while its worker is dead takes it off the list: the early return at 731 comes between | `single_job`, `Operations = {"Compress"}`, `Faults = {}` |
| `AnalyzingPhase` | jobs-and-compression.md:27 "Analysis has its own `Analyzing` phase." | `event` sets `Running` on every `Resumed` line (service.rs:934) | `single_job`, `Operations = {"Analyze"}`, `Faults = {}` |
| `CancellingStays` | the diagram in jobs-and-compression.md:17-18 leaves `Cancelling` only to `Cancelled` | a line written before the cancel was read sets `Paused` or `Running` (service.rs:930) | `single_job`, `Operations = {"Compress"}`, `Faults = {}` |
| `CancelReported` | service.rs:643-645 "reaches `Cancelled` when its worker or storage thread stops" | a cancel while the corpus is hashed or sampled comes back as an error and is sent as `Failed` (worker.rs:286, 502-503) | the same |
| `FailureReported` | jobs/mod.rs:115 `Failed`: "The worker or storage task returned an error." | the cancel flag decides (service.rs:1371-1375), and excluding a game sets it in a step that must finish | `single_job`, `Operations = {"Pack"}`, `Faults = {"step"}` |
| `RecordedFirst` | packs.rs:84-86 "The record is on disk before the switch" | after a failed save the record stays in memory (106-107), and the retry moves the folder aside although no record on disk names it | `crash_anywhere`, `Ids = {1}`, one failed `save` |
| `RestoresEverything` | install.rs:480-481 "with every change from the update layer applied" | a reclaim that stopped leaves a partial original that a rollback publishes (packs.rs:165, install.rs:532-538); the same end follows when recovery of a reclaim cannot open the store, which is why `crash_anywhere` does not combine a crash with a store that does not open | `crash_anywhere`, `Ids = {1}`, `Removable = {}`, one `delete` that stops |
| `RestoresEverything` | the same | a rollback that stopped has copied a new file into the original; when the game removes it later, no whiteout is written, and it comes back | `crash_anywhere`, `Ids = {1}`, `MaxWrites = 2`, `Removable = {n}`, one `merge` that stops |
| `PruneFinishes` | install.rs:47 "Recovery finishes it."; 418-419 "can run again after a crash" | what a crash inside the delete leaves does not pass the check that guards the delete (433-440, 457-462), so the prune fails for ever | `FairSpec`, two stores, no writes, one `crash` |
| `ShowsCheckedFiles` | pack-store.md:96-98 "verifies that the store still matches every source path and byte before changing the launcher path" | activating a store again mounts the layer of its earlier activation (install.rs:107-111) | `Ids = {1}`, `MaxWrites = 2`, `Reuse = TRUE`, no fault |
| `RetainedUnchanged` | packs.rs:471 "Retained copies are unchanged" | the original is edited in place (install.rs:536-538) | `Ids = {1}`, `MaxWrites = 1`, one `crash` |
| `SwitchesChecked` | pack-store.md:96-98, as above | recovery renames without comparing again (install.rs:313-315) | `Ids = {1}`, `MaxWrites = 1`, a `crash` and an `interim` |
| `PruneAfterPlay` | service.rs:108 "the previous version is deleted once the folded-in one has been played" | the flag is reset only when upkeep itself queues the compaction (209); one that a client asks for leaves it set, and the version it replaced is deleted before the game ran | `upkeep_work` |
| `ReuseReaches` | cli/mod.rs:1212 "run the same command again to finish the rest" | a pass that finished no file records the level that was asked for (1270): after a stopped `max` over a game compressed with `fast`, the same command skips every file | `rewrite`, `Presets = {"fast", "max"}` |
| `MacReplace!Recoverable` | macos.rs:206 "Resolves every journal recorded for this game folder" | `clear_record` removes the staging directory before the journal (407); after a death in between no recovery resolves it, and the folder refuses every pass | `desktop` |
| `ResultsKept` | app.rs:1220 "Existing results and failures are kept until a user requests another analysis or the launcher's build changes." | after a failed scan the window has an old build and no job matches it: it queues the same analysis after every answer | `window` |
| `RecordsFollow` | app.rs:1648 "finished work mean the scanned data is out of date" | a refresh asked for while a scan runs is dropped, and the scan that returns is compared by its list only (1497) | `window` |
| `OneReplacement` | client.rs:66 "permits one restart of a coordinator from an older version" | the call after a restart is `request`, which may replace again (158): with an older installed executable calls nest without end | `window` |
| `PlanTarget` | gui/native.rs:203 "Every action targets this path." | a folder picked while a plan is made changes the field; the plan shown and started is of the old folder (918, 936) | `native` |
| `ArtFollows` | gui/native.rs:534 "The artwork maps were built for the old game list. Rebuild them." | a poll is compared with the poll before it, not with the list the artwork was built for (497) | `native` |
| `EachSettleReported` | watch.rs:56 "once per app each time it becomes settled" | a game that is updated and settles again before its library is read is reported once | `native` |
| `SavedLoads` | compatibility.rs:255 "Writes a valid report", "A report already stored is left untouched" | a file left by a process that died while writing it counts as the stored report, so a second save succeeds and no load returns the report | `tools` |
| `MeasuredOwn` | qualification.rs:107 "Records a measurement of the compressed copy" | the answer goes to whichever wizard is open when it comes (app.rs:1327) | `tools` |
| `OffIsOff` | service.rs:687-688 "Live compression is turned off for it first." | a directory Steam made meanwhile inherits the property but not the mark, so nothing turns it off | `tools` |
| `ViewIsTree` | overlay.rs:385 of `create_file`: "Creates a new empty file where the merged view has nothing"; mount.rs:260: a number resolves to its first visible path so that "a write through any alias copies up the target and its aliases together" | the inode table removes nothing (mount.rs:29): when one of two names of a file is removed and made anew, the new file has the number of the other name, answers with its bytes, and a write to it changes that file | `layer_swap`, `Stores = {TwoNames}`, `Paths = Tree`, `Aliases = TRUE`, `MaxOps = 4` |
| `AppliedIsView` | mount.rs:259-261, as above | of three names of a file, the first is removed and the second written: `copy_up` links aliases only for the target itself (overlay.rs:267-282), so the third keeps the store's bytes in `apply_to`, while the mount shows the new ones | the same with a store of one file with three names, `Aliases = FALSE`, `MaxOps = 2` |
| `AbsentStaysListed` | launchers/desktop.rs:28-30 "so a game on a disconnected drive stays listed" | a game that is not remembered yet and whose folder is away is dropped (`remember`) | `tools` |

What else was noticed while modelling, by part. The models contain these as behaviour; they refute no
sentence of the repository.

* Maintenance: `played` alone is never a reason to save. An update that settles while an older job of the game is half done
  joins it (service.rs:428), so files already passed are left. A first finished scan with
  warnings makes the games of the source that failed look new later.
* Overlay: `rename` refuses flags only when RENAME_EXCHANGE and RENAME_WHITEOUT are both set (mount.rs:941-946), so an
  exchange alone is served as a rename that replaces: `Rename` is that request too, and the tree is owed what it does.
  When the journal write of a rename fails, the whiteout in memory stays (overlay.rs:555-556). Opening drops a
  whiteout below a directory that was made anew, and the store's children show again. A crash inside `copy_up`, before
  the aliases are linked (270), separates names; `layer_kept` cuts that step only where it has no aliases
  (`Aliases = FALSE`).
* Stores: two groups of small files with the same bytes are one frame, and the build rejects its own
  index. A hard link made since the build is not noticed by `verify_directory`. Killed shared builds leave their staging folders.
  The pool is listed before its lock is taken (create.rs:799). One damaged pool object fails all later builds that need it.
* Lifecycle: two saves that fail in a row, then a crash, leave the saved record with a store that was pruned
  (packs.rs:433). The launcher may write between the last process check and the rename (packs.rs:96).
* Passes: a fingerprint keeps the level of an earlier pass after an interrupted lower one.
  A command that undoes a game before the coordinator has read the worker's last event is followed by a receipt for a
  file it undid, as undoing leaves the file's time and size, and a worker of the next compression skips it. `Rewrite` does this;
  `late` marks the events a command overtook on their file and the records made of them, and `RecordsTrue` is about all others.
  Undoing clears the property only of the root. The command line records the path as it was typed.
* Windows and macOS: a cancel after the last file shows the finished job as stopped (coordinator.rs:690). An order that arrives after the
  shutdown only reaches the file. On a Mac the recovery of the command line takes no `native.lock` (macos.rs:785), and a
  staging folder without a journal stays. A launcher's write between a recovery's check and its
  swap is lost (macos.rs:430-437). So is one that goes through what the launcher opened before a swap and comes after the last check of
  the file it holds (564-577, 437-443). `MacReplace` does both; `late` marks such a write, and `NewestKept` is about the others.
* Client: the probe of the lock (client.rs:155) may make a coordinator quit that is just starting.
* Windows of the applications: a failed scan is not repeated; order between workers is wall-clock time (app.rs:1577); a second plan
  takes the place of the one under review; saving the native preferences overwrites locations the
  command line added meanwhile (native.rs:23); an error while saving preferences forgets that there are unsaved edits.
  A theme chosen before the preferences are loaded is not saved, and the load takes it back (native.rs:545, 1510).
* Evidence: away from Linux files are checked one by one, so a hash may mix two moments. A store left by an activation that ended
  before its record makes later ones fail. A file that changes after the first hash and changes back after the store was built and
  compared fits both hashes: the game is switched to a store with the bytes in between (service.rs:1233, 1263).
* Estimates: an unreadable file counts as not sampled and is extrapolated, though a comment calls it "simply not a
  candidate". The budget may be overshot by what the threads have in hand.
* Live compression: `flummox hook on` between the update's look and its own setting (service.rs:270, 274) is taken for the update's:
  it is marked and cleared with the rest later, although service.rs:264 leaves the user's alone. A death between the two writes leaves a property for ever. A switch that fails half way leaves the first
  directories switched. The hook turned off leaves the marks.
* Watcher: of a library that cannot be read while it is seeded (watch.rs:80) every settled game is reported at the first event
  there, although the seeding is to keep known games from being reported (watch.rs:78). A game reported while it runs or is written is not tried again. An overflow of the kernel's queue is not looked at
  (watch.rs:131).
* Discovery: a drive swapped between the look at its identity and the reading of the volume of a folder on it (libraries.rs:92, 99)
  is not seen; the module takes both in one step. Launcher games are never forgotten. A game that moved is listed twice under one id. A drive that was replaced for
  good hides the game on the new one.
* Space: the plan of a restoration leaves out the metadata that `restore` and the verification ask for
  (jobs/mod.rs:640, restore.rs:62-64, recovery.rs:99-101), so a job whose plan passed may be
  refused later. `EnqueuePack` joins any active storage job of the folder, and the plan of one task is kept
  with the job of another (service.rs:540-545). A plan reviewed while the drive of a store is away names the drive
  the nearest folder lies on, passes, and the job then writes to a drive that came back.

## 7. Not modelled, and the plan

1. `LayerTrue` for stores whose files have two names.
2. The queue's history: trimming at 300, loading 500, revisions of snapshots.
3. Space plans of compactions and restorations, with the sums inside `restore` and `recovery`.
4. Schema upgrades of the state database and the history of measurements.

Left out for good: views and update functions that only draw, parsing of launcher files and of the command line, message
framing, byte layout of stores and their checksums, the login entry, sandbox set-up and platform probes. They keep
no state that two actors share; their answers are nondeterministic in the modules that use them.
