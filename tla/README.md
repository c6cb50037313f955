# SpotiFLAC Mobile: TLA+ specifications

These modules model the Rust backend of SpotiFLAC Mobile (`rust_backend/crates`)
and the places where the Android host takes part in its protocols. They are
checked with TLC on small instances; the safety properties of all of them except
the tag writers are also proved with TLAPS, for every value of the constants.
`PROJECT.json` lists components, runs, mutations, hazards, theorems, and for
every definition the source lines it stands for.

## The system

SpotiFLAC Mobile is a Flutter application. The Dart code (`lib/`) keeps the
download queue, the libraries and the player. The Rust backend does the work
that needs threads: it runs extensions in QuickJS virtual machines, looks for
metadata and lyrics, downloads, tags and scans files, plays to USB devices and
reports progress. It is reached through UniFFI bindings (`crates/mobile`) from
Kotlin and Swift hosts, which add background services, publishing and FFmpeg.

| Part | State | Operations | Interacts with |
|---|---|---|---|
| Cancellation registry (`core/src/cancellation.rs`) | id → (flag, reference count), leases, closed | acquire, cancel, cancel_active, reset_if_idle, release, drop, wait_cancelled, shutdown | every download and extension call holds a lease; parked threads are woken by it |
| Progress registry (`core/src/progress`) and its Android mirror | items with revisions, tombstones, reset point, snapshot cache; mirror, `since` | updates, remove, clear, delta, wait_delta, snapshot, shutdown; start, stop, cancel, poll | workers write; hosts read deltas |
| Lyrics service, search, disk cache, call graph (`providers/src/lyrics`) | flights, generation, caches, cool-downs, counted edges between VMs and flights | fetch, set_options, clear, drop_memory, set_persistence_path, shutdown | one worker per flight, up to three provider threads per search; providers may be extensions, which may ask for lyrics again |
| Catalogue clients and track resolver (`providers/src/deezer`, `musicbrainz`, `resolver`) | caches, shared flights, request times | lookups, clear, set region, shutdown | resolver service below the availability cache, rate limiter below both |
| Extension runtime and budget (`extensions/src/runtime.rs`, `resolution.rs`) | queue, worker, closed, preflights; remaining, pauses, charges | call, preflight, shutdown; enter, leave | callers block on a reply; interrupted by leases, deadlines, budgets |
| Extension manager (`extensions/src/manager*`) | installed entries, engines, pools of download workers, package on disk | install, upgrade, configure, call, download, remove, load_all, shutdown | data stores, runtimes; provider calls and hooks use its engines |
| Data stores, repository, logins, signed sessions (`storage.rs`, `environment.rs`, `repository.rs`, `auth*`, `signed_session/`) | encrypted files, registry cache, challenges, OAuth records, session records | store, migrate, remove; refresh, download; start login, exchange; fetch, refresh, clear | used by extensions through host functions |
| FFmpeg commands (`extensions/src/ffmpeg.rs`, `CoreBackend.kt`) | commands, claims, results; pumps | execute, wait_pending, complete, get, shutdown | an extension thread parks; pump threads of the host do the work |
| Backend (`extensions/src/backend.rs`, `backend/metadata.rs`, `core/src/downloads.rs`) | number of operations inside, closed, the owner of the directories; leases and items shown | enter, leave, cancel, reset_if_idle, shutdown | owns all services; every call of the app passes it |
| Downloads (`extensions/src/backend/downloads.rs`, `download/`) | output locks, staging directories, partial files, checkpoints | download, its providers, transfers | cancellation, files, providers, tags |
| Files, HTTP, cookies, DNS (`files.rs`, `file_*.rs`, `network/src`) | grants, locks, staged files; pools, permits, policy; jars; cached addresses | host functions, requests | every extension, and native code |
| Library (`backend/tags.rs`, `reenrich.rs`, `library/`, `cover.rs`, `health.rs`, `core/src/tags`, `core/src/isrc`) | tags of files, scans, covers, health snapshots, ISRC index | edit, read, enrich, scan, download covers, check services, find duplicates | files other programs may change |
| USB output (`mobile/src/usb_audio`) | queue, transfers, requests, volume ranges | write, flush, set_volume, close | a worker thread owns the device |
| Dart queue, native worker, finalizer, player, databases, user interface | | | not modelled; see below |

What is hard here is never one component's data. It is what happens between two
critical sections: a notification sent after the lock was dropped, a counter
read before it is changed, a result that arrives after its request was given
up, a setting that changes while an answer computed from the old one is on its
way to the cache, a file that changes between two looks at it, a crash between
two renames. They are listed under `hazards` in `PROJECT.json`, each with the
properties that would catch it going wrong.

## How the modules are built

A component has one module; small ones that belong together share it. An `MC...`
module composes those that a run checks and gives values to constants (a run of
one component that needs neither names the module itself); the `...Proofs`
modules hold theorems. Definitions keep the names of the code where TLA+ allows. A definition headed "Mutation" is a
plausible mistake in the definition that follows it. It is in no next-state
relation; `mutants` says which property it must break when it takes that place.

One action is one critical section, or one step of a thread between two of
them. Where the code does two things without a lock, they are two actions: the
notification after a critical section (`CancellationRegistry!Notify`,
`FfmpegCommands!Alarm`), the count of waiters (`LyricsService!LookupJoin` and
`Join`), the look-up of a lock and its taking (`ExtensionFiles!EnterLock` and
`TakeLock`). Data are reduced to what the properties tell apart: a file is its
version or the sequence of the versions of its blocks, a registry is its URL, a
manifest is its number. What a server, a script or another program answers is
left open.

Components that do not interact in the code, and are small, share a run: the
composed module (`MCRegistries`, `MCStores`, `MCLookups`, `MCDownloads`,
`MCLibrary`, `MCHost`, and the providers and hooks in `MCExtensions`) has a
variable `part` that chooses in the initial state which of them moves, so that
their state spaces add up and do not multiply. The theorems speak of each
component's own specification. Components that do interact are
composed action by action: SignedSession with the challenges of AuthRegistry,
FfmpegCommands with its pumps, ProgressRegistry with the Kotlin coordinator,
Resolver with both of its layers.

## Modules

### Registries and lyrics

**CancellationRegistry.** A flag is a heap cell (`Flags`): entries and leases
point to it, so that aliasing between a reset entry and an old lease is
visible. `WaitBegin`, `WaitCheck` and `WaitTimeout` are wait_cancelled; the
other actions are the methods.

**ProgressRegistry.** An item is its totals, percentage, speed, status and
stage; `View` is what a client can tell apart (byte counts in buckets of
UPDATE_BYTES). `Update` is the comparison that decides whether a change gets a
revision. `Prune` drops tombstones beyond the limit and moves the reset point.
The Kotlin coordinator is in the same module: `PollRead`, `PollConnect`,
`WaitTurn`, `WaitExpire`, `Apply` and `Exit` are its job, `StopBegin`,
`StopClose`, `StopDetach`, `ClearMirror` and `Assign` the control thread.

**CallGraph.** `WaitFor` takes the graph lock and starts the depth-first
search, `Visit` is one turn of it, `Reject` and `Accept` end it, `Drop` ends a
wait, `Node` takes the next id. Several graphs number their nodes independently.

**LyricsService.** `fetch()` is `LookupJoin` or `LookupStart` (under the lock),
`Join` (the count), `Spawn` or `SpawnFails`, then `Receive` or `Leave`. A worker
goes through check, cache lookup, search, store and finish. `search()` itself is
one step with any outcome.

**LyricsProviders.** That search: provider threads take candidates in the user's
order, each provider makes the requests its code makes (`Protocols` has one
table per built-in provider), the collector waits a grace period for a better
one, results feed the cool-down table unless the generation has changed. The
module also has the token the Apple provider shares between its lookups.

**LyricsCache** with **WriteBehind.** The disk cache and its writing thread.
WriteBehind says abstractly what a write-behind cache promises: versions reach
the disk in order, some skipped; a crash loses only what is not there yet. The
property `ImplementsWriteBehind` is that specification under the mapping
`latest <- scheduled, durable <- written, failed <- error`.

### Lookups

**Resolver** has the two layers of shared flights (availability cache and
resolver service), the chain of resolvers, and the rate limiter with several
waiters and a clock. **MetadataLookup** has the two
ways requests are shared (Deezer: the first caller asks; MusicBrainz: a worker
asks). **ResolutionBudget** counts, besides the lazy computation of the code, the ticks that should be
charged one by one.

### Extensions

**ExtensionRuntime.** Calls (`BeginCall`, `SendCall`), the worker (`Load`,
`Take`, `IdleTimeout`, `Enter`, `CutShort`, `EndRun`, `Reply`, `DropReceiver`,
`WorkerExit`), preflights and any number of concurrent shutdowns.

**ExtensionManager.** One extension: package on disk (target, stage, backup),
stored data, published entry, engine and pool of every `Installed` object,
and threads that install, upgrade, configure, call, download and remove. A
section that runs extension code under the engine lock is two steps. `Crash`
and `LoadAll` end and begin a process at any point.

**ProviderRequests** asks several extensions one after the other, merges what they
find and takes verification pages; its second part runs the hooks over one file,
each result validated before it is the next input. Both run while extensions
are enabled, disabled, upgraded and cancelled.

**ExtensionData** (store, migration, handles, environment), **ExtensionRepository**
(registry, refresh flights, package downloads), **AuthRegistry** (challenges and
OAuth exchanges), **SignedSession** (flights of one scope two extensions share),
**FfmpegCommands** (the Rust registry, the parked thread's token, the pumps).

### Downloads and files

**Backend.** Every call of the app is an `Enter` that is turned away once the flag
is raised, one operation (`BeginOperation` to `SearchAnswers`, `WorkEnds`, `Joined`
or `Settle`) and `LeaveBackend`; shutdown is `LockShutdown`, `RaiseFlag`,
`DrainOperations` and `ReleaseOwner`. `CancelDownloads` and `HideCancelled` are the
two halves of cancel(), between which another attempt may start.

**DownloadPlanner.** A request from lease to response: preflight, prepared
downloads, the list of providers, output locks, staging, matching, finalization,
publication. **ResumableTransfer** is one stream or chunks with partial file,
checkpoint, validators and crashes; **SegmentedTransfer** the workers, channels
and assembly of a segmented one.

**ExtensionFiles.** Grants, weak and strong references to output locks, files
written in place, staged, transformed with a callback that may itself write, and
published by rename or hard link. Files are inodes.

**Network** has the HTTP client (redirects, fallback to plain HTTP, permits per
origin, policy and pools), the cookies (what is stored for whom and sent where),
and the DNS cache (the answers all pools share and each filters).

### Library and audio

**TagEditing** has for six formats the keys each writer writes and removes and
the keys each reader reads; an edit is read back with them. **TagLayout** has
the bytes: sections replaced, sizes, offsets, pages and flags that follow.
**LibraryScan**, **CoverCache**, **HealthService** and **IsrcIndex** are caches
over things that change. A caller of HealthService makes one explicit check
after the other, or orders the providers, of which some are exempt from being
looked up (`SkipExempt`: the source of the track, and those that may not be
fallen back on). **ReEnrich** is the enrichment of a library file from
several catalogues. **UsbAudio** is the USB worker and the volume arithmetic of
its feature unit.

## Runs

| Run | Parts and instance | What it shows |
|---|---|---|
| registries | cancellation: 2 ids, 2 leases, 3 cells, 2 notifiers; progress: 1 item, 1 reader, 2 revisions; lyrics cache: 2 keys, 2 paths, 3 schedules | exact counts, cancellation is final, no lost wakeup, the reader catches up without its heartbeat, the disk cache implements WriteBehind |
| lyrics | 1 key, 2 callers, 2 flights, 2 generations | shared work, exact counts, no stale cache, fetch and shutdown end |
| runtime | 2 calls, 1 preflight, 2 shutdowns, queue of 1 | retired VMs serve nobody, calls are answered, shutdown leaves nothing |
| ffmpeg | 2 operations (2 and 0 commands), 2 pumps | one FFmpeg per command, own results only, no execute() waits for its timeout |
| sessions | 2 extensions that share a scope, 2 threads; 2 token exchanges, 2 challenges | late answers change nothing, challenges keep an owner, grants are not lost |
| extensions | manager: 2 threads, 2 versions, 2 values of the settings, 2 objects (one fewer is made after a crash), 1 crash; providers: 2 askers; hooks: 1 run with 2 changes | what runs is what is installed, removals are whole, no crash loses the code; answers and hooks keep to their extension |
| stores | data: 2 threads, 2 handles, 1 crash; repository: 2 threads, 2 URLs, 2 changes; index: 2 tracks, 2 stamps; call graph: 2 graphs, 3 nodes, 3 waits | data neither lost nor resurrected, packages of the configured registry, an index that gives a file only the ISRC it holds and whose rebuild lists what changed, no cycle of waits |
| lookups | budget: 3 guards, 6 ticks; platform: 2 callers, 2 regions, 3 flights, 1 clear; metadata: 2 askers; rate: 2 requesters, window 3 | results shared and current, budget exact, window respected |
| downloads | backend: 2 threads, 1 item, 1 canceller, 1 closer; progress mirror: 2 items, 2 readers, limit 0; planner: 2 requests, 2 paths; transfers: 3 blocks, 2 versions, 2 calls, 1 loss; segments: 4 segments, 2 workers, 2 calls, 1 loss | the manager is released after the last operation, nothing is shown as running without an attempt, no cycle of locks, the library is safe, what is published is whole, no mirror is spoilt by pruning |
| staging | planner as above | violated, see Findings |
| library | tags: 2 editors, 6 formats; layout: every place a tag can be; scan: 2 files and a sheet, 2 scans, 2 workers; covers: 3 callers; health: 1 caller, 2 refreshing threads, 2 changes; enrichment: every choice of 2 tracks | written tags are read back, rewritten files are sound, entries are current, flights end, health is of its revision, enriched files get the tags of one song |
| host | http: 2 requests, 2 policies; cookies: 2 stores; dns: 2 resolvers, 3 lookups; files: 2 threads with nested calls, 4 inodes; search: 1 search, 1 reset; token: 2 lookups; USB: 2 transfers, 2 writes, 2 flushes; volume: 2 channels | requests keep to the policy, cookies and addresses to those they are for, outputs have one writer, the best lyrics in time win, USB output is exact |

The properties that a run lists are conjunctions where they speak of the same
promise; the module has the conjuncts under their own names, with a comment on each.

### Bounds

The bounds are the smallest at which the interesting cases happen; for larger
ones the runs take more than some minutes.

- registries: two leases let one outlive a reset and a second acquisition of its
  id; three cells suffice for two entries and one stale lease; a second id shows
  that cancellation does not spread. Three schedules and two paths let a snapshot
  be overtaken by the next and by a change of the path.
- downloads: `MaxSeq` bounds revisions; with `MaxRemoved = 0` every removal prunes,
  with 1 (registries) a tombstone is kept. Pruning some of many tombstones is
  covered by the proofs, which hold for every limit. Two requests for two paths
  are the shortest cycle of locks; three blocks allow a prefix of an old version,
  a lost middle and an end; four segments for two workers let results wait.
- stores: three nodes are the shortest cycle that comparing two ends does not
  find; two graphs show that equal numbers are not equal nodes; two URLs and two
  changes let a registry come back (A, B, A).
- lookups: three flights let an abandoned worker meet its replacement while the
  other layer works; a window of three and two requests per window let a waiter
  wake up late.
- lyrics: two flights let an abandoned worker meet its replacement; with one key,
  interactions of different keys are limited to the count, which does not look at
  keys.
- runtime: a queue of one is full as soon as one call waits; two shutdowns race
  for the join handle.
- ffmpeg: one operation issues two commands, so that a late result can meet a
  retry; the other only has a pump, which can claim a command and lose its own
  operation.
- sessions: two extensions make the scope shared; two sessions number a renewed
  one; one clear can come into any flight.
- extensions: two versions and two objects are an upgrade, one crash can come
  between any two renames; the settings change once, which already distinguishes
  the pool from the store.
- library: a file has up to one item per key besides the edited ones; the layout
  covers every order of parts of each container with up to two pieces of audio
  and tags of up to three cells, so that every reference has something before and
  after the change. Two scans with two workers let one cancel the other. Three
  callers of covers are a leader, a follower and the leader of a nested flight.
- host: one permit per origin makes holding one while waiting for another a
  deadlock at once; three redirects reach every combination of scheme and host;
  four inodes are a published, a staged and a nested file and one spare.

Deadlock is checked in `lyrics`; in the others all threads may have finished.
Symmetry is used only where no liveness property is checked.

### Fairness

Weak fairness is assumed for the next step of a thread that is not blocked by
anything, as the schedulers of Android and iOS guarantee. Nothing is assumed of
clients (they need not cancel, release, update or close), and no timeout or
heartbeat is relied on; so a wakeup that is lost shows as a violation although
the code would recover after 10 ms, a second or 300 s. Beyond that:

- LyricsService: strong fairness of workers, because they need a mutex that
  callers take again and again, and mutexes of the platforms do not starve a
  waiter for ever; providers return, as their contract (they must observe
  `check`) demands.
- ExtensionRuntime: a script ends, by itself or through the deadline that its
  interrupt handler sees.
- FfmpegCommands: FFmpeg ends, but not necessarily for an operation that was
  interrupted; there only the pump's cancellation stops it.
- LyricsCache: the writing thread takes and writes what is scheduled.

In the other modules "nobody waits for ever" is a safety property: whoever waits
has somebody at work who will wake him (`WaitersHaveLeader`, `NobodyStuck`,
`CoverNotStranded`, `NoLockCycle`).

## Findings

`staging` checks `StagingOwned`: a staging directory is changed only by the
request it belongs to. The model refutes it; `PROJECT.json` quotes the comment it
contradicts and the lines.

### Observations

While modelling we met behaviour that contradicts no statement of the
repository, or is rare and harmless, but that a maintainer may want to know.

- Lyrics (`service.rs:211,242,256`) and resolver (`availability/cache.rs:304`,
  `resolver/service.rs:154`): a caller joins a flight whose waiter count it read
  as positive; if the last waiter leaves before it has counted itself in, the
  worker gives up and the caller is told that the request was cancelled. A
  retry finds a clean table.
- Lyrics: set_options() and clear_cache() raise the generation but keep the
  providers' cool-downs; drop_memory() leaves the file, which the next set()
  overwrites with what is in memory.
- Downloads: cancel() removes the progress item after it has cancelled
  (`core/src/downloads.rs:132`), and so does the end of a request
  (`backend/downloads.rs:154`): a retry that starts the item in between loses it,
  and updates of an item that is not there do nothing.
- Transfers: a 200 answer to a range rewinds the partial file and keeps the
  checkpoint (`download/mod.rs:284`); a stream without a length that breaks after
  its last byte is asked for a range behind the end by every resume (416);
  `.partial` files stay after a crash.
- ISRC index: what is added or invalidated while a directory is being indexed
  (`cache.rs:170,208`) is lost when the build ends; the next download then finds no
  duplicate. The index never claims anything false.
- Manager: a crash between the two renames of an upgrade leaves the old code in a
  backup that load_all() does not look for.
- Health: a slow caller with an old revision can overwrite `refreshing[id]`.
- Tags: an MP3 edit of lyrics keeps the TXXX frames the reader prefers
  (`write/id3.rs:69`, `id3.rs:361`); clearing upc, comment or album_type leaves
  names only the reader knows; APE keeps YEAR when the date is cleared and drops
  the track number when half an index is edited; the M4A index is truncated to 16
  bits; the MP4 writer moves stco and co64 only. A cue sheet that appears later
  leaves its audio's old entry.
- Files: `file.copy(a, a)` truncates its source; two transforms whose callbacks
  write each other's output wait for their deadline; after the hard link of
  stage_from() a call still running may write the published file.
- USB: flush() on a closed output returns success; callers of set_volume() behind
  one that failed wait out their own time.
- DNS: a lookup that fails late replaces another thread's fresh answer with a
  failure for 30 s; AAAA is not asked when A has private addresses only.
- Post-processing judges the result of an extension that was upgraded meanwhile
  by the manifest noted at the start; a file moved into an extension's data goes
  with it.
- Enrichment: with replace_release_metadata two applied tracks may mix releases;
  a candidate with the exact ISRC wins although it is unverified (a preview); a
  failed read of old lyrics lets the mark for instrumentals replace them.

## Proofs

Each proof shows that the initial states satisfy the inductive invariant, that
every action preserves it (one lemma per action or group of actions, under it one
step per conjunct the action can disturb), and that it implies the property. The
assumptions are the named `ASSUME`s of the component modules: sentinels are
outside their sets, sets that are counted are finite (threads, requests, USB
transfers), limits are natural numbers or at least one, tables that stand for
what a catalogue or a device may answer have the type the code parses them into
(tracks of known providers, volumes of 16 bits).

| Module | Component | Proved for all constants | Inductive invariant |
|---|---|---|---|
| RequestsProofs | CancellationRegistry | CancelTypeOK, CountsHolders, HoldersShareEntry, UntrackedNeverCancelled, IdleEntryIsSentinel, CancelIsFinal | these, FlagsNotAliased, CellsOwned |
| | ResolutionBudget | TypeOK, BudgetExact, NeverRefilled | TypeOK, BudgetExact |
| | Resolver (rate limiter) | WindowRespected | RateIInv: the queue is the end of the list of those admitted, and everything before it has expired |
| | Resolver, MetadataLookup | LookupsSound | LookIInv: what is cached is of its generation; MetaIInv: OwnersOnly, RequestsNeeded, WaitsForWorker, GivenUpAlone |
| | UsbAudio | UsbSound | UsbInv: FramesNew, TransfersCarry, RequestsAwaited, WorkerGone, PositionExact; VolumeInv: TargetsQuiet, ChannelsSet |
| LyricsProofs | LyricsService | FlightsSafe, ShutdownQuiescent | TypeOK, ActiveExact, WaitersExact, SharedWork, NoStaleCache, LockSound, CallersJoined, StartersAlone, TableSound, Quiescent |
| | LyricsCache | the safety part of WriteBehind, step by step | CacheIInv: numbers are ordered, written below the job below what is pending, none above what was scheduled |
| | LyricsProviders | LyricsFound | SearchInv: ListSound, NoneForgotten, BestIs, BestWins, HealthOwn; AppleInv: TokensBehind, LockHeld, TokenNewest, SecondNewer |
| | Network | NetworkSound | HttpInv: RequestsSound, PoolsAgree, ConnectionsSound, PermitsBounded; JarInv: JarSound, CookiesOwn; DnsInv: ResolverSound, EntriesSound, ResolvedSound |
| HostProofs | FfmpegCommands | CommandsSound | TypeOK, ClaimedOnce, ClaimsServed, EntriesOwned, OwnResult, PumpsAtWork, RoundsLeft, HandsClaimed, ResultsTrue |
| | SignedSession with AuthRegistry | LoginsSound, TokenOfOwnLogin, GrantNotLost | SessionInv: TableInv, ScopeInv, SlotsHeld, WaitsSound, AnswersSound, RecordInv; ExchangesInv |
| | ExtensionFiles | OutputsSound | FilesInv: CallShape of every call, LocksOwned, OneLock, StagesOwned, WholeOrInPlace |
| ExtensionRuntimeProofs | ExtensionRuntime | WorkerSound, QueueExact | TypeOK, ClosedForAReason, ServesCurrent, QueueExact, CutRetired, ClosedFirst, JoinSound, NativesCounted |
| | ExtensionManager | PackagesWhole, EnginesCurrent | MgrTyped, ObjectsMade, OneMutates, EntryMutated, CandidateSound, RemovalSound, BackupInUse, EntryOwn, WorkersSound, IdleSound, ActiveSound, OnlyLiveRuns, GoneForGood, KnownKept |
| | ProviderRequests | CallsSound | ProviderInv: AskSound, AskCurrent, EnginesHeld; HooksInv: HookNow, HooksContained |
| StoresProofs | CallGraph | GraphTypeOK, EdgesCountWaits, NoCyclicWait, RejectsOnlyCycles | these, LiveInv, SearchInv |
| | IsrcIndex | IndexTruthful | IsrcTyped, StampsGiven, and truth of the published index and of every one being built |
| | ExtensionData | DataSafe | DataTyped, HandlesCurrent, LocksHeld, UserSound, and the snapshot of a migration |
| | ExtensionRepository | RegistrySound | RepoTyped, the registry is that of the URL or none, Noted, FlightsAtWork |
| DownloadsProofs | ProgressRegistry | TypeOK, NoRemovalLost, MirrorExact, SnapshotFresh | TypeOK, Bounds, NoRemovalLost, PayloadGood, SnapshotFresh |
| | DownloadPlanner | NoLockCycle, LibrarySafe | PlanTyped, LocksExact, OnlyMatched, PathsKnown |
| | SegmentedTransfer | SegmentsSound | SegTyped, InOrder, PublishedInOrder, SlotsCounted, QuietOutside, NothingLost |
| | ResumableTransfer | PublishedWhole | TransferIInv: SavedSound, PartialSound, RangeSound, KeepSound, KnownSound, BodySound, EndSound |
| | Backend | BackendSound | BackendIInv: TasksSound, ClosersSound, Counted, LeasesMarked, NoOrphanShown |
| LibraryProofs | LibraryScan | ScanSound | ScanTyped, Honest, Accounted |
| | HealthService | HealthSound | ManagerSound, SnapshotsSound, WorkersSound, CallersSound, Closing |
| | CoverCache | CoversSound | CoverTyped, CoversCounted, CallsSound, FlightsSound |
| | ReEnrich | EnrichSound | EnrichInv: Unwritten, FailsLate, KeepsTags, AlbumNamed, PickSound, LyricsRead, FileKept |

Why the properties are not inductive alone, and what makes them so:

- Cancellation: that a release takes back its own reference needs that the live
  leases of an id point to the cell of its entry; that this survives a reset
  needs that cells are not shared, and that a lease owns a cell exactly while it
  exists (CellsOwned).
- Budget: BudgetExact ties the lazy computation to the ticks counted one by one.
- Rate limiter: the code counts only what is in its queue; the window is about
  all that was admitted. So the queue has to be the end of that list.
- Lyrics: the count of waiters is read in one step and raised in the next, so
  that it is exact only together with the callers on their way (CallersJoined); a
  caller that joins a flight under the lock holds the one the table has
  (LockSound), and the table has flights at work only (TableSound).
- FFmpeg: one claim per command is a fact about the registry; that its result
  reaches the caller it belongs to needs what every pump has in its hands.
- Runtime: a worker that was cut short is retired before its reply, so the
  invariant has the steps between the two (CutRetired), and shutdown joins a
  thread whose natives are counted down (NativesCounted).
- Manager: the version on disk is a relation between target, stage and backup
  that only the one thread in a mutation may break (OneMutates, BackupInUse); an
  object that was replaced runs nothing more (OnlyLiveRuns, GoneForGood).
- Call graph: a path through the wait-for graph cannot be described without
  induction over paths. NoCyclicWait is stated with sets of nodes instead: no
  set but the empty one has all its nodes wait for nodes of the set. In the same
  way RejectsOnlyCycles says that the caller is in every set that holds the
  target and is closed under the waits. SearchInv says that the visited nodes
  together with the stack are closed under the edges, which turns the end of a
  search without success into a set that separates target and caller.
- ISRC index: the truth of an index is relative to the stamps its files had when
  they were read; it is carried by every index under construction.
- Data: a handle that is open is of the current epoch of the folder, and is the
  one in the store or in the hands of the one thread that removes it
  (HandlesCurrent); a thread inside a file has one of those (UserSound).
- Repository: the registry in memory needs that a thread which comes back with an
  answer is at work for the generation it noted (Noted), and that who follows a
  flight has it led (FlightsAtWork).
- Progress: MirrorExact speaks of a reader that has caught up. What is
  inductive is NoRemovalLost, which speaks of any reader: what is older than
  `since` is right, and everything gone since then still has its tombstone or
  is behind the reset point. PayloadGood says the same of a delta on its way,
  seen from the mirror it will be applied to; it only holds of the current
  reader, which is why Apply must compare the connection.
- Planner: locks follow from where each request is (LocksExact), and a request
  that waits for a lock holds none.
- Segments: results may arrive in any order; what is assembled is in order, and
  every segment is written, waiting, in a worker's hands or still to be asked for
  (NothingLost).
- Scan: a version of a file is written once, so an entry that is wrong about its
  file cannot become right about its time again (Honest); every file collected is
  known, read, waiting, in a worker's hands or given up (Accounted).
- Health: revision and manifest are read one after the other. The number of the
  manifests is the revision and the changes whose revision is still to come; a
  fetch has a manifest that is not older than its revision, and if the revision
  is the same in the end and no change is under way, none was made.
- Covers: the leader of the flight for a resized cover waits in other flights
  while its own is registered, so a call is described by both its key and the one
  it is at (CallsSound); bytes are counted right because a key that is cached has
  no flight (FlightsSound), which is why an entry is never inserted twice.

- Enrichment: the file is written once, at the end; until then the job carries
  what each lookup may have contributed (KeepsTags, AlbumNamed, LyricsRead), and a
  candidate is the best of those seen so far (PickSound).
- Shared lookups: Deezer's flight belongs to exactly one caller from its first
  request to its end (OwnersOnly), and a MusicBrainz worker that ended as cancelled
  has nobody waiting, unless the client was shut down (GivenUpAlone). The cache of
  availabilities needs no more than its own property, because a result is compared
  with the number of clears when it is stored.
- Sessions: that a late answer does not revive a session is a fact about the
  generation it was asked in, so every answer on its way carries where it was born
  (AnswersSound, RecordInv); that a follower always has a leader is a relation in
  both directions between the slots of the scope and the threads at work
  (SlotsHeld). An OAuth exchange that still has the generation of its record has
  its verifier (ExchangesInv).
- Files: the registry holds weak references and may make a new lock for a path
  whose old lock still has an owner on his way; what excludes the two is that
  only one lock of a path has strong references (OneLock), and that a staged file
  has one call that made it (StagesOwned).
- Lyrics search: providers may answer in any order. Each candidate is waiting, with
  a thread, in the channel or received (NoneForgotten), and the answer kept is the
  best of those received (BestIs). The shared token is never older than the page it
  was read from when the lock was taken (TokenNewest, TokensBehind).
- Network: what a request may send depends on the host it is at and on whether it
  has crossed sites (RequestsSound); a connection is of the pool whose policy it was
  made under (ConnectionsSound). Permits are bounded by what each request holds.
- Transfer: bytes of different versions may only meet in the partial file when the
  checkpoint vouches for none of them. SavedSound and PartialSound say which
  version the checkpoint and the call know; BodySound that a body continues it.
- Backend: the number of operations is the number of threads inside (Counted), so
  that whoever saw zero after the flag was raised has the manager to himself.
- Provider calls: a search has asked every provider that is neither in its list
  nor gone (AskSound, with the merged tracks distinct by key), and whoever is in an
  engine is there for the version he looked up (AskCurrent, EnginesHeld). The hook
  that runs is of an extension that took part at the start (HookNow).
- USB: accepted frames are waiting, in one transfer or counted (FramesNew,
  TransfersCarry, PositionExact), and a request that is served has a caller who still
  waits for it (RequestsAwaited). A channel is audible only once all were set.

What a recursive function computes is proved by induction all the same, in the
form the provers can use: LibraryProofs shows that every set of numbers has a
least element (from the well-foundedness of the naturals), so that a *set* with 0
and every successor is all of them (SetInduction), and that a function defined
along the numbers exists (RecursionExists). So StatusOf is offline exactly when a
required service is, for any sequence of answers, and an order has every
provider that was not excluded once, for any sequence of providers.

In the same way ExtensionRuntimeProofs shows that merging an answer of any length
keeps the tracks distinct, and RequestsProofs that a set of volumes has a loudest
and a quietest one.

Only checked with TLC:

- all liveness properties (NoLostWakeup, CatchesUp, FlightsEnd, CallsAnswered,
  ExecuteReturns), and the liveness half of ImplementsWriteBehind: fairness and
  ENABLED are outside the reach of the proof system. The step-by-step half of
  ImplementsWriteBehind is the theorem CacheImplementsWriteBehind;
- the invariant TagFilesSound: what tag writers and readers compute and what the
  layouts of containers refer to. It compares folds over sequences of cells, which
  would take an induction over data for each of six formats; TLC enumerates every
  layout up to its bounds instead.

## What is left out

Formatting, JSON, log messages, contents of files and of network traffic are left
out everywhere. Sequence numbers, node ids and command ids do not wrap: they are
64 bit counters that the program cannot exhaust. A poisoned lock (a panic while a
mutex is held) is not modelled, except where the code catches a panic
(CoverCache). In ProgressRegistry speeds and percentages are whole numbers or NaN.
In FfmpegCommands every operation has a pump; an extension that converts media
outside of an operation would wait for its timeout. The manager has one
extension, the transfers one path, the scope of SignedSession one record:
operations on different ones share only locks that are modelled where they
matter (output locks, pools, permits).

Not modelled at all, with the reasons in `PROJECT.json`: the Dart code (its queue
and verification guard run on one isolate, the player through plugins), the
Android download service and finalizer beyond their progress and FFmpeg
protocols, the iOS host, UniFFI wrappers, and pure transformations: media
probing, file names, matching, payload parsing, the case tables of MusicBrainz.

## Plan

The order was: registries and lyrics, extensions, stores, lookups, downloads,
library, host; the proofs followed the same order. What is left:

1. TagFilesSound for containers of any size: a definition of a layout as a function
   of positions, for which the offset of every reference is proved to follow the
   change, format by format.
2. The Dart queue and its native counterpart, which start, pause and resume downloads
   of the modelled backend.
3. The player and its USB host, which decide when a USB output is opened and closed.
