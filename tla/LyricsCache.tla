---------------------------- MODULE LyricsCache ----------------------------
(***************************************************************************)
(* The cache of found lyrics (providers/src/lyrics/cache.rs): a bounded     *)
(* table in memory, and a thread that writes the last snapshot of it to the *)
(* file of the configured path, some time after it was scheduled or when    *)
(* somebody flushes.  A snapshot is the set of its keys and the number of   *)
(* the schedule() that took it.                                             *)
(***************************************************************************)
EXTENDS Naturals, FiniteSets

CONSTANTS
  LyricKeys, CachePaths,
  MaxEntries,       \* MAX_ENTRIES (500)
  MaxSchedules,     \* bound on the snapshots scheduled
  Flushers          \* threads that call flush()

ASSUME LyricsCacheAssumption == MaxEntries \in Nat \ {0} /\ MaxSchedules \in Nat

VARIABLES
  entries,      \* State::entries
  path,         \* State::path
  pending,      \* State::pending
  writing,      \* State::writing: the thread runs
  job,          \* the snapshot the thread has taken and not finished
  flush,        \* State::flush
  flushing,     \* the threads in flush()
  error,        \* State::error is some error
  disk,         \* path -> the snapshot of its file
  scheduled,    \* number of the last snapshot
  written       \* number of the last snapshot that was written

cacheVars == <<entries, path, pending, writing, job, flush, flushing, error, disk, scheduled, written>>

NoPath == "none"
NoSnapshot == [path |-> NoPath, keys |-> {}, number |-> 0]

CacheInit ==
  /\ entries = {} /\ path = NoPath /\ pending = NoSnapshot /\ job = NoSnapshot
  /\ writing = FALSE /\ flush = FALSE /\ flushing = {} /\ error = FALSE
  /\ disk = [p \in CachePaths |-> {}]
  /\ scheduled = 0 /\ written = 0

(* schedule(): the snapshot replaces a pending one; the thread is started   *)
(* unless it runs, which may fail.                                          *)
Schedule(keys, p) ==
  IF p = NoPath THEN UNCHANGED <<pending, writing, error, scheduled>>
  ELSE /\ scheduled < MaxSchedules
       /\ scheduled' = scheduled + 1
       /\ pending' = [path |-> p, keys |-> keys, number |-> scheduled + 1]
       /\ \/ writing' = TRUE /\ UNCHANGED error
          \/ ~writing /\ error' = TRUE /\ UNCHANGED writing

(* set(): a full cache drops what has expired, then the oldest entries.     *)
Set(k) ==
  /\ \E left \in SUBSET entries :
       /\ Cardinality(entries) < MaxEntries => left = entries
       /\ Cardinality(left) < MaxEntries
       /\ entries' = left \cup {k}
  /\ Schedule(entries', path)
  /\ UNCHANGED <<path, job, flush, flushing, disk, written>>

ClearLyrics ==
  /\ entries' = {}
  /\ Schedule({}, path)
  /\ UNCHANGED <<path, job, flush, flushing, disk, written>>

(* clean_expired(), and drop_memory() of everything, leave the file and what is pending.    *)
CleanExpired ==
  /\ \E kept \in SUBSET entries : kept # entries /\ entries' = kept
  /\ UNCHANGED <<path, pending, writing, job, flush, flushing, error, disk, scheduled, written>>

(* read_snapshot(): what the file has that is still valid.                  *)
ReadSnapshot(p) == SUBSET (disk[p] \ entries)

(* set_persistence_path(): entries of the file that are valid and not known *)
(* are taken over as far as there is room; what was pending is written to   *)
(* the new path.                                                            *)
SetPath(p) ==
  /\ path' = p
  /\ \E loaded \in ReadSnapshot(p) :
       /\ loaded # {} => Cardinality(entries \cup loaded) <= MaxEntries
       /\ entries' = entries \cup loaded
  /\ IF pending = NoSnapshot THEN UNCHANGED <<pending, writing, error, scheduled>>
     ELSE Schedule(entries', p)
  /\ UNCHANGED <<job, flush, flushing, disk, written>>

BeginFlush(t) ==
  /\ t \notin flushing
  /\ flushing' = flushing \cup {t} /\ flush' = TRUE
  /\ UNCHANGED <<entries, path, pending, writing, job, error, disk, scheduled, written>>

EndFlush(t) ==
  /\ t \in flushing /\ ~writing
  /\ flushing' = flushing \ {t} /\ flush' = FALSE
  /\ UNCHANGED <<entries, path, pending, writing, job, error, disk, scheduled, written>>
-----------------------------------------------------------------------------
(* persist(): after the delay, or when flush is set, the pending snapshot   *)
(* is taken.                                                                *)
Take ==
  /\ writing /\ job = NoSnapshot
  /\ job' = pending /\ pending' = NoSnapshot
  /\ writing' = (pending # NoSnapshot)
  /\ UNCHANGED <<entries, path, flush, flushing, error, disk, scheduled, written>>

(* Mutation: the thread ends although a snapshot was scheduled meanwhile. *)
EndsEarly == FALSE
Continues == pending # NoSnapshot
Noted(ok) == ~ok

(* write_snapshot() and what follows it under the lock: a temporary file    *)
(* replaces the old one, or nothing changes.                                *)
Write ==
  /\ job # NoSnapshot
  /\ \E ok \in BOOLEAN :
       /\ disk' = IF ok THEN [disk EXCEPT ![job.path] = job.keys] ELSE disk
       /\ written' = IF ok THEN job.number ELSE written
       /\ error' = Noted(ok)
  /\ job' = NoSnapshot
  /\ writing' = Continues
  /\ UNCHANGED <<entries, path, pending, flush, flushing, scheduled>>

(* The process ends without dropping the cache; a new one sets its path.    *)
Restart ==
  /\ entries' = {} /\ path' = NoPath /\ pending' = NoSnapshot /\ job' = NoSnapshot
  /\ writing' = FALSE /\ flush' = FALSE /\ flushing' = {} /\ error' = FALSE
  /\ scheduled' = written
  /\ UNCHANGED <<disk, written>>

CacheNext ==
  \/ \E k \in LyricKeys : Set(k)
  \/ ClearLyrics \/ CleanExpired
  \/ \E p \in CachePaths : SetPath(p)
  \/ \E t \in Flushers : BeginFlush(t) \/ EndFlush(t)
  \/ Take \/ Write \/ Restart

(* The thread is scheduled, and its delay ends.                             *)
CacheFairness == WF_cacheVars(Take) /\ WF_cacheVars(Write)
CacheSpec == CacheInit /\ [][CacheNext]_cacheVars /\ CacheFairness
-----------------------------------------------------------------------------

Abstract == INSTANCE WriteBehind WITH latest <- scheduled, durable <- written, failed <- error

(* The cache is a write-behind cache: an older snapshot never replaces a    *)
(* newer one, whichever path it goes to, and the last one gets to the disk  *)
(* unless a write fails.                                                    *)
ImplementsWriteBehind == Abstract!WBSpec
=============================================================================
