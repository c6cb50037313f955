----------------------------- MODULE IsrcIndex -----------------------------
(***************************************************************************)
(* The index of the ISRCs in a directory (core/src/isrc/cache.rs): which    *)
(* recordings are there already.  An index is an object that lookups and    *)
(* additions change while a build makes its successor; files come, change   *)
(* and go at any time.  A file is its stamp, which no two of its contents   *)
(* share, and the ISRC of the content.                                      *)
(***************************************************************************)
EXTENDS Naturals, FiniteSets

CONSTANTS
  Indexers,     \* threads
  Tracks,       \* paths of audio files
  Isrcs,
  MaxStamps     \* bound on the changes of a file

ASSUME IsrcAssumption == MaxStamps \in Nat

Absent == [stamp |-> 0, isrc |-> "none"]

VARIABLES
  onDisk,     \* path -> its file
  stamps,     \* path -> the last stamp given
  published,  \* IndexCache::indexes: the index of the directory, or NoIndex
  building,   \* the builder lock: its holder, or "none"
  task        \* thread -> its place and what it holds

isrcVars == <<onDisk, stamps, published, building, task>>

(* An index: files maps a path to the file it was read from, byIsrc an ISRC *)
(* to a path.  Threads hold a published one; the flag says it still is.     *)
EmptyIndex == [live |-> TRUE, files |-> [p \in Tracks |-> Absent], byIsrc |-> [i \in Isrcs |-> "none"]]
NoIndex == [EmptyIndex EXCEPT !.live = FALSE]
Resting == [pc |-> "idle", force |-> FALSE, current |-> FALSE, path |-> "none", isrc |-> "none",
            work |-> EmptyIndex, todo |-> {}]

IsrcInit ==
  /\ onDisk = [p \in Tracks |-> Absent] /\ stamps = [p \in Tracks |-> 0]
  /\ published = NoIndex /\ building = "none"
  /\ task = [t \in Indexers |-> Resting]

Do(t, x) == task' = [task EXCEPT ![t] = x]
(* What the threads hold is no longer the published index.                  *)
Superseded == [t \in Indexers |-> [task[t] EXCEPT !.current = FALSE]]
-----------------------------------------------------------------------------
(* check() and check_batch() without force, prebuild() with it: a fresh     *)
(* index is used as it is.                                                  *)
Index(t) ==
  /\ task[t].pc = "idle"
  /\ \/ published.live /\ Do(t, [Resting EXCEPT !.pc = "use", !.current = TRUE])
     \/ \E force \in BOOLEAN : Do(t, [Resting EXCEPT !.pc = "wait", !.force = force])
  /\ UNCHANGED <<onDisk, stamps, published, building>>

BuilderFree == building = "none"

(* wait_for_builder(), and a second look for an index built meanwhile.      *)
Await(t) ==
  /\ task[t].pc = "wait" /\ BuilderFree
  /\ \/ /\ ~task[t].force /\ published.live
        /\ Do(t, [Resting EXCEPT !.pc = "use", !.current = TRUE]) /\ UNCHANGED building
     \/ Do(t, [task[t] EXCEPT !.pc = "list"]) /\ building' = t
     \/ Do(t, Resting) /\ UNCHANGED building   \* cancelled
  /\ UNCHANGED <<onDisk, stamps, published>>

(* Mutation: a file that was indexed once is not read again. *)
SamePath(p, old) == old[p] # Absent
(* A known file with the same stamp is not read again.                      *)
Unchanged(p, old) == old[p] # Absent /\ old[p].stamp = onDisk[p].stamp

(* The listing: known files are taken over, the others remain to be read.   *)
List(t) ==
  LET old == published.files
      there == {p \in Tracks : onDisk[p] # Absent}
      kept == {p \in there : Unchanged(p, old)}
      files == [p \in Tracks |-> IF p \in kept THEN old[p] ELSE Absent]
  IN
  /\ task[t].pc = "list"
  /\ \E by \in [Isrcs -> Tracks \cup {"none"}] :
       /\ \A i \in Isrcs : IF \E p \in kept : old[p].isrc = i
                           THEN by[i] \in kept /\ old[by[i]].isrc = i ELSE by[i] = "none"
       /\ Do(t, [task[t] EXCEPT !.pc = "read", !.work = [live |-> TRUE, files |-> files, byIsrc |-> by],
                   !.todo = {[path |-> p, stamp |-> onDisk[p].stamp] : p \in there \ kept}])
  /\ UNCHANGED <<onDisk, stamps, published, building>>

(* One of the reading threads reads a file; what it finds is recorded with  *)
(* the stamp that was listed.  A file that is gone fails the build.         *)
Read(t) ==
  /\ task[t].pc = "read"
  /\ \/ \E x \in task[t].todo :
          /\ onDisk[x.path] # Absent
          /\ LET i == onDisk[x.path].isrc IN
             Do(t, [task[t] EXCEPT !.todo = @ \ {x},
                      !.work.files[x.path] = [stamp |-> x.stamp, isrc |-> i],
                      !.work.byIsrc[i] = x.path])
          /\ UNCHANGED building
     \/ \* a file cannot be read, or the caller was cancelled
        Do(t, Resting) /\ building' = "none"
  /\ UNCHANGED <<onDisk, stamps, published>>

Complete(t) ==
  /\ task[t].pc = "read" /\ task[t].todo = {}
  /\ published' = task[t].work
  /\ building' = "none"
  /\ task' = [Superseded EXCEPT ![t] = [Resting EXCEPT !.pc = "use", !.current = TRUE]]
  /\ UNCHANGED <<onDisk, stamps>>
-----------------------------------------------------------------------------
(* check(): the path is looked up, the file is looked at, and an entry of a *)
(* file that is gone is removed, from the index held.                       *)
Find(t) ==
  /\ task[t].pc = "use"
  /\ \/ Do(t, Resting)     \* check_batch(), prebuild(), or not found
     \/ \E i \in Isrcs :
          /\ task[t].current /\ published.byIsrc[i] # "none"
          /\ Do(t, IF onDisk[published.byIsrc[i]] = Absent
                   THEN [task[t] EXCEPT !.pc = "forget", !.isrc = i] ELSE Resting)
  /\ UNCHANGED <<onDisk, stamps, published, building>>

Forget(t) ==
  /\ task[t].pc = "forget"
  /\ published' = IF task[t].current THEN [published EXCEPT !.byIsrc[task[t].isrc] = "none"]
                  ELSE published
  /\ Do(t, Resting)
  /\ UNCHANGED <<onDisk, stamps, building>>

(* A download ends: the file is there, and add() is told its ISRC.  It gets *)
(* the index, then the stamp, then changes the index it got.                *)
Download(t, p, i) ==
  /\ task[t].pc = "idle" /\ stamps[p] < MaxStamps
  /\ \A u \in Indexers : task[u].path # p
  /\ stamps' = [stamps EXCEPT ![p] = @ + 1]
  /\ onDisk' = [onDisk EXCEPT ![p] = [stamp |-> stamps[p] + 1, isrc |-> i]]
  /\ Do(t, [Resting EXCEPT !.pc = "add", !.path = p, !.isrc = i])
  /\ UNCHANGED <<published, building>>

Add(t) ==
  /\ task[t].pc = "add"
  /\ Do(t, IF ~published.live THEN Resting
           ELSE [task[t] EXCEPT !.pc = "insert", !.current = TRUE])
  /\ UNCHANGED <<onDisk, stamps, published, building>>

Insert(t) ==
  LET x == task[t] IN
  /\ x.pc = "insert"
  /\ published' = IF ~x.current THEN published
                  ELSE [published EXCEPT !.byIsrc[x.isrc] = x.path,
                          !.files[x.path] = IF onDisk[x.path] = Absent THEN @
                                            ELSE [stamp |-> onDisk[x.path].stamp, isrc |-> x.isrc]]
  /\ Do(t, Resting)
  /\ UNCHANGED <<onDisk, stamps, building>>

(* invalidate() and clear().                                                *)
Invalidate ==
  /\ published.live
  /\ published' = NoIndex /\ task' = Superseded
  /\ UNCHANGED <<onDisk, stamps, building>>

(* The user, or another program, removes a file or changes its tags.        *)
Touch(p, i) ==
  /\ onDisk[p] # Absent
  /\ \A u \in Indexers : task[u].path # p
  /\ \/ onDisk' = [onDisk EXCEPT ![p] = Absent] /\ UNCHANGED stamps
     \/ /\ stamps[p] < MaxStamps
        /\ stamps' = [stamps EXCEPT ![p] = @ + 1]
        /\ onDisk' = [onDisk EXCEPT ![p] = [stamp |-> stamps[p] + 1, isrc |-> i]]
  /\ UNCHANGED <<published, building, task>>

IsrcNext ==
  \/ \E t \in Indexers :
       \/ Index(t) \/ Await(t) \/ List(t) \/ Read(t) \/ Complete(t)
       \/ Find(t) \/ Forget(t) \/ Add(t) \/ Insert(t)
       \/ \E p \in Tracks, i \in Isrcs : Download(t, p, i)
  \/ \E p \in Tracks, i \in Isrcs : Touch(p, i)
  \/ Invalidate
IsrcSpec == IsrcInit /\ [][IsrcNext]_isrcVars
-----------------------------------------------------------------------------
(* What the index knows of a file that has not changed since is right, even *)
(* if the file changed between the listing and the reading.                 *)
IsrcTruthful ==
  published.live =>
    \A p \in Tracks :
      published.files[p] # Absent /\ published.files[p].stamp = onDisk[p].stamp
        => published.files[p].isrc = onDisk[p].isrc

(* A build takes over only what still holds: a file that is there when it   *)
(* lists the directory will be read, or is in the new index as it is.       *)
RelistsChanged ==
  [][\A t \in Indexers : task[t].pc = "list" /\ task'[t].pc = "read" =>
       \A p \in Tracks : onDisk[p] # Absent =>
         \/ task'[t].work.files[p] = onDisk[p]
         \/ [path |-> p, stamp |-> onDisk[p].stamp] \in task'[t].todo]_isrcVars

IndexTruthful == []IsrcTruthful /\ RelistsChanged
=============================================================================
