-------------------------- MODULE ProgressRegistry --------------------------
(***************************************************************************)
(* Sparse download progress (crates/core/src/progress) and the Android     *)
(* service that mirrors it (DownloadServiceSnapshot.kt).                   *)
(*                                                                         *)
(* The registry numbers every visible change, remembers removals as        *)
(* tombstones until there are too many, and answers delta(since) with the  *)
(* items and removals newer than `since`, or with a full reset.  A reader  *)
(* waits for a delta in its own thread, applies it to its mirror later and *)
(* asks again with the new sequence number.  The readers' coordinator can  *)
(* be stopped and replaced while an old read is still in flight.           *)
(*                                                                         *)
(* Progress is kept in whole percent and speed in tenths of MB/s.          *)
(***************************************************************************)
EXTENDS Integers, FiniteSets

CONSTANTS
  Ids,          (* item ids                                                *)
  NoItem,       (* "no such item"                                          *)
  NaN,          (* a progress or speed that is not finite                  *)
  Stages,       (* stage labels given to preparing()                       *)
  Amounts,      (* byte counts reported                                    *)
  Percents,     (* progress values reported, possibly NaN                  *)
  Speeds,       (* speeds reported, possibly NaN                           *)
  UpdateBytes,  (* UPDATE_BYTES, the size of a visible byte bucket         *)
  MaxRemoved,   (* tombstones kept before pruning (512)                    *)
  MaxSeq,       (* bound: the registry is not changed beyond this seq      *)
  Readers,      (* reader threads, one per coordinator ever started        *)
  NoReader      (* no coordinator                                          *)

ASSUME ProgressAssumption ==
  /\ NaN \notin Int
  /\ Amounts \subseteq Nat
  /\ Percents \subseteq Nat \cup {NaN}
  /\ Speeds \subseteq Nat \cup {NaN}
  /\ UpdateBytes \in Nat \ {0}
  /\ MaxRemoved \in Nat
  /\ MaxSeq \in Nat
  /\ NoReader \notin Readers

VARIABLES
  item,      (* State::items, NoItem if absent                             *)
  revision,  (* ItemProgress::revision, 0 if the item is absent             *)
  removed,   (* State::removed: the tombstone's seq, 0 if there is none    *)
  seq,       (* State::seq                                                 *)
  reset,     (* State::reset                                               *)
  dirty,     (* State::dirty                                               *)
  cached,    (* State::cached: the items last serialized by snapshot()     *)
  closed,    (* State::closed                                              *)
  mirror,    (* nativeWorkerProgressItems                                  *)
  since,     (* nativeWorkerProgressSeq                                    *)
  current,   (* nativeWorkerProgressConnection: the reader it belongs to   *)
  control,   (* where the coordinator's controller is                      *)
  phase,     (* what each reader thread is doing                           *)
  sub,       (* the reader's ProgressSubscription: none, open or closed    *)
  asked,     (* the `since` of the read in flight, 0 if there is none      *)
  payload    (* the delta a read returned and that is not yet applied      *)

state == <<item, revision, removed, seq, reset, dirty, cached, closed>>
service == <<mirror, since, current, control>>
reads == <<phase, sub, asked, payload>>
vars == <<item, revision, removed, seq, reset, dirty, cached, closed,
          mirror, since, current, control, phase, sub, asked, payload>>
-----------------------------------------------------------------------------
(* Items.                                                                   *)

Status == {"preparing", "downloading", "finalizing", "completed"}

Item ==
  [total : Nat, received : Nat, progress : Nat \cup {NaN}, speed : Nat \cup {NaN},
   downloading : BOOLEAN, status : Status, stage : Stages \cup {""}]

ASSUME NoItemAssumption == NoItem \notin Item

Items == [Ids -> Item \cup {NoItem}]

NewItem ==
  [total |-> 0, received |-> 0, progress |-> 0, speed |-> 0,
   downloading |-> FALSE, status |-> "preparing", stage |-> ""]

Finite(i) == i.progress # NaN /\ i.speed # NaN

(* ItemProgress::bridge: what the user interface can tell apart. *)
Bridge(i) ==
  [bucket |-> i.received \div UpdateBytes,
   total |-> i.total,
   percent |-> IF i.progress = NaN THEN 0 ELSE IF i.progress > 100 THEN 100 ELSE i.progress,
   speed |-> IF i.speed = NaN THEN 0 ELSE i.speed,
   downloading |-> i.downloading, status |-> i.status, stage |-> i.stage]

View(i) == IF i = NoItem THEN NoItem ELSE Bridge(i)

MarkDownloading(i) ==
  [i EXCEPT !.downloading = TRUE, !.status = "downloading", !.stage = ""]

PreparingItem(i, stage) ==
  [i EXCEPT !.progress = 0, !.received = 0, !.total = 0, !.speed = 0,
            !.downloading = TRUE, !.status = "preparing", !.stage = stage]

ReceivedItem(i, n) ==
  LET j == [i EXCEPT !.received = n,
                     !.progress = IF i.total > 0 THEN (100 * n) \div i.total ELSE @]
  IN  IF n > 0 THEN MarkDownloading(j) ELSE j

Done(p) == p # NaN /\ p >= 100

ProgressItem(i, p, n, t) ==
  LET bytes == n > 0 \/ t > 0
      j == [i EXCEPT !.progress = IF i.status # "preparing" \/ bytes \/ Done(p) THEN p ELSE 0,
                     !.received = IF n > 0 THEN n ELSE @,
                     !.total = IF t > 0 THEN t ELSE @]
  IN  IF bytes \/ Done(p) \/ i.status = "downloading" THEN MarkDownloading(j) ELSE j

FinalizingItem(i) == [i EXCEPT !.progress = 100, !.status = "finalizing", !.stage = ""]

CompleteItem(i) ==
  [i EXCEPT !.progress = 100, !.downloading = FALSE, !.status = "completed", !.stage = ""]
-----------------------------------------------------------------------------
(* Deltas.                                                                  *)

NoItems == [id \in Ids |-> NoItem]

NoDelta == [seq |-> 0, reset |-> FALSE, items |-> NoItems, removed |-> {}]

Delta ==
  [seq : Nat, reset : BOOLEAN, items : Items, removed : SUBSET Ids]

(* State::delta; an item that is not finite fails the whole document. *)
DeltaOf(s) ==
  LET full == s <= 0 \/ s < reset
      items == [id \in Ids |-> IF item[id] # NoItem /\ (full \/ revision[id] > s)
                                 THEN item[id] ELSE NoItem]
  IN  IF s >= seq \/ \E id \in Ids : items[id] # NoItem /\ ~Finite(items[id])
        THEN NoDelta
        ELSE [seq |-> seq, reset |-> full, items |-> items,
              removed |-> IF full THEN {} ELSE {id \in Ids : removed[id] > s}]

(* The reader's side: clear on reset, put the items, drop the removed. *)
Applied(m, d) ==
  [id \in Ids |-> IF id \in d.removed THEN NoItem
                  ELSE IF d.items[id] # NoItem THEN d.items[id]
                  ELSE IF d.reset THEN NoItem ELSE m[id]]

TypeOK ==
  /\ item \in Items /\ cached \in Items /\ mirror \in Items
  /\ revision \in [Ids -> Nat] /\ removed \in [Ids -> Nat]
  /\ seq \in Nat /\ reset \in Nat /\ since \in Nat
  /\ dirty \in BOOLEAN /\ closed \in BOOLEAN
  /\ current \in Readers \cup {NoReader}
  /\ control \in {"idle", "close", "detach", "clear", "assign"}
  /\ phase \in [Readers -> {"free", "idle", "read", "check", "asleep", "payload"}]
  /\ sub \in [Readers -> {"none", "open", "closed"}]
  /\ asked \in [Readers -> Nat]
  /\ payload \in [Readers -> Delta]

Init ==
  /\ item = NoItems /\ revision = [id \in Ids |-> 0] /\ removed = [id \in Ids |-> 0]
  /\ seq = 0 /\ reset = 0 /\ dirty = TRUE /\ cached = NoItems /\ closed = FALSE
  /\ mirror = NoItems /\ since = 0 /\ current = NoReader /\ control = "idle"
  /\ phase = [r \in Readers |-> "free"] /\ sub = [r \in Readers |-> "none"]
  /\ asked = [r \in Readers |-> 0] /\ payload = [r \in Readers |-> NoDelta]
-----------------------------------------------------------------------------
(* Operations of the registry.                                              *)

(* changed.notify_all(), always called under the state lock. *)
WakeAll ==
  phase' = [r \in Readers |-> IF phase[r] = "asleep" THEN "check" ELSE phase[r]]

(* Mutation: the new revision is published without waking anybody. *)
NextSeqSilent ==
  /\ ~closed /\ seq < MaxSeq
  /\ seq' = seq + 1 /\ dirty' = TRUE
  /\ UNCHANGED phase

(* State::next *)
NextSeq ==
  /\ ~closed /\ seq < MaxSeq
  /\ seq' = seq + 1 /\ dirty' = TRUE
  /\ WakeAll

Start(id) ==
  /\ NextSeq
  /\ item' = [item EXCEPT ![id] = NewItem]
  /\ revision' = [revision EXCEPT ![id] = seq + 1]
  /\ removed' = [removed EXCEPT ![id] = 0]
  /\ UNCHANGED <<reset, cached, closed, service, sub, asked, payload>>

(* ProgressRegistry::update: only a visible change takes a new revision. *)
Update(id, i) ==
  /\ ~closed /\ item[id] # NoItem
  /\ item' = [item EXCEPT ![id] = i]
  /\ IF Bridge(i) = Bridge(item[id])
       THEN UNCHANGED <<revision, seq, dirty, phase>>
       ELSE NextSeq /\ revision' = [revision EXCEPT ![id] = seq + 1]
  /\ UNCHANGED <<removed, reset, cached, closed, service, sub, asked, payload>>

Preparing(id) == \E stage \in Stages : Update(id, PreparingItem(item[id], stage))

Downloading(id) == Update(id, MarkDownloading(item[id]))

SetTotal(id) == \E t \in Amounts : Update(id, [item[id] EXCEPT !.total = t])

SetReceived(id) == \E n \in Amounts : Update(id, ReceivedItem(item[id], n))

SetReceivedWithSpeed(id) ==
  \E n \in Amounts, s \in Speeds :
     Update(id, ReceivedItem([item[id] EXCEPT !.speed = s], n))

SetProgress(id) ==
  \E p \in Percents, n, t \in Amounts : Update(id, ProgressItem(item[id], p, n, t))

Finalizing(id) == Update(id, FinalizingItem(item[id]))

Complete(id) == Update(id, CompleteItem(item[id]))

(* Mutation: pruning forgets to raise the reset point. *)
PruneQuietly(tombs) ==
  LET revisions == {tombs[id] : id \in {i \in Ids : tombs[i] > 0}}
  IN  IF Cardinality(revisions) <= MaxRemoved
        THEN removed' = tombs /\ UNCHANGED reset
        ELSE \E cutoff \in revisions :
               /\ Cardinality({r \in revisions : r < cutoff}) = Cardinality(revisions) \div 2
               /\ removed' = [id \in Ids |-> IF tombs[id] > cutoff THEN tombs[id] ELSE 0]
               /\ UNCHANGED reset

(* Too many tombstones: drop those up to the median and make readers that   *)
(* are older than it start over.                                            *)
Prune(tombs) ==
  LET revisions == {tombs[id] : id \in {i \in Ids : tombs[i] > 0}}
  IN  IF Cardinality(revisions) <= MaxRemoved
        THEN removed' = tombs /\ UNCHANGED reset
        ELSE \E cutoff \in revisions :
               /\ Cardinality({r \in revisions : r < cutoff}) = Cardinality(revisions) \div 2
               /\ removed' = [id \in Ids |-> IF tombs[id] > cutoff THEN tombs[id] ELSE 0]
               /\ reset' = IF cutoff > reset THEN cutoff ELSE reset

Remove(id) ==
  /\ item[id] # NoItem
  /\ NextSeq
  /\ item' = [item EXCEPT ![id] = NoItem]
  /\ revision' = [revision EXCEPT ![id] = 0]
  /\ Prune([removed EXCEPT ![id] = seq + 1])
  /\ UNCHANGED <<cached, closed, service, sub, asked, payload>>

(* remove() of an id that is not there only invalidates the snapshot. *)
RemoveMissing(id) ==
  /\ ~closed /\ item[id] = NoItem
  /\ dirty' = TRUE
  /\ UNCHANGED <<item, revision, removed, seq, reset, cached, closed, service, reads>>

Clear ==
  /\ NextSeq
  /\ item' = NoItems /\ revision' = [id \in Ids |-> 0]
  /\ removed' = [id \in Ids |-> 0]
  /\ reset' = seq + 1
  /\ UNCHANGED <<cached, closed, service, sub, asked, payload>>

(* snapshot(): serialize once and serve the cache until something changes. *)
Snapshot ==
  /\ ~closed /\ dirty
  /\ \A id \in Ids : item[id] # NoItem => Finite(item[id])
  /\ cached' = item /\ dirty' = FALSE
  /\ UNCHANGED <<item, revision, removed, seq, reset, closed, service, reads>>

Shutdown ==
  /\ ~closed
  /\ closed' = TRUE
  /\ item' = NoItems /\ revision' = [id \in Ids |-> 0]
  /\ removed' = [id \in Ids |-> 0] /\ cached' = NoItems
  /\ WakeAll
  /\ UNCHANGED <<seq, reset, dirty, service, sub, asked, payload>>
-----------------------------------------------------------------------------
(* A reader: pollNativeWorkerProgress and ProgressSubscription::wait_delta. *)

(* sinceSeq is read under nativeWorkerProgressLock. *)
PollRead(r) ==
  /\ phase[r] = "idle"
  /\ phase' = [phase EXCEPT ![r] = "read"]
  /\ asked' = [asked EXCEPT ![r] = since]
  /\ UNCHANGED <<state, service, sub, payload>>

(* The catch block: forget everything, but only as the current reader. *)
Failed(r) ==
  /\ phase' = [phase EXCEPT ![r] = "idle"]
  /\ sub' = [sub EXCEPT ![r] = "none"]
  /\ IF current = r THEN mirror' = NoItems /\ since' = 0 ELSE UNCHANGED <<mirror, since>>
  /\ asked' = [asked EXCEPT ![r] = 0]
  /\ UNCHANGED <<state, current, control, payload>>

(* Reuse the connection or open one (subscribe fails once closed), and give *)
(* up if the coordinator has been replaced in the meantime.                 *)
PollConnect(r) ==
  /\ phase[r] = "read"
  /\ IF sub[r] # "open" /\ closed
       THEN Failed(r)
       ELSE /\ phase' = [phase EXCEPT ![r] = IF current = r THEN "check" ELSE "idle"]
            /\ sub' = [sub EXCEPT ![r] = IF current = r THEN "open" ELSE "none"]
            /\ asked' = [asked EXCEPT ![r] = IF current = r THEN @ ELSE 0]
            /\ UNCHANGED <<state, service, payload>>

(* One turn of the loop of wait_delta under the state lock. *)
WaitTurn(r) ==
  /\ phase[r] = "check"
  /\ IF closed \/ sub[r] = "closed"
       THEN Failed(r)
       ELSE /\ phase' = [phase EXCEPT ![r] = IF asked[r] < seq THEN "payload" ELSE "asleep"]
            /\ payload' = [payload EXCEPT ![r] = IF asked[r] < seq THEN DeltaOf(asked[r]) ELSE @]
            /\ UNCHANGED <<state, service, sub, asked>>

(* The heartbeat expires: an empty answer. *)
WaitExpire(r) ==
  /\ phase[r] = "asleep"
  /\ phase' = [phase EXCEPT ![r] = "payload"]
  /\ payload' = [payload EXCEPT ![r] = NoDelta]
  /\ UNCHANGED <<state, service, sub, asked>>

(* Apply the answer under nativeWorkerProgressLock, unless it is empty or   *)
(* the reader is no longer the current one.                                 *)
Apply(r) ==
  /\ phase[r] = "payload"
  /\ phase' = [phase EXCEPT ![r] = "idle"]
  /\ payload' = [payload EXCEPT ![r] = NoDelta]
  /\ asked' = [asked EXCEPT ![r] = 0]
  /\ IF payload[r] # NoDelta /\ current = r
       THEN /\ mirror' = Applied(mirror, payload[r])
            /\ since' = IF payload[r].reset \/ payload[r].seq > since THEN payload[r].seq ELSE since
       ELSE UNCHANGED <<mirror, since>>
  /\ UNCHANGED <<state, current, control, sub>>

(* The coordinator's job ends: its queue is over, or it was cancelled. *)
Exit(r) ==
  /\ phase[r] = "idle"
  /\ phase' = [phase EXCEPT ![r] = "free"]
  /\ sub' = [sub EXCEPT ![r] = "none"]
  /\ UNCHANGED <<state, service, asked, payload>>
-----------------------------------------------------------------------------
(* The coordinator is stopped, cancelled or started, step by step.          *)

StopBegin ==
  /\ control = "idle"
  /\ control' = IF current = NoReader THEN "clear" ELSE "close"
  /\ UNCHANGED <<state, mirror, since, current, reads>>

(* connection.getAndSet(null)?.close() *)
StopClose ==
  /\ control = "close"
  /\ control' = "detach"
  /\ sub' = [sub EXCEPT ![current] = IF @ = "open" THEN "closed" ELSE @]
  /\ IF sub[current] = "open" THEN WakeAll ELSE UNCHANGED phase
  /\ UNCHANGED <<state, mirror, since, current, asked, payload>>

(* nativeWorkerProgressConnection = null; a plain stop ends here. *)
StopDetach ==
  /\ control = "detach"
  /\ \E next \in {"idle", "clear"} : control' = next
  /\ current' = NoReader
  /\ UNCHANGED <<state, mirror, since, reads>>

(* The mirror is emptied under the lock; a cancel ends here. *)
ClearMirror ==
  /\ control = "clear"
  /\ \E next \in {"idle", "assign"} : control' = next
  /\ mirror' = NoItems /\ since' = 0
  /\ UNCHANGED <<state, current, reads>>

(* The new connection becomes current and its job is launched. *)
Assign(r) ==
  /\ control = "assign" /\ phase[r] = "free"
  /\ control' = "idle" /\ current' = r
  /\ phase' = [phase EXCEPT ![r] = "idle"]
  /\ UNCHANGED <<state, mirror, since, sub, asked, payload>>
-----------------------------------------------------------------------------
Registry ==
  \/ \E id \in Ids :
       \/ Start(id) \/ Preparing(id) \/ Downloading(id) \/ SetTotal(id)
       \/ SetReceived(id) \/ SetReceivedWithSpeed(id) \/ SetProgress(id)
       \/ Finalizing(id) \/ Complete(id) \/ Remove(id) \/ RemoveMissing(id)
  \/ Clear \/ Snapshot \/ Shutdown

Reader(r) ==
  PollRead(r) \/ PollConnect(r) \/ WaitTurn(r) \/ WaitExpire(r) \/ Apply(r) \/ Exit(r)

Coordinator ==
  StopBegin \/ StopClose \/ StopDetach \/ ClearMirror \/ \E r \in Readers : Assign(r)

Next == Registry \/ Coordinator \/ \E r \in Readers : Reader(r)

Spec == Init /\ [][Next]_vars

(* A reader's own steps are not delayed forever; heartbeats, writers and    *)
(* the coordinator owe nothing.                                             *)
Fairness ==
  \A r \in Readers :
    WF_vars(PollRead(r)) /\ WF_vars(PollConnect(r)) /\ WF_vars(WaitTurn(r)) /\ WF_vars(Apply(r))

FairSpec == Spec /\ Fairness
-----------------------------------------------------------------------------
(* Properties.                                                              *)

(* A mirror m that has seen everything up to s: what is older than s is     *)
(* right, and whatever is gone since is still remembered as removed.        *)
UpToDate(m, s) ==
  \A id \in Ids :
    /\ item[id] # NoItem /\ revision[id] <= s => View(m[id]) = View(item[id])
    /\ item[id] = NoItem /\ m[id] # NoItem => removed[id] > s

(* The service mirrors the registry: whenever it has caught up with the     *)
(* sequence, it shows exactly the items of the registry, for all            *)
(* interleavings of updates, removals, pruning, clears, failed reads and    *)
(* coordinator restarts.  (`since` 0 means that nothing was read yet.)      *)
MirrorExact ==
  ~closed /\ since > 0 /\ since = seq =>
    \A id \in Ids : View(mirror[id]) = View(item[id])

(* No removal is lost: a reader that will not be told to start over finds   *)
(* a tombstone for every item it still shows and that no longer exists.     *)
NoRemovalLost ==
  ~closed /\ since > 0 /\ since >= reset => UpToDate(mirror, since)

(* The cached snapshot differs from the items only where the user interface *)
(* cannot tell.                                                             *)
SnapshotFresh ==
  ~closed /\ ~dirty => \A id \in Ids : View(cached[id]) = View(item[id])

(* What ties the parts together: nothing is newer than seq, an item and its *)
(* tombstone exclude each other, and `since` only moves under a reader that *)
(* is between two reads, or while no reader is current.                     *)
Bounds ==
  /\ reset <= seq /\ since <= seq
  /\ \A id \in Ids : revision[id] <= seq /\ removed[id] <= seq
  /\ \A id \in Ids : item[id] # NoItem => removed[id] = 0
  /\ control \in {"clear", "assign"} => current = NoReader
  /\ control \in {"close", "detach"} => current # NoReader
  /\ \A r \in Readers : current = r /\ phase[r] \in {"read", "check", "asleep"} =>
       asked[r] = since

(* A delta waiting to be applied by the current reader will make the mirror *)
(* up to date at the sequence number it carries.                            *)
PayloadGood ==
  \A r \in Readers :
    current = r /\ phase[r] = "payload" /\ payload[r] # NoDelta =>
      /\ payload[r].seq > since /\ payload[r].seq <= seq
      /\ ~closed /\ payload[r].seq >= reset =>
           UpToDate(Applied(mirror, payload[r]), payload[r].seq)

(* The inductive invariant. *)
IInv == TypeOK /\ Bounds /\ NoRemovalLost /\ PayloadGood /\ SnapshotFresh

(* A reader that keeps reading catches up with every change, unless the     *)
(* registry closes, the coordinator goes, or an item is not finite (then    *)
(* delta() answers with an empty document for as long as the item exists).  *)
CatchesUp ==
  \A n \in 1..MaxSeq, r \in Readers :
    (seq >= n /\ current = r /\ phase[r] # "free") ~>
      \/ since >= n \/ closed \/ current # r \/ phase[r] = "free"
      \/ \E id \in Ids : item[id] # NoItem /\ ~Finite(item[id])
=============================================================================
