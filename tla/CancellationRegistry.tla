------------------------ MODULE CancellationRegistry ------------------------
(***************************************************************************)
(* The request cancellation registry of the Rust core                      *)
(* (crates/core/src/cancellation.rs): a mutex-protected map from request   *)
(* ids to reference-counted entries, the leases handed out for them, and   *)
(* the condition variable on which lease holders wait.                     *)
(*                                                                         *)
(* Every critical section of `state` is one action.  The notification that *)
(* follows it (Shared::notify) happens after the lock is dropped and is an *)
(* action of its own, so that every interleaving of a waiter between the   *)
(* two is explored.  The cancellation flag of an entry is a shared heap    *)
(* cell (Arc<AtomicBool>): an element of Flags, which may be allocated     *)
(* again once neither an entry nor a lease refers to it.                   *)
(***************************************************************************)
EXTENDS Naturals, FiniteSets

CONSTANTS
  RequestIds,      (* the nonempty request ids                                    *)
  EmptyId,  (* the empty id: an untracked request                          *)
  Leases,   (* RequestLease objects; a dropped one can be created again    *)
  Flags,    (* heap cells for the shared cancellation flags                *)
  NoFlag,   (* "no cell"                                                   *)
  Callers   (* threads that cancel, release or shut down                   *)

ASSUME RegistryAssumption ==
  /\ EmptyId \notin RequestIds
  /\ NoFlag \notin Flags
  /\ IsFiniteSet(Leases)

VARIABLES
  registryClosed, (* State::closed                                         *)
  entryFlag,   (* State::entries: the flag of each id, NoFlag if absent    *)
  references,  (* State::entries: the reference count of each id           *)
  cancelled,   (* the cells whose AtomicBool is true                       *)
  lease,       (* "none" (not allocated), "live" or "released"             *)
  leaseId,     (* RequestLease::id                                         *)
  leaseFlag,   (* RequestLease::cancelled, the shared cell                 *)
  waiter,      (* the thread inside wait_cancelled of each lease           *)
  notifying    (* callers between dropping the lock and notify()           *)

registry == <<registryClosed, entryFlag, references, cancelled>>
leases == <<lease, leaseId, leaseFlag>>
cancelVars == <<registryClosed, entryFlag, references, cancelled, lease, leaseId, leaseFlag,
          waiter, notifying>>

WaiterState == {"idle", "check", "asleep", "expired"}

CancelTypeOK ==
  /\ registryClosed \in BOOLEAN
  /\ entryFlag \in [RequestIds -> Flags \cup {NoFlag}]
  /\ references \in [RequestIds -> Nat]
  /\ cancelled \in SUBSET Flags
  /\ lease \in [Leases -> {"none", "live", "released"}]
  /\ leaseId \in [Leases -> RequestIds \cup {EmptyId}]
  /\ leaseFlag \in [Leases -> Flags \cup {NoFlag}]
  /\ waiter \in [Leases -> WaiterState]
  /\ notifying \in SUBSET Callers

CancelInit ==
  /\ registryClosed = FALSE
  /\ entryFlag = [id \in RequestIds |-> NoFlag]
  /\ references = [id \in RequestIds |-> 0]
  /\ cancelled = {}
  /\ lease = [l \in Leases |-> "none"]
  /\ leaseId = [l \in Leases |-> EmptyId]
  /\ leaseFlag = [l \in Leases |-> NoFlag]
  /\ waiter = [l \in Leases |-> "idle"]
  /\ notifying = {}

Present(id) == entryFlag[id] # NoFlag

Holders(id) == {l \in Leases : lease[l] = "live" /\ leaseId[l] = id}

(* A cell that can be allocated: no Arc refers to it any more. *)
Unreferenced(f) ==
  /\ \A id \in RequestIds : entryFlag[id] # f
  /\ \A l \in Leases : leaseFlag[l] # f

(* entries.entry(id).or_default(): the entry's own cell, or a new false one. *)
EntryOrDefault(id, f) ==
  IF Present(id) THEN f = entryFlag[id] ELSE f \in Flags /\ Unreferenced(f)
-----------------------------------------------------------------------------
(* Registry operations.                                                     *)

Create(l, id, f) ==
  /\ lease' = [lease EXCEPT ![l] = "live"]
  /\ leaseId' = [leaseId EXCEPT ![l] = id]
  /\ leaseFlag' = [leaseFlag EXCEPT ![l] = f]

(* Mutation: a retry resets the flag it finds in the entry. *)
AcquireReset(l, id) ==
  /\ lease[l] = "none" /\ ~registryClosed
  /\ \E f \in Flags :
       /\ EntryOrDefault(id, f)
       /\ entryFlag' = [entryFlag EXCEPT ![id] = f]
       /\ cancelled' = cancelled \ {f}
       /\ Create(l, id, f)
  /\ references' = [references EXCEPT ![id] = @ + 1]
  /\ UNCHANGED <<registryClosed, waiter, notifying>>

(* CancellationRegistry::acquire with a nonempty id. *)
Acquire(l, id) ==
  /\ lease[l] = "none" /\ ~registryClosed
  /\ \E f \in Flags :
       /\ EntryOrDefault(id, f)
       /\ entryFlag' = [entryFlag EXCEPT ![id] = f]
       /\ cancelled' = IF Present(id) THEN cancelled ELSE cancelled \ {f}
       /\ Create(l, id, f)
  /\ references' = [references EXCEPT ![id] = @ + 1]
  /\ UNCHANGED <<registryClosed, waiter, notifying>>

(* CancellationRegistry::acquire with the empty id: an untracked private flag. *)
AcquireUntracked(l) ==
  /\ lease[l] = "none" /\ ~registryClosed
  /\ \E f \in Flags :
       /\ Unreferenced(f)
       /\ cancelled' = cancelled \ {f}
       /\ Create(l, EmptyId, f)
  /\ UNCHANGED <<registryClosed, entryFlag, references, waiter, notifying>>

(* A caller leaves the critical section and still has to notify. *)
StartNotify(c) ==
  /\ c \notin notifying
  /\ notifying' = notifying \cup {c}

(* CancellationRegistry::cancel; cancelling an absent id leaves a sentinel. *)
Cancel(c, id) ==
  /\ ~registryClosed
  /\ \E f \in Flags :
       /\ EntryOrDefault(id, f)
       /\ entryFlag' = [entryFlag EXCEPT ![id] = f]
       /\ cancelled' = cancelled \cup {f}
  /\ StartNotify(c)
  /\ UNCHANGED <<registryClosed, references, leases, waiter>>

(* CancellationRegistry::cancel_active *)
CancelActive(c) ==
  /\ ~registryClosed
  /\ cancelled' = cancelled \cup {entryFlag[id] : id \in {i \in RequestIds : references[i] > 0}}
  /\ StartNotify(c)
  /\ UNCHANGED <<registryClosed, entryFlag, references, leases, waiter>>

(* CancellationRegistry::reset_if_idle *)
ResetIfIdle(id) ==
  /\ ~registryClosed
  /\ Present(id) /\ references[id] = 0
  /\ entryFlag' = [entryFlag EXCEPT ![id] = NoFlag]
  /\ UNCHANGED <<registryClosed, references, cancelled, leases, waiter, notifying>>

(* CancellationRegistry::shutdown, also its Drop. *)
ShutdownCancellation(c) ==
  /\ registryClosed' = TRUE
  /\ entryFlag' = [id \in RequestIds |-> NoFlag]
  /\ references' = [id \in RequestIds |-> 0]
  /\ StartNotify(c)
  /\ UNCHANGED <<cancelled, leases, waiter>>

(* The locked part of RequestLease::release: give back one reference. *)
GiveBack(id) ==
  IF id \in RequestIds /\ Present(id)
    THEN /\ references' = [references EXCEPT ![id] = @ - 1]
         /\ entryFlag' = [entryFlag EXCEPT ![id] = IF references[id] = 1 THEN NoFlag ELSE @]
    ELSE UNCHANGED <<references, entryFlag>>

(* Mutation: release without remembering that it happened. *)
ReleaseTwice(c, l) ==
  /\ lease[l] = "live"
  /\ GiveBack(leaseId[l])
  /\ StartNotify(c)
  /\ UNCHANGED <<registryClosed, cancelled, leases, waiter>>

(* RequestLease::release; a second release returns early and does nothing. *)
Release(c, l) ==
  /\ lease[l] = "live"
  /\ lease' = [lease EXCEPT ![l] = "released"]
  /\ GiveBack(leaseId[l])
  /\ StartNotify(c)
  /\ UNCHANGED <<registryClosed, cancelled, leaseId, leaseFlag, waiter>>

(* Drop for RequestLease, once no thread borrows the lease in a wait:      *)
(* release() and then the object, with its Arc, is gone.                   *)
DropLive(c, l) ==
  /\ lease[l] = "live" /\ waiter[l] = "idle"
  /\ lease' = [lease EXCEPT ![l] = "none"]
  /\ leaseId' = [leaseId EXCEPT ![l] = EmptyId]
  /\ leaseFlag' = [leaseFlag EXCEPT ![l] = NoFlag]
  /\ GiveBack(leaseId[l])
  /\ StartNotify(c)
  /\ UNCHANGED <<registryClosed, cancelled, waiter>>

DropReleased(l) ==
  /\ lease[l] = "released" /\ waiter[l] = "idle"
  /\ lease' = [lease EXCEPT ![l] = "none"]
  /\ leaseId' = [leaseId EXCEPT ![l] = EmptyId]
  /\ leaseFlag' = [leaseFlag EXCEPT ![l] = NoFlag]
  /\ UNCHANGED <<registry, waiter, notifying>>

(* Mutation: notify without waking the condition variable. *)
NotifyNobody(c) ==
  /\ c \in notifying
  /\ notifying' = notifying \ {c}
  /\ UNCHANGED <<registry, leases, waiter>>

(* Shared::notify, after the lock was dropped: wake every sleeping waiter. *)
Notify(c) ==
  /\ c \in notifying
  /\ notifying' = notifying \ {c}
  /\ waiter' = [l \in Leases |-> IF waiter[l] = "asleep" THEN "check" ELSE waiter[l]]
  /\ UNCHANGED <<registry, leases>>
-----------------------------------------------------------------------------
(* RequestLease::wait_cancelled.                                            *)

(* The condition that ends a wait other than by its timeout: check_live     *)
(* fails (closed or released), or the shared flag is set.                   *)
WaitOver(l) == registryClosed \/ lease[l] = "released" \/ leaseFlag[l] \in cancelled

WaitBegin(l) ==
  /\ lease[l] # "none" /\ waiter[l] = "idle"
  /\ waiter' = [waiter EXCEPT ![l] = "check"]
  /\ UNCHANGED <<registry, leases, notifying>>

(* One turn of the loop under the lock: return, or sleep atomically with    *)
(* giving up the lock.                                                      *)
WaitCheck(l) ==
  /\ waiter[l] \in {"check", "expired"}
  /\ waiter' = [waiter EXCEPT ![l] =
                  IF WaitOver(l) \/ waiter[l] = "expired" THEN "idle" ELSE "asleep"]
  /\ UNCHANGED <<registry, leases, notifying>>

(* wait_timeout returns although nobody notified: the time is over, or      *)
(* the wakeup is spurious.                                                  *)
WaitTimeout(l) ==
  /\ waiter[l] = "asleep"
  /\ \E w \in {"expired", "check"} : waiter' = [waiter EXCEPT ![l] = w]
  /\ UNCHANGED <<registry, leases, notifying>>
-----------------------------------------------------------------------------
CancelNext ==
  \/ \E l \in Leases :
       \/ \E id \in RequestIds : Acquire(l, id)
       \/ AcquireUntracked(l)
       \/ DropReleased(l)
       \/ WaitBegin(l) \/ WaitCheck(l) \/ WaitTimeout(l)
  \/ \E id \in RequestIds : ResetIfIdle(id)
  \/ \E c \in Callers :
       \/ \E id \in RequestIds : Cancel(c, id)
       \/ CancelActive(c)
       \/ ShutdownCancellation(c)
       \/ \E l \in Leases : Release(c, l) \/ DropLive(c, l)
       \/ Notify(c)

CancelSpec == CancelInit /\ [][CancelNext]_cancelVars

(* A thread that left a critical section goes on to notify, and a woken     *)
(* waiter runs.  Nothing obliges a client to acquire, cancel or release,    *)
(* and no wait is saved by its timeout.                                     *)
CancelFairness ==
  /\ \A c \in Callers : WF_cancelVars(Notify(c))
  /\ \A l \in Leases : WF_cancelVars(WaitCheck(l))

CancelFairSpec == CancelSpec /\ CancelFairness
-----------------------------------------------------------------------------
(* Properties.                                                              *)

(* The reference count of an open registry is the number of live leases of  *)
(* the id, so `references -= 1` in release never underflows and an entry is *)
(* removed exactly when its last holder leaves.                             *)
CountsHolders ==
  ~registryClosed => \A id \in RequestIds : references[id] = Cardinality(Holders(id))

(* A live lease and the registry agree on the flag: whatever was released,  *)
(* reset or retried before, cancel(id) reaches every holder of id.          *)
HoldersShareEntry ==
  ~registryClosed => \A id \in RequestIds : \A l \in Holders(id) :
                Present(id) /\ leaseFlag[l] = entryFlag[id]

(* A flag belongs to one request: two entries never share a cell, and an    *)
(* untracked request's private cell is in no entry.                         *)
FlagsNotAliased ==
  /\ \A i, j \in RequestIds : Present(i) /\ entryFlag[i] = entryFlag[j] => i = j
  /\ \A l \in Leases : lease[l] # "none" /\ leaseId[l] = EmptyId =>
       \A id \in RequestIds : entryFlag[id] # leaseFlag[l]

(* A request with the empty id cannot be cancelled, whatever ids are        *)
(* cancelled and however cells are reused.                                  *)
UntrackedNeverCancelled ==
  \A l \in Leases : lease[l] # "none" /\ leaseId[l] = EmptyId =>
     leaseFlag[l] \notin cancelled

(* An entry nobody holds is a cancellation sentinel: a retry after the last *)
(* release starts uncancelled unless a cancel came in between.              *)
IdleEntryIsSentinel ==
  \A id \in RequestIds : Present(id) /\ references[id] = 0 => entryFlag[id] \in cancelled

(* What ties the parts together: a lease object owns a cell exactly while   *)
(* it exists, and a closed registry has no entries.                         *)
CellsOwned ==
  /\ \A l \in Leases : (lease[l] = "none") <=> (leaseFlag[l] = NoFlag)
  /\ registryClosed => \A id \in RequestIds : ~Present(id)

(* The inductive invariant. *)
CancelIInv ==
  /\ CancelTypeOK
  /\ CellsOwned
  /\ CountsHolders
  /\ HoldersShareEntry
  /\ FlagsNotAliased
  /\ UntrackedNeverCancelled
  /\ IdleEntryIsSentinel

(* Cancellation is final for a lease: no reset, release or retry of the     *)
(* same id by others clears the flag while the lease exists.                *)
CancelIsFinal ==
  [][\A l \in Leases :
       lease[l] # "none" /\ leaseFlag[l] \in cancelled /\ lease'[l] # "none"
         => leaseFlag'[l] \in cancelled']_cancelVars

(* No lost wakeup: a thread asleep in wait_cancelled whose lease is         *)
(* cancelled or released, or whose registry is closed, wakes without the    *)
(* help of its timeout.                                                     *)
NoLostWakeup ==
  \A l \in Leases : (waiter[l] = "asleep" /\ WaitOver(l)) ~> (waiter[l] = "idle")
=============================================================================
