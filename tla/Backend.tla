------------------------------- MODULE Backend -------------------------------
(***************************************************************************)
(* The owner of all services (extensions/src/backend.rs): the operations    *)
(* that the app's threads enter, those for metadata                         *)
(* (backend/metadata.rs, backend/provider_metadata.rs) and downloads among   *)
(* them, the download state they share (core/src/downloads.rs: cancellation  *)
(* and progress), and the shutdown that waits for them.                     *)
(***************************************************************************)
EXTENDS Naturals, FiniteSets

CONSTANTS
  Clients,        \* threads of the app
  DownloadItems, NoDownload,
  Cancellers,     \* threads that cancel downloads
  Closers         \* threads that shut the backend down

ASSUME BackendAssumption == NoDownload \notin DownloadItems /\ IsFiniteSet(Clients)

VARIABLES
  shut,       \* Backend::closed
  operations, \* Backend::operations
  task,       \* client -> what it is doing, see TaskSet
  closers,    \* closer -> "idle", "flag", "drain", "release" or "returned"
  owned,      \* the manager holds the directories
  marks,       \* item -> its entry in the cancellation registry: "none", "live" or "cancelled"
  shown,      \* item -> its entry in the progress registry: "none", "running" or "completed"
  canceller   \* canceller -> the items whose progress it still has to remove

backendVars == <<shut, operations, task, closers, owned, marks, shown, canceller>>

Kinds == {"plain", "search", "convert", "provider", "download"}
Places == {"idle", "entered", "leased", "search", "polling", "joining", "settling", "end"}
Verdicts == {"none", "ok", "failed", "cancelled"}

(* late: the caller's check fails, or the deadline of the operation has      *)
(* passed.  leg: requests still to be made.  work: the scoped worker.        *)
NoTask == [pc |-> "idle", kind |-> "plain", item |-> NoDownload, late |-> FALSE, lease |-> FALSE,
           leg |-> 0, work |-> "none", verdict |-> "none"]
TaskSet == [pc : Places, kind : Kinds, item : DownloadItems \cup {NoDownload}, late : BOOLEAN,
            lease : BOOLEAN, leg : 0 .. 2, work : {"none", "running", "ok", "failed"}, verdict : Verdicts]

BackendInit ==
  /\ shut = FALSE /\ operations = 0 /\ owned = TRUE
  /\ task = [t \in Clients |-> NoTask]
  /\ closers = [c \in Closers |-> "idle"]
  /\ marks = [i \in DownloadItems |-> "none"]
  /\ shown = [i \in DownloadItems |-> "none"]
  /\ canceller = [c \in Cancellers |-> {}]

Become(t, r) == task' = [task EXCEPT ![t] = r]
-----------------------------------------------------------------------------
(* The lease of an item: one entry, shared by those who hold one.            *)
Leased(i) == {t \in Clients : task[t].lease /\ task[t].item = i}
MarkedFor(r) == r.item \in DownloadItems /\ marks[r.item] = "cancelled"

(* The last lease that is given back takes the entry with it.                *)
GivenBack(t) ==
  [i \in DownloadItems |-> IF task[t].lease /\ Leased(i) = {t} THEN "none" ELSE marks[i]]

(* check(): the backend is closed, the caller has given up, or it is too late *)
Fails(r) == shut \/ r.late

(* enter(): under the lock of the operations.  An item may go with a search   *)
(* by ISRC and with a download.                                              *)
Enter(t, kind, i) ==
  /\ ~shut /\ owned
  /\ task[t].pc = "idle" /\ (i # NoDownload => kind \in {"search", "download"})
  /\ Become(t, [NoTask EXCEPT !.pc = "entered", !.kind = kind, !.item = i,
                              !.leg = IF kind = "convert" THEN 2 ELSE 1])
  /\ operations' = operations + 1
  /\ UNCHANGED <<shut, closers, owned, marks, shown, canceller>>

GivesUp(t) ==
  /\ task[t].pc # "idle" /\ ~task[t].late /\ task[t].kind # "plain"
  /\ Become(t, [task[t] EXCEPT !.late = TRUE])
  /\ UNCHANGED <<shut, operations, closers, owned, marks, shown, canceller>>

(* metadata_operation() and download_request() check once before they start; *)
(* the others just do what they do.  A lease is taken for an item.           *)
BeginOperation(t) ==
  LET r == task[t]
      begins == r.kind # "plain" /\ ~Fails(r)
      tracked == r.item # NoDownload
      works == r.kind \in {"provider", "download"}
  IN
  /\ r.pc = "entered"
  /\ Become(t, IF ~begins
               THEN [r EXCEPT !.pc = "end", !.verdict = IF r.kind = "plain" THEN "ok" ELSE "cancelled"]
               ELSE [r EXCEPT !.pc = IF tracked THEN "leased" ELSE IF works THEN "polling" ELSE "search",
                              !.work = IF works /\ ~tracked THEN "running" ELSE "none",
                              !.lease = tracked])
  /\ marks' = IF begins /\ tracked /\ marks[r.item] = "none" THEN [marks EXCEPT ![r.item] = "live"] ELSE marks
  /\ UNCHANGED <<shut, operations, closers, owned, shown, canceller>>

(* The lease is checked; a download is shown from here on, and its planner    *)
(* started.                                                                  *)
Admit(t) ==
  LET r == task[t] IN
  /\ r.pc = "leased"
  /\ Become(t, IF MarkedFor(r) \/ (r.kind = "search" /\ Fails(r))
               THEN [r EXCEPT !.pc = "end", !.verdict = "cancelled"]
               ELSE [r EXCEPT !.pc = IF r.kind = "search" THEN "search" ELSE "polling",
                              !.work = IF r.kind = "search" THEN "none" ELSE "running"])
  /\ shown' = IF r.kind = "download" /\ ~MarkedFor(r) THEN [shown EXCEPT ![r.item] = "running"] ELSE shown
  /\ UNCHANGED <<shut, operations, closers, owned, marks, canceller>>

(* A search by ISRC, or the requests of a conversion one after the other.     *)
(* The check comes before the answer is used; then the lease goes.            *)
SearchAnswers(t) ==
  LET r == task[t]
      Over(v) == [r EXCEPT !.pc = "end", !.lease = FALSE, !.leg = 0, !.verdict = v]
  IN
  /\ r.pc = "search"
  /\ \/ /\ Fails(r) \/ MarkedFor(r)
        /\ Become(t, Over("cancelled")) /\ marks' = GivenBack(t)
     \/ /\ ~Fails(r) /\ ~MarkedFor(r) /\ r.leg = 2
        /\ Become(t, [r EXCEPT !.leg = 1]) /\ UNCHANGED marks
     \/ /\ ~Fails(r) /\ ~MarkedFor(r)
        /\ \E v \in {"failed"} \cup (IF r.leg = 1 THEN {"ok"} ELSE {}) : Become(t, Over(v))
        /\ marks' = GivenBack(t)
  /\ UNCHANGED <<shut, operations, closers, owned, shown, canceller>>

(* The worker runs the extension's code, or plans the download.              *)
WorkEnds(t) ==
  /\ task[t].work = "running"
  /\ \E w \in {"ok", "failed"} : Become(t, [task[t] EXCEPT !.work = w])
  /\ UNCHANGED <<shut, operations, closers, owned, marks, shown, canceller>>

(* The caller waits for the worker, and checks every few milliseconds: if it  *)
(* has to stop it gives the worker's lease back, which stops the worker too.  *)
Poll(t) ==
  LET r == task[t] IN
  /\ r.pc = "polling"
  /\ \/ /\ Fails(r)
        /\ Become(t, [r EXCEPT !.pc = "joining", !.lease = FALSE, !.verdict = "cancelled"])
        /\ marks' = GivenBack(t)
     \/ /\ r.work # "running"
        /\ Become(t, [r EXCEPT !.pc = "joining"])
        /\ UNCHANGED marks
  /\ UNCHANGED <<shut, operations, closers, owned, shown, canceller>>

Joined(t) ==
  LET r == task[t] IN
  /\ r.pc = "joining" /\ r.work # "running"
  /\ Become(t, [r EXCEPT !.pc = IF r.item = NoDownload THEN "end" ELSE "settling",
                         !.verdict = IF @ = "cancelled" \/ Fails(r) \/ MarkedFor(r) THEN "cancelled"
                                     ELSE r.work])
  /\ UNCHANGED <<shut, operations, closers, owned, marks, shown, canceller>>

(* What the app sees of the download: completed, or nothing any more.         *)
Settled(t) == IF task[t].verdict # "ok" THEN "none"
              ELSE IF shown[task[t].item] = "none" THEN "none" ELSE "completed"
Settle(t) ==
  /\ task[t].pc = "settling"
  /\ shown' = [shown EXCEPT ![task[t].item] = Settled(t)]
  /\ Become(t, [task[t] EXCEPT !.pc = "end"])
  /\ UNCHANGED <<shut, operations, closers, owned, marks, canceller>>

(* The lease and the Operation are dropped.                                  *)
LeaveBackend(t) ==
  /\ task[t].pc = "end"
  /\ Become(t, NoTask)
  /\ marks' = GivenBack(t)
  /\ operations' = operations - 1
  /\ UNCHANGED <<shut, closers, owned, shown, canceller>>
-----------------------------------------------------------------------------
(* cancel() and cancel_active(): the leases first, then the progress of each  *)
(* item.  reset_if_idle(): an entry that nobody holds is forgotten.           *)
CancelDownloads(c) ==
  /\ owned /\ canceller[c] = {}
  /\ \E marked \in {{i} : i \in DownloadItems} \cup {{i \in DownloadItems : Leased(i) # {}}} :
       /\ marks' = [i \in DownloadItems |-> IF i \in marked THEN "cancelled" ELSE marks[i]]
       /\ canceller' = [canceller EXCEPT ![c] = marked]
  /\ UNCHANGED <<shut, operations, task, closers, owned, shown>>

HideCancelled(c) ==
  /\ \E i \in canceller[c] :
       /\ canceller' = [canceller EXCEPT ![c] = @ \ {i}]
       /\ shown' = [shown EXCEPT ![i] = "none"]
  /\ UNCHANGED <<shut, operations, task, closers, owned, marks>>

ResetIdle(i) ==
  /\ owned /\ marks[i] # "none" /\ Leased(i) = {}
  /\ marks' = [marks EXCEPT ![i] = "none"]
  /\ UNCHANGED <<shut, operations, task, closers, owned, shown, canceller>>
-----------------------------------------------------------------------------
(* shutdown_checked(), under a lock of its own: the flag; the services that   *)
(* stop at once; the operations that are still inside; and then the manager,  *)
(* with the download state.  A second caller gets the result of the first.    *)
Closing == {c \in Closers : closers[c] \in {"flag", "drain", "release"}}
LockShutdown(c) ==
  /\ closers[c] = "idle" /\ Closing = {}
  /\ closers' = [closers EXCEPT ![c] = IF owned THEN "flag" ELSE "returned"]
  /\ UNCHANGED <<shut, operations, task, owned, marks, shown, canceller>>

RaiseFlag(c) ==
  /\ closers[c] = "flag"
  /\ shut' = TRUE
  /\ closers' = [closers EXCEPT ![c] = "drain"]
  /\ UNCHANGED <<operations, task, owned, marks, shown, canceller>>

(* Mutation: what is inside is not waited for.                               *)
DrainAtOnce(c) ==
  /\ closers[c] = "drain"
  /\ closers' = [closers EXCEPT ![c] = "release"]
  /\ UNCHANGED <<shut, operations, task, owned, marks, shown, canceller>>

DrainOperations(c) ==
  /\ closers[c] = "drain" /\ operations = 0
  /\ closers' = [closers EXCEPT ![c] = "release"]
  /\ UNCHANGED <<shut, operations, task, owned, marks, shown, canceller>>

ReleaseOwner(c) ==
  /\ closers[c] = "release"
  /\ owned' = FALSE
  /\ closers' = [closers EXCEPT ![c] = "returned"]
  /\ marks' = [i \in DownloadItems |-> "none"]
  /\ shown' = [i \in DownloadItems |-> "none"]
  /\ UNCHANGED <<shut, operations, task, canceller>>

BackendNext ==
  \/ \E t \in Clients :
       \/ \E kind \in Kinds, i \in DownloadItems \cup {NoDownload} : Enter(t, kind, i)
       \/ GivesUp(t) \/ BeginOperation(t) \/ Admit(t) \/ SearchAnswers(t) \/ WorkEnds(t) \/ Poll(t)
       \/ Joined(t) \/ Settle(t) \/ LeaveBackend(t)
  \/ \E c \in Cancellers : CancelDownloads(c) \/ HideCancelled(c)
  \/ \E i \in DownloadItems : ResetIdle(i)
  \/ \E c \in Closers : LockShutdown(c) \/ RaiseFlag(c) \/ DrainOperations(c) \/ ReleaseOwner(c)
BackendSpec == BackendInit /\ [][BackendNext]_backendVars
-----------------------------------------------------------------------------
Inside == {t \in Clients : task[t].pc # "idle"}
Attempts(i) == {t \in Clients : task[t].item = i /\ task[t].kind = "download"
                                /\ task[t].pc \in {"polling", "joining", "settling"}}

(* "Shutdown finishes provider work [...] before releasing directory locks":  *)
(* whoever enters while the backend closes is turned away or waited for, and  *)
(* no worker outlives its operation (enter, shutdown_checked, Operation).     *)
OwnerLast == /\ operations = Cardinality(Inside)
             /\ ~owned => Inside = {}
             /\ \A t \in Clients : task[t].work = "running" => task[t].pc \in {"polling", "joining"}
             /\ \A c \in Closers : closers[c] = "returned" => ~owned

(* A download is shown as running only while an attempt for it is, whatever   *)
(* cancellations, retries and other attempts for the item come between        *)
(* (download_request, DownloadState::cancel).                                *)
NoOrphanShown == \A i \in DownloadItems : shown[i] = "running" => Attempts(i) # {}

(* A lease of an item always finds its entry, so a cancellation reaches every  *)
(* attempt that has begun and not ended (acquire, release, reset_if_idle).     *)
LeasesMarked == \A t \in Clients : task[t].lease => marks[task[t].item] # "none"

BackendSound == OwnerLast /\ NoOrphanShown /\ LeasesMarked
=============================================================================
