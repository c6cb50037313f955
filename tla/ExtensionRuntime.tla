-------------------------- MODULE ExtensionRuntime --------------------------
(***************************************************************************)
(* The owner of an extension VM, rust_backend/crates/extensions/src/        *)
(* runtime.rs.  One worker thread owns the QuickJS VM and takes calls from  *)
(* a bounded queue; callers block until their reply comes or its channel is *)
(* dropped.  A call can be interrupted while it waits or while its script   *)
(* runs: by its request lease, its deadline, its resolution budget, the     *)
(* closing of the runtime or of the manager above it (parent_closed).  "An  *)
(* interrupted VM is retired": the worker closes the runtime and leaves.    *)
(*                                                                          *)
(* Session preflights run beside the worker on native threads and are only  *)
(* counted.  shutdown() may be called by several threads, and by Drop.      *)
(*                                                                          *)
(* Arguments, methods and results are left out: a call is its identity.     *)
(***************************************************************************)
EXTENDS Naturals, Sequences, FiniteSets

CONSTANTS
  Calls,       \* calls made to the runtime, each by a thread of its own
  Natives,     \* preflight_signed_session() calls
  Stoppers,    \* shutdown() calls
  Nobody,      \* no call, no thread
  Stop,        \* Command::Stop
  Capacity     \* QUEUE_CAPACITY

ASSUME RuntimeAssumption ==
  /\ Capacity \in Nat \ {0}
  /\ IsFiniteSet(Natives)
  /\ Nobody \notin Calls \cup Stoppers
  /\ Stop \notin Calls

VARIABLES
  closed,       \* Control::closed
  parentClosed, \* Control::parent_closed
  queue,        \* the commands in the channel
  worker,       \* what the worker thread does
  current,      \* the call it serves, or Nobody
  gcDue,        \* collect_at is set
  call,         \* [Calls -> CallState]
  interrupt,    \* [Calls -> BOOLEAN]  lease cancelled, deadline or budget gone
  verdict,      \* what the worker will reply
  cut,          \* the call whose script was cut short, or Nobody
  native,       \* [Natives -> {"new", "running", "ended"}]
  nativeCalls,  \* ExtensionRuntime::native_calls
  stopper,      \* [Stoppers -> StopperState]
  handle,       \* the JoinHandle is still there
  joining       \* the shutdown() that holds the lock of the handle

workerVars == <<worker, current, gcDue, verdict, cut>>
nativeVars == <<native, nativeCalls>>
stopVars == <<stopper, handle, joining>>
vars == <<closed, parentClosed, queue, workerVars, call, interrupt, nativeVars, stopVars>>

(* The last five are what call_with_operation() returned.  "unrun" is a     *)
(* failed check before the script, "interrupted" one after it.              *)
CallState ==
  {"new", "checked", "queued", "taken",
   "ran", "unrun", "interrupted", "closed", "busy"}

WorkerState == {"loading", "idle", "entering", "running", "replying", "leaving", "closing", "exited"}

StopperState == {"new", "closed", "sent", "joining", "joined", "returned"}

Init ==
  /\ closed = FALSE /\ parentClosed = FALSE
  /\ queue = <<>>
  /\ worker = "loading" /\ current = Nobody /\ gcDue = FALSE /\ verdict = "ran" /\ cut = Nobody
  /\ call = [c \in Calls |-> "new"]
  /\ interrupt = [c \in Calls |-> FALSE]
  /\ native = [n \in Natives |-> "new"] /\ nativeCalls = 0
  /\ stopper = [s \in Stoppers |-> "new"] /\ handle = TRUE /\ joining = Nobody

(* Control::is_closed()                                                     *)
IsClosed == closed \/ parentClosed

(* Control::check() with the operation of c fails.                          *)
Fails(c) == IsClosed \/ interrupt[c]

(* The receiver of the channel exists.                                      *)
Receiving == worker \notin {"closing", "exited"}

-----------------------------------------------------------------------------
(* Callers.                                                                 *)

(* call_with_operation() up to the queue; a closed runtime or a cancelled   *)
(* lease is refused.  (After a failed load nobody has the runtime to call;  *)
(* such calls would only be told that it is closed.)                        *)
BeginCall(c) ==
  /\ worker # "loading"
  /\ call[c] = "new"
  /\ call' = [call EXCEPT ![c] = IF IsClosed THEN "closed"
                                 ELSE IF interrupt[c] THEN "unrun" ELSE "checked"]
  /\ UNCHANGED <<closed, parentClosed, queue, workerVars, interrupt, nativeVars, stopVars>>

(* sender.try_send(command)                                                 *)
SendCall(c) ==
  /\ call[c] = "checked"
  /\ \/ /\ ~Receiving
        /\ call' = [call EXCEPT ![c] = "closed"]
        /\ UNCHANGED queue
     \/ /\ Receiving /\ Len(queue) >= Capacity
        /\ call' = [call EXCEPT ![c] = "busy"]
        /\ UNCHANGED queue
     \/ /\ Receiving /\ Len(queue) < Capacity
        /\ call' = [call EXCEPT ![c] = "queued"]
        /\ queue' = Append(queue, c)
  /\ UNCHANGED <<closed, parentClosed, workerVars, interrupt, nativeVars, stopVars>>

(* The lease of a call is cancelled, or its time is up; neither is undone.  *)
Interrupt(c) ==
  /\ ~interrupt[c]
  /\ interrupt' = [interrupt EXCEPT ![c] = TRUE]
  /\ UNCHANGED <<closed, parentClosed, queue, workerVars, call, nativeVars, stopVars>>

(* The manager above is closed.                                             *)
CloseParent ==
  /\ ~parentClosed
  /\ parentClosed' = TRUE
  /\ UNCHANGED <<closed, queue, workerVars, call, interrupt, nativeVars, stopVars>>

-----------------------------------------------------------------------------
(* The worker thread.                                                       *)

(* Vm::load() succeeds and the VM serves calls; or it fails, or the VM was  *)
(* only to be validated, and the worker leaves.                             *)
Load ==
  /\ worker = "loading"
  /\ \/ ~IsClosed /\ worker' = "idle" /\ gcDue' = TRUE
     \/ worker' = "leaving" /\ UNCHANGED gcDue
  /\ UNCHANGED <<closed, parentClosed, queue, current, verdict, cut, call, interrupt, nativeVars, stopVars>>

(* The worker receives a command.                                           *)
Take ==
  /\ worker = "idle"
  /\ queue # <<>>
  /\ queue' = Tail(queue)
  /\ IF Head(queue) = Stop
     THEN worker' = "leaving" /\ UNCHANGED <<current, call>>
     ELSE /\ worker' = "entering"
          /\ current' = Head(queue)
          /\ call' = [call EXCEPT ![Head(queue)] = "taken"]
  /\ UNCHANGED <<closed, parentClosed, gcDue, verdict, cut, interrupt, nativeVars, stopVars>>

(* After a burst the worker waits with a timeout, once, and collects        *)
(* garbage, or leaves if the runtime was closed.                            *)
IdleTimeout ==
  /\ worker = "idle" /\ gcDue
  /\ queue = <<>>
  /\ IF IsClosed THEN worker' = "leaving" /\ UNCHANGED gcDue
                 ELSE gcDue' = FALSE /\ UNCHANGED worker
  /\ UNCHANGED <<closed, parentClosed, queue, current, verdict, cut, call, interrupt, nativeVars, stopVars>>

(* Vm::execute(): a call that was cancelled in the queue does not reach the *)
(* VM.                                                                      *)
Enter ==
  /\ worker = "entering"
  /\ IF Fails(current) THEN worker' = "replying" /\ verdict' = "unrun"
                       ELSE worker' = "running" /\ UNCHANGED verdict
  /\ UNCHANGED <<closed, parentClosed, queue, current, gcDue, cut, call, interrupt, nativeVars,
                 stopVars>>

(* The interrupt handler of the VM, or a host function, cuts the script     *)
(* short, and its callbacks stay behind.                                    *)
CutShort ==
  /\ worker = "running"
  /\ Fails(current)
  /\ cut' = current
  /\ UNCHANGED <<closed, parentClosed, queue, worker, current, gcDue, verdict, call, interrupt, nativeVars,
                 stopVars>>

(* Mutation: the VM is closed with the next call and not with this one.     *)
EndRunUnclosed ==
  /\ worker = "running"
  /\ worker' = "replying"
  /\ verdict' = IF Fails(current) THEN "interrupted" ELSE "ran"
  /\ UNCHANGED <<closed, parentClosed, queue, current, gcDue, cut, call, interrupt, nativeVars,
                 stopVars>>

(* The script has returned; the last check decides, and an interrupted VM   *)
(* is closed before the reply.                                              *)
EndRun ==
  /\ worker = "running"
  /\ worker' = "replying"
  /\ verdict' = IF Fails(current) THEN "interrupted" ELSE "ran"
  /\ closed' = (closed \/ Fails(current))
  /\ UNCHANGED <<parentClosed, queue, current, gcDue, cut, call, interrupt, nativeVars, stopVars>>

(* reply.send(result), and the worker leaves if the runtime is closed.      *)
Reply ==
  /\ worker = "replying"
  /\ call' = [call EXCEPT ![current] = verdict]
  /\ current' = Nobody /\ gcDue' = TRUE /\ verdict' = "ran"
  /\ worker' = IF closed THEN "leaving" ELSE "idle"
  /\ UNCHANGED <<closed, parentClosed, queue, cut, interrupt, nativeVars, stopVars>>

(* Mutation: the commands in the queue are left there.                      *)
DropReceiverOnly ==
  /\ worker = "leaving"
  /\ worker' = "closing"
  /\ UNCHANGED <<closed, parentClosed, queue, current, gcDue, verdict, cut, call, interrupt, nativeVars, stopVars>>

(* run_worker() returns: the receiver goes, and with it the reply channels  *)
(* of the calls in the queue, whose callers get "closed".                   *)
DropReceiver ==
  /\ worker = "leaving"
  /\ worker' = "closing"
  /\ queue' = <<>>
  /\ call' = [c \in Calls |-> IF call[c] = "queued" THEN "closed" ELSE call[c]]
  /\ UNCHANGED <<closed, parentClosed, current, gcDue, verdict, cut, interrupt, nativeVars, stopVars>>

(* worker_control.close(), the end of the thread.                           *)
WorkerExit ==
  /\ worker = "closing"
  /\ worker' = "exited"
  /\ closed' = TRUE
  /\ UNCHANGED <<parentClosed, queue, current, gcDue, verdict, cut, call, interrupt, nativeVars, stopVars>>

-----------------------------------------------------------------------------
(* Session preflights.                                                      *)

(* closed is looked at and the call counted under one lock.                 *)
BeginNative(n) ==
  /\ worker # "loading"
  /\ native[n] = "new"
  /\ IF IsClosed
     THEN native' = [native EXCEPT ![n] = "ended"] /\ UNCHANGED nativeCalls
     ELSE native' = [native EXCEPT ![n] = "running"] /\ nativeCalls' = nativeCalls + 1
  /\ UNCHANGED <<closed, parentClosed, queue, workerVars, call, interrupt, stopVars>>

(* Drop for NativeOperation.                                                *)
EndNative(n) ==
  /\ native[n] = "running"
  /\ native' = [native EXCEPT ![n] = "ended"]
  /\ nativeCalls' = nativeCalls - 1
  /\ UNCHANGED <<closed, parentClosed, queue, workerVars, call, interrupt, stopVars>>

-----------------------------------------------------------------------------
(* shutdown(), which is Drop for ExtensionRuntime too.                      *)

ShutClose(s) ==
  /\ worker # "loading"
  /\ stopper[s] = "new"
  /\ closed' = TRUE
  /\ stopper' = [stopper EXCEPT ![s] = "closed"]
  /\ UNCHANGED <<parentClosed, queue, workerVars, call, interrupt, nativeVars, handle, joining>>

(* try_send(Stop); a full queue wakes the worker just as well.              *)
ShutStop(s) ==
  /\ stopper[s] = "closed"
  /\ stopper' = [stopper EXCEPT ![s] = "sent"]
  /\ queue' = IF Receiving /\ Len(queue) < Capacity THEN Append(queue, Stop) ELSE queue
  /\ UNCHANGED <<closed, parentClosed, workerVars, call, interrupt, nativeVars, handle, joining>>

(* The first takes the JoinHandle and keeps the lock while it joins.        *)
ShutTake(s) ==
  /\ stopper[s] = "sent"
  /\ joining = Nobody
  /\ stopper' = [stopper EXCEPT ![s] = IF handle THEN "joining" ELSE "joined"]
  /\ joining' = IF handle THEN s ELSE Nobody
  /\ handle' = FALSE
  /\ UNCHANGED <<closed, parentClosed, queue, workerVars, call, interrupt, nativeVars>>

ShutJoin(s) ==
  /\ stopper[s] = "joining"
  /\ worker = "exited"
  /\ stopper' = [stopper EXCEPT ![s] = "joined"]
  /\ joining' = Nobody
  /\ UNCHANGED <<closed, parentClosed, queue, workerVars, call, interrupt, nativeVars, handle>>

(* native_idle.wait() until no preflight is left.                           *)
ShutReturn(s) ==
  /\ stopper[s] = "joined"
  /\ nativeCalls = 0
  /\ stopper' = [stopper EXCEPT ![s] = "returned"]
  /\ UNCHANGED <<closed, parentClosed, queue, workerVars, call, interrupt, nativeVars, handle, joining>>

-----------------------------------------------------------------------------
WorkerStep ==
  \/ Load \/ Take \/ IdleTimeout \/ Enter \/ EndRun \/ Reply
  \/ DropReceiver \/ WorkerExit

ShutStep(s) == ShutStop(s) \/ ShutTake(s) \/ ShutJoin(s) \/ ShutReturn(s)

Next ==
  \/ \E c \in Calls : BeginCall(c) \/ SendCall(c) \/ Interrupt(c)
  \/ CloseParent
  \/ WorkerStep \/ CutShort
  \/ \E n \in Natives : BeginNative(n) \/ EndNative(n)
  \/ \E s \in Stoppers : ShutClose(s) \/ ShutStep(s)

(* Everything has been called and answered.                                 *)
Done ==
  /\ \A c \in Calls : call[c] \in {"ran", "unrun", "interrupted", "closed", "busy"} /\ interrupt[c]
  /\ parentClosed
  /\ \A n \in Natives : native[n] = "ended"
  /\ \A s \in Stoppers : stopper[s] = "returned"

Spec == Init /\ [][Next \/ (Done /\ UNCHANGED vars)]_vars

(* The worker runs, a script ends (by itself or because its deadline        *)
(* passes and the interrupt handler sees it), preflights end, and a thread  *)
(* in call() or shutdown() goes on.                                         *)
FairSpec ==
  /\ Spec
  /\ WF_vars(WorkerStep)
  /\ \A c \in Calls : WF_vars(SendCall(c))
  /\ \A n \in Natives : WF_vars(EndNative(n))
  /\ \A s \in Stoppers : WF_vars(ShutStep(s))

-----------------------------------------------------------------------------
(* State, worker and callers have their types, and the queue its bound.     *)
TypeOK ==
  /\ closed \in BOOLEAN /\ parentClosed \in BOOLEAN
  /\ queue \in Seq(Calls \cup {Stop}) /\ Len(queue) <= Capacity
  /\ worker \in WorkerState
  /\ current \in Calls \cup {Nobody}
  /\ gcDue \in BOOLEAN
  /\ verdict \in {"ran", "unrun", "interrupted"}
  /\ call \in [Calls -> CallState]
  /\ interrupt \in [Calls -> BOOLEAN]
  /\ cut \in Calls \cup {Nobody}
  /\ native \in [Natives -> {"new", "running", "ended"}]
  /\ nativeCalls \in 0 .. Cardinality(Natives)
  /\ stopper \in [Stoppers -> StopperState]
  /\ handle \in BOOLEAN
  /\ joining \in Stoppers \cup {Nobody}

(* "An interrupted VM is retired": after a script was cut short no other    *)
(* call enters the VM, so its left-over callbacks run in no later request.  *)
RetiredVMNotReused == cut # Nobody /\ worker = "running" => current = cut

(* "Callers must see the retired VM before handling its interruption": a    *)
(* call whose script was cut short is answered as interrupted, never with a *)
(* result, and when its caller learns of it the runtime is closed.          *)
RetiredBeforeReply ==
  \A c \in Calls :
    /\ call[c] = "interrupted" => closed
    /\ c = cut => call[c] \in {"taken", "interrupted"}

(* A call cancelled in the queue does not cost the VM: the runtime is       *)
(* closed only by shutdown(), by a call that was interrupted while its      *)
(* script ran, or because the worker left.                                  *)
ClosedForAReason ==
  closed =>
    \/ \E s \in Stoppers : stopper[s] # "new"
    \/ \E c \in Calls : call[c] = "interrupted" \/ (c = current /\ verdict = "interrupted")
    \/ worker = "exited"

(* When any shutdown() has returned, its own or another's, the worker is    *)
(* gone, no preflight runs, and no call is left in the queue.               *)
ShutdownComplete ==
  (\E s \in Stoppers : stopper[s] = "returned") =>
    /\ worker = "exited"
    /\ \A n \in Natives : native[n] # "running"
    /\ \A c \in Calls : call[c] # "queued"

(* Every call that was accepted is answered, whatever the worker does.      *)
CallsAnswered ==
  \A c \in Calls : call[c] = "queued"
                     ~> call[c] \in {"ran", "unrun", "interrupted", "closed"}

(* shutdown() returns, also when the queue is full and Stop cannot be sent. *)
ShutdownReturns == \A s \in Stoppers : stopper[s] = "closed" ~> stopper[s] = "returned"

(* A VM that was cut short, and only such a one, is retired before anybody   *)
(* hears of it and runs nothing more; shutdown returns with nothing left     *)
(* running (run_worker, Vm::execute, shutdown).                              *)
WorkerSound == RetiredVMNotReused /\ RetiredBeforeReply /\ ClosedForAReason /\ ShutdownComplete
=============================================================================
