----------------------- MODULE ExtensionRuntimeProofs -----------------------
(***************************************************************************)
(* Proofs about ExtensionRuntime, for every number of calls, preflights and *)
(* shutdown() callers and every capacity of the queue: IInv is inductive    *)
(* and contains WorkerSound.  Then about ExtensionManager, for every set of *)
(* threads, versions, settings, objects and crashes: MgrIInv is inductive   *)
(* and contains CodeSurvives, RemovalWhole and EnginesCurrent.  And about   *)
(* ProviderRequests, the requests and hooks that run in the extensions.     *)
(***************************************************************************)
EXTENDS ExtensionRuntime, ExtensionManager, ProviderRequests, FiniteSetTheorems, SequenceTheorems, NaturalsInduction,
        WellFoundedInduction, TLAPS

Serving == {"entering", "running", "replying"}
Left == {"leaving", "closing", "exited"}

(* The worker has a call exactly while it serves one, and that call has     *)
(* been taken.                                                              *)
ServesCurrent ==
  /\ current # Nobody <=> worker \in Serving
  /\ current # Nobody => call[current] = "taken"

(* The calls in the queue are the queued ones, each of them once, and none  *)
(* is left in it when the receiver has gone.                                *)
QueueExact ==
  /\ \A c \in Calls : call[c] = "queued" <=> \E i \in 1 .. Len(queue) : queue[i] = c
  /\ \A i, j \in 1 .. Len(queue) : queue[i] = queue[j] /\ queue[i] # Stop => i = j
  /\ ~Receiving => queue = <<>>

(* The script that was cut short is the one that runs, or the worker has    *)
(* replied and left for good.                                               *)
CutRetired ==
  cut # Nobody =>
    \/ /\ cut = current /\ worker \in {"running", "replying"} /\ Fails(cut)
       /\ worker = "replying" => verdict = "interrupted"
    \/ call[cut] = "interrupted" /\ worker \in Left

(* Nobody hears of an interruption before the runtime is closed.            *)
ClosedFirst ==
  /\ verdict = "interrupted" => closed /\ worker = "replying"
  /\ worker = "replying" \/ verdict = "ran"
  /\ \A c \in Calls : call[c] = "interrupted" => closed
  /\ worker = "exited" => closed
  /\ \A s \in Stoppers : stopper[s] # "new" => closed

(* One shutdown() at a time joins the worker; when the handle is gone and   *)
(* nobody joins, the worker has ended.                                      *)
JoinSound ==
  /\ \A s \in Stoppers : stopper[s] = "joining" <=> joining = s
  /\ ~handle => joining # Nobody \/ worker = "exited"
  /\ \A s \in Stoppers : stopper[s] \in {"joined", "returned"} => worker = "exited"

NativesCounted ==
  /\ nativeCalls = Cardinality({n \in Natives : native[n] = "running"})
  /\ (\E s \in Stoppers : stopper[s] = "returned") => \A n \in Natives : native[n] # "running"

IInv ==
  /\ TypeOK /\ ClosedForAReason
  /\ ServesCurrent /\ QueueExact /\ CutRetired /\ ClosedFirst /\ JoinSound /\ NativesCounted
-----------------------------------------------------------------------------
RunningNatives == {n \in Natives : native[n] = "running"}

LEMMA NativesFinite ==
  /\ IsFiniteSet(RunningNatives) /\ Cardinality(RunningNatives) \in 0 .. Cardinality(Natives)
<1>1. RunningNatives \subseteq Natives BY DEF RunningNatives
<1> QED BY <1>1, FS_Subset, FS_CardinalityType, RuntimeAssumption

LEMMA InitIInv == Init => IInv
<1> SUFFICES ASSUME Init PROVE IInv OBVIOUS
<1>1. TypeOK
  <2>1. Cardinality(Natives) \in Nat BY FS_CardinalityType, RuntimeAssumption
  <2>2. queue \in Seq(Calls \cup {Stop}) /\ Len(queue) <= Capacity BY RuntimeAssumption DEF Init
  <2>3. nativeCalls \in 0 .. Cardinality(Natives) BY <2>1 DEF Init
  <2> QED BY <2>2, <2>3 DEF Init, TypeOK, WorkerState, CallState, StopperState
<1>2. NativesCounted
  <2>1. {n \in Natives : native[n] = "running"} = {} BY DEF Init
  <2> QED BY <2>1, FS_EmptySet DEF Init, NativesCounted
<1>3. QueueExact BY DEF Init, QueueExact, Receiving
<1>4. /\ ClosedForAReason /\ ServesCurrent /\ CutRetired /\ ClosedFirst
  BY DEF Init, ClosedForAReason, ServesCurrent, Serving, CutRetired, ClosedFirst
<1>5. JoinSound BY RuntimeAssumption DEF Init, JoinSound
<1> QED BY <1>1, <1>2, <1>3, <1>4, <1>5 DEF IInv

(* An interruption, or the manager's closing, changes nothing but that a    *)
(* later check fails; a script that is cut short is the one that runs.      *)
LEMMA InterruptIInv ==
  ASSUME IInv, (\E c \in Calls : Interrupt(c)) \/ CloseParent \/ CutShort
  PROVE  IInv'
<1>1. /\ UNCHANGED <<closed, queue, worker, current, gcDue, verdict, call, native, nativeCalls,
                     stopper, handle, joining>>
      /\ parentClosed' \in BOOLEAN /\ (parentClosed => parentClosed')
      /\ interrupt' \in [Calls -> BOOLEAN] /\ \A c \in Calls : interrupt[c] => interrupt'[c]
  BY DEF Interrupt, CloseParent, CutShort, IInv, TypeOK, workerVars, nativeVars, stopVars
<1>2. cut' = cut \/ (worker = "running" /\ Fails(current) /\ cut' = current)
  BY DEF Interrupt, CloseParent, CutShort, workerVars
<1>3. TypeOK' BY <1>1, <1>2 DEF IInv, TypeOK
<1>4. \A c \in Calls : Fails(c) => Fails(c)' BY <1>1 DEF Fails, IsClosed
<1>5. CutRetired'
  BY <1>1, <1>2, <1>4 DEF IInv, TypeOK, CutRetired, ServesCurrent, Serving
<1>6. /\ ClosedForAReason' /\ ServesCurrent' /\ QueueExact' /\ ClosedFirst' /\ JoinSound' /\ NativesCounted'
  BY <1>1 DEF IInv, ClosedForAReason, ServesCurrent, QueueExact, Receiving, ClosedFirst, JoinSound,
              NativesCounted
<1> QED BY <1>3, <1>5, <1>6 DEF IInv

(* Steps of a caller before its command is in the queue.                    *)
LEMMA RefusedIInv ==
  ASSUME IInv, NEW c \in Calls, call[c] \in {"new", "checked"}, UNCHANGED queue,
         NEW next \in {"checked", "closed", "unrun", "busy"}, call' = [call EXCEPT ![c] = next],
         UNCHANGED <<closed, parentClosed, workerVars, interrupt, nativeVars, stopVars>>
  PROVE  IInv'
<1>1. UNCHANGED <<worker, current, gcDue, verdict, cut, native, nativeCalls, stopper, handle, joining>>
  BY DEF workerVars, nativeVars, stopVars
<1>2. TypeOK' BY <1>1 DEF IInv, TypeOK, CallState
<1>3. \A d \in Calls : d # c => call'[d] = call[d] BY DEF IInv, TypeOK
<1>4. call'[c] = next BY DEF IInv, TypeOK
<1>5. ServesCurrent' BY <1>1, <1>3 DEF IInv, TypeOK, ServesCurrent
<1>6. QueueExact' BY <1>1, <1>3, <1>4 DEF IInv, QueueExact, Receiving
<1>7. CutRetired' BY <1>1, <1>3, <1>4 DEF IInv, TypeOK, CutRetired, Fails, IsClosed
<1>8. ClosedForAReason' /\ ClosedFirst'
  BY <1>1, <1>3, <1>4 DEF IInv, TypeOK, ClosedForAReason, ClosedFirst
<1>9. JoinSound' /\ NativesCounted' BY <1>1 DEF IInv, JoinSound, NativesCounted
<1> QED BY <1>2, <1>5, <1>6, <1>7, <1>8, <1>9 DEF IInv

(* A call is put behind the others.                                         *)
LEMMA EnqueueIInv ==
  ASSUME IInv, NEW c \in Calls, call[c] = "checked", Receiving, Len(queue) < Capacity,
         call' = [call EXCEPT ![c] = "queued"], queue' = Append(queue, c),
         UNCHANGED <<closed, parentClosed, workerVars, interrupt, nativeVars, stopVars>>
  PROVE  IInv'
<1>1. UNCHANGED <<worker, current, gcDue, verdict, cut, native, nativeCalls, stopper, handle, joining>>
  BY DEF workerVars, nativeVars, stopVars
<1>2. /\ \A d \in Calls : d # c => call'[d] = call[d]
      /\ call'[c] = "queued"
  BY DEF IInv, TypeOK
<1>3. /\ Len(queue') = Len(queue) + 1 /\ Len(queue) \in Nat /\ queue'[Len(queue) + 1] = c
      /\ \A i \in 1 .. Len(queue) : queue'[i] = queue[i]
      /\ queue' \in Seq(Calls \cup {Stop})
  BY DEF IInv, TypeOK
<1>4. TypeOK' BY <1>1, <1>3, RuntimeAssumption DEF IInv, TypeOK, CallState
<1>5. ServesCurrent' BY <1>1, <1>2 DEF IInv, TypeOK, ServesCurrent
<1>6. QueueExact'
  <2>1. \A i \in 1 .. Len(queue) : queue[i] # c BY DEF IInv, QueueExact
  <2>2. \A d \in Calls : call'[d] = "queued" <=> \E i \in 1 .. Len(queue') : queue'[i] = d
    <3> SUFFICES ASSUME NEW d \in Calls
                 PROVE  call'[d] = "queued" <=> \E i \in 1 .. Len(queue') : queue'[i] = d
      OBVIOUS
    <3>1. CASE d = c BY <1>2, <1>3, <3>1
    <3>2. CASE d # c
      <4>1. (\E i \in 1 .. Len(queue') : queue'[i] = d) <=> \E i \in 1 .. Len(queue) : queue[i] = d
        BY <1>3, <3>2
      <4> QED BY <1>2, <3>2, <4>1 DEF IInv, QueueExact
    <3> QED BY <3>1, <3>2
  <2>3. \A i, j \in 1 .. Len(queue') : queue'[i] = queue'[j] /\ queue'[i] # Stop => i = j
    BY <1>3, <2>1 DEF IInv, QueueExact
  <2> QED BY <1>1, <2>2, <2>3 DEF QueueExact, Receiving
<1>7. CutRetired' BY <1>1, <1>2 DEF IInv, TypeOK, CutRetired, Fails, IsClosed
<1>8. ClosedForAReason' /\ ClosedFirst'
  BY <1>1, <1>2 DEF IInv, TypeOK, ClosedForAReason, ClosedFirst
<1>9. JoinSound' /\ NativesCounted' BY <1>1 DEF IInv, JoinSound, NativesCounted
<1> QED BY <1>4, <1>5, <1>6, <1>7, <1>8, <1>9 DEF IInv

LEMMA CallerIInv == ASSUME IInv, NEW c \in Calls, BeginCall(c) \/ SendCall(c) PROVE IInv'
<1>1. CASE BeginCall(c)
  <2>1. PICK next \in {"checked", "closed", "unrun"} : call' = [call EXCEPT ![c] = next]
    BY <1>1 DEF BeginCall
  <2> QED BY <1>1, <2>1, RefusedIInv DEF BeginCall
<1>2. CASE SendCall(c) BY <1>2, RefusedIInv, EnqueueIInv DEF SendCall
<1> QED BY <1>1, <1>2
-----------------------------------------------------------------------------
(* Steps of the worker that leave the queue and its call where they are.    *)
LEMMA WorkerOwnIInv == ASSUME IInv, Load \/ IdleTimeout \/ Enter \/ EndRun \/ WorkerExit PROVE IInv'
<1>1. UNCHANGED <<parentClosed, queue, current, cut, call, interrupt, native, nativeCalls,
                  stopper, handle, joining>>
  BY DEF Load, IdleTimeout, Enter, EndRun, WorkerExit, nativeVars, stopVars
<1>2. /\ closed' \in BOOLEAN /\ (closed => closed')
      /\ closed' # closed => \/ worker = "running" /\ verdict' = "interrupted"
                             \/ worker' = "exited"
  BY DEF Load, IdleTimeout, Enter, EndRun, WorkerExit, IInv, TypeOK
<1>3. TypeOK'
  BY <1>1, <1>2, ZenonT(60) DEF IInv, TypeOK, WorkerState, Load, IdleTimeout, Enter, EndRun, WorkerExit
<1>4. ServesCurrent'
  BY <1>1 DEF IInv, ServesCurrent, Serving, Load, IdleTimeout, Enter, EndRun, WorkerExit
<1>5. QueueExact'
  <2>1. Receiving' = Receiving
    BY DEF Receiving, Load, IdleTimeout, Enter, EndRun, WorkerExit
  <2> QED BY <1>1, <2>1 DEF IInv, QueueExact
<1>6. \A c : Fails(c) => Fails(c)' BY <1>1, <1>2 DEF Fails, IsClosed
<1>7. CutRetired'
  BY <1>1, <1>6 DEF IInv, CutRetired, Left, Load, IdleTimeout, Enter, EndRun, WorkerExit
<1>8. ClosedFirst'
  BY <1>1, <1>2 DEF IInv, ClosedFirst, Load, IdleTimeout, Enter, EndRun, WorkerExit
<1>9. ClosedForAReason'
  <2>1. (current # Nobody /\ current \in Calls) \/ worker # "running"
    BY DEF IInv, TypeOK, ServesCurrent, Serving
  <2>2. verdict = "interrupted" => verdict' = verdict
    BY DEF IInv, ClosedFirst, Load, IdleTimeout, Enter, EndRun, WorkerExit
  <2>3. worker = "exited" => worker' = "exited"
    BY DEF Load, IdleTimeout, Enter, EndRun, WorkerExit
  <2> QED BY <1>1, <1>2, <2>1, <2>2, <2>3 DEF IInv, ClosedForAReason
<1>10. JoinSound' /\ NativesCounted'
  BY <1>1 DEF IInv, JoinSound, NativesCounted, Load, IdleTimeout, Enter, EndRun, WorkerExit
<1> QED BY <1>3, <1>4, <1>5, <1>7, <1>8, <1>9, <1>10 DEF IInv

(* The first command leaves the queue; a call is the worker's own then.     *)
LEMMA TakeIInv == ASSUME IInv, Take PROVE IInv'
<1>1. /\ worker = "idle" /\ queue # <<>> /\ queue' = Tail(queue)
      /\ UNCHANGED <<closed, parentClosed, gcDue, verdict, cut, interrupt, native, nativeCalls,
                     stopper, handle, joining>>
      /\ Head(queue) = Stop => worker' = "leaving" /\ current' = current /\ call' = call
      /\ Head(queue) # Stop => /\ worker' = "entering" /\ current' = Head(queue)
                               /\ call' = [call EXCEPT ![Head(queue)] = "taken"]
  BY DEF Take, nativeVars, stopVars
<1>2. /\ Len(queue) \in Nat /\ Len(queue) >= 1 /\ Head(queue) = queue[1]
      /\ Head(queue) \in Calls \cup {Stop}
      /\ Len(queue') = Len(queue) - 1 /\ queue' \in Seq(Calls \cup {Stop})
      /\ \A i \in 1 .. Len(queue') : queue'[i] = queue[i + 1]
  BY <1>1 DEF IInv, TypeOK
<1>3. current = Nobody BY <1>1 DEF IInv, ServesCurrent, Serving
<1>4. Head(queue) # Stop => Head(queue) \in Calls /\ call[Head(queue)] = "queued"
  BY <1>2 DEF IInv, QueueExact
<1>5. TypeOK'
  <2>1. Len(queue') <= Capacity BY <1>2, RuntimeAssumption DEF IInv, TypeOK
  <2>2. call' \in [Calls -> CallState] BY <1>1, <1>4 DEF IInv, TypeOK, CallState
  <2>3. current' \in Calls \cup {Nobody} /\ worker' \in WorkerState
    BY <1>1, <1>4 DEF IInv, TypeOK, WorkerState
  <2> QED BY <1>1, <1>2, <2>1, <2>2, <2>3 DEF IInv, TypeOK
<1>6. \A c \in Calls : /\ c = Head(queue) => call'[c] = "taken" /\ call[c] = "queued"
                       /\ c # Head(queue) => call'[c] = call[c]
  BY <1>1, <1>4, RuntimeAssumption DEF IInv, TypeOK
<1>7. ServesCurrent'
  BY <1>1, <1>3, <1>4, <1>6, RuntimeAssumption DEF ServesCurrent, Serving
<1>8. QueueExact'
  <2>1. \A c \in Calls : call'[c] = "queued" <=> \E i \in 1 .. Len(queue') : queue'[i] = c
    <3> SUFFICES ASSUME NEW c \in Calls
                 PROVE  call'[c] = "queued" <=> \E i \in 1 .. Len(queue') : queue'[i] = c
      OBVIOUS
    <3>1. CASE c = Head(queue)
      <4>1. \A i \in 2 .. Len(queue) : queue[i] # c
        BY <1>2, <3>1, RuntimeAssumption DEF IInv, QueueExact
      <4> QED BY <1>2, <1>6, <3>1, <4>1
    <3>2. CASE c # Head(queue)
      <4>1. (\E i \in 1 .. Len(queue) : queue[i] = c) <=> \E i \in 1 .. Len(queue') : queue'[i] = c
        <5>1. ASSUME NEW i \in 1 .. Len(queue), queue[i] = c
              PROVE  \E j \in 1 .. Len(queue') : queue'[j] = c
          <6>1. i # 1 BY <1>2, <3>2, <5>1
          <6>2. i - 1 \in 1 .. Len(queue') /\ (i - 1) + 1 = i BY <1>2, <6>1
          <6>3. queue'[i - 1] = c BY <1>2, <5>1, <6>2
          <6> QED BY <6>2, <6>3
        <5>2. ASSUME NEW j \in 1 .. Len(queue'), queue'[j] = c
              PROVE  \E i \in 1 .. Len(queue) : queue[i] = c
          BY <1>2, <5>2, SMTT(30)
        <5> QED BY <5>1, <5>2
      <4> QED BY <1>6, <3>2, <4>1 DEF IInv, QueueExact
    <3> QED BY <3>1, <3>2
  <2>2. \A i, j \in 1 .. Len(queue') : queue'[i] = queue'[j] /\ queue'[i] # Stop => i = j
    BY <1>2 DEF IInv, QueueExact
  <2>3. Receiving' BY <1>1 DEF Receiving
  <2> QED BY <2>1, <2>2, <2>3 DEF QueueExact
<1>9. CutRetired' BY <1>1, <1>3 DEF IInv, CutRetired, Left
<1>10. ClosedFirst' BY <1>1, <1>6 DEF IInv, ClosedFirst
<1>11. ClosedForAReason' BY <1>1, <1>3, <1>6 DEF IInv, ClosedForAReason, ClosedFirst
<1>12. JoinSound' /\ NativesCounted' BY <1>1 DEF IInv, JoinSound, NativesCounted
<1> QED BY <1>5, <1>7, <1>8, <1>9, <1>10, <1>11, <1>12 DEF IInv

(* The call gets its verdict; an interrupted one is the last of this VM.    *)
LEMMA ReplyIInv == ASSUME IInv, Reply PROVE IInv'
<1>1. /\ worker = "replying" /\ current \in Calls /\ call[current] = "taken"
      /\ current' = Nobody /\ gcDue' = TRUE /\ verdict' = "ran"
      /\ worker' = IF closed THEN "leaving" ELSE "idle"
      /\ UNCHANGED <<closed, parentClosed, queue, cut, interrupt, native, nativeCalls, stopper, handle,
                     joining>>
  BY DEF Reply, nativeVars, stopVars, IInv, TypeOK, ServesCurrent, Serving
<1>2. \A c \in Calls : call'[c] = IF c = current THEN verdict ELSE call[c]
  BY DEF Reply, IInv, TypeOK
<1>3. verdict \in {"ran", "unrun", "interrupted"} /\ (verdict = "interrupted" => closed)
  BY DEF IInv, TypeOK, ClosedFirst
<1>4. TypeOK'
  <2>1. call' \in [Calls -> CallState] BY <1>3 DEF Reply, IInv, TypeOK, CallState
  <2> QED BY <1>1, <2>1 DEF IInv, TypeOK, WorkerState
<1>5. ServesCurrent' BY <1>1 DEF ServesCurrent, Serving
<1>6. QueueExact'
  <2>1. \A c \in Calls : call'[c] = "queued" <=> call[c] = "queued" BY <1>1, <1>2, <1>3
  <2>2. Receiving /\ Receiving' BY <1>1 DEF Receiving
  <2> QED BY <1>1, <2>1, <2>2 DEF IInv, QueueExact
<1>7. CutRetired'
  BY <1>1, <1>2, <1>3, RuntimeAssumption DEF IInv, TypeOK, CutRetired, Left, Fails, IsClosed
<1>8. ClosedFirst' BY <1>1, <1>2, <1>3 DEF IInv, ClosedFirst
<1>9. ClosedForAReason' BY <1>1, <1>2 DEF IInv, ClosedForAReason
<1>10. JoinSound' /\ NativesCounted' BY <1>1 DEF IInv, JoinSound, NativesCounted
<1> QED BY <1>4, <1>5, <1>6, <1>7, <1>8, <1>9, <1>10 DEF IInv

(* The receiver goes, and the calls in the queue are told.                  *)
LEMMA DropReceiverIInv == ASSUME IInv, DropReceiver PROVE IInv'
<1>1. /\ worker = "leaving" /\ worker' = "closing" /\ queue' = <<>>
      /\ UNCHANGED <<closed, parentClosed, current, gcDue, verdict, cut, interrupt, native,
                     nativeCalls, stopper, handle, joining>>
      /\ \A c \in Calls : call'[c] = IF call[c] = "queued" THEN "closed" ELSE call[c]
  BY DEF DropReceiver, nativeVars, stopVars
<1>2. TypeOK'
  <2>1. call' \in [Calls -> CallState] BY DEF DropReceiver, IInv, TypeOK, CallState
  <2>2. queue' \in Seq(Calls \cup {Stop}) /\ Len(queue') <= Capacity
    BY <1>1, RuntimeAssumption
  <2> QED BY <1>1, <2>1, <2>2 DEF IInv, TypeOK, WorkerState
<1>3. ServesCurrent' BY <1>1 DEF IInv, TypeOK, ServesCurrent, Serving
<1>4. QueueExact' BY <1>1 DEF QueueExact
<1>5. CutRetired' BY <1>1 DEF IInv, TypeOK, CutRetired, Left
<1>6. ClosedFirst' /\ ClosedForAReason'
  BY <1>1 DEF IInv, ClosedFirst, ClosedForAReason
<1>7. JoinSound' /\ NativesCounted' BY <1>1 DEF IInv, JoinSound, NativesCounted
<1> QED BY <1>2, <1>3, <1>4, <1>5, <1>6, <1>7 DEF IInv
-----------------------------------------------------------------------------
(* Preflights are counted, and none begins once the runtime is closed.      *)
LEMMA NativeIInv == ASSUME IInv, NEW n \in Natives, BeginNative(n) \/ EndNative(n) PROVE IInv'
<1>1. UNCHANGED <<closed, parentClosed, queue, worker, current, gcDue, verdict, cut, call, interrupt,
                  stopper, handle, joining>>
  BY DEF BeginNative, EndNative, workerVars, stopVars
<1>2. /\ nativeCalls = Cardinality(RunningNatives)
      /\ NativesCounted' <=>
           /\ nativeCalls' = Cardinality(RunningNatives')
           /\ (\E s \in Stoppers : stopper'[s] = "returned") => RunningNatives' = {}
  BY DEF IInv, NativesCounted, RunningNatives
<1>3. \/ /\ RunningNatives' = RunningNatives /\ nativeCalls' = nativeCalls
      \/ /\ n \notin RunningNatives /\ RunningNatives' = RunningNatives \cup {n}
         /\ nativeCalls' = nativeCalls + 1 /\ ~closed
      \/ /\ n \in RunningNatives /\ RunningNatives' = RunningNatives \ {n}
         /\ nativeCalls' = nativeCalls - 1
  BY DEF BeginNative, EndNative, RunningNatives, IInv, TypeOK, IsClosed
<1>4. nativeCalls' = Cardinality(RunningNatives')
  BY <1>2, <1>3, NativesFinite, FS_AddElement, FS_RemoveElement
<1>5. nativeCalls' \in 0 .. Cardinality(Natives)
  <2>1. RunningNatives' \subseteq Natives BY DEF RunningNatives
  <2>2. IsFiniteSet(RunningNatives') /\ Cardinality(RunningNatives') <= Cardinality(Natives)
    BY <2>1, FS_Subset, RuntimeAssumption
  <2> QED BY <1>4, <2>2, FS_CardinalityType, RuntimeAssumption
<1>6. TypeOK'
  <2>1. native' \in [Natives -> {"new", "running", "ended"}]
    BY DEF BeginNative, EndNative, IInv, TypeOK
  <2> QED BY <1>1, <1>5, <2>1 DEF IInv, TypeOK
<1>7. NativesCounted'
  <2>1. (\E s \in Stoppers : stopper'[s] = "returned") => RunningNatives = {} /\ closed
    BY <1>1 DEF IInv, NativesCounted, ClosedFirst, RunningNatives
  <2> QED BY <1>2, <1>3, <1>4, <2>1
<1>8. ClosedForAReason' /\ ServesCurrent' /\ QueueExact' /\ CutRetired' /\ ClosedFirst' /\ JoinSound'
  BY <1>1 DEF IInv, ClosedForAReason, ServesCurrent, QueueExact, Receiving, CutRetired, Fails, IsClosed,
              ClosedFirst, JoinSound
<1> QED BY <1>6, <1>7, <1>8 DEF IInv

(* Stop is put behind the calls.                                            *)
LEMMA AppendStop ==
  ASSUME TypeOK, QueueExact, Receiving, Len(queue) < Capacity, queue' = Append(queue, Stop),
         UNCHANGED <<worker, call>>
  PROVE  QueueExact' /\ queue' \in Seq(Calls \cup {Stop}) /\ Len(queue') <= Capacity
<1>1. /\ Len(queue') = Len(queue) + 1 /\ Len(queue) \in Nat /\ queue'[Len(queue) + 1] = Stop
      /\ \A i \in 1 .. Len(queue) : queue'[i] = queue[i]
      /\ queue' \in Seq(Calls \cup {Stop})
  BY DEF TypeOK
<1>2. \A c \in Calls : (\E i \in 1 .. Len(queue') : queue'[i] = c) <=> \E i \in 1 .. Len(queue) : queue[i] = c
  BY <1>1, RuntimeAssumption
<1>3. \A i, j \in 1 .. Len(queue') : queue'[i] = queue'[j] /\ queue'[i] # Stop => i = j
  BY <1>1 DEF QueueExact
<1> QED BY <1>1, <1>2, <1>3, RuntimeAssumption DEF QueueExact, Receiving

LEMMA ShutIInv == ASSUME IInv, NEW s \in Stoppers, ShutClose(s) \/ ShutStep(s) PROVE IInv'
<1>1. UNCHANGED <<parentClosed, worker, current, gcDue, verdict, cut, call, interrupt, native, nativeCalls>>
  BY DEF ShutClose, ShutStep, ShutStop, ShutTake, ShutJoin, ShutReturn, workerVars, nativeVars
<1>2. PICK next \in StopperState \ {"new"} : stopper' = [stopper EXCEPT ![s] = next]
  BY DEF ShutClose, ShutStep, ShutStop, ShutTake, ShutJoin, ShutReturn, StopperState
<1>3. stopper'[s] = next /\ \A t \in Stoppers : t # s => stopper'[t] = stopper[t]
  BY <1>2 DEF IInv, TypeOK
<1>4. closed' \/ (closed' = closed /\ stopper[s] # "new")
  BY DEF ShutClose, ShutStep, ShutStop, ShutTake, ShutJoin, ShutReturn
<1>5. closed'
  BY <1>4 DEF IInv, ClosedFirst
<1>6. QueueExact' /\ queue' \in Seq(Calls \cup {Stop}) /\ Len(queue') <= Capacity
  <2>1. CASE Receiving /\ Len(queue) < Capacity /\ queue' = Append(queue, Stop)
    BY <1>1, <2>1, AppendStop DEF IInv
  <2>2. CASE queue' = queue BY <1>1, <2>2 DEF IInv, TypeOK, QueueExact, Receiving
  <2> QED BY <2>1, <2>2 DEF ShutClose, ShutStep, ShutStop, ShutTake, ShutJoin, ShutReturn
<1>7. TypeOK'
  <2>1. stopper' \in [Stoppers -> StopperState] BY <1>2 DEF IInv, TypeOK
  <2>2. handle' \in BOOLEAN /\ joining' \in Stoppers \cup {Nobody} /\ closed' \in BOOLEAN
    BY DEF ShutClose, ShutStep, ShutStop, ShutTake, ShutJoin, ShutReturn, IInv, TypeOK
  <2> QED BY <1>1, <1>6, <2>1, <2>2 DEF IInv, TypeOK
<1>8. ServesCurrent' BY <1>1 DEF IInv, ServesCurrent
<1>9. CutRetired'
  BY <1>1, <1>5 DEF IInv, CutRetired, Fails, IsClosed
<1>10. ClosedFirst' BY <1>1, <1>5 DEF IInv, ClosedFirst
<1>11. ClosedForAReason' BY <1>1, <1>2, <1>3 DEF ClosedForAReason
<1>12. JoinSound'
  BY <1>1, <1>3, RuntimeAssumption
     DEF IInv, TypeOK, JoinSound, ShutClose, ShutStep, ShutStop, ShutTake, ShutJoin, ShutReturn
<1>13. NativesCounted'
  <2>1. nativeCalls = Cardinality(RunningNatives) BY DEF IInv, NativesCounted, RunningNatives
  <2>2. next = "returned" => nativeCalls = 0
    BY <1>3 DEF IInv, TypeOK, ShutClose, ShutStep, ShutStop, ShutTake, ShutJoin, ShutReturn
  <2>3. nativeCalls = 0 => RunningNatives = {} BY <2>1, NativesFinite, FS_EmptySet
  <2>4. next = "returned" => \A n \in Natives : native[n] # "running" BY <2>2, <2>3 DEF RunningNatives
  <2> QED BY <1>1, <1>3, <2>4 DEF IInv, NativesCounted
<1> QED BY <1>6, <1>7, <1>8, <1>9, <1>10, <1>11, <1>12, <1>13 DEF IInv
-----------------------------------------------------------------------------
LEMMA NextIInv == IInv /\ [Next \/ (Done /\ UNCHANGED vars)]_vars => IInv'
<1> SUFFICES ASSUME IInv, [Next \/ (Done /\ UNCHANGED vars)]_vars PROVE IInv' OBVIOUS
<1>1. CASE UNCHANGED vars
  BY <1>1 DEF vars, workerVars, nativeVars, stopVars, IInv, TypeOK, ClosedForAReason, ServesCurrent,
              QueueExact, Receiving, CutRetired, Fails, IsClosed, ClosedFirst, JoinSound, NativesCounted
<1>2. ASSUME NEW c \in Calls, BeginCall(c) \/ SendCall(c) PROVE IInv' BY <1>2, CallerIInv
<1>3. ASSUME (\E c \in Calls : Interrupt(c)) \/ CloseParent \/ CutShort PROVE IInv'
  BY <1>3, InterruptIInv
<1>4. ASSUME Load \/ IdleTimeout \/ Enter \/ EndRun \/ WorkerExit PROVE IInv'
  BY <1>4, WorkerOwnIInv
<1>5. ASSUME Take PROVE IInv' BY <1>5, TakeIInv
<1>6. ASSUME Reply PROVE IInv' BY <1>6, ReplyIInv
<1>7. ASSUME DropReceiver PROVE IInv' BY <1>7, DropReceiverIInv
<1>8. ASSUME NEW n \in Natives, BeginNative(n) \/ EndNative(n) PROVE IInv' BY <1>8, NativeIInv
<1>9. ASSUME NEW s \in Stoppers, ShutClose(s) \/ ShutStep(s) PROVE IInv' BY <1>9, ShutIInv
<1> QED BY <1>1, <1>2, <1>3, <1>4, <1>5, <1>6, <1>7, <1>8, <1>9 DEF Next, WorkerStep

(* The parts of WorkerSound follow from the invariant.                      *)
LEMMA IInvSound == IInv => WorkerSound
<1> SUFFICES ASSUME IInv PROVE WorkerSound OBVIOUS
<1>1. RetiredVMNotReused BY DEF IInv, CutRetired, RetiredVMNotReused, Left
<1>2. RetiredBeforeReply
  BY RuntimeAssumption DEF IInv, TypeOK, CutRetired, ClosedFirst, ServesCurrent, RetiredBeforeReply
<1>3. ShutdownComplete
  BY DEF IInv, JoinSound, NativesCounted, QueueExact, Receiving, ShutdownComplete
<1> QED BY <1>1, <1>2, <1>3 DEF IInv, WorkerSound

(* However calls, interruptions, preflights and shutdowns interleave: a VM  *)
(* whose script was cut short runs nothing more and is retired before the   *)
(* caller learns of it, the runtime closes for a reason only, and shutdown  *)
(* returns with nothing left running.                                       *)
THEOREM WorkerIsSound == Spec => []WorkerSound
BY InitIInv, NextIInv, IInvSound, PTL DEF Spec

(* A call that was accepted is in the queue exactly once until the worker   *)
(* takes it or tells its caller that the runtime is closed.                 *)
THEOREM AcceptedCallsAreQueued == Spec => []QueueExact
<1>1. IInv => QueueExact BY DEF IInv
<1> QED BY InitIInv, NextIInv, <1>1, PTL DEF Spec
-----------------------------------------------------------------------------
(***************************************************************************)
(* The manager.  One thread mutates at a time, and what it has got to says  *)
(* where the packages are; only the published object and the one a mutation *)
(* works on run anything, and a generation tells whether a worker still     *)
(* fits the pool.                                                           *)
(***************************************************************************)

Worker == [code : Nat, settings : Nat, open : BOOLEAN]
Installed == [version : Nat, enabled : BOOLEAN, vm : [code : Nat, open : BOOLEAN],
              gen : Nat, match : Nat, idle : Worker, active : SUBSET Callers]
Candidates == {"install", "publish", "upgrade", "swap", "activate", "retire", "replace"}
Removing == {"unload", "remove", "eraseSource", "eraseData"}
OfEntry == {"enable", "disable", "update"}
Using == {"initialize", "call", "download", "calling", "borrowing", "downloading"}
CallerPlaces == {"idle"} \cup Candidates \cup Removing \cup OfEntry \cup Using

MgrTyped ==
  /\ disk \in [target : Nat, stage : Nat, backup : Nat, left : SUBSET Nat]
  /\ data \in [exists : BOOLEAN, settings : Nat, enabled : BOOLEAN]
  /\ entries \in {0} \cup Objects /\ made \in Nat /\ crashes \in Nat
  /\ obj \in [Objects -> Installed]
  /\ caller \in [Callers -> [pc : CallerPlaces, o : {0} \cup Objects, v : Nat, s : Nat,
                             gen : Nat, worker : Worker]]
  /\ mode \in {"open", "closing", "closed"}
  /\ past \in [known : Nat, gone : BOOLEAN]

(* Objects are numbered as they are made, and mutations exclude each other. *)
ObjectsMade ==
  /\ entries <= made
  /\ \A t \in Callers : caller[t].o <= made /\ (caller[t].pc # "idle" => caller[t].o \in Objects)
OneMutates == \A t, u \in Mutating : t = u
EntryMutated == \A t \in Callers : caller[t].pc \in OfEntry => caller[t].o = entries

(* The object of an install or an upgrade: nobody else has it yet, and its  *)
(* package is where the operation has got to.                               *)
CandidateSound(t) ==
  caller[t].pc \in Candidates =>
    LET c == caller[t] IN
    /\ c.v # 0 /\ obj[c.o].version = c.v /\ c.o # entries
    /\ \A u \in Callers : u # t => caller[u].o # c.o
    /\ obj[c.o].vm.code \in {0, c.v} /\ obj[c.o].idle = NoWorker
    /\ (entries = 0) = (c.pc \in {"install", "publish"})
    /\ c.pc \in {"install", "upgrade", "swap", "activate"} => disk.stage = c.v
    /\ c.pc \in {"install", "activate"} => disk.target = 0
    /\ c.pc = "activate" => disk.backup = obj[entries].version
    /\ c.pc \in {"publish", "retire", "replace"} => disk.target = c.v
BackupInUse ==
  disk.backup # 0 => \E t \in Callers : caller[t].pc \in {"activate", "retire", "replace"}

(* The object that is being removed.                                        *)
RemovalSound(t) ==
  caller[t].pc \in Removing =>
    LET c == caller[t] IN
    /\ entries = 0 /\ disk.target \in {0, obj[c.o].version}
    /\ c.pc # "unload" => past.known = 0
    /\ c.pc \in {"eraseSource", "eraseData"} => obj[c.o].vm = NoVM /\ obj[c.o].idle = NoWorker

(* The published object runs its version, unless an upgrade will tear it    *)
(* down.                                                                    *)
EntryOwn ==
  entries # 0 /\ (\A t \in Callers : caller[t].pc \notin {"retire", "replace"}) =>
    LET v == obj[entries].version IN
    /\ disk.target \in {0, v}
    /\ obj[entries].vm.code \in {0, v} /\ obj[entries].idle.code \in {0, v}
    /\ \A t \in Callers : caller[t].o = entries => caller[t].worker.code \in {0, v}

(* A worker is open and known to its object; if the pool has not changed    *)
(* since, it has the settings of the pool.                                  *)
WorkersSound ==
  \A t \in Callers : LET c == caller[t] IN
    c.worker # NoWorker =>
      /\ c.worker.open /\ c.pc \in {"borrowing", "downloading"}
      /\ c.pc = "downloading" => t \in obj[c.o].active
      /\ c.gen = obj[c.o].gen => c.worker.settings = obj[c.o].match
IdleSound ==
  \A o \in Objects :
    obj[o].idle # NoWorker => obj[o].idle.open /\ obj[o].idle.settings = obj[o].match
ActiveSound ==
  \A o \in Objects : \A t \in obj[o].active : caller[t].pc = "downloading" /\ caller[t].o = o

(* Only what is published, about to be, or about to be torn down runs.      *)
Runs(o) ==
  \/ obj[o].vm.open \/ obj[o].idle # NoWorker
  \/ \E t \in Callers : caller[t].o = o /\ caller[t].worker # NoWorker
Live(o) ==
  \/ o = entries
  \/ \E t \in Callers : caller[t].o = o /\
       caller[t].pc \in {"swap", "activate", "retire", "replace", "unload", "remove"}
OnlyLiveRuns == \A o \in Objects : Runs(o) => mode = "open" /\ Live(o)

GoneForGood == past.gone => entries = 0 /\ ~data.exists /\ Mutating = {}
KnownKept == past.known # 0 => \E v \in disk.left \cup {disk.target, disk.backup} : v >= past.known

MgrIInv ==
  /\ MgrTyped /\ ObjectsMade /\ OneMutates /\ EntryMutated
  /\ \A t \in Callers : CandidateSound(t) /\ RemovalSound(t)
  /\ BackupInUse /\ EntryOwn /\ WorkersSound /\ IdleSound /\ ActiveSound
  /\ OnlyLiveRuns /\ GoneForGood /\ KnownKept
-----------------------------------------------------------------------------
(* A set of numbers that is not empty has a least one.                       *)
LEMMA LeastNat ==
  ASSUME NEW T, T \subseteq Nat, T # {}
  PROVE  \E m \in T : \A k \in T : m <= k
<1>1. PICK m \in T : \A y \in T : ~(<<y, m>> \in OpToRel(<, Nat)) BY NatLessThanWellFounded, WFMin
<1>2. \A y \in T : ~(y < m) BY <1>1 DEF OpToRel
<1> QED BY <1>2

LEMMA BumpedFresh ==
  ASSUME MgrTyped
  PROVE  Bumped \in Nat /\ \A u \in Callers : caller[u].gen # Bumped
<1> DEFINE gens == {caller[u].gen : u \in Callers}
           n == Cardinality(Callers)
           free == {h \in 1 .. n + 1 : \A u \in Callers : caller[u].gen # h}
<1>1. IsFiniteSet(gens) /\ Cardinality(gens) <= n /\ n \in Nat /\ Cardinality(gens) \in Nat
  <2> DEFINE f == [u \in Callers |-> caller[u].gen]
  <2>1. f \in Surjection(Callers, gens) BY DEF Surjection
  <2>2. IsFiniteSet(Callers) BY ManagerAssumption
  <2> HIDE DEF f, gens
  <2> QED BY <2>1, <2>2, FS_Surjection, FS_CardinalityType
<1>2. IsFiniteSet(1 .. n + 1) /\ Cardinality(1 .. n + 1) = n + 1
  <2>1. 1 \in Int /\ n + 1 \in Int /\ n + 1 >= 1 BY <1>1
  <2> QED BY <2>1, FS_Interval
<1>3. free # {}
  <2> SUFFICES ASSUME free = {} PROVE FALSE OBVIOUS
  <2>1. 1 .. n + 1 \subseteq gens OBVIOUS
  <2>2. Cardinality(1 .. n + 1) <= Cardinality(gens) BY <1>1, <2>1, FS_Subset
  <2> QED BY <1>1, <1>2, <2>2
<1>4. Bumped \in free
  <2>1. \E h \in free : \A k \in free : h <= k
    <3>1. free \subseteq Nat BY <1>1
    <3> HIDE DEF free
    <3> QED BY <1>3, <3>1, LeastNat
  <2> QED BY <2>1 DEF Bumped
<1> QED BY <1>1, <1>4

CallerState == [pc : CallerPlaces, o : {0} \cup Objects, v : Nat, s : Nat,
                gen : Nat, worker : Worker]

(* What happens to a pool: nothing, or no borrower fits it any more.        *)
PoolKept(o, y) ==
  /\ y.active = obj[o].active \/ y.active = {}
  /\ \/ y.gen = obj[o].gen /\ y.match = obj[o].match /\ y.idle \in {obj[o].idle, NoWorker}
     \/ y.idle = NoWorker /\ \A u \in Callers : caller[u].gen # y.gen

(* What may be left of an object after a step that is not an upgrade.       *)
Tame(o, y) == y \in Installed /\ y.version = obj[o].version /\ PoolKept(o, y)

LEMMA Constants ==
  /\ NoWorker \in Worker /\ NoWorker.code = 0 /\ ~NoWorker.open
  /\ NoVM \in [code : Nat, open : BOOLEAN] /\ NoVM.code = 0 /\ ~NoVM.open
  /\ Resting \in CallerState /\ Resting.pc = "idle" /\ Resting.o = 0
  /\ Resting.worker = NoWorker
BY DEF NoWorker, Worker, NoVM, Resting, CallerState, CallerPlaces

LEMMA InvalidateTame ==
  ASSUME MgrTyped, NEW x \in Installed
  PROVE  LET y == Invalidate(x) IN
         /\ y \in Installed /\ y.version = x.version /\ y.vm = x.vm /\ y.idle = NoWorker
         /\ y.active = x.active /\ y.enabled = x.enabled /\ y.match = 0
         /\ y.gen = Bumped
         /\ \A u \in Callers : caller[u].gen # y.gen
<1>1. Bumped \in Nat /\ \A u \in Callers : caller[u].gen # Bumped BY BumpedFresh
<1>2. Invalidate(x) = [x EXCEPT !.gen = Bumped, !.match = 0, !.idle = NoWorker] BY DEF Invalidate
<1>3. NoWorker \in Worker BY Constants
<1> DEFINE y == [x EXCEPT !.gen = Bumped, !.match = 0, !.idle = NoWorker]
<1>4. /\ y \in Installed /\ y.version = x.version /\ y.vm = x.vm /\ y.idle = NoWorker
      /\ y.active = x.active /\ y.enabled = x.enabled /\ y.match = 0
      /\ y.gen = Bumped
  BY <1>1, <1>3 DEF Installed
<1> QED BY <1>1, <1>2, <1>4

LEMMA TornDownTame ==
  ASSUME MgrTyped, NEW o \in Objects
  PROVE  LET y == TornDown(obj[o]) IN
         Tame(o, y) /\ y.vm = NoVM /\ y.idle = NoWorker /\ y.active = {}
<1> DEFINE x == Invalidate(obj[o])
           y == TornDown(obj[o])
<1>1. obj[o] \in Installed BY DEF MgrTyped
<1>2. /\ x \in Installed /\ x.version = obj[o].version /\ x.idle = NoWorker
      /\ \A u \in Callers : caller[u].gen # x.gen
  BY <1>1, InvalidateTame
<1>3. y = [x EXCEPT !.vm = NoVM, !.active = {}] BY DEF TornDown, Invalidate
<1>4. NoVM \in [code : Nat, open : BOOLEAN] BY Constants
<1> HIDE DEF x, y
<1>5. /\ y \in Installed /\ y.version = x.version /\ y.idle = x.idle /\ y.gen = x.gen
      /\ y.vm = NoVM /\ y.active = {}
  BY <1>2, <1>3, <1>4 DEF Installed
<1>6. Tame(o, y) BY <1>2, <1>5 DEF Tame, PoolKept
<1> QED BY <1>2, <1>5, <1>6 DEF y

LEMMA DroppedTame ==
  ASSUME MgrTyped, NEW o \in Objects
  PROVE  LET y == [Invalidate(obj[o]) EXCEPT !.vm = NoVM] IN
         Tame(o, y) /\ y.vm = NoVM /\ y.idle = NoWorker /\ y.active = obj[o].active
<1> DEFINE x == Invalidate(obj[o])
           y == [x EXCEPT !.vm = NoVM]
<1>1. obj[o] \in Installed BY DEF MgrTyped
<1>2. /\ x \in Installed /\ x.version = obj[o].version /\ x.idle = NoWorker
      /\ x.active = obj[o].active
      /\ \A u \in Callers : caller[u].gen # x.gen
  BY <1>1, InvalidateTame
<1>4. NoVM \in [code : Nat, open : BOOLEAN] BY Constants
<1> HIDE DEF x
<1>5. /\ y \in Installed /\ y.version = x.version /\ y.idle = x.idle /\ y.gen = x.gen
      /\ y.vm = NoVM /\ y.active = x.active
  BY <1>2, <1>4 DEF Installed
<1>6. Tame(o, y) BY <1>2, <1>5 DEF Tame, PoolKept
<1> QED BY <1>2, <1>5, <1>6 DEF x

(* The object after ready_with_lease().                                     *)
LEMMA ReadyTame ==
  ASSUME MgrTyped, NEW o \in Objects, SourceOf(o) \in Nat
  PROVE  LET y == Ready(o) IN
         /\ Tame(o, y) /\ y.vm.code \in {obj[o].vm.code, SourceOf(o)}
         /\ y.active = obj[o].active /\ y.idle \in {obj[o].idle, NoWorker}
<1> DEFINE x == IF obj[o].vm.code # 0 /\ ~obj[o].vm.open
                THEN [Invalidate(obj[o]) EXCEPT !.vm = NoVM] ELSE obj[o]
           w == IF x.vm.code # 0 THEN x.vm ELSE [code |-> SourceOf(o), open |-> TRUE]
           y == [x EXCEPT !.vm = w]
<1>1. Ready(o) = y BY DEF Ready
<1>2. obj[o] \in Installed BY DEF MgrTyped
<1>3. Tame(o, obj[o]) BY <1>2 DEF Tame, PoolKept
<1>4. /\ Tame(o, x) /\ x.vm \in {obj[o].vm, NoVM} /\ x.active = obj[o].active
      /\ x.idle \in {obj[o].idle, NoWorker}
  BY <1>3, DroppedTame
<1>5. NoVM.code = 0 BY Constants
<1> HIDE DEF x
<1>6. x \in Installed BY <1>4 DEF Tame
<1>7. w \in [code : Nat, open : BOOLEAN] BY <1>6 DEF Installed
<1>8. w.code \in {obj[o].vm.code, SourceOf(o)} BY <1>4, <1>5
<1> HIDE DEF w
<1>9. /\ y \in Installed /\ y.version = x.version /\ y.idle = x.idle /\ y.gen = x.gen
      /\ y.match = x.match /\ y.vm = w /\ y.active = x.active
  BY <1>6, <1>7 DEF Installed
<1>10. Tame(o, y) BY <1>4, <1>9 DEF Tame, PoolKept
<1> QED BY <1>1, <1>4, <1>8, <1>9, <1>10

LEMMA NotReadyTame ==
  ASSUME MgrTyped, NEW o \in Objects, NEW y \in NotReady(o)
  PROVE  /\ Tame(o, y) /\ Tame(o, Disabled(y))
         /\ y.vm \in {obj[o].vm, NoVM} /\ Disabled(y).vm = y.vm
         /\ y.idle \in {obj[o].idle, NoWorker} /\ Disabled(y).idle = y.idle
         /\ Disabled(y).active = y.active
<1>2. obj[o] \in Installed BY DEF MgrTyped
<1>3. Tame(o, obj[o]) BY <1>2 DEF Tame, PoolKept
<1>4. y \in {obj[o], [Invalidate(obj[o]) EXCEPT !.vm = NoVM], TornDown(obj[o])} BY DEF NotReady
<1>5. Tame(o, y) /\ y.vm \in {obj[o].vm, NoVM} /\ y.idle \in {obj[o].idle, NoWorker}
  BY <1>3, <1>4, DroppedTame, TornDownTame
<1>6. y \in Installed BY <1>5 DEF Tame
<1>7. Disabled(y) = [y EXCEPT !.enabled = FALSE] BY DEF Disabled
<1> HIDE DEF Disabled
<1>8. LET d == Disabled(y) IN
      /\ d \in Installed /\ d.version = y.version /\ d.idle = y.idle /\ d.gen = y.gen
      /\ d.match = y.match /\ d.vm = y.vm /\ d.active = y.active
  BY <1>6, <1>7 DEF Installed
<1>9. Tame(o, Disabled(y)) BY <1>5, <1>8 DEF Tame, PoolKept
<1> QED BY <1>5, <1>8, <1>9
-----------------------------------------------------------------------------
(* The pools, when one object changes and nobody returns a worker.          *)
Rests(u, o, y) ==
  \/ caller'[u] = caller[u] /\ u \notin obj[o].active \ y.active
  \/ /\ caller'[u].worker = NoWorker
     /\ \/ caller[u].pc # "downloading"
        \/ caller'[u].pc = caller[u].pc /\ caller'[u].o = caller[u].o
  \/ /\ caller[u].pc # "downloading" /\ caller'[u].pc = "borrowing" /\ caller'[u].o = o
     /\ caller'[u].worker.open /\ caller'[u].worker.settings = y.match

LEMMA PoolStep ==
  ASSUME MgrTyped, ObjectsMade, WorkersSound, IdleSound, ActiveSound,
         NEW STATE o, o \in Objects, NEW STATE y, y \in Installed, PoolKept(o, y),
         obj' = [obj EXCEPT ![o] = y],
         \A u \in Callers : Rests(u, o, y)
  PROVE  WorkersSound' /\ IdleSound' /\ ActiveSound'
<1>1. /\ obj'[o] = y
      /\ \A p \in Objects : p # o => obj'[p] = obj[p]
      /\ \A p \in Objects : obj'[p].active \subseteq obj[p].active
  BY DEF MgrTyped, PoolKept
<1>2. ActiveSound'
  <2> SUFFICES ASSUME NEW p \in Objects, NEW u \in obj'[p].active
               PROVE  caller'[u].pc = "downloading" /\ caller'[u].o = p
    BY DEF ActiveSound
  <2>1. u \in obj[p].active BY <1>1
  <2>2. caller[u].pc = "downloading" /\ caller[u].o = p BY <2>1 DEF ActiveSound
  <2>3. u \in Callers BY <2>1 DEF MgrTyped, Installed
  <2>4. Rests(u, o, y) BY <2>3
  <2> QED BY <2>2, <2>4 DEF Rests
<1>3. WorkersSound'
  <2> SUFFICES ASSUME NEW u \in Callers, caller'[u].worker # NoWorker
               PROVE  /\ caller'[u].worker.open /\ caller'[u].pc \in {"borrowing", "downloading"}
                      /\ caller'[u].pc = "downloading" => u \in obj'[caller'[u].o].active
                      /\ caller'[u].gen = obj'[caller'[u].o].gen
                           => caller'[u].worker.settings = obj'[caller'[u].o].match
    BY DEF WorkersSound
  <2>10. CASE caller'[u].pc = "borrowing" /\ caller'[u].o = o
              /\ caller'[u].worker.open /\ caller'[u].worker.settings = y.match
    BY <1>1, <2>10
  <2> SUFFICES ASSUME caller'[u] = caller[u] /\ u \notin obj[o].active \ y.active
               PROVE  /\ caller'[u].worker.open /\ caller'[u].pc \in {"borrowing", "downloading"}
                      /\ caller'[u].pc = "downloading" => u \in obj'[caller'[u].o].active
                      /\ caller'[u].gen = obj'[caller'[u].o].gen
                           => caller'[u].worker.settings = obj'[caller'[u].o].match
    BY <2>10 DEF Rests
  <2>1. caller'[u] = caller[u] /\ u \notin obj[o].active \ y.active OBVIOUS
  <2>2. /\ caller[u].worker.open /\ caller[u].pc \in {"borrowing", "downloading"}
        /\ caller[u].pc = "downloading" => u \in obj[caller[u].o].active
        /\ caller[u].gen = obj[caller[u].o].gen
             => caller[u].worker.settings = obj[caller[u].o].match
    BY <2>1 DEF WorkersSound
  <2>3. caller[u].o \in Objects BY <2>2 DEF ObjectsMade
  <2>4. CASE caller[u].o = o BY <1>1, <2>1, <2>2, <2>4 DEF PoolKept
  <2>5. CASE caller[u].o # o BY <1>1, <2>1, <2>2, <2>3, <2>5
  <2> QED BY <2>4, <2>5
<1>4. IdleSound' BY <1>1 DEF IdleSound, PoolKept
<1> QED BY <1>2, <1>3, <1>4

(* A step outside installs, upgrades and removals: what becomes of an       *)
(* object and of the threads.                                               *)
Exchanging == \E u \in Callers : caller[u].pc \in {"retire", "replace"}
Held(o, y) ==
  /\ y.version = obj[o].version
  /\ \A u \in Callers : caller[u].pc \in Candidates => caller[u].o # o
  /\ y.vm.open => obj[o].vm.open \/ (mode = "open" /\ o = entries)
  /\ y.idle # NoWorker => obj[o].idle # NoWorker \/ (mode = "open" /\ o = entries)
  /\ o # entries /\ obj[o].vm = NoVM => y.vm = NoVM
  /\ o = entries /\ ~Exchanging =>
       y.vm.code \in {0, obj[o].version} /\ y.idle.code \in {0, obj[o].version}
Follows(u) ==
  \/ caller'[u] = caller[u]
  \/ /\ caller[u].pc \notin Candidates \cup Removing
     /\ caller'[u].pc \notin Candidates \cup Removing
     /\ caller'[u].pc \in OfEntry => caller'[u].o = entries
     /\ caller'[u].o \in {caller[u].o, 0, entries}
     /\ caller'[u].pc # "idle" => caller'[u].o \in Objects
     /\ caller'[u].worker # NoWorker =>
          \/ caller'[u].worker = caller[u].worker /\ caller'[u].o = caller[u].o
          \/ /\ mode = "open" /\ caller'[u].o = entries
             /\ Exchanging \/ caller'[u].worker.code \in {0, obj[entries].version}

LEMMA ObjectStep ==
  ASSUME MgrIInv, NEW STATE o, o \in Objects, NEW STATE y, y \in Installed, Held(o, y),
         UNCHANGED <<disk, entries, made, mode, crashes, past>>,
         obj' = [obj EXCEPT ![o] = y],
         data' \in [exists : BOOLEAN, settings : Nat, enabled : BOOLEAN],
         data'.exists => data.exists \/ entries # 0,
         caller' \in [Callers -> CallerState],
         \A u \in Callers : Follows(u),
         WorkersSound' /\ IdleSound' /\ ActiveSound',
         OneMutates', past.gone => Mutating' = {}
  PROVE  MgrIInv'
<1> USE DEF MgrIInv
<1>1. /\ obj'[o] = y /\ \A p \in Objects : p # o => obj'[p] = obj[p]
      /\ \A p \in Objects : obj'[p].version = obj[p].version
      /\ obj' \in [Objects -> Installed]
  BY DEF MgrTyped, Held
<1>2. MgrTyped' BY <1>1 DEF MgrTyped, CallerState
<1>3. ObjectsMade'
  <2> SUFFICES ASSUME NEW u \in Callers
               PROVE  caller'[u].o <= made /\ (caller'[u].pc # "idle" => caller'[u].o \in Objects)
    BY DEF ObjectsMade
  <2>1. Follows(u) OBVIOUS
  <2>2. 0 <= made BY DEF MgrTyped
  <2> QED BY <2>1, <2>2 DEF ObjectsMade, Follows
<1>4. EntryMutated'
  <2> SUFFICES ASSUME NEW u \in Callers, caller'[u].pc \in OfEntry PROVE caller'[u].o = entries
    BY DEF EntryMutated
  <2>1. Follows(u) OBVIOUS
  <2> QED BY <2>1 DEF EntryMutated, Follows
<1>5. ASSUME NEW u \in Callers, caller'[u].pc \in Candidates \cup Removing
      PROVE  caller'[u] = caller[u]
  <2>1. Follows(u) OBVIOUS
  <2> QED BY <1>5, <2>1 DEF Follows
<1>6. ASSUME NEW u \in Callers, caller[u].pc \in Candidates \cup Removing
      PROVE  caller'[u] = caller[u]
  <2>1. Follows(u) OBVIOUS
  <2> QED BY <1>6, <2>1 DEF Follows
<1>7. ASSUME NEW t \in Callers PROVE CandidateSound(t)'
  <2> SUFFICES ASSUME caller'[t].pc \in Candidates PROVE CandidateSound(t)' BY DEF CandidateSound
  <2>1. caller'[t] = caller[t] BY <1>5
  <2>2. CandidateSound(t) OBVIOUS
  <2>3. caller[t].o # o /\ caller[t].o \in Objects /\ caller[t].o # entries /\ caller[t].o # 0
    BY <2>1, <2>2 DEF Held, CandidateSound, ObjectsMade, Candidates, Objects
  <2>4. obj'[caller[t].o] = obj[caller[t].o] BY <1>1, <2>3
  <2>5. ASSUME NEW u \in Callers, u # t PROVE caller'[u].o # caller[t].o
    <3>1. Follows(u) OBVIOUS
    <3>2. caller[u].o # caller[t].o BY <2>1, <2>2, <2>5 DEF CandidateSound
    <3> QED BY <2>3, <3>1, <3>2 DEF Follows
  <2>6. caller[t].pc = "activate" => obj'[entries].version = obj[entries].version
    <3>1. caller[t].pc = "activate" => entries \in Objects
      BY <2>1, <2>2 DEF CandidateSound, MgrTyped
    <3> QED BY <1>1, <3>1
  <2> QED BY <2>1, <2>2, <2>4, <2>5, <2>6 DEF CandidateSound
<1>8. ASSUME NEW t \in Callers PROVE RemovalSound(t)'
  <2> SUFFICES ASSUME caller'[t].pc \in Removing PROVE RemovalSound(t)' BY DEF RemovalSound
  <2>1. caller'[t] = caller[t] BY <1>5
  <2>2. RemovalSound(t) OBVIOUS
  <2>3. caller[t].o \in Objects /\ entries = 0 /\ o # entries
    BY <2>1, <2>2 DEF ObjectsMade, RemovalSound, Removing, Objects
  <2>4. obj[o].vm = NoVM /\ obj[o].idle = NoWorker => y.vm = NoVM /\ y.idle = NoWorker
    BY <2>3 DEF Held
  <2>5. /\ obj'[caller[t].o].version = obj[caller[t].o].version
        /\ obj[caller[t].o].vm = NoVM /\ obj[caller[t].o].idle = NoWorker
             => obj'[caller[t].o].vm = NoVM /\ obj'[caller[t].o].idle = NoWorker
    BY <1>1, <2>3, <2>4
  <2> QED BY <2>1, <2>2, <2>5 DEF RemovalSound
<1>9. BackupInUse'
  <2> SUFFICES ASSUME NEW t \in Callers, caller[t].pc \in {"activate", "retire", "replace"}
               PROVE  caller'[t].pc = caller[t].pc
    BY DEF BackupInUse
  <2> QED BY <1>6 DEF Candidates
<1>10. Exchanging => Exchanging'
  BY <1>6 DEF Exchanging, Candidates
<1>11. EntryOwn'
  <2> SUFFICES ASSUME entries # 0, ~Exchanging
               PROVE  LET v == obj'[entries].version IN
                      /\ disk.target \in {0, v}
                      /\ obj'[entries].vm.code \in {0, v} /\ obj'[entries].idle.code \in {0, v}
                      /\ \A t \in Callers : caller'[t].o = entries => caller'[t].worker.code \in {0, v}
    BY <1>10 DEF EntryOwn, Exchanging
  <2>1. entries \in Objects /\ obj'[entries].version = obj[entries].version BY <1>1 DEF MgrTyped
  <2>2. /\ disk.target \in {0, obj[entries].version}
        /\ obj[entries].vm.code \in {0, obj[entries].version}
        /\ obj[entries].idle.code \in {0, obj[entries].version}
        /\ \A t \in Callers : caller[t].o = entries => caller[t].worker.code \in {0, obj[entries].version}
    BY DEF EntryOwn, Exchanging
  <2>3. /\ obj'[entries].vm.code \in {0, obj[entries].version}
        /\ obj'[entries].idle.code \in {0, obj[entries].version}
    BY <1>1, <2>1, <2>2 DEF Held
  <2>4. ASSUME NEW t \in Callers, caller'[t].o = entries
        PROVE  caller'[t].worker.code \in {0, obj[entries].version}
    <3>1. Follows(t) OBVIOUS
    <3> QED BY <2>2, <2>4, <3>1, Constants DEF Follows
  <2> QED BY <2>1, <2>2, <2>3, <2>4
<1>12. OnlyLiveRuns'
  <2> SUFFICES ASSUME NEW p \in Objects, Runs(p)' PROVE mode = "open" /\ Live(p)'
    BY DEF OnlyLiveRuns
  <2>1. Live(p) => Live(p)'
    <3>1. ASSUME NEW t \in Callers, caller[t].o = p,
                 caller[t].pc \in {"swap", "activate", "retire", "replace", "unload", "remove"}
          PROVE  caller'[t] = caller[t]
      BY <1>6, <3>1 DEF Candidates, Removing
    <3> QED BY <3>1 DEF Live
  <2>2. Runs(p) => mode = "open" /\ Live(p) BY DEF OnlyLiveRuns
  <2>3. p = entries => Live(p)' BY DEF Live
  <2>4. CASE obj'[p].vm.open BY <1>1, <2>1, <2>2, <2>3, <2>4 DEF Held, Runs
  <2>5. CASE obj'[p].idle # NoWorker BY <1>1, <2>1, <2>2, <2>3, <2>5 DEF Held, Runs
  <2>6. ASSUME NEW t \in Callers, caller'[t].o = p, caller'[t].worker # NoWorker
        PROVE  mode = "open" /\ Live(p)'
    <3>1. Follows(t) OBVIOUS
    <3>2. CASE caller'[t].worker = caller[t].worker /\ caller'[t].o = caller[t].o
      <4>1. Runs(p) BY <2>6, <3>2 DEF Runs
      <4> QED BY <2>1, <2>2, <4>1
    <3>3. CASE mode = "open" /\ caller'[t].o = entries BY <2>3, <2>6, <3>3
    <3> QED BY <2>6, <3>1, <3>2, <3>3 DEF Follows
  <2> QED BY <2>4, <2>5, <2>6 DEF Runs
<1>13. GoneForGood' BY DEF GoneForGood
<1>14. KnownKept' BY DEF KnownKept
<1> QED BY <1>2, <1>3, <1>4, <1>7, <1>8, <1>9, <1>11, <1>12, <1>13, <1>14
-----------------------------------------------------------------------------
LEMMA JoinedCallers ==
  ASSUME MgrTyped, NEW o \in Objects, NEW y, NEW t \in Callers, NEW c \in CallerState
  PROVE  LET j == [Joined(obj[o], y) EXCEPT ![t] = c] IN
         /\ j \in [Callers -> CallerState] /\ j[t] = c
         /\ \A u \in Callers : u # t =>
              j[u] = IF u \in obj[o].active \ y.active
                     THEN [caller[u] EXCEPT !.worker = NoWorker] ELSE caller[u]
<1>1. Joined(obj[o], y) \in [Callers -> CallerState]
  <2>1. ASSUME NEW u \in Callers
        PROVE  [caller[u] EXCEPT !.worker = NoWorker] \in CallerState /\ caller[u] \in CallerState
    BY Constants DEF MgrTyped, CallerState
  <2> QED BY <2>1 DEF Joined
<1> QED BY <1>1 DEF Joined

LEMMA MovedCallers ==
  ASSUME MgrTyped, NEW t \in Callers, NEW c \in CallerState
  PROVE  LET j == [caller EXCEPT ![t] = c] IN
         /\ j \in [Callers -> CallerState] /\ j[t] = c
         /\ \A u \in Callers : u # t => j[u] = caller[u]
BY DEF MgrTyped, CallerState

(* A thread that is neither installing nor removing takes a step and holds  *)
(* no worker.                                                               *)
Steps(t, c) ==
  /\ caller[t].pc \notin Candidates \cup Removing \cup {"downloading"}
  /\ c \in CallerState /\ c.worker = NoWorker /\ c.pc \in {"idle"} \cup Using \cup OfEntry
  /\ c.o \in {caller[t].o, 0, entries} /\ (c.pc # "idle" => c.o \in Objects)
  /\ c.pc \in OfEntry => c.o = entries /\ MutationFree
DataNext ==
  /\ data' \in [exists : BOOLEAN, settings : Nat, enabled : BOOLEAN]
  /\ data'.exists => data.exists \/ entries # 0
Uses(t, o, y, c) ==
  /\ UNCHANGED <<disk, entries, made, mode, crashes, past>>
  /\ obj' = [obj EXCEPT ![o] = y]
  /\ DataNext
  /\ caller' \in [Callers -> CallerState] /\ caller'[t] = c
  /\ \A u \in Callers : u # t =>
       caller'[u] = IF u \in obj[o].active \ y.active
                    THEN [caller[u] EXCEPT !.worker = NoWorker] ELSE caller[u]

LEMMA UseStep ==
  ASSUME MgrIInv, NEW STATE o, o \in Objects, NEW STATE y, Tame(o, y), Held(o, y),
         NEW t \in Callers, NEW STATE c, Steps(t, c), Uses(t, o, y, c)
  PROVE  MgrIInv'
<1> USE DEF Steps
<1>1. y \in Installed /\ PoolKept(o, y) BY DEF Tame
<1>0. UNCHANGED <<disk, entries, made, mode, crashes, past>> /\ obj' = [obj EXCEPT ![o] = y] BY DEF Uses
<1>2. ASSUME NEW u \in Callers, u # t
      PROVE  /\ caller'[u].pc = caller[u].pc /\ caller'[u].o = caller[u].o
             /\ \/ caller'[u] = caller[u] /\ u \notin obj[o].active \ y.active
                \/ caller'[u].worker = NoWorker /\ caller[u].pc = "downloading"
  <2>1. u \in obj[o].active => caller[u].pc = "downloading" BY DEF MgrIInv, ActiveSound
  <2>2. caller[u] \in CallerState BY DEF MgrIInv, MgrTyped, CallerState
  <2> QED BY <1>2, <2>1, <2>2 DEF CallerState, Uses
<1>3. t \notin obj[o].active BY DEF MgrIInv, ActiveSound
<1>4. \A u \in Callers : Rests(u, o, y)
  <2>1. Rests(t, o, y) BY DEF Rests, Uses
  <2> QED BY <1>2, <2>1 DEF Rests
<1>5. WorkersSound' /\ IdleSound' /\ ActiveSound' BY <1>0, <1>1, <1>4, PoolStep DEF MgrIInv
<1>6. ASSUME NEW u \in Callers PROVE Follows(u)
  <2>1. CASE u = t BY <2>1 DEF Follows, Using, Candidates, Removing, OfEntry, Uses
  <2>2. CASE u # t
    <3>1. caller[u].pc = "downloading" => caller[u].o \in Objects BY DEF MgrIInv, ObjectsMade
    <3>2. CASE caller'[u] = caller[u] BY <3>2 DEF Follows
    <3>3. CASE caller'[u].worker = NoWorker /\ caller[u].pc = "downloading"
      BY <1>2, <2>2, <3>1, <3>3 DEF Follows, Candidates, Removing, OfEntry
    <3> QED BY <1>2, <2>2, <3>2, <3>3
  <2> QED BY <2>1, <2>2
<1>7. Mutating' = (Mutating \ {t}) \cup (IF c.pc \in OfEntry THEN {t} ELSE {})
  <2>1. \A u \in Callers : u # t => caller'[u].pc = caller[u].pc BY <1>2
  <2> QED BY <2>1 DEF Mutating, Using, OfEntry, Uses
<1>8. OneMutates' BY <1>7 DEF MgrIInv, OneMutates, MutationFree
<1>9. past.gone => Mutating' = {}
  <2>1. past.gone => entries = 0 /\ Mutating = {} BY DEF MgrIInv, GoneForGood
  <2>2. c.pc \in OfEntry => entries # 0 BY DEF OfEntry, Objects
  <2> QED BY <1>7, <2>1, <2>2
<1>10. DataNext /\ caller' \in [Callers -> CallerState] BY DEF Uses
<1> QED BY <1>0, <1>1, <1>5, <1>6, <1>8, <1>9, <1>10, ObjectStep DEF DataNext

(* The object is left as it is.                                             *)
LEMMA KeptHeld ==
  ASSUME MgrIInv, NEW STATE o, o \in Objects,
         \A u \in Callers : caller[u].pc \in Candidates => caller[u].o # o
  PROVE  /\ Tame(o, obj[o]) /\ Held(o, obj[o])
         /\ obj = [obj EXCEPT ![o] = obj[o]]
<1>1. obj[o] \in Installed BY DEF MgrIInv, MgrTyped
<1>2. Tame(o, obj[o]) BY <1>1 DEF Tame, PoolKept
<1>3. o = entries /\ ~Exchanging =>
        obj[o].vm.code \in {0, obj[o].version} /\ obj[o].idle.code \in {0, obj[o].version}
  BY DEF MgrIInv, EntryOwn, Exchanging, Objects
<1>4. Held(o, obj[o]) BY <1>3 DEF Held
<1>5. obj = [obj EXCEPT ![o] = obj[o]] BY DEF MgrIInv, MgrTyped
<1> QED BY <1>2, <1>4, <1>5

LEMMA EntryNoCandidate ==
  ASSUME MgrIInv, entries # 0
  PROVE  /\ entries \in Objects
         /\ \A u \in Callers : caller[u].pc \in Candidates => caller[u].o # entries
BY DEF MgrIInv, MgrTyped, CandidateSound

(* Threads that use an object or mutate the entry share theirs with no      *)
(* candidate.                                                               *)
LEMMA UserNoCandidate ==
  ASSUME MgrIInv, NEW t \in Callers, caller[t].pc \in Using \cup OfEntry
  PROVE  /\ caller[t].o \in Objects
         /\ \A u \in Callers : caller[u].pc \in Candidates => caller[u].o # caller[t].o
<1>1. caller[t].o \in Objects BY DEF MgrIInv, ObjectsMade, Using, OfEntry
<1>2. ASSUME NEW u \in Callers, caller[u].pc \in Candidates PROVE caller[u].o # caller[t].o
  <2>1. u # t BY <1>2 DEF Candidates, Using, OfEntry
  <2>2. CandidateSound(u) BY DEF MgrIInv
  <2> QED BY <1>2, <2>1, <2>2 DEF CandidateSound
<1> QED BY <1>1, <1>2

(* What ready_with_lease() leaves of the published object.                  *)
LEMMA EntrySource ==
  ASSUME MgrIInv, NEW STATE o, o \in Objects,
         \A u \in Callers : caller[u].pc \in Candidates => caller[u].o # o
  PROVE  /\ SourceOf(o) = disk.target /\ SourceOf(o) \in Nat
         /\ o = entries /\ ~Exchanging => SourceOf(o) \in {0, obj[o].version}
<1>1. SourceOf(o) = disk.target BY DEF SourceOf, Candidates
<1> QED BY <1>1 DEF MgrIInv, MgrTyped, EntryOwn, Exchanging, Objects

LEMMA ReadyHeld ==
  ASSUME MgrIInv, mode = "open", entries # 0
  PROVE  /\ Tame(entries, Ready(entries)) /\ Held(entries, Ready(entries))
         /\ Ready(entries).active = obj[entries].active
<1>1. /\ entries \in Objects
      /\ \A u \in Callers : caller[u].pc \in Candidates => caller[u].o # entries
  BY EntryNoCandidate
<1>2. /\ SourceOf(entries) \in Nat
      /\ ~Exchanging => SourceOf(entries) \in {0, obj[entries].version}
  BY <1>1, EntrySource
<1>3. /\ Tame(entries, Ready(entries))
      /\ Ready(entries).vm.code \in {obj[entries].vm.code, SourceOf(entries)}
      /\ Ready(entries).active = obj[entries].active
      /\ Ready(entries).idle \in {obj[entries].idle, NoWorker}
  BY <1>1, <1>2, ReadyTame DEF MgrIInv
<1>4. Held(entries, obj[entries]) BY <1>1, KeptHeld
<1>5. Held(entries, Ready(entries)) BY <1>1, <1>2, <1>3, <1>4, Constants DEF Held, Tame
<1> QED BY <1>3, <1>5

LEMMA NotReadyHeld ==
  ASSUME MgrIInv, NEW STATE o, o \in Objects, NEW STATE y, y \in NotReady(o),
         \A u \in Callers : caller[u].pc \in Candidates => caller[u].o # o
  PROVE  /\ Tame(o, y) /\ Held(o, y)
         /\ Tame(o, Disabled(y)) /\ Held(o, Disabled(y)) /\ Disabled(y).active = y.active
<1>1. /\ Tame(o, y) /\ Tame(o, Disabled(y))
      /\ y.vm \in {obj[o].vm, NoVM} /\ Disabled(y).vm = y.vm
      /\ y.idle \in {obj[o].idle, NoWorker} /\ Disabled(y).idle = y.idle
      /\ Disabled(y).active = y.active
  BY NotReadyTame DEF MgrIInv
<1>2. Held(o, obj[o]) BY KeptHeld
<1>3. Held(o, y) BY <1>1, <1>2, Constants DEF Held, Tame
<1>4. Held(o, Disabled(y)) BY <1>1, <1>3 DEF Held, Tame
<1> QED BY <1>1, <1>3, <1>4

LEMMA TornDownHeld ==
  ASSUME MgrIInv, NEW STATE o, o \in Objects,
         \A u \in Callers : caller[u].pc \in Candidates => caller[u].o # o
  PROVE  Tame(o, TornDown(obj[o])) /\ Held(o, TornDown(obj[o]))
<1>1. /\ Tame(o, TornDown(obj[o])) /\ TornDown(obj[o]).vm = NoVM
      /\ TornDown(obj[o]).idle = NoWorker
  BY TornDownTame DEF MgrIInv
<1> QED BY <1>1, Constants DEF Held, Tame
-----------------------------------------------------------------------------
LEMMA RestingCaller ==
  ASSUME NEW pc \in CallerPlaces, NEW o \in {0} \cup Objects
  PROVE  LET c == [Resting EXCEPT !.pc = pc, !.o = o] IN
         c \in CallerState /\ c.pc = pc /\ c.o = o /\ c.worker = NoWorker
BY Constants DEF CallerState, Resting

LEMMA RestingSteps ==
  ASSUME NEW t \in Callers, caller[t].pc \in (Using \cup OfEntry) \ {"downloading"}
  PROVE  Steps(t, Resting)
<1>1. caller[t].pc \notin Candidates \cup Removing \cup {"downloading"}
  BY DEF Candidates, Removing, Using, OfEntry
<1>2. "idle" \notin OfEntry BY DEF OfEntry
<1> QED BY <1>1, <1>2, Constants DEF Steps

(* An object stays as it is, and a thread moves.                            *)
LEMMA MoveStep ==
  ASSUME MgrIInv, NEW STATE o, o \in Objects,
         \A u \in Callers : caller[u].pc \in Candidates => caller[u].o # o,
         NEW t \in Callers, NEW STATE c, Steps(t, c),
         UNCHANGED <<disk, entries, made, mode, crashes, past, obj>>, DataNext, Move(t, c)
  PROVE  MgrIInv'
<1> DEFINE y == obj[o]
<1>1. Tame(o, y) /\ Held(o, y) /\ obj' = [obj EXCEPT ![o] = y]
  BY KeptHeld
<1>2. /\ caller' \in [Callers -> CallerState] /\ caller'[t] = c
      /\ \A u \in Callers : u # t => caller'[u] = caller[u]
  BY MovedCallers DEF MgrIInv, Move, Steps
<1>3. obj[o].active \ y.active = {} OBVIOUS
<1> HIDE DEF y
<1>4. Uses(t, o, y, c) BY <1>1, <1>2, <1>3 DEF Uses
<1> QED BY <1>1, <1>4, UseStep

LEMMA DataTyped ==
  ASSUME MgrIInv
  PROVE  LET Data == [exists : BOOLEAN, settings : Nat, enabled : BOOLEAN] IN
         /\ data \in Data /\ Touched \in Data
         /\ Touched.exists /\ Touched.settings = data.settings
         /\ \A on \in BOOLEAN : \A d \in Saved(on) : d \in Data
         /\ UNCHANGED data => DataNext
         /\ entries # 0 /\ data' \in {data, Touched} => DataNext
         /\ entries # 0 /\ (\E on \in BOOLEAN : data' \in Saved(on)) => DataNext
<1>1. LET Data == [exists : BOOLEAN, settings : Nat, enabled : BOOLEAN] IN
      /\ data \in Data /\ Touched \in Data
      /\ Touched.exists /\ Touched.settings = data.settings
      /\ \A on \in BOOLEAN : \A d \in Saved(on) : d \in Data
  BY DEF MgrIInv, MgrTyped, Touched, Saved
<1> QED BY <1>1 DEF DataNext


LEMMA SetEnabledStep ==
  ASSUME MgrIInv, NEW t \in Callers, NEW on \in BOOLEAN, SetEnabled(t, on)
  PROVE  MgrIInv'
<1> DEFINE y == [obj[entries] EXCEPT !.enabled = on]
           c == [Resting EXCEPT !.pc = IF on THEN "enable" ELSE "disable", !.o = entries]
<1>1. /\ caller[t].pc = "idle" /\ MutationFree /\ entries # 0
      /\ obj' = [obj EXCEPT ![entries].enabled = on] /\ Move(t, c)
      /\ UNCHANGED <<disk, data, entries, made, mode, crashes, past>>
  BY DEF SetEnabled
<1>2. entries \in Objects /\ (\A u \in Callers : caller[u].pc \in Candidates => caller[u].o # entries)
  BY <1>1, EntryNoCandidate
<1>3. obj' = [obj EXCEPT ![entries] = y] BY <1>1
<1>4. Tame(entries, obj[entries]) /\ Held(entries, obj[entries]) BY <1>2, KeptHeld
<1>5. obj[entries] \in Installed BY <1>4 DEF Tame
<1>6. /\ y \in Installed /\ y.version = obj[entries].version /\ y.vm = obj[entries].vm
      /\ y.gen = obj[entries].gen /\ y.match = obj[entries].match /\ y.idle = obj[entries].idle
      /\ y.active = obj[entries].active
  BY <1>5 DEF Installed
<1> HIDE DEF y
<1>7. Tame(entries, y) /\ Held(entries, y) BY <1>4, <1>6 DEF Tame, PoolKept, Held
<1>8. c \in CallerState /\ c.pc \in OfEntry /\ c.o = entries /\ c.worker = NoWorker
  <2> DEFINE pc == IF on THEN "enable" ELSE "disable"
  <2>1. pc \in CallerPlaces /\ pc \in OfEntry BY DEF CallerPlaces, OfEntry
  <2> HIDE DEF pc
  <2>2. LET d == [Resting EXCEPT !.pc = pc, !.o = entries] IN
        d \in CallerState /\ d.pc = pc /\ d.o = entries /\ d.worker = NoWorker
    BY <1>2, <2>1, RestingCaller
  <2> QED BY <2>1, <2>2 DEF pc
<1> HIDE DEF c
<1>9. Steps(t, c) BY <1>1, <1>2, <1>8 DEF Steps, OfEntry, Candidates, Removing
<1>10. /\ caller' \in [Callers -> CallerState] /\ caller'[t] = c
       /\ \A u \in Callers : u # t => caller'[u] = caller[u]
  BY <1>1, <1>8, MovedCallers DEF MgrIInv, Move
<1>11. DataNext BY <1>1, DataTyped
<1>12. Uses(t, entries, y, c) BY <1>1, <1>3, <1>6, <1>10, <1>11 DEF Uses
<1> QED BY <1>2, <1>7, <1>9, <1>12, UseStep

(* An action of a thread that ends with the object as y and the thread as c. *)
LEMMA ObjectUse ==
  ASSUME MgrIInv, NEW t \in Callers, caller[t].pc \in (Using \cup OfEntry) \ {"downloading"},
         NEW STATE y, Tame(caller[t].o, y), Held(caller[t].o, y),
         NEW STATE c, Steps(t, c),
         UNCHANGED <<disk, entries, made, mode, crashes, past>>,
         obj' = [obj EXCEPT ![caller[t].o] = y], DataNext,
         \/ caller' = [Joined(obj[caller[t].o], y) EXCEPT ![t] = c]
         \/ caller' = [caller EXCEPT ![t] = c] /\ y.active = obj[caller[t].o].active
  PROVE  MgrIInv'
<1>1. caller[t].o \in Objects BY UserNoCandidate
<1>2. PICK o \in Objects : o = caller[t].o BY <1>1
<1>3. /\ caller' \in [Callers -> CallerState] /\ caller'[t] = c
      /\ \A u \in Callers : u # t =>
           caller'[u] = IF u \in obj[o].active \ y.active
                        THEN [caller[u] EXCEPT !.worker = NoWorker] ELSE caller[u]
  <2>0. c \in CallerState BY DEF Steps
  <2>1. CASE caller' = [Joined(obj[o], y) EXCEPT ![t] = c]
    BY <2>0, <2>1, JoinedCallers DEF MgrIInv
  <2>2. CASE caller' = [caller EXCEPT ![t] = c] /\ y.active = obj[o].active
    BY <2>0, <2>2, MovedCallers DEF MgrIInv
  <2> QED BY <1>2, <2>1, <2>2
<1>4. Uses(t, o, y, c) BY <1>2, <1>3 DEF Uses
<1>5. Tame(o, y) /\ Held(o, y) BY <1>2
<1> QED BY <1>4, <1>5, UseStep

LEMMA EnableStep ==
  ASSUME MgrIInv, NEW t \in Callers, Enable(t)
  PROVE  MgrIInv'
<1> DEFINE o == caller[t].o
<1>1. caller[t].pc = "enable" /\ UNCHANGED <<disk, entries, made, mode, crashes, past>> BY DEF Enable
<1>2. o = entries /\ o \in Objects BY <1>1, UserNoCandidate DEF MgrIInv, EntryMutated, OfEntry
<1>3. \A u \in Callers : caller[u].pc \in Candidates => caller[u].o # o
  BY <1>1, UserNoCandidate DEF OfEntry
<1>4. PICK y : /\ Tame(o, y) /\ Held(o, y) /\ obj' = [obj EXCEPT ![o] = y]
               /\ \E on \in BOOLEAN : data' \in Saved(on)
  <2>1. CASE CanReady(o) /\ obj' = [obj EXCEPT ![o] = Ready(o)] /\ data' \in Saved(TRUE)
    <3>1. mode = "open" /\ entries # 0 BY <1>2, <2>1 DEF CanReady, Objects
    <3>2. Tame(o, Ready(o)) /\ Held(o, Ready(o)) BY <1>2, <3>1, ReadyHeld
    <3> QED BY <2>1, <3>2
  <2>2. ASSUME NEW z \in NotReady(o), obj' = [obj EXCEPT ![o] = Disabled(z)], data' \in Saved(FALSE)
        PROVE  /\ Tame(o, Disabled(z)) /\ Held(o, Disabled(z))
               /\ obj' = [obj EXCEPT ![o] = Disabled(z)] /\ data' \in Saved(FALSE)
    BY <1>2, <1>3, <2>2, NotReadyHeld
  <2> QED BY <2>1, <2>2 DEF Enable
<1>5. obj'[o] = y BY <1>2, <1>4 DEF MgrIInv, MgrTyped
<1>6. caller' = [Joined(obj[o], y) EXCEPT ![t] = Resting] BY <1>5 DEF Enable
<1>7. DataNext BY <1>2, <1>4, DataTyped DEF Objects
<1>8. caller[t].pc \in (Using \cup OfEntry) \ {"downloading"} BY <1>1 DEF OfEntry
<1>9. Steps(t, Resting) BY <1>8, RestingSteps
<1>10. UNCHANGED <<disk, entries, made, mode, crashes, past>> BY <1>1
<1> QED BY <1>1, <1>4, <1>6, <1>7, <1>8, <1>9, <1>10, ObjectUse

LEMMA DisableStep ==
  ASSUME MgrIInv, NEW t \in Callers, Disable(t)
  PROVE  MgrIInv'
<1> DEFINE o == caller[t].o
           y == TornDown(obj[o])
<1>1. /\ caller[t].pc = "disable" /\ UNCHANGED <<disk, entries, made, mode, crashes, past>>
      /\ obj' = [obj EXCEPT ![o] = y] /\ data' \in Saved(FALSE)
      /\ caller' = [Joined(obj[o], obj'[o]) EXCEPT ![t] = Resting]
  BY DEF Disable
<1>2. o = entries /\ o \in Objects BY <1>1, UserNoCandidate DEF MgrIInv, EntryMutated, OfEntry
<1>3. \A u \in Callers : caller[u].pc \in Candidates => caller[u].o # o
  BY <1>1, UserNoCandidate DEF OfEntry
<1>4. Tame(o, y) /\ Held(o, y) BY <1>2, <1>3, TornDownHeld
<1> HIDE DEF y
<1>5. obj'[o] = y BY <1>1, <1>2 DEF MgrIInv, MgrTyped
<1>6. caller' = [Joined(obj[o], y) EXCEPT ![t] = Resting] BY <1>1, <1>5
<1>7. DataNext
  <2>1. FALSE \in BOOLEAN /\ entries # 0 BY <1>2 DEF Objects
  <2> QED BY <1>1, <2>1, DataTyped
<1>8. caller[t].pc \in (Using \cup OfEntry) \ {"downloading"} BY <1>1 DEF OfEntry
<1>9. Steps(t, Resting) BY <1>8, RestingSteps
<1>10. UNCHANGED <<disk, entries, made, mode, crashes, past>> BY <1>1
<1> QED BY <1>1, <1>4, <1>6, <1>7, <1>8, <1>9, <1>10, ObjectUse

LEMMA UpdateSettingsStep ==
  ASSUME MgrIInv, NEW t \in Callers, UpdateSettings(t)
  PROVE  MgrIInv'
<1> DEFINE c == [Resting EXCEPT !.pc = "update", !.o = entries]
<1>1. /\ caller[t].pc = "idle" /\ MutationFree /\ entries # 0 /\ Move(t, c)
      /\ UNCHANGED <<disk, entries, made, mode, crashes, past, obj>>
      /\ \E on \in BOOLEAN : data' = [exists |-> TRUE, settings |-> data.settings + 1, enabled |-> on]
  BY DEF UpdateSettings
<1>2. entries \in Objects /\ (\A u \in Callers : caller[u].pc \in Candidates => caller[u].o # entries)
  BY <1>1, EntryNoCandidate
<1>3. c \in CallerState /\ c.pc = "update" /\ c.o = entries /\ c.worker = NoWorker
  BY <1>2, RestingCaller DEF CallerPlaces, OfEntry
<1>4. DataNext
  <2>1. PICK on \in BOOLEAN : data' = [exists |-> TRUE, settings |-> data.settings + 1, enabled |-> on]
    BY <1>1
  <2>2. data.settings + 1 \in Nat BY DEF MgrIInv, MgrTyped
  <2> QED BY <1>1, <2>1, <2>2 DEF DataNext
<1> HIDE DEF c
<1>5. Steps(t, c) BY <1>1, <1>2, <1>3 DEF Steps, OfEntry, Candidates, Removing
<1>6. UNCHANGED <<disk, entries, made, mode, crashes, past, obj>> BY <1>1
<1> QED BY <1>1, <1>2, <1>4, <1>5, <1>6, MoveStep

LEMMA BeginStep ==
  ASSUME MgrIInv, NEW t \in Callers, BeginInitialize(t) \/ BeginUse(t)
  PROVE  MgrIInv'
<1>1. PICK pc \in {"initialize", "call", "download"} :
        Move(t, [Resting EXCEPT !.pc = pc, !.o = entries])
  BY DEF BeginInitialize, BeginUse
<1>2. /\ caller[t].pc = "idle" /\ entries # 0
      /\ UNCHANGED <<disk, data, entries, made, mode, crashes, past, obj>>
  BY DEF BeginInitialize, BeginUse
<1>3. entries \in Objects /\ (\A u \in Callers : caller[u].pc \in Candidates => caller[u].o # entries)
  BY <1>2, EntryNoCandidate
<1> DEFINE c == [Resting EXCEPT !.pc = pc, !.o = entries]
<1>4. c \in CallerState /\ c.pc \in Using /\ c.o = entries /\ c.worker = NoWorker
  <2>1. pc \in CallerPlaces /\ pc \in Using BY DEF CallerPlaces, Using
  <2>2. LET d == [Resting EXCEPT !.pc = pc, !.o = entries] IN
        d \in CallerState /\ d.pc = pc /\ d.o = entries /\ d.worker = NoWorker
    BY <1>3, <2>1, RestingCaller
  <2> QED BY <2>1, <2>2
<1>5. DataNext BY <1>2, DataTyped
<1>6. Move(t, c) BY <1>1
<1> HIDE DEF c
<1>7. Steps(t, c) BY <1>2, <1>3, <1>4 DEF Steps, Using, OfEntry, Candidates, Removing
<1> QED BY <1>2, <1>3, <1>5, <1>6, <1>7, MoveStep
-----------------------------------------------------------------------------
LEMMA InvalidateHeld ==
  ASSUME MgrIInv, NEW STATE o, o \in Objects, NEW STATE x, Tame(o, x), Held(o, x)
  PROVE  /\ Tame(o, Invalidate(x)) /\ Held(o, Invalidate(x))
         /\ Tame(o, Disabled(Invalidate(x))) /\ Held(o, Disabled(Invalidate(x)))
         /\ Invalidate(x).active = x.active /\ Disabled(Invalidate(x)).active = x.active
         /\ Invalidate(x).vm = x.vm
<1> DEFINE y == Invalidate(x)
           d == Disabled(y)
<1>1. x \in Installed BY DEF Tame
<1>2. /\ y \in Installed /\ y.version = x.version /\ y.vm = x.vm /\ y.idle = NoWorker
      /\ y.active = x.active
      /\ \A u \in Callers : caller[u].gen # y.gen
  BY <1>1, InvalidateTame DEF MgrIInv
<1>3. d = [y EXCEPT !.enabled = FALSE] BY DEF Disabled
<1> HIDE DEF y, d
<1>4. /\ d \in Installed /\ d.version = y.version /\ d.idle = y.idle /\ d.gen = y.gen
      /\ d.match = y.match /\ d.vm = y.vm /\ d.active = y.active
  BY <1>2, <1>3 DEF Installed
<1>5. Tame(o, y) /\ Tame(o, d) BY <1>2, <1>4 DEF Tame, PoolKept
<1>6. NoWorker.code = 0 BY Constants
<1>7. Held(o, y) /\ Held(o, d) BY <1>2, <1>4, <1>6 DEF Held
<1> QED BY <1>2, <1>4, <1>5, <1>7 DEF y, d

LEMMA CurrentEntry ==
  ASSUME MgrIInv, NEW t \in Callers, caller[t].pc \in Using \cup OfEntry
  PROVE  /\ caller[t].o \in Objects
         /\ \A u \in Callers : caller[u].pc \in Candidates => caller[u].o # caller[t].o
         /\ Current(caller[t].o) => mode = "open" /\ entries # 0 /\ entries = caller[t].o
         /\ Tame(caller[t].o, obj[caller[t].o]) /\ Held(caller[t].o, obj[caller[t].o])
         /\ obj = [obj EXCEPT ![caller[t].o] = obj[caller[t].o]]
         /\ caller[t].pc \notin {"borrowing", "downloading"} => caller[t].worker = NoWorker
<1>1. /\ caller[t].o \in Objects
      /\ \A u \in Callers : caller[u].pc \in Candidates => caller[u].o # caller[t].o
  BY UserNoCandidate
<1>2. Current(caller[t].o) => mode = "open" /\ entries # 0 /\ entries = caller[t].o
  BY <1>1 DEF Current, Objects
<1>3. /\ Tame(caller[t].o, obj[caller[t].o]) /\ Held(caller[t].o, obj[caller[t].o])
      /\ obj = [obj EXCEPT ![caller[t].o] = obj[caller[t].o]]
  BY <1>1, KeptHeld
<1>4. caller[t].pc \notin {"borrowing", "downloading"} => caller[t].worker = NoWorker
  BY DEF MgrIInv, WorkersSound
<1> QED BY <1>1, <1>2, <1>3, <1>4

LEMMA InitializeStep ==
  ASSUME MgrIInv, NEW t \in Callers, Initialize(t)
  PROVE  MgrIInv'
<1> DEFINE o == caller[t].o
<1>1. /\ caller[t].pc \in {"update", "initialize"}
      /\ UNCHANGED <<disk, entries, made, mode, crashes, past>>
      /\ caller' = [caller EXCEPT ![t] = Resting]
  BY DEF Initialize, Return, Move
<1>2. caller[t].pc \in (Using \cup OfEntry) \ {"downloading"} BY <1>1 DEF Using, OfEntry
<1>3. /\ o \in Objects
      /\ Current(o) => mode = "open" /\ entries # 0 /\ entries = o
      /\ Tame(o, obj[o]) /\ Held(o, obj[o]) /\ obj = [obj EXCEPT ![o] = obj[o]]
  BY <1>2, CurrentEntry
<1>4. Steps(t, Resting) BY <1>2, RestingSteps
<1>5. PICK y : /\ Tame(o, y) /\ Held(o, y) /\ obj' = [obj EXCEPT ![o] = y]
               /\ y.active = obj[o].active /\ DataNext
  <2>1. CASE UNCHANGED <<obj, data>>
    <3>1. DataNext BY <2>1, DataTyped
    <3> QED BY <1>3, <2>1, <3>1
  <2>2. CASE Current(o) /\ data' = Touched /\ obj' = [obj EXCEPT ![o] = Invalidate(Ready(o))]
    <3>1. DataNext BY <1>3, <2>2, DataTyped
    <3>2. Tame(o, Ready(o)) /\ Held(o, Ready(o)) /\ Ready(o).active = obj[o].active
      BY <1>3, <2>2, ReadyHeld
    <3>3. /\ Tame(o, Invalidate(Ready(o))) /\ Held(o, Invalidate(Ready(o)))
          /\ Invalidate(Ready(o)).active = obj[o].active
      BY <1>3, <3>2, InvalidateHeld
    <3> QED BY <2>2, <3>1, <3>3
  <2>3. CASE Current(o) /\ data' = Touched /\ obj' = [obj EXCEPT ![o] = Disabled(Invalidate(obj[o]))]
    <3>1. DataNext BY <1>3, <2>3, DataTyped
    <3>2. /\ Tame(o, Disabled(Invalidate(obj[o]))) /\ Held(o, Disabled(Invalidate(obj[o])))
          /\ Disabled(Invalidate(obj[o])).active = obj[o].active
      BY <1>3, InvalidateHeld
    <3> QED BY <2>3, <3>1, <3>2
  <2>4. \/ UNCHANGED <<obj, data>>
        \/ Current(o) /\ data' = Touched /\ obj' = [obj EXCEPT ![o] = Invalidate(Ready(o))]
        \/ Current(o) /\ data' = Touched /\ obj' = [obj EXCEPT ![o] = Disabled(Invalidate(obj[o]))]
    <3>1. CASE ~Current(o) BY <3>1 DEF Initialize
    <3>2. CASE Current(o) BY <3>2 DEF Initialize
    <3> QED BY <3>1, <3>2
  <2> QED BY <2>1, <2>2, <2>3, <2>4
<1> QED BY <1>1, <1>2, <1>4, <1>5, ObjectUse

LEMMA CallStep ==
  ASSUME MgrIInv, NEW t \in Callers, Call(t)
  PROVE  MgrIInv'
<1> DEFINE o == caller[t].o
           c == [caller[t] EXCEPT !.pc = "calling"]
<1>1. caller[t].pc = "call" /\ UNCHANGED <<disk, entries, made, mode, crashes, past>> BY DEF Call
<1>2. caller[t].pc \in (Using \cup OfEntry) \ {"downloading"} BY <1>1 DEF Using, OfEntry
<1>3. /\ o \in Objects
      /\ \A u \in Callers : caller[u].pc \in Candidates => caller[u].o # o
      /\ Current(o) => mode = "open" /\ entries # 0 /\ entries = o
      /\ Tame(o, obj[o]) /\ Held(o, obj[o]) /\ obj = [obj EXCEPT ![o] = obj[o]]
      /\ caller[t].worker = NoWorker
  BY <1>1, <1>2, CurrentEntry
<1>4. Steps(t, Resting) BY <1>2, RestingSteps
<1>5. CASE Return(t) /\ UNCHANGED <<obj, data>>
  <2>1. DataNext BY <1>5, DataTyped
  <2>2. caller' = [caller EXCEPT ![t] = Resting] BY <1>5 DEF Return, Move
  <2>3. obj' = [obj EXCEPT ![o] = obj[o]] BY <1>3, <1>5
  <2> QED BY <1>1, <1>2, <1>3, <1>4, <2>1, <2>2, <2>3, ObjectUse
<1>6. CASE /\ Current(o) /\ obj' = [obj EXCEPT ![o] = Ready(o)] /\ data' = Touched
           /\ Go(t, "calling")
  <2>1. Tame(o, Ready(o)) /\ Held(o, Ready(o)) /\ Ready(o).active = obj[o].active
    BY <1>3, <1>6, ReadyHeld
  <2>2. caller' = [caller EXCEPT ![t] = c] BY <1>6 DEF Go, Move
  <2>3. caller[t] \in CallerState BY DEF MgrIInv, MgrTyped, CallerState
  <2>4. "calling" \in Using /\ "calling" \notin OfEntry /\ "calling" \in CallerPlaces
    BY DEF Using, OfEntry, CallerPlaces
  <2>5. c \in CallerState /\ c.pc = "calling" /\ c.o = o /\ c.worker = NoWorker
    BY <1>3, <2>3, <2>4 DEF CallerState
  <2> HIDE DEF c
  <2>6. Steps(t, c) BY <1>1, <1>3, <2>4, <2>5 DEF Steps, Candidates, Removing
  <2>7. DataNext BY <1>3, <1>6, DataTyped
  <2> QED BY <1>1, <1>2, <1>6, <2>1, <2>2, <2>6, <2>7, ObjectUse
<1>7. ASSUME NEW z \in NotReady(o), Current(o), obj' = [obj EXCEPT ![o] = Disabled(z)],
             caller' = [Joined(obj[o], obj'[o]) EXCEPT ![t] = Resting], data' \in {data, Touched}
      PROVE  MgrIInv'
  <2>1. PICK y : y = Disabled(z) OBVIOUS
  <2>2. Tame(o, y) /\ Held(o, y) BY <1>3, <1>7, <2>1, NotReadyHeld
  <2>3. obj' = [obj EXCEPT ![o] = y] BY <1>7, <2>1
  <2>4. obj'[o] = y BY <1>3, <2>3 DEF MgrIInv, MgrTyped
  <2>5. caller' = [Joined(obj[o], y) EXCEPT ![t] = Resting] BY <1>7, <2>4
  <2>6. DataNext BY <1>3, <1>7, DataTyped
  <2> QED BY <1>1, <1>2, <1>4, <2>2, <2>3, <2>5, <2>6, ObjectUse
<1>8. CASE ~Current(o) \/ ~obj[o].enabled BY <1>5, <1>8 DEF Call
<1>9. CASE ~(~Current(o) \/ ~obj[o].enabled)
  <2>1. \/ obj' = [obj EXCEPT ![o] = Ready(o)] /\ data' = Touched /\ Go(t, "calling")
        \/ /\ \E z \in NotReady(o) : obj' = [obj EXCEPT ![o] = Disabled(z)]
           /\ caller' = [Joined(obj[o], obj'[o]) EXCEPT ![t] = Resting]
           /\ data' \in {data, Touched}
    BY <1>9 DEF Call
  <2> QED BY <1>6, <1>7, <1>9, <2>1
<1> QED BY <1>8, <1>9

LEMMA CallEndsStep ==
  ASSUME MgrIInv, NEW t \in Callers, CallEnds(t)
  PROVE  MgrIInv'
<1> DEFINE o == caller[t].o
<1>1. /\ caller[t].pc = "calling" /\ UNCHANGED <<disk, data, entries, made, mode, crashes, past>>
      /\ caller' = [caller EXCEPT ![t] = Resting]
  BY DEF CallEnds, Return, Move
<1>2. caller[t].pc \in (Using \cup OfEntry) \ {"downloading"} BY <1>1 DEF Using, OfEntry
<1>3. o \in Objects /\ Tame(o, obj[o]) /\ Held(o, obj[o]) BY <1>2, CurrentEntry
<1>4. PICK open \in {obj[o].vm.open, FALSE} : obj' = [obj EXCEPT ![o].vm.open = open] BY DEF CallEnds
<1> DEFINE w == [obj[o].vm EXCEPT !.open = open]
           y == [obj[o] EXCEPT !.vm = w]
<1>5. obj' = [obj EXCEPT ![o] = y] BY <1>4
<1>6. obj[o] \in Installed BY <1>3 DEF Tame
<1>12. obj[o].vm \in [code : Nat, open : BOOLEAN] BY <1>6 DEF Installed
<1>13. /\ w \in [code : Nat, open : BOOLEAN] /\ w.code = obj[o].vm.code
       /\ w.open \in {obj[o].vm.open, FALSE}
  BY <1>12
<1>14. obj[o].vm = NoVM => w = NoVM
  <2> SUFFICES ASSUME obj[o].vm = NoVM PROVE w = NoVM OBVIOUS
  <2>1. NoVM.open = FALSE /\ NoVM.code = 0 BY DEF NoVM
  <2>2. w.open = FALSE /\ w.code = 0 BY <1>13, <2>1
  <2> HIDE DEF w
  <2>3. w = [code |-> w.code, open |-> w.open] BY <1>13
  <2> QED BY <2>2, <2>3, Zenon DEF NoVM
<1> HIDE DEF w
<1>7. /\ y \in Installed /\ y.version = obj[o].version /\ y.vm.code = obj[o].vm.code
      /\ y.vm.open \in {obj[o].vm.open, FALSE} /\ y.gen = obj[o].gen /\ y.match = obj[o].match
      /\ y.idle = obj[o].idle /\ y.active = obj[o].active
      /\ obj[o].vm = NoVM => y.vm = NoVM
  <2>1. /\ y \in Installed /\ y.version = obj[o].version /\ y.vm = w
        /\ y.gen = obj[o].gen /\ y.match = obj[o].match
        /\ y.idle = obj[o].idle /\ y.active = obj[o].active
    BY <1>6, <1>13 DEF Installed
  <2> HIDE DEF y
  <2> QED BY <1>13, <1>14, <2>1
<1> HIDE DEF y
<1>8. Tame(o, y) BY <1>3, <1>7 DEF Tame, PoolKept
<1>9. Held(o, y) BY <1>3, <1>7 DEF Held
<1>10. DataNext BY <1>1, DataTyped
<1>11. Steps(t, Resting) BY <1>2, RestingSteps
<1> QED BY <1>1, <1>2, <1>5, <1>7, <1>8, <1>9, <1>10, <1>11, ObjectUse
-----------------------------------------------------------------------------
(* A worker is borrowed, counted among the active ones and returned.        *)
LEMMA BorrowStep ==
  ASSUME MgrIInv, NEW t \in Callers, Borrow(t)
  PROVE  MgrIInv'
<1> DEFINE o == caller[t].o
           x == Ready(o)
           y == IF x.match = data.settings THEN x
                ELSE [Invalidate(x) EXCEPT !.match = data.settings]
           z == [y EXCEPT !.idle = NoWorker]
           new == [code |-> y.vm.code, settings |-> data.settings, open |-> TRUE]
           w == IF y.idle.open THEN y.idle ELSE new
           c == [caller[t] EXCEPT !.pc = "borrowing", !.gen = y.gen, !.worker = w]
<1>1. caller[t].pc = "download" /\ UNCHANGED <<disk, entries, made, mode, crashes, past>> BY DEF Borrow
<1>2. caller[t].pc \in (Using \cup OfEntry) \ {"downloading"} BY <1>1 DEF Using, OfEntry
<1>3. /\ o \in Objects
      /\ \A u \in Callers : caller[u].pc \in Candidates => caller[u].o # o
      /\ Current(o) => mode = "open" /\ entries # 0 /\ entries = o
      /\ Tame(o, obj[o]) /\ Held(o, obj[o]) /\ obj = [obj EXCEPT ![o] = obj[o]]
  BY <1>1, <1>2, CurrentEntry
<1>4. Steps(t, Resting) BY <1>2, RestingSteps
<1>5. CASE Return(t) /\ UNCHANGED <<obj, data>>
  <2>1. DataNext BY <1>5, DataTyped
  <2>2. caller' = [caller EXCEPT ![t] = Resting] BY <1>5 DEF Return, Move
  <2>3. obj' = [obj EXCEPT ![o] = obj[o]] BY <1>3, <1>5
  <2> QED BY <1>1, <1>2, <1>3, <1>4, <2>1, <2>2, <2>3, ObjectUse
<1>6. ASSUME NEW s \in NotReady(o), Current(o), obj' = [obj EXCEPT ![o] = s],
             caller' = [Joined(obj[o], obj'[o]) EXCEPT ![t] = Resting], data' \in {data, Touched}
      PROVE  MgrIInv'
  <2>1. Tame(o, s) /\ Held(o, s) BY <1>3, <1>6, NotReadyHeld
  <2>2. obj'[o] = s BY <1>3, <1>6 DEF MgrIInv, MgrTyped
  <2>3. caller' = [Joined(obj[o], s) EXCEPT ![t] = Resting] BY <1>6, <2>2
  <2>4. DataNext BY <1>3, <1>6, DataTyped
  <2> QED BY <1>1, <1>2, <1>4, <1>6, <2>1, <2>3, <2>4, ObjectUse
<1>7. CASE Current(o) /\ obj' = [obj EXCEPT ![o] = z] /\ data' = Touched /\ Move(t, c)
  <2>1. /\ Tame(o, x) /\ Held(o, x) /\ x.active = obj[o].active
        /\ mode = "open" /\ o = entries
    BY <1>3, <1>7, ReadyHeld
  <2>2. data.settings \in Nat BY DEF MgrIInv, MgrTyped
  <2>3. /\ Tame(o, y) /\ Held(o, y) /\ y.active = obj[o].active /\ y.match = data.settings
    <3>1. CASE x.match = data.settings BY <2>1, <3>1
    <3>2. CASE x.match # data.settings
      <4> DEFINE i == Invalidate(x)
                 j == [i EXCEPT !.match = data.settings]
      <4>1. /\ Tame(o, i) /\ Held(o, i) /\ i.active = obj[o].active
        BY <1>3, <2>1, InvalidateHeld
      <4>2. i.idle = NoWorker /\ \A u \in Callers : caller[u].gen # i.gen
        BY <2>1, InvalidateTame DEF MgrIInv, Tame
      <4>3. i \in Installed BY <4>1 DEF Tame
      <4>4. y = j BY <3>2
      <4> HIDE DEF i, y
      <4>5. /\ j \in Installed /\ j.version = i.version /\ j.vm = i.vm /\ j.gen = i.gen
            /\ j.match = data.settings /\ j.idle = i.idle /\ j.active = i.active
        BY <2>2, <4>3 DEF Installed
      <4> HIDE DEF j
      <4>6. Tame(o, j) BY <4>1, <4>2, <4>5 DEF Tame, PoolKept
      <4>7. Held(o, j) BY <4>1, <4>5 DEF Held
      <4> QED BY <4>1, <4>4, <4>5, <4>6, <4>7
    <3> QED BY <3>1, <3>2
  <2>4. y \in Installed BY <2>3 DEF Tame
  <2> HIDE DEF x, y
  <2>5. /\ z \in Installed /\ z.version = y.version /\ z.vm = y.vm /\ z.gen = y.gen
        /\ z.match = y.match /\ z.idle = NoWorker /\ z.active = y.active
    BY <2>4, Constants DEF Installed
  <2> HIDE DEF z
  <2>6. Tame(o, z) /\ Held(o, z)
    BY <2>3, <2>5, Constants DEF Tame, PoolKept, Held
  <2>7. /\ w \in Worker /\ w.open /\ w.settings = data.settings
        /\ Exchanging \/ w.code \in {0, obj[o].version}
    <3>1. CASE y.idle.open
      <4>1. w = y.idle BY <3>1
      <4>2. y.idle # NoWorker BY <3>1, Constants
      <4>3. y.idle \in Worker BY <2>4 DEF Installed
      <4>4. y.gen = obj[o].gen /\ y.match = obj[o].match /\ y.idle = obj[o].idle
        BY <2>3, <4>2 DEF Tame, PoolKept
      <4>5. y.idle.settings = data.settings
        BY <1>3, <2>3, <4>2, <4>4 DEF MgrIInv, IdleSound
      <4>6. Exchanging \/ y.idle.code \in {0, obj[o].version} BY <2>1, <2>3 DEF Held
      <4>7. w \in Worker /\ w.settings = data.settings BY <4>1, <4>3, <4>5
      <4>8. w.open BY <3>1, <4>1, Zenon
      <4>9. Exchanging \/ w.code \in {0, obj[o].version} BY <4>1, <4>6, Zenon
      <4> HIDE DEF w
      <4> QED BY <4>7, <4>8, <4>9
    <3>2. CASE ~y.idle.open
      <4>1. w = new BY <3>2
      <4>2. y.vm.code \in Nat BY <2>4 DEF Installed
      <4>3. Exchanging \/ y.vm.code \in {0, obj[o].version} BY <2>1, <2>3 DEF Held
      <4>4. new \in Worker /\ new.settings = data.settings /\ new.code = y.vm.code
        BY <2>2, <4>2 DEF Worker
      <4>5. new.open OBVIOUS
      <4> HIDE DEF new
      <4>6. w \in Worker /\ w.settings = data.settings BY <4>1, <4>4
      <4>7. w.open BY <4>1, <4>5, Zenon
      <4>8. Exchanging \/ w.code \in {0, obj[o].version} BY <4>1, <4>3, <4>4, Zenon
      <4> HIDE DEF w
      <4> QED BY <4>6, <4>7, <4>8
    <3> QED BY <3>1, <3>2
  <2> HIDE DEF w
  <2>8. caller[t] \in CallerState /\ "borrowing" \in CallerPlaces /\ y.gen \in Nat
    BY <2>4 DEF MgrIInv, MgrTyped, CallerState, CallerPlaces, Using, Installed
  <2>9. c \in CallerState /\ c.pc = "borrowing" /\ c.o = o /\ c.worker = w
    BY <2>7, <2>8 DEF CallerState
  <2>10. Move(t, c) BY <1>7
  <2> HIDE DEF c
  <2>11. /\ caller' \in [Callers -> CallerState] /\ caller'[t] = c
         /\ \A u \in Callers : u # t => caller'[u] = caller[u]
    BY <2>9, <2>10, MovedCallers DEF MgrIInv, Move
  <2>12. ASSUME NEW u \in Callers PROVE Rests(u, o, z)
    <3>1. CASE u = t BY <1>1, <2>3, <2>5, <2>7, <2>9, <2>11, <3>1 DEF Rests
    <3>2. CASE u # t BY <2>3, <2>5, <2>11, <3>2 DEF Rests
    <3> QED BY <3>1, <3>2
  <2>13. obj' = [obj EXCEPT ![o] = z] BY <1>7
  <2>14. z \in Installed /\ PoolKept(o, z) BY <2>6 DEF Tame
  <2>15. WorkersSound' /\ IdleSound' /\ ActiveSound'
    BY <1>3, <2>12, <2>13, <2>14, PoolStep DEF MgrIInv
  <2>16. ASSUME NEW u \in Callers PROVE Follows(u)
    <3>1. CASE u = t
      BY <1>1, <1>3, <2>1, <2>7, <2>9, <2>11, <3>1 DEF Follows, Candidates, Removing, OfEntry
    <3>2. CASE u # t BY <2>11, <3>2 DEF Follows
    <3> QED BY <3>1, <3>2
  <2>17. Mutating' = Mutating BY <1>1, <2>9, <2>11 DEF Mutating
  <2>18. OneMutates' /\ (past.gone => Mutating' = {})
    BY <2>17 DEF MgrIInv, OneMutates, GoneForGood
  <2>19. DataNext BY <1>3, <1>7, DataTyped
  <2> QED BY <1>1, <1>3, <2>6, <2>11, <2>13, <2>14, <2>15, <2>16, <2>18, <2>19, ObjectStep DEF DataNext
<1>8. CASE ~Current(o) \/ ~obj[o].enabled BY <1>5, <1>8 DEF Borrow
<1>9. CASE ~(~Current(o) \/ ~obj[o].enabled)
  <2>1. \/ /\ obj' = [obj EXCEPT ![o] = z] /\ data' = Touched /\ Move(t, c)
        \/ /\ \E s \in NotReady(o) : obj' = [obj EXCEPT ![o] = s]
           /\ caller' = [Joined(obj[o], obj'[o]) EXCEPT ![t] = Resting]
           /\ data' \in {data, Touched}
    BY <1>9 DEF Borrow
  <2> QED BY <1>6, <1>7, <1>9, <2>1
<1> QED BY <1>8, <1>9

LEMMA BorrowedStep ==
  ASSUME MgrIInv, NEW t \in Callers, Borrowed(t)
  PROVE  MgrIInv'
<1> DEFINE c == [caller[t] EXCEPT !.pc = "downloading"]
<1>0. PICK o \in Objects : o = caller[t].o
  BY CurrentEntry DEF Borrowed, Using
<1>1. /\ caller[t].pc = "borrowing"
      /\ UNCHANGED <<disk, data, entries, made, mode, crashes, past>>
  BY DEF Borrowed
<1>2. caller[t].pc \in (Using \cup OfEntry) \ {"downloading"} BY <1>1 DEF Using, OfEntry
<1>3. /\ Tame(o, obj[o]) /\ Held(o, obj[o]) /\ obj = [obj EXCEPT ![o] = obj[o]]
  BY <1>0, <1>2, CurrentEntry
<1>4. DataNext BY <1>1, DataTyped
<1>5. CASE Return(t) /\ UNCHANGED obj
  <2>1. Steps(t, Resting) BY <1>2, RestingSteps
  <2>2. caller' = [caller EXCEPT ![t] = Resting] BY <1>5 DEF Return, Move
  <2>3. obj' = [obj EXCEPT ![o] = obj[o]] BY <1>3, <1>5
  <2> QED BY <1>0, <1>1, <1>2, <1>3, <1>4, <2>1, <2>2, <2>3, ObjectUse
<1>6. CASE obj' = [obj EXCEPT ![o].active = @ \cup {t}] /\ Go(t, "downloading")
  <2> DEFINE y == [obj[o] EXCEPT !.active = @ \cup {t}]
  <2>1. obj' = [obj EXCEPT ![o] = y] BY <1>6
  <2>2. obj[o] \in Installed BY <1>3 DEF Tame
  <2>3. /\ y \in Installed /\ y.version = obj[o].version /\ y.vm = obj[o].vm
        /\ y.gen = obj[o].gen /\ y.match = obj[o].match /\ y.idle = obj[o].idle
        /\ y.active = obj[o].active \cup {t}
    BY <2>2 DEF Installed
  <2> HIDE DEF y
  <2>4. caller[t] \in CallerState /\ "downloading" \in CallerPlaces
    BY DEF MgrIInv, MgrTyped, CallerState, CallerPlaces, Using
  <2>5. /\ c \in CallerState /\ c.pc = "downloading" /\ c.o = o /\ c.worker = caller[t].worker
        /\ c.gen = caller[t].gen
    BY <1>0, <2>4 DEF CallerState
  <2>6. Move(t, c) BY <1>6 DEF Go
  <2> HIDE DEF c
  <2>7. /\ caller' \in [Callers -> CallerState] /\ caller'[t] = c
        /\ \A u \in Callers : u # t => caller'[u] = caller[u]
    BY <2>5, <2>6, MovedCallers DEF MgrIInv, Move
  <2>8. /\ obj'[o] = y /\ \A p \in Objects : p # o => obj'[p] = obj[p]
    BY <2>1 DEF MgrIInv, MgrTyped
  <2>9. WorkersSound'
    <3> SUFFICES ASSUME NEW u \in Callers, caller'[u].worker # NoWorker
                 PROVE  /\ caller'[u].worker.open /\ caller'[u].pc \in {"borrowing", "downloading"}
                        /\ caller'[u].pc = "downloading" => u \in obj'[caller'[u].o].active
                        /\ caller'[u].gen = obj'[caller'[u].o].gen
                             => caller'[u].worker.settings = obj'[caller'[u].o].match
      BY DEF WorkersSound
    <3>1. caller[u].worker # NoWorker BY <2>5, <2>7
    <3>2. /\ caller[u].worker.open /\ caller[u].pc \in {"borrowing", "downloading"}
          /\ caller[u].pc = "downloading" => u \in obj[caller[u].o].active
          /\ caller[u].gen = obj[caller[u].o].gen
               => caller[u].worker.settings = obj[caller[u].o].match
          /\ caller[u].o \in Objects
      BY <3>1 DEF MgrIInv, WorkersSound, ObjectsMade
    <3>3. CASE u = t BY <1>0, <2>3, <2>5, <2>7, <2>8, <3>2, <3>3
    <3>4. CASE u # t BY <2>3, <2>7, <2>8, <3>2, <3>4
    <3> QED BY <3>3, <3>4
  <2>10. IdleSound' BY <2>3, <2>8 DEF MgrIInv, IdleSound
  <2>11. ActiveSound'
    <3> SUFFICES ASSUME NEW p \in Objects, NEW u \in obj'[p].active
                 PROVE  caller'[u].pc = "downloading" /\ caller'[u].o = p
      BY DEF ActiveSound
    <3>1. (u = t /\ p = o) \/ u \in obj[p].active BY <2>3, <2>8
    <3>2. CASE u = t /\ p = o BY <2>5, <2>7, <3>2
    <3>3. CASE u \in obj[p].active
      <4>1. caller[u].pc = "downloading" /\ caller[u].o = p /\ u \in Callers
        BY <3>3 DEF MgrIInv, ActiveSound, MgrTyped, Installed
      <4>2. u # t BY <1>1, <4>1
      <4> QED BY <2>7, <4>1, <4>2
    <3> QED BY <3>1, <3>2, <3>3
  <2>12. Held(o, y) BY <1>3, <2>3 DEF Held
  <2>13. ASSUME NEW u \in Callers PROVE Follows(u)
    <3>1. CASE u = t
      BY <1>0, <1>1, <2>5, <2>7, <3>1 DEF Follows, Candidates, Removing, OfEntry
    <3>2. CASE u # t BY <2>7, <3>2 DEF Follows
    <3> QED BY <3>1, <3>2
  <2>14. Mutating' = Mutating BY <1>1, <2>5, <2>7 DEF Mutating
  <2>15. OneMutates' /\ (past.gone => Mutating' = {})
    BY <2>14 DEF MgrIInv, OneMutates, GoneForGood
  <2>16. UNCHANGED <<disk, entries, made, mode, crashes, past>> BY <1>1
  <2> QED BY <1>4, <2>1, <2>3, <2>7, <2>9, <2>10, <2>11, <2>12, <2>13, <2>15, <2>16, ObjectStep DEF DataNext
<1> QED BY <1>0, <1>5, <1>6 DEF Borrowed

LEMMA GiveBackStep ==
  ASSUME MgrIInv, NEW t \in Callers, GiveBack(t)
  PROVE  MgrIInv'
<1>0. PICK o \in Objects : o = caller[t].o
  BY CurrentEntry DEF GiveBack, Using
<1> DEFINE x == [obj[o] EXCEPT !.active = @ \ {t}]
<1>1. /\ caller[t].pc = "downloading"
      /\ UNCHANGED <<disk, entries, made, mode, crashes, past>>
      /\ Move(t, Resting)
  BY DEF GiveBack, Return
<1>2. caller[t].pc \in Using \cup OfEntry BY <1>1 DEF Using, OfEntry
<1>3. /\ Tame(o, obj[o]) /\ Held(o, obj[o]) /\ obj = [obj EXCEPT ![o] = obj[o]]
      /\ Current(o) => mode = "open" /\ entries # 0 /\ entries = o
  BY <1>0, <1>2, CurrentEntry
<1>4. PICK i : /\ \/ i = obj[o].idle
                  \/ /\ i = caller[t].worker /\ i.open /\ Current(o)
                     /\ obj[o].gen = caller[t].gen
               /\ obj' = [obj EXCEPT ![o] = [x EXCEPT !.idle = i]]
               /\ data' \in {data, Touched} /\ (data' # data => Current(o))
  <2>1. x.gen = obj[o].gen /\ x.idle = obj[o].idle /\ x.enabled = obj[o].enabled /\ x.match = obj[o].match
    BY <1>3 DEF Tame, Installed
  <2>2. PICK healthy \in BOOLEAN :
          LET reusable == healthy /\ caller[t].worker.open /\ Current(o) /\ x.enabled
              kept == reusable /\ x.gen = caller[t].gen /\ ~x.idle.open /\ x.match = data.settings
          IN /\ data' = IF reusable THEN Touched ELSE data
             /\ obj' = [obj EXCEPT ![o] = [x EXCEPT !.idle = IF kept THEN caller[t].worker ELSE @]]
    BY <1>0 DEF GiveBack
  <2> DEFINE reusable == healthy /\ caller[t].worker.open /\ Current(o) /\ x.enabled
             kept == reusable /\ x.gen = caller[t].gen /\ ~x.idle.open /\ x.match = data.settings
  <2>3. CASE kept
    <3>1. obj' = [obj EXCEPT ![o] = [x EXCEPT !.idle = caller[t].worker]] BY <2>2, <2>3
    <3>2. data' = Touched BY <2>2, <2>3
    <3> QED BY <2>1, <2>3, <3>1, <3>2
  <2>4. CASE ~kept
    <3>1. obj' = [obj EXCEPT ![o] = [x EXCEPT !.idle = obj[o].idle]] BY <2>1, <2>2, <2>4
    <3>2. data' \in {data, Touched} /\ (data' # data => Current(o)) BY <2>2
    <3> QED BY <3>1, <3>2
  <2> QED BY <2>3, <2>4
<1> DEFINE y == [x EXCEPT !.idle = i]
<1>5. obj' = [obj EXCEPT ![o] = y] BY <1>4
<1>6. obj[o] \in Installed /\ caller[t] \in CallerState BY <1>3 DEF Tame, MgrIInv, MgrTyped, CallerState
<1>7. i \in Worker BY <1>4, <1>6 DEF Installed, CallerState
<1>8. /\ y \in Installed /\ y.version = obj[o].version /\ y.vm = obj[o].vm
      /\ y.gen = obj[o].gen /\ y.match = obj[o].match /\ y.idle = i
      /\ y.active = obj[o].active \ {t}
  BY <1>6, <1>7 DEF Installed
<1> HIDE DEF y
<1>9. /\ caller' \in [Callers -> CallerState] /\ caller'[t] = Resting
      /\ \A u \in Callers : u # t => caller'[u] = caller[u]
  BY <1>1, Constants, MovedCallers DEF MgrIInv, Move
<1>10. /\ obj'[o] = y /\ \A p \in Objects : p # o => obj'[p] = obj[p]
  BY <1>5 DEF MgrIInv, MgrTyped
<1>11. WorkersSound'
  <2> SUFFICES ASSUME NEW u \in Callers, caller'[u].worker # NoWorker
               PROVE  /\ caller'[u].worker.open /\ caller'[u].pc \in {"borrowing", "downloading"}
                      /\ caller'[u].pc = "downloading" => u \in obj'[caller'[u].o].active
                      /\ caller'[u].gen = obj'[caller'[u].o].gen
                           => caller'[u].worker.settings = obj'[caller'[u].o].match
    BY DEF WorkersSound
  <2>1. u # t /\ caller'[u] = caller[u] BY <1>9, Constants
  <2>2. /\ caller[u].worker.open /\ caller[u].pc \in {"borrowing", "downloading"}
        /\ caller[u].pc = "downloading" => u \in obj[caller[u].o].active
        /\ caller[u].gen = obj[caller[u].o].gen
             => caller[u].worker.settings = obj[caller[u].o].match
        /\ caller[u].o \in Objects
    BY <2>1 DEF MgrIInv, WorkersSound, ObjectsMade
  <2> QED BY <1>8, <1>10, <2>1, <2>2
<1>12. i # NoWorker => i.open /\ i.settings = obj[o].match
  <2>1. CASE i = obj[o].idle BY <2>1 DEF MgrIInv, IdleSound
  <2>2. CASE i = caller[t].worker /\ i.open /\ obj[o].gen = caller[t].gen
    BY <1>0, <2>2 DEF MgrIInv, WorkersSound
  <2> QED BY <1>4, <2>1, <2>2
<1>13. IdleSound' BY <1>8, <1>10, <1>12 DEF MgrIInv, IdleSound
<1>14. ActiveSound'
  <2> SUFFICES ASSUME NEW p \in Objects, NEW u \in obj'[p].active
               PROVE  caller'[u].pc = "downloading" /\ caller'[u].o = p
    BY DEF ActiveSound
  <2>1. u \in obj[p].active /\ (p = o => u # t) BY <1>8, <1>10
  <2>2. caller[u].pc = "downloading" /\ caller[u].o = p /\ u \in Callers
    BY <2>1 DEF MgrIInv, ActiveSound, MgrTyped, Installed
  <2>3. u # t BY <1>0, <2>1, <2>2
  <2> QED BY <1>9, <2>2, <2>3
<1>15. Held(o, y)
  <2>1. CASE i = obj[o].idle BY <1>3, <1>8, <2>1 DEF Held
  <2>2. CASE i = caller[t].worker /\ Current(o)
    <3>1. mode = "open" /\ o = entries /\ entries # 0 BY <1>3, <2>2
    <3>2. ~Exchanging => i.code \in {0, obj[o].version}
      BY <1>0, <2>2, <3>1 DEF MgrIInv, EntryOwn, Exchanging
    <3> QED BY <1>3, <1>8, <3>1, <3>2 DEF Held
  <2> QED BY <1>4, <2>1, <2>2
<1>16. ASSUME NEW u \in Callers PROVE Follows(u)
  <2>1. CASE u = t
    BY <1>1, <1>9, <2>1, Constants DEF Follows, Candidates, Removing, OfEntry
  <2>2. CASE u # t BY <1>9, <2>2 DEF Follows
  <2> QED BY <2>1, <2>2
<1>17. Mutating' = Mutating BY <1>1, <1>9, Constants DEF Mutating
<1>18. OneMutates' /\ (past.gone => Mutating' = {})
  BY <1>17 DEF MgrIInv, OneMutates, GoneForGood
<1>19. DataNext
  <2>1. CASE data' = data BY <2>1, DataTyped
  <2>2. CASE data' # data BY <1>3, <1>4, <2>2, DataTyped
  <2> QED BY <2>1, <2>2
<1> QED BY <1>1, <1>5, <1>8, <1>9, <1>11, <1>13, <1>14, <1>15, <1>16, <1>18, <1>19, ObjectStep DEF DataNext

LEMMA ReleaseIdleStep ==
  ASSUME MgrIInv, ReleaseIdle
  PROVE  MgrIInv'
<1>0. entries \in Objects /\ \A u \in Callers : caller[u].pc \in Candidates => caller[u].o # entries
  BY EntryNoCandidate DEF ReleaseIdle
<1>1. PICK o \in Objects : o = entries BY <1>0
<1>2. PICK y : y = Invalidate(obj[o]) OBVIOUS
<1>3. /\ obj' = [obj EXCEPT ![o] = y]
      /\ UNCHANGED <<disk, data, entries, made, caller, mode, crashes, past>>
  BY <1>1, <1>2 DEF ReleaseIdle
<1>4. Tame(o, obj[o]) /\ Held(o, obj[o]) BY <1>0, <1>1, KeptHeld
<1>5. Tame(o, y) /\ Held(o, y) /\ y.active = obj[o].active BY <1>2, <1>4, InvalidateHeld
<1>6. y \in Installed /\ PoolKept(o, y) BY <1>5 DEF Tame
<1>7. \A u \in Callers : Rests(u, o, y) BY <1>3, <1>5 DEF Rests
<1>8. WorkersSound' /\ IdleSound' /\ ActiveSound' BY <1>3, <1>6, <1>7, PoolStep DEF MgrIInv
<1>9. \A u \in Callers : Follows(u) BY <1>3 DEF Follows
<1>10. Mutating' = Mutating BY <1>3 DEF Mutating
<1>11. OneMutates' /\ (past.gone => Mutating' = {})
  BY <1>10 DEF MgrIInv, OneMutates, GoneForGood
<1>12. DataNext BY <1>3, DataTyped
<1>13. caller' \in [Callers -> CallerState] BY <1>3 DEF MgrIInv, MgrTyped, CallerState
<1>14. UNCHANGED <<disk, entries, made, mode, crashes, past>> BY <1>3
<1> QED BY <1>3, <1>5, <1>6, <1>8, <1>9, <1>11, <1>12, <1>13, <1>14, ObjectStep DEF DataNext
-----------------------------------------------------------------------------
(* The steps of the one thread that mutates.                                *)
Kept(u) ==
  /\ caller'[u].pc = caller[u].pc /\ caller'[u].o = caller[u].o
  /\ caller'[u].worker \in {caller[u].worker, NoWorker}

LEMMA MutatorFacts ==
  ASSUME MgrIInv, NEW t \in Callers, caller[t].pc \in Candidates \cup Removing
  PROVE  /\ caller[t] \in CallerState /\ caller[t].o \in Objects /\ caller[t].worker = NoWorker
         /\ caller[t].pc # "downloading" /\ t \in Mutating
         /\ ~past.gone
         /\ \A u \in Callers : u # t => caller[u].pc \notin Candidates \cup Removing \cup OfEntry
         /\ caller[t].o # 0 /\ obj[caller[t].o] \in Installed
<1>1. caller[t] \in CallerState BY DEF MgrIInv, MgrTyped, CallerState
<1>2. caller[t].pc \notin {"idle", "borrowing", "downloading"} BY DEF Candidates, Removing
<1>3. caller[t].o \in Objects BY <1>2 DEF MgrIInv, ObjectsMade
<1>4. caller[t].worker = NoWorker BY <1>2 DEF MgrIInv, WorkersSound
<1>5. t \in Mutating BY DEF Mutating, Candidates, Removing
<1>6. ~past.gone BY <1>5 DEF MgrIInv, GoneForGood
<1>7. ASSUME NEW u \in Callers, u # t
      PROVE caller[u].pc \notin Candidates \cup Removing \cup OfEntry
  <2>1. u \notin Mutating BY <1>5, <1>7 DEF MgrIInv, OneMutates
  <2> QED BY <2>1 DEF Mutating, Candidates, Removing, OfEntry
<1>8. caller[t].o # 0 /\ obj[caller[t].o] \in Installed BY <1>3 DEF MgrIInv, MgrTyped, Objects
<1> QED BY <1>1, <1>2, <1>3, <1>4, <1>5, <1>6, <1>7, <1>8

LEMMA IdleFacts ==
  ASSUME MgrIInv, NEW t \in Callers, caller[t].pc = "idle", MutationFree
  PROVE  /\ caller[t].worker = NoWorker /\ caller[t].pc # "downloading"
         /\ \A u \in Callers : caller[u].pc \notin Candidates \cup Removing \cup OfEntry
<1>1. caller[t].worker = NoWorker BY DEF MgrIInv, WorkersSound
<1>2. ASSUME NEW u \in Callers
      PROVE caller[u].pc \notin Candidates \cup Removing \cup OfEntry
  <2>1. u \notin Mutating BY DEF MutationFree
  <2> QED BY <2>1 DEF Mutating, Candidates, Removing, OfEntry
<1> QED BY <1>1, <1>2

LEMMA MutateStep ==
  ASSUME MgrIInv, NEW t \in Callers,
         \A u \in Callers : u # t =>
           caller[u].pc \notin Candidates \cup Removing \cup OfEntry /\ Kept(u),
         MgrTyped', WorkersSound', IdleSound', ActiveSound',
         entries' <= made', caller'[t].o <= made', made <= made',
         caller'[t].pc # "idle" => caller'[t].o \in Objects,
         caller'[t].pc \in OfEntry => caller'[t].o = entries',
         CandidateSound(t)', RemovalSound(t)', BackupInUse', EntryOwn', OnlyLiveRuns',
         GoneForGood', KnownKept'
  PROVE  MgrIInv'
<1>1. \A u \in Callers : u # t => caller'[u].pc = caller[u].pc /\ caller'[u].o = caller[u].o
  BY DEF Kept
<1>2. ObjectsMade'
  <2>1. /\ \A u \in Callers : caller[u].o \in Nat /\ caller[u].o <= made
        /\ made \in Nat /\ made' \in Nat
    <3>1. made \in Nat BY DEF MgrIInv, MgrTyped
    <3>2. made' \in Nat BY DEF MgrTyped
    <3>3. \A u \in Callers : caller[u].o \in {0} \cup Objects BY DEF MgrIInv, MgrTyped
    <3>4. \A u \in Callers : caller[u].o <= made BY DEF MgrIInv, ObjectsMade
    <3> QED BY <3>1, <3>2, <3>3, <3>4 DEF Objects
  <2>2. ASSUME NEW u \in Callers
        PROVE  caller'[u].o <= made' /\ (caller'[u].pc # "idle" => caller'[u].o \in Objects)
    <3>1. CASE u = t BY <3>1
    <3>2. CASE u # t BY <1>1, <2>1, <3>2 DEF MgrIInv, ObjectsMade
    <3> QED BY <3>1, <3>2
  <2> QED BY <2>2 DEF ObjectsMade
<1>3. OneMutates'
  <2>1. ASSUME NEW u \in Callers, u # t PROVE u \notin Mutating'
    BY <1>1, <2>1 DEF Mutating, Candidates, Removing, OfEntry
  <2>2. \A u \in Mutating' : u \in Callers BY DEF Mutating
  <2> QED BY <2>1, <2>2 DEF OneMutates
<1>4. EntryMutated' BY <1>1 DEF EntryMutated
<1>5. ASSUME NEW u \in Callers PROVE CandidateSound(u)' /\ RemovalSound(u)'
  <2>1. CASE u = t BY <2>1
  <2>2. CASE u # t BY <1>1, <2>2 DEF CandidateSound, RemovalSound
  <2> QED BY <2>1, <2>2
<1> QED BY <1>2, <1>3, <1>4, <1>5 DEF MgrIInv

(* A step of the mutator that changes no object.                            *)
LEMMA KeepsPools ==
  ASSUME MgrIInv, NEW t \in Callers, UNCHANGED obj, NEW STATE c, c \in CallerState,
         c.worker = NoWorker, caller[t].pc # "downloading", Move(t, c)
  PROVE  /\ WorkersSound' /\ IdleSound' /\ ActiveSound'
         /\ caller' \in [Callers -> CallerState] /\ caller'[t] = c
         /\ \A u \in Callers : u # t => caller'[u] = caller[u] /\ Kept(u)
         /\ \A p \in Objects : Runs(p)' => Runs(p)
<1>1. /\ caller' \in [Callers -> CallerState] /\ caller'[t] = c
      /\ \A u \in Callers : u # t => caller'[u] = caller[u]
  BY MovedCallers DEF MgrIInv, Move
<1>2. \A u \in Callers : u # t => Kept(u) BY <1>1 DEF Kept
<1>3. WorkersSound' BY <1>1 DEF MgrIInv, WorkersSound
<1>4. IdleSound' BY DEF MgrIInv, IdleSound
<1>5. ActiveSound'
  <2> SUFFICES ASSUME NEW p \in Objects, NEW u \in obj[p].active
               PROVE  caller'[u].pc = "downloading" /\ caller'[u].o = p
    BY DEF ActiveSound
  <2>1. caller[u].pc = "downloading" /\ caller[u].o = p /\ u \in Callers
    BY DEF MgrIInv, ActiveSound, MgrTyped, Installed
  <2> QED BY <1>1, <2>1
<1>6. \A p \in Objects : Runs(p)' => Runs(p) BY <1>1 DEF Runs
<1> QED BY <1>1, <1>2, <1>3, <1>4, <1>5, <1>6

(* A step of the mutator that tears an object down, or changes its flags.   *)
Changes(t, o, y, c) ==
  /\ obj' = [obj EXCEPT ![o] = y]
  /\ c \in CallerState /\ c.worker = NoWorker /\ caller[t].pc # "downloading"
  /\ \/ caller' = [Joined(obj[o], y) EXCEPT ![t] = c]
     \/ caller' = [caller EXCEPT ![t] = c] /\ obj[o].active \subseteq y.active

LEMMA ChangesPool ==
  ASSUME MgrIInv, NEW t \in Callers, NEW STATE o, o \in Objects, NEW STATE y, Tame(o, y),
         NEW STATE c, Changes(t, o, y, c)
  PROVE  /\ WorkersSound' /\ IdleSound' /\ ActiveSound'
         /\ caller' \in [Callers -> CallerState] /\ caller'[t] = c
         /\ \A u \in Callers : u # t =>
              /\ Kept(u)
              /\ u \in obj[o].active \ y.active => caller'[u].worker = NoWorker
         /\ obj'[o] = y /\ \A p \in Objects : p # o => obj'[p] = obj[p]
         /\ obj' \in [Objects -> Installed]
<1> USE DEF Changes
<1>1. y \in Installed /\ PoolKept(o, y) BY DEF Tame
<1>2. /\ caller' \in [Callers -> CallerState] /\ caller'[t] = c
      /\ \A u \in Callers : u # t =>
           caller'[u] = IF u \in obj[o].active \ y.active
                        THEN [caller[u] EXCEPT !.worker = NoWorker] ELSE caller[u]
  <2>1. CASE caller' = [Joined(obj[o], y) EXCEPT ![t] = c]
    BY <2>1, JoinedCallers, ZenonT(60) DEF MgrIInv
  <2>2. CASE caller' = [caller EXCEPT ![t] = c] /\ obj[o].active \subseteq y.active
    BY <2>2, MovedCallers DEF MgrIInv
  <2> QED BY <2>1, <2>2
<1>3. ASSUME NEW u \in Callers, u # t
      PROVE  /\ caller'[u].pc = caller[u].pc /\ caller'[u].o = caller[u].o
             /\ \/ caller'[u] = caller[u] /\ u \notin obj[o].active \ y.active
                \/ caller'[u].worker = NoWorker /\ caller[u].pc = "downloading"
  <2>1. u \in obj[o].active => caller[u].pc = "downloading" BY DEF MgrIInv, ActiveSound
  <2>2. caller[u] \in CallerState BY DEF MgrIInv, MgrTyped, CallerState
  <2> QED BY <1>2, <1>3, <2>1, <2>2 DEF CallerState
<1>4. t \notin obj[o].active BY DEF MgrIInv, ActiveSound
<1>5. \A u \in Callers : Rests(u, o, y)
  <2>1. Rests(t, o, y) BY <1>2 DEF Rests
  <2> QED BY <1>3, <2>1 DEF Rests
<1>6. WorkersSound' /\ IdleSound' /\ ActiveSound' BY <1>1, <1>5, PoolStep DEF MgrIInv
<1>7. ASSUME NEW u \in Callers, u # t
      PROVE  Kept(u) /\ (u \in obj[o].active \ y.active => caller'[u].worker = NoWorker)
  BY <1>3, <1>7 DEF Kept
<1>8. /\ obj'[o] = y /\ \A p \in Objects : p # o => obj'[p] = obj[p]
      /\ obj' \in [Objects -> Installed]
  BY <1>1 DEF MgrIInv, MgrTyped
<1> QED BY <1>2, <1>6, <1>7, <1>8

(* What a step of the mutator t keeps of the published object.              *)
LEMMA EntryKept ==
  ASSUME MgrIInv, NEW t \in Callers, caller[t].pc \notin {"retire", "replace"},
         \A u \in Callers : u # t => caller[u].pc \notin {"retire", "replace"} /\ Kept(u),
         caller'[t].worker = NoWorker, entries # 0, entries' = entries,
         obj'[entries].version = obj[entries].version,
         obj'[entries].vm.code \in {0, obj[entries].vm.code},
         obj'[entries].idle.code \in {0, obj[entries].idle.code},
         disk'.target \in {0, disk.target, obj[entries].version}
  PROVE  EntryOwn'
<1> DEFINE v == obj[entries].version
<1>1. /\ disk.target \in {0, v} /\ obj[entries].vm.code \in {0, v} /\ obj[entries].idle.code \in {0, v}
      /\ \A u \in Callers : caller[u].o = entries => caller[u].worker.code \in {0, v}
  BY DEF MgrIInv, EntryOwn
<1>2. ASSUME NEW u \in Callers, caller'[u].o = entries PROVE caller'[u].worker.code \in {0, v}
  <2>1. CASE u = t BY <2>1, Constants
  <2>2. CASE u # t BY <1>1, <1>2, <2>2, Constants DEF Kept
  <2> QED BY <2>1, <2>2
<1> QED BY <1>1, <1>2 DEF EntryOwn
-----------------------------------------------------------------------------
LEMMA FreshFacts ==
  ASSUME NEW v \in Nat, NEW on \in BOOLEAN
  PROVE  LET x == Fresh(v, on) IN
         /\ x \in Installed /\ x.version = v /\ x.vm = NoVM /\ x.idle = NoWorker
         /\ x.active = {}
BY Constants DEF Fresh, Installed

LEMMA NewObject ==
  ASSUME MgrIInv, made + 1 \in Objects, NEW v \in Nat, NEW on \in BOOLEAN,
         obj' = [obj EXCEPT ![made + 1] = Fresh(v, on)],
         \A u \in Callers :
           \/ caller'[u] = caller[u]
           \/ caller'[u].worker = NoWorker /\ caller[u].pc # "downloading"
  PROVE  /\ WorkersSound' /\ IdleSound' /\ ActiveSound'
         /\ obj' \in [Objects -> Installed] /\ obj'[made + 1] = Fresh(v, on)
         /\ \A p \in Objects : p # made + 1 => obj'[p] = obj[p]
         /\ entries # made + 1 /\ \A u \in Callers : caller[u].o # made + 1
<1>1. /\ made \in Nat /\ entries <= made /\ \A u \in Callers : caller[u].o <= made
      /\ entries \in Nat /\ \A u \in Callers : caller[u].o \in Nat
  <2>1. made \in Nat /\ entries \in {0} \cup Objects BY DEF MgrIInv, MgrTyped
  <2>2. \A u \in Callers : caller[u].o \in {0} \cup Objects BY DEF MgrIInv, MgrTyped
  <2>3. entries <= made /\ \A u \in Callers : caller[u].o <= made BY DEF MgrIInv, ObjectsMade
  <2> QED BY <2>1, <2>2, <2>3 DEF Objects
<1>2. entries # made + 1 /\ \A u \in Callers : caller[u].o # made + 1 BY <1>1
<1> DEFINE x == Fresh(v, on)
<1>3. x \in Installed /\ x.idle = NoWorker /\ x.active = {} BY FreshFacts
<1> HIDE DEF x
<1>4. /\ obj' \in [Objects -> Installed] /\ obj'[made + 1] = x
      /\ \A p \in Objects : p # made + 1 => obj'[p] = obj[p]
  BY <1>3 DEF x, MgrIInv, MgrTyped
<1>5. WorkersSound'
  <2> SUFFICES ASSUME NEW u \in Callers, caller'[u].worker # NoWorker
               PROVE  /\ caller'[u].worker.open /\ caller'[u].pc \in {"borrowing", "downloading"}
                      /\ caller'[u].pc = "downloading" => u \in obj'[caller'[u].o].active
                      /\ caller'[u].gen = obj'[caller'[u].o].gen
                           => caller'[u].worker.settings = obj'[caller'[u].o].match
    BY DEF WorkersSound
  <2>1. caller'[u] = caller[u] OBVIOUS
  <2>2. caller[u].worker # NoWorker BY <2>1
  <2>3. caller[u].pc \in {"borrowing", "downloading"} BY <2>2 DEF MgrIInv, WorkersSound
  <2>4. caller[u].o \in Objects BY <2>3 DEF MgrIInv, ObjectsMade
  <2>5. obj'[caller[u].o] = obj[caller[u].o] BY <1>2, <1>4, <2>4
  <2> QED BY <2>1, <2>2, <2>5 DEF MgrIInv, WorkersSound
<1>6. IdleSound' BY <1>3, <1>4 DEF MgrIInv, IdleSound
<1>7. ActiveSound'
  <2> SUFFICES ASSUME NEW p \in Objects, NEW u \in obj'[p].active
               PROVE  caller'[u].pc = "downloading" /\ caller'[u].o = p
    BY DEF ActiveSound
  <2>1. u \in obj[p].active BY <1>3, <1>4
  <2>2. caller[u].pc = "downloading" /\ caller[u].o = p /\ u \in Callers
    BY <2>1 DEF MgrIInv, ActiveSound, MgrTyped, Installed
  <2>3. \/ caller'[u].worker = NoWorker /\ caller[u].pc # "downloading"
        \/ caller'[u] = caller[u]
    BY <2>2
  <2> QED BY <2>2, <2>3
<1> QED BY <1>2, <1>4, <1>5, <1>6, <1>7 DEF x

LEMMA StageStep ==
  ASSUME MgrIInv, NEW t \in Callers, NEW v \in Versions, Stage(t, v)
  PROVE  MgrIInv'
<1> DEFINE n == made + 1
           pc == IF entries = 0 THEN "install" ELSE "upgrade"
           on == entries # 0 /\ obj[entries].enabled
           c == [Resting EXCEPT !.pc = pc, !.v = v, !.o = n]
<1>1. /\ caller[t].pc = "idle" /\ MutationFree /\ made < MaxObjects
      /\ entries = 0 => disk.target = 0
      /\ disk' = [disk EXCEPT !.stage = v] /\ Move(t, c) /\ made' = n
      /\ obj' = [obj EXCEPT ![n] = Fresh(v, on)] /\ past' = [past EXCEPT !.gone = FALSE]
      /\ UNCHANGED <<data, entries, mode, crashes>>
  <2>1. entries = 0 => disk.target = 0 BY DEF Stage
  <2> QED BY <2>1 DEF Stage
<1>2. v \in Nat /\ v # 0 BY DEF Versions
<1>3. made \in Nat /\ MaxObjects \in Nat
  <2>1. {MaxVersion, MaxSettings, MaxObjects, MaxCrashes} \subseteq Nat BY ManagerAssumption
  <2>2. MaxObjects \in Nat BY <2>1
  <2> QED BY <2>2 DEF MgrIInv, MgrTyped
<1>4. n \in Objects /\ n \in Nat BY <1>1, <1>3 DEF Objects
<1>5. on \in BOOLEAN BY DEF MgrIInv, MgrTyped, Installed
<1> HIDE DEF on
<1>6. /\ caller[t].worker = NoWorker /\ caller[t].pc # "downloading"
      /\ \A u \in Callers : caller[u].pc \notin Candidates \cup Removing \cup OfEntry
  BY <1>1, IdleFacts
<1>7. /\ c \in CallerState /\ c.pc \in {"install", "upgrade"} /\ c.o = n /\ c.v = v
      /\ c.worker = NoWorker /\ (entries = 0) = (c.pc = "install")
  <2>1. pc \in CallerPlaces /\ pc \in {"install", "upgrade"} /\ (entries = 0) = (pc = "install")
    BY DEF CallerPlaces, Candidates
  <2> HIDE DEF pc, n
  <2>2. Resting \in CallerState /\ Resting.worker = NoWorker BY Constants
  <2>3. c \in CallerState /\ c.pc = pc /\ c.o = n /\ c.v = v /\ c.worker = NoWorker
    BY <1>2, <1>4, <2>1, <2>2 DEF CallerState
  <2> QED BY <2>1, <2>3
<1>8. Move(t, c) BY <1>1
<1> HIDE DEF c
<1>9. /\ caller' \in [Callers -> CallerState] /\ caller'[t] = c
      /\ \A u \in Callers : u # t => caller'[u] = caller[u] /\ Kept(u)
  <2>1. /\ caller' \in [Callers -> CallerState] /\ caller'[t] = c
        /\ \A u \in Callers : u # t => caller'[u] = caller[u]
    BY <1>7, <1>8, MovedCallers DEF MgrIInv, Move
  <2> QED BY <2>1 DEF Kept
<1>10. \A u \in Callers :
           \/ caller'[u] = caller[u]
           \/ caller'[u].worker = NoWorker /\ caller[u].pc # "downloading"
  BY <1>6, <1>7, <1>9
<1>11. /\ WorkersSound' /\ IdleSound' /\ ActiveSound'
       /\ obj' \in [Objects -> Installed] /\ obj'[n] = Fresh(v, on)
       /\ \A p \in Objects : p # n => obj'[p] = obj[p]
       /\ entries # n /\ \A u \in Callers : caller[u].o # n
  BY <1>1, <1>2, <1>4, <1>5, <1>10, NewObject
<1>12. /\ obj'[n].version = v /\ obj'[n].vm = NoVM /\ obj'[n].idle = NoWorker
  BY <1>2, <1>5, <1>11, FreshFacts
<1>13. /\ disk' \in [target : Nat, stage : Nat, backup : Nat, left : SUBSET Nat]
       /\ disk'.stage = v /\ disk'.target = disk.target /\ disk'.backup = disk.backup
       /\ disk'.left = disk.left
       /\ past' \in [known : Nat, gone : BOOLEAN] /\ past'.known = past.known /\ ~past'.gone
  <2>1. disk \in [target : Nat, stage : Nat, backup : Nat, left : SUBSET Nat]
        /\ past \in [known : Nat, gone : BOOLEAN]
    BY DEF MgrIInv, MgrTyped
  <2> QED BY <1>1, <1>2, <2>1
<1>14. MgrTyped' BY <1>1, <1>4, <1>9, <1>11, <1>13 DEF MgrIInv, MgrTyped, CallerState
<1>15. entries' <= made' /\ caller'[t].o <= made' /\ made <= made'
  <2>1. entries \in {0} \cup Objects /\ entries <= made BY DEF MgrIInv, MgrTyped, ObjectsMade
  <2> QED BY <1>1, <1>3, <1>7, <1>9, <2>1 DEF Objects
<1>16. CandidateSound(t)'
  BY <1>1, <1>2, <1>7, <1>9, <1>11, <1>12, <1>13, Constants DEF CandidateSound
<1>17. RemovalSound(t)' /\ (caller'[t].pc \in OfEntry => caller'[t].o = entries')
  BY <1>7, <1>9 DEF RemovalSound, Removing, OfEntry
<1>18. BackupInUse' BY <1>6, <1>13 DEF MgrIInv, BackupInUse, Candidates
<1>19. EntryOwn'
  <2>1. CASE entries = 0 BY <1>1, <2>1 DEF EntryOwn
  <2>2. CASE entries # 0
    <3>1. entries \in Objects BY <2>2 DEF MgrIInv, MgrTyped
    <3>2. obj'[entries] = obj[entries] BY <1>11, <3>1
    <3>3. /\ caller[t].pc \notin {"retire", "replace"}
          /\ \A u \in Callers : u # t => caller[u].pc \notin {"retire", "replace"} /\ Kept(u)
      BY <1>6, <1>9 DEF Candidates
    <3>4. entries' = entries /\ caller'[t].worker = NoWorker BY <1>1, <1>7, <1>9
    <3> QED BY <1>13, <2>2, <3>2, <3>3, <3>4, EntryKept
  <2> QED BY <2>1, <2>2
<1>20. OnlyLiveRuns'
  <2> SUFFICES ASSUME NEW p \in Objects, Runs(p)' PROVE mode' = "open" /\ Live(p)'
    BY DEF OnlyLiveRuns
  <2>1. p # n
    <3>1. ASSUME p = n PROVE FALSE
      <4>1. PICK u \in Callers : caller'[u].o = n /\ caller'[u].worker # NoWorker
        BY <1>12, <3>1, Constants DEF Runs
      <4>2. u # t BY <1>7, <1>9, <4>1
      <4> QED BY <1>9, <1>11, <4>1, <4>2
    <3> QED BY <3>1
  <2>2. obj'[p] = obj[p] BY <1>11, <2>1
  <2>3. Runs(p) BY <1>7, <1>9, <2>2 DEF Runs
  <2>4. mode = "open" /\ Live(p) BY <2>3 DEF MgrIInv, OnlyLiveRuns
  <2>5. p = entries BY <1>6, <2>4 DEF Live, Candidates, Removing
  <2> QED BY <1>1, <2>4, <2>5 DEF Live
<1>21. GoneForGood' BY <1>13 DEF GoneForGood
<1>22. KnownKept' BY <1>13 DEF MgrIInv, KnownKept
<1>23. \A u \in Callers : u # t =>
           caller[u].pc \notin Candidates \cup Removing \cup OfEntry /\ Kept(u)
  BY <1>6, <1>9
<1>24. caller'[t].pc # "idle" => caller'[t].o \in Objects BY <1>4, <1>7, <1>9
<1> QED BY <1>11, <1>14, <1>15, <1>16, <1>17, <1>18, <1>19, <1>20, <1>21, <1>22, <1>23, <1>24, MutateStep
-----------------------------------------------------------------------------
Disks == [target : Nat, stage : Nat, backup : Nat, left : SUBSET Nat]
LEMMA DiskFacts ==
  ASSUME MgrIInv
  PROVE  /\ disk \in Disks /\ past \in [known : Nat, gone : BOOLEAN]
         /\ data \in [exists : BOOLEAN, settings : Nat, enabled : BOOLEAN]
         /\ Touched \in [exists : BOOLEAN, settings : Nat, enabled : BOOLEAN]
         /\ made \in Nat /\ crashes \in Nat /\ entries \in {0} \cup Objects /\ entries <= made
         /\ obj \in [Objects -> Installed] /\ mode \in {"open", "closing", "closed"}
         /\ \A u \in Callers : caller[u].o <= made
BY DataTyped DEF MgrIInv, MgrTyped, ObjectsMade, Disks

(* The step of a mutator that rests: only this remains to be shown.         *)
LEMMA EndsStep ==
  ASSUME MgrIInv, NEW t \in Callers, caller[t].pc \in Candidates \cup Removing,
         MgrTyped', WorkersSound', IdleSound', ActiveSound', made' = made,
         \A u \in Callers : u # t => Kept(u), caller'[t] = Resting,
         entries' <= made, BackupInUse', EntryOwn', OnlyLiveRuns',
         GoneForGood', KnownKept'
  PROVE  MgrIInv'
<1>1. \A u \in Callers : u # t => caller[u].pc \notin Candidates \cup Removing \cup OfEntry
  BY MutatorFacts
<1>2. caller'[t].pc = "idle" /\ caller'[t].o = 0 BY Constants
<1>3. /\ caller'[t].pc \notin Candidates \cup Removing \cup OfEntry
  BY <1>2 DEF Candidates, Removing, OfEntry
<1>4. CandidateSound(t)' /\ RemovalSound(t)' BY <1>3 DEF CandidateSound, RemovalSound
<1>5. made \in Nat BY DiskFacts
<1>6. made <= made' /\ caller'[t].o <= made' /\ entries' <= made' BY <1>2, <1>5
<1>7. caller'[t].pc # "idle" => caller'[t].o \in Objects BY <1>2
<1>8. caller'[t].pc \in OfEntry => caller'[t].o = entries' BY <1>3
<1> QED BY <1>1, <1>4, <1>6, <1>7, <1>8, MutateStep

LEMMA CandidateQuiet ==
  ASSUME MgrIInv, NEW t \in Callers, caller[t].pc \in Candidates
  PROVE  obj[caller[t].o].active = {} /\ CandidateSound(t)
<1>1. CandidateSound(t) BY DEF MgrIInv
<1>2. caller[t].o \in Objects /\ caller[t].pc # "downloading" BY MutatorFacts
<1>3. ASSUME NEW u \in obj[caller[t].o].active PROVE FALSE
  <2>1. u \in Callers /\ caller[u].pc = "downloading" /\ caller[u].o = caller[t].o
    BY <1>2 DEF MgrIInv, ActiveSound, MgrTyped, Installed
  <2>2. u # t BY <1>2, <2>1
  <2> QED BY <1>1, <2>1, <2>2 DEF CandidateSound
<1> QED BY <1>1, <1>3

(* A candidate is torn down and its thread rests.                           *)
LEMMA Abandoned ==
  ASSUME MgrIInv, NEW t \in Callers, caller[t].pc \in Candidates,
         obj' = [obj EXCEPT ![caller[t].o] = TornDown(@)], Return(t),
         UNCHANGED <<entries, made, mode, crashes, past>>, data' \in {data, Touched},
         disk' \in Disks, disk'.backup = 0,
         entries # 0 => disk'.target \in {0, obj[entries].version},
         past.known # 0 => \E v \in disk'.left \cup {disk'.target} : v >= past.known,
         caller[t].pc \notin {"retire", "replace"}
  PROVE  MgrIInv'
<1> DEFINE o == caller[t].o
           y == TornDown(obj[o])
<1>1. /\ o \in Objects /\ o # 0 /\ caller[t].worker = NoWorker /\ caller[t].pc # "downloading" /\ ~past.gone
      /\ \A u \in Callers : u # t => caller[u].pc \notin Candidates \cup Removing \cup OfEntry
  BY MutatorFacts
<1>2. obj[o].active = {} /\ CandidateSound(t) BY CandidateQuiet
<1>3. Tame(o, y) /\ y.vm = NoVM /\ y.idle = NoWorker BY <1>1, TornDownTame DEF MgrIInv
<1>4. obj' = [obj EXCEPT ![o] = y] OBVIOUS
<1> HIDE DEF y
<1>5. caller' = [caller EXCEPT ![t] = Resting] /\ Resting \in CallerState /\ Resting.worker = NoWorker
  BY Constants DEF Return, Move
<1>20. Changes(t, o, y, Resting) BY <1>1, <1>2, <1>4, <1>5 DEF Changes
<1>6. /\ WorkersSound' /\ IdleSound' /\ ActiveSound'
      /\ caller' \in [Callers -> CallerState] /\ caller'[t] = Resting
      /\ \A u \in Callers : u # t => Kept(u)
      /\ obj'[o] = y /\ \A p \in Objects : p # o => obj'[p] = obj[p]
      /\ obj' \in [Objects -> Installed]
  BY <1>1, <1>3, <1>20, ChangesPool
<1>7. MgrTyped' BY <1>6, DiskFacts DEF MgrTyped, CallerState, Disks
<1>8. entries' <= made BY DiskFacts
<1>9. EntryOwn'
  <2>1. CASE entries = 0 BY <2>1 DEF EntryOwn
  <2>2. CASE entries # 0
    <3>1. entries \in Objects /\ entries # o BY <1>2, <2>2, DiskFacts DEF CandidateSound
    <3>2. obj'[entries] = obj[entries] BY <1>6, <3>1
    <3>3. \A u \in Callers : u # t => caller[u].pc \notin {"retire", "replace"}
      BY <1>1 DEF Candidates
    <3> QED BY <1>6, <2>2, <3>2, <3>3, Constants, EntryKept
  <2> QED BY <2>1, <2>2
<1>10. OnlyLiveRuns'
  <2> SUFFICES ASSUME NEW p \in Objects, Runs(p)' PROVE mode' = "open" /\ Live(p)'
    BY DEF OnlyLiveRuns
  <2>1. p # o
    <3>1. ASSUME p = o PROVE FALSE
      <4>1. PICK u \in Callers : caller'[u].o = o /\ caller'[u].worker # NoWorker
        BY <1>3, <1>6, <3>1, Constants DEF Runs
      <4>2. u # t BY <1>6, <4>1, Constants
      <4> QED BY <1>2, <1>6, <4>1, <4>2 DEF Kept, CandidateSound
    <3> QED BY <3>1
  <2>2. obj'[p] = obj[p] BY <1>6, <2>1
  <2>3. Runs(p)
    <3>1. CASE \E u \in Callers : caller'[u].o = p /\ caller'[u].worker # NoWorker
      BY <1>6, <3>1, Constants DEF Kept, Runs
    <3> QED BY <2>2, <3>1 DEF Runs
  <2>4. mode = "open" /\ Live(p) BY <2>3 DEF MgrIInv, OnlyLiveRuns
  <2>5. p = entries BY <1>1, <2>1, <2>4 DEF Live, Candidates, Removing
  <2> QED BY <2>4, <2>5 DEF Live
<1>11. BackupInUse' /\ GoneForGood' BY <1>1 DEF BackupInUse, GoneForGood
<1>12. KnownKept' BY DEF KnownKept
<1>13. caller[t].pc \in Candidates \cup Removing OBVIOUS
<1> QED BY <1>6, <1>7, <1>8, <1>9, <1>10, <1>11, <1>12, <1>13, EndsStep

LEMMA NoBackup ==
  ASSUME MgrIInv, NEW t \in Callers, caller[t].pc \in Candidates,
         caller[t].pc \notin {"activate", "retire", "replace"}
  PROVE  disk.backup = 0
<1>1. \A u \in Callers : u # t => caller[u].pc \notin Candidates BY MutatorFacts
<1> QED BY <1>1 DEF MgrIInv, BackupInUse, Candidates

LEMMA GiveUpStep ==
  ASSUME MgrIInv, NEW t \in Callers, GiveUp(t)
  PROVE  MgrIInv'
<1>1. /\ caller[t].pc \in {"install", "upgrade", "swap"} /\ disk' = [disk EXCEPT !.stage = 0]
      /\ obj' = [obj EXCEPT ![caller[t].o] = TornDown(@)] /\ data' \in {data, Touched}
      /\ Return(t) /\ UNCHANGED <<entries, made, mode, crashes, past>>
  BY DEF GiveUp
<1>2. caller[t].pc \in Candidates /\ caller[t].pc \notin {"activate", "retire", "replace"}
  BY <1>1 DEF Candidates
<1>3. disk.backup = 0 BY <1>2, NoBackup
<1>4. /\ disk' \in Disks /\ disk'.backup = 0 /\ disk'.target = disk.target /\ disk'.left = disk.left
  BY <1>1, <1>3, DiskFacts DEF Disks
<1>5. entries # 0 => disk'.target \in {0, obj[entries].version}
  <2>1. \A u \in Callers : caller[u].pc \notin {"retire", "replace"}
    BY <1>2, MutatorFacts DEF Candidates
  <2> QED BY <1>4, <2>1 DEF MgrIInv, EntryOwn
<1>6. past.known # 0 => \E v \in disk'.left \cup {disk'.target} : v >= past.known
  <2> SUFFICES ASSUME past.known # 0 PROVE \E v \in disk'.left \cup {disk'.target} : v >= past.known
    OBVIOUS
  <2>1. PICK v \in disk.left \cup {disk.target, disk.backup} : v >= past.known
    BY DEF MgrIInv, KnownKept
  <2>2. past.known \in Nat BY DiskFacts
  <2>3. v # 0 BY <2>1, <2>2
  <2> QED BY <1>3, <1>4, <2>1, <2>3
<1> QED BY <1>1, <1>2, <1>4, <1>5, <1>6, Abandoned
-----------------------------------------------------------------------------
LEMMA GoState ==
  ASSUME NEW t, caller[t] \in CallerState, NEW pc \in CallerPlaces
  PROVE  LET c == [caller[t] EXCEPT !.pc = pc] IN
         /\ c \in CallerState /\ c.pc = pc /\ c.o = caller[t].o /\ c.v = caller[t].v
         /\ c.s = caller[t].s /\ c.worker = caller[t].worker
BY DEF CallerState

LiveCandidate == {"swap", "activate", "retire", "replace"}

(* A mutator goes on: what is left to show.                                 *)
LEMMA CandidateGoes ==
  ASSUME MgrIInv, NEW t \in Callers, caller[t].pc \in Candidates,
         NEW STATE o, o \in Objects, NEW STATE y, Tame(o, y), NEW STATE c,
         Changes(t, o, y, c),
         c.pc \in Candidates, c.o = caller[t].o,
         UNCHANGED <<entries, made, mode, crashes, past>>, data' \in {data, Touched},
         disk' \in Disks, CandidateSound(t)', BackupInUse', KnownKept',
         \/ c.pc \in {"retire", "replace"} \/ entries = 0
         \/ /\ caller[t].pc \notin {"retire", "replace"} /\ o # entries
            /\ disk'.target \in {0, disk.target, obj[entries].version},
         y.vm.open => \/ obj[o].vm.open
                      \/ mode = "open" /\ o = caller[t].o /\ c.pc \in LiveCandidate,
         caller[t].pc \in LiveCandidate => c.pc \in LiveCandidate
  PROVE  MgrIInv'
<1>1. /\ ~past.gone
      /\ \A u \in Callers : u # t => caller[u].pc \notin Candidates \cup Removing \cup OfEntry
      /\ caller[t].o \in Objects
  BY MutatorFacts
<1>2. /\ WorkersSound' /\ IdleSound' /\ ActiveSound'
      /\ caller' \in [Callers -> CallerState] /\ caller'[t] = c
      /\ \A u \in Callers : u # t => Kept(u)
      /\ obj'[o] = y /\ \A p \in Objects : p # o => obj'[p] = obj[p]
      /\ obj' \in [Objects -> Installed]
  BY ChangesPool
<1>3. c.worker = NoWorker BY DEF Changes
<1>4. MgrTyped' BY <1>2, DiskFacts DEF MgrTyped, CallerState, Disks
<1>5. EntryOwn'
  <2>1. CASE entries = 0 BY <2>1 DEF EntryOwn
  <2>2. CASE c.pc \in {"retire", "replace"} BY <1>2, <2>2 DEF EntryOwn
  <2>3. CASE /\ caller[t].pc \notin {"retire", "replace"} /\ o # entries /\ entries # 0
             /\ disk'.target \in {0, disk.target, obj[entries].version}
    <3>1. entries \in Objects BY <2>3, DiskFacts
    <3>2. obj'[entries] = obj[entries] BY <1>2, <2>3, <3>1
    <3>3. \A u \in Callers : u # t => caller[u].pc \notin {"retire", "replace"}
      BY <1>1 DEF Candidates
    <3> QED BY <1>2, <1>3, <2>3, <3>2, <3>3, EntryKept
  <2> QED BY <2>1, <2>2, <2>3
<1>6. OnlyLiveRuns'
  <2> SUFFICES ASSUME NEW p \in Objects, Runs(p)' PROVE mode = "open" /\ Live(p)'
    BY DEF OnlyLiveRuns
  <2>1. mode = "open" /\ Live(p) => Live(p)'
    <3>1. CASE p = entries BY <3>1 DEF Live
    <3>2. ASSUME NEW u \in Callers, caller[u].o = p,
                 caller[u].pc \in {"swap", "activate", "retire", "replace", "unload", "remove"}
          PROVE  Live(p)'
      <4>1. u = t BY <1>1, <3>2 DEF Candidates, Removing
      <4>2. c.pc \in LiveCandidate BY <3>2, <4>1 DEF Candidates, LiveCandidate
      <4>3. caller'[t].o = p /\ caller'[t].pc \in LiveCandidate BY <1>2, <3>2, <4>1, <4>2
      <4> QED BY <4>3 DEF Live, LiveCandidate
    <3> QED BY <3>1, <3>2 DEF Live
  <2>2. Runs(p) => mode = "open" /\ Live(p) BY DEF MgrIInv, OnlyLiveRuns
  <2>3. CASE obj'[p].vm.open
    <3>1. CASE p = o /\ o = caller[t].o /\ mode = "open" /\ c.pc \in LiveCandidate
      BY <1>2, <3>1 DEF Live, LiveCandidate
    <3>2. CASE obj[p].vm.open BY <2>1, <2>2, <3>2 DEF Runs
    <3> QED BY <1>2, <2>3, <3>1, <3>2
  <2>4. CASE obj'[p].idle # NoWorker
    <3>1. obj[p].idle # NoWorker BY <1>2, <2>4 DEF Tame, PoolKept
    <3> QED BY <2>1, <2>2, <3>1 DEF Runs
  <2>5. ASSUME NEW u \in Callers, caller'[u].o = p, caller'[u].worker # NoWorker
        PROVE  Runs(p)
    <3>1. u # t BY <1>2, <1>3, <2>5
    <3> QED BY <1>2, <2>5, <3>1 DEF Kept, Runs
  <2> QED BY <2>1, <2>2, <2>3, <2>4, <2>5 DEF Runs
<1>7. caller'[t].pc \notin Removing \cup OfEntry \cup {"idle"}
  BY <1>2 DEF Candidates, Removing, OfEntry
<1>8. RemovalSound(t)' BY <1>7 DEF RemovalSound
<1>9. GoneForGood' BY <1>1 DEF GoneForGood
<1>10. entries' <= made' /\ caller'[t].o <= made' /\ made <= made' BY <1>2, DiskFacts
<1>11. caller'[t].pc # "idle" => caller'[t].o \in Objects BY <1>1, <1>2
<1>12. caller'[t].pc \in OfEntry => caller'[t].o = entries' BY <1>7
<1> QED BY <1>1, <1>2, <1>4, <1>5, <1>6, <1>8, <1>9, <1>10, <1>11, <1>12, MutateStep

(* It keeps its objects, and goes on.                                       *)
LEMMA GoesOn ==
  ASSUME MgrIInv, NEW t \in Callers, caller[t].pc \in Candidates,
         NEW pc \in Candidates, Go(t, pc), UNCHANGED <<obj, entries, made, mode, crashes, past>>,
         data' \in {data, Touched}, disk' \in Disks, BackupInUse', KnownKept',
         \/ pc \in {"retire", "replace"} \/ entries = 0
         \/ /\ caller[t].pc \notin {"retire", "replace"}
            /\ disk'.target \in {0, disk.target, obj[entries].version},
         caller[t].pc \in LiveCandidate => pc \in LiveCandidate,
         (entries = 0) = (pc \in {"install", "publish"}),
         pc \in {"install", "upgrade", "swap", "activate"} => disk'.stage = caller[t].v,
         pc \in {"install", "activate"} => disk'.target = 0,
         pc = "activate" => disk'.backup = obj[entries].version,
         pc \in {"publish", "retire", "replace"} => disk'.target = caller[t].v
  PROVE  MgrIInv'
<1>1. PICK o \in Objects : o = caller[t].o BY MutatorFacts
<1>2. CandidateSound(t) /\ o # entries BY <1>1 DEF MgrIInv, CandidateSound
<1>3. obj[o] \in Installed /\ caller[t] \in CallerState /\ caller[t].worker = NoWorker
      /\ caller[t].pc # "downloading"
  BY <1>1, MutatorFacts
<1>4. pc \in CallerPlaces BY DEF CallerPlaces
<1> DEFINE y == obj[o]
           c == [caller[t] EXCEPT !.pc = pc]
<1>5. Tame(o, y) BY <1>3 DEF Tame, PoolKept
<1>6. obj' = [obj EXCEPT ![o] = y] BY DEF MgrIInv, MgrTyped
<1>7. /\ c \in CallerState /\ c.pc = pc /\ c.o = o /\ c.v = caller[t].v
      /\ c.worker = NoWorker
  BY <1>1, <1>3, <1>4, GoState
<1>8. caller' = [caller EXCEPT ![t] = c] BY DEF Go, Move
<1> HIDE DEF c, y
<1>9. Changes(t, o, y, c) BY <1>1, <1>3, <1>6, <1>7, <1>8 DEF Changes, y
<1>10. /\ caller' \in [Callers -> CallerState] /\ caller'[t] = c
       /\ \A u \in Callers : u # t => caller'[u] = caller[u]
  BY <1>7, <1>8, MovedCallers DEF MgrIInv
<1>11. CandidateSound(t)' BY <1>1, <1>2, <1>7, <1>10 DEF CandidateSound
<1>12. y.vm.open => obj[o].vm.open BY DEF y
<1>13. \/ c.pc \in {"retire", "replace"} \/ entries = 0
       \/ /\ caller[t].pc \notin {"retire", "replace"} /\ o # entries
          /\ disk'.target \in {0, disk.target, obj[entries].version}
  BY <1>2, <1>7
<1>14. c.pc \in Candidates /\ c.o = caller[t].o
       /\ (caller[t].pc \in LiveCandidate => c.pc \in LiveCandidate)
  BY <1>1, <1>7
<1> QED BY <1>5, <1>9, <1>11, <1>12, <1>13, <1>14, CandidateGoes

LEMMA KnownWitness ==
  ASSUME MgrIInv, past.known # 0
  PROVE  \E v \in disk.left \cup {disk.target, disk.backup} : v # 0 /\ v >= past.known
<1>1. PICK v \in disk.left \cup {disk.target, disk.backup} : v >= past.known
  BY DEF MgrIInv, KnownKept
<1>2. past.known \in Nat BY DiskFacts
<1> QED BY <1>1, <1>2

LEMMA ActivateStep ==
  ASSUME MgrIInv, NEW t \in Callers, Activate(t)
  PROVE  MgrIInv'
<1>1. /\ caller[t].pc = "install" /\ data' = Touched /\ Go(t, "publish")
      /\ disk' = [disk EXCEPT !.target = caller[t].v, !.stage = 0]
      /\ UNCHANGED <<obj, entries, made, mode, crashes, past>>
  BY DEF Activate
<1>2. caller[t].pc \in Candidates /\ "publish" \in Candidates BY <1>1 DEF Candidates
<1>3. disk.backup = 0 BY <1>1, <1>2, NoBackup
<1>4. CandidateSound(t) /\ caller[t].v \in Nat BY DEF MgrIInv, MgrTyped
<1>5. disk.target = 0 /\ entries = 0 BY <1>1, <1>2, <1>4 DEF CandidateSound
<1>6. /\ disk' \in Disks /\ disk'.target = caller[t].v /\ disk'.backup = 0
      /\ disk'.left = disk.left
  BY <1>1, <1>3, <1>4, DiskFacts DEF Disks
<1>7. BackupInUse' BY <1>6 DEF BackupInUse
<1>8. KnownKept'
  <2>1. past.known # 0 => \E v \in disk.left : v >= past.known BY <1>3, <1>5, KnownWitness
  <2> QED BY <1>1, <1>6, <2>1 DEF KnownKept
<1>9. caller[t].pc \notin LiveCandidate BY <1>1 DEF LiveCandidate
<1> QED BY <1>1, <1>2, <1>5, <1>6, <1>7, <1>8, <1>9, GoesOn

LEMMA PublishStep ==
  ASSUME MgrIInv, NEW t \in Callers, Publish(t)
  PROVE  MgrIInv'
<1>1. /\ caller[t].pc = "publish" /\ entries' = caller[t].o
      /\ past' = [past EXCEPT !.known = caller[t].v] /\ Move(t, Resting)
      /\ UNCHANGED <<disk, data, obj, made, mode, crashes>>
  BY DEF Publish, Return
<1>2. caller[t].pc \in Candidates BY <1>1 DEF Candidates
<1>3. /\ caller[t].o \in Objects /\ caller[t].pc # "downloading" /\ ~past.gone
      /\ \A u \in Callers : u # t => caller[u].pc \notin Candidates \cup Removing \cup OfEntry
  BY <1>2, MutatorFacts
<1>4. CandidateSound(t) /\ caller[t].v \in Nat BY DEF MgrIInv, MgrTyped
<1>5. /\ entries = 0 /\ disk.target = caller[t].v /\ obj[caller[t].o].version = caller[t].v
      /\ obj[caller[t].o].vm.code \in {0, caller[t].v} /\ obj[caller[t].o].idle = NoWorker
      /\ \A u \in Callers : u # t => caller[u].o # caller[t].o
  BY <1>1, <1>2, <1>4 DEF CandidateSound
<1>6. /\ WorkersSound' /\ IdleSound' /\ ActiveSound'
      /\ caller' \in [Callers -> CallerState] /\ caller'[t] = Resting
      /\ \A u \in Callers : u # t => caller'[u] = caller[u] /\ Kept(u)
      /\ \A p \in Objects : Runs(p)' => Runs(p)
  BY <1>1, <1>3, Constants, KeepsPools
<1>7. past' \in [known : Nat, gone : BOOLEAN] /\ past'.known = caller[t].v /\ ~past'.gone
  BY <1>1, <1>3, <1>4, DiskFacts
<1>8. MgrTyped' BY <1>1, <1>3, <1>6, <1>7, DiskFacts DEF MgrTyped, CallerState, Disks
<1>9. entries' <= made BY <1>1, DiskFacts
<1>10. EntryOwn'
  <2>1. NoWorker.code = 0 BY Constants
  <2>2. caller'[t].o = 0 /\ caller[t].o # 0 BY <1>2, <1>6, Constants, MutatorFacts
  <2>3. \A u \in Callers : caller'[u].o # caller[t].o BY <1>5, <1>6, <2>2
  <2> QED BY <1>1, <1>5, <2>1, <2>3 DEF EntryOwn
<1>11. OnlyLiveRuns'
  <2>1. ASSUME NEW p \in Objects, Runs(p) PROVE FALSE
    <3>1. Live(p) /\ p # 0 BY <2>1 DEF MgrIInv, OnlyLiveRuns, Objects
    <3> QED BY <1>1, <1>3, <1>5, <3>1 DEF Live, Candidates, Removing
  <2> QED BY <1>6, <2>1 DEF OnlyLiveRuns
<1>12. disk.backup = 0 BY <1>1, <1>2, NoBackup
<1>13. BackupInUse' /\ GoneForGood' BY <1>1, <1>7, <1>12 DEF BackupInUse, GoneForGood
<1>14. KnownKept' BY <1>1, <1>4, <1>5, <1>7 DEF KnownKept
<1>15. caller[t].pc \in Candidates \cup Removing BY <1>2
<1> QED BY <1>1, <1>6, <1>8, <1>9, <1>10, <1>11, <1>13, <1>14, <1>15, EndsStep

LEMMA CandidateStep ==
  ASSUME MgrIInv, NEW t \in Callers, Candidate(t)
  PROVE  MgrIInv'
<1>0. PICK o \in Objects : o = caller[t].o
  <2>1. caller[t].pc \in Candidates BY DEF Candidate, Candidates
  <2> QED BY <2>1, MutatorFacts
<1> DEFINE y == IF obj[o].enabled THEN Ready(o) ELSE obj[o]
           c == [caller[t] EXCEPT !.pc = "swap"]
<1>2. obj \in [Objects -> Installed] BY DiskFacts
<1>1. /\ caller[t].pc = "upgrade" /\ mode = "open" /\ data' = Touched
      /\ obj' = [obj EXCEPT ![o] = y] /\ caller' = [caller EXCEPT ![t] = c]
      /\ UNCHANGED <<disk, entries, made, mode, crashes, past>>
  BY <1>0, <1>2 DEF Candidate, Go, Move
<1>3. caller[t].pc \in Candidates BY <1>1 DEF Candidates
<1>4. /\ caller[t] \in CallerState /\ caller[t].worker = NoWorker
      /\ caller[t].pc # "downloading" /\ obj[o] \in Installed
  BY <1>0, <1>3, MutatorFacts
<1>5. CandidateSound(t) BY <1>3, CandidateQuiet
<1>6. /\ caller[t].v # 0 /\ obj[o].version = caller[t].v /\ o # entries
      /\ \A u \in Callers : u # t => caller[u].o # o
      /\ obj[o].vm.code \in {0, caller[t].v} /\ obj[o].idle = NoWorker
      /\ entries # 0 /\ disk.stage = caller[t].v
  BY <1>0, <1>1, <1>3, <1>5 DEF CandidateSound
<1>7. SourceOf(o) = caller[t].v BY <1>0, <1>1, <1>6 DEF SourceOf
<1>8. SourceOf(o) \in Nat BY <1>4, <1>7 DEF CallerState
<1>9. Tame(o, obj[o]) BY <1>4 DEF Tame, PoolKept
<1>10. /\ Tame(o, y) /\ y.vm.code \in {0, caller[t].v} /\ y.idle = NoWorker
       /\ obj[o].active \subseteq y.active /\ y.version = caller[t].v
  <2>1. /\ Tame(o, Ready(o)) /\ Ready(o).vm.code \in {obj[o].vm.code, SourceOf(o)}
        /\ Ready(o).active = obj[o].active /\ Ready(o).idle \in {obj[o].idle, NoWorker}
    BY <1>8, ReadyTame DEF MgrIInv
  <2> QED BY <1>6, <1>7, <1>9, <2>1 DEF Tame
<1>11. "swap" \in CallerPlaces BY DEF CallerPlaces, Candidates
<1>12. /\ c \in CallerState /\ c.pc = "swap" /\ c.o = o /\ c.v = caller[t].v
       /\ c.worker = NoWorker
  BY <1>0, <1>4, <1>11, GoState
<1> HIDE DEF c, y
<1>13. Changes(t, o, y, c) BY <1>1, <1>4, <1>10, <1>12 DEF Changes
<1>14. /\ caller'[t] = c /\ \A u \in Callers : u # t => caller'[u] = caller[u]
  BY <1>1, <1>12, MovedCallers DEF MgrIInv
<1>15. obj'[o] = y BY <1>1, <1>2
<1>16. CandidateSound(t)' BY <1>1, <1>6, <1>10, <1>12, <1>14, <1>15 DEF CandidateSound
<1>17. disk.backup = 0 BY <1>1, <1>3, NoBackup
<1>18. BackupInUse' /\ KnownKept' BY <1>1, <1>17 DEF BackupInUse, KnownKept, MgrIInv
<1>19. c.pc \in Candidates /\ c.pc \in LiveCandidate BY <1>12 DEF Candidates, LiveCandidate
<1>20. disk' \in Disks BY <1>1, DiskFacts
<1>21. c.o = caller[t].o BY <1>0, <1>12
<1>22. /\ caller[t].pc \notin {"retire", "replace"} /\ o # entries
       /\ disk'.target \in {0, disk.target, obj[entries].version}
  BY <1>1, <1>6
<1>23. y.vm.open => mode = "open" /\ o = caller[t].o /\ c.pc \in LiveCandidate BY <1>0, <1>1, <1>19
<1>24. UNCHANGED <<entries, made, mode, crashes, past>> /\ data' \in {data, Touched} BY <1>1
<1> QED BY <1>3, <1>10, <1>13, <1>16, <1>18, <1>19, <1>20, <1>21, <1>22, <1>23, <1>24, CandidateGoes

LEMMA BackupStep ==
  ASSUME MgrIInv, NEW t \in Callers, Backup(t)
  PROVE  MgrIInv'
<1>1. /\ caller[t].pc = "swap" /\ disk.target # 0 /\ Go(t, "activate")
      /\ disk' = [disk EXCEPT !.target = 0, !.backup = disk.target]
      /\ UNCHANGED <<data, entries, obj, made, mode, crashes, past>>
  BY DEF Backup
<1>2. caller[t].pc \in Candidates /\ "activate" \in Candidates BY <1>1 DEF Candidates
<1>3. disk.backup = 0 BY <1>1, <1>2, NoBackup
<1>4. CandidateSound(t) BY DEF MgrIInv
<1>5. entries # 0 /\ disk.stage = caller[t].v BY <1>1, <1>2, <1>4 DEF CandidateSound
<1>6. /\ disk' \in Disks /\ disk'.target = 0 /\ disk'.stage = disk.stage
      /\ disk'.backup = disk.target /\ disk'.left = disk.left
  BY <1>1, DiskFacts DEF Disks
<1>7. disk.target = obj[entries].version
  <2>1. \A u \in Callers : caller[u].pc \notin {"retire", "replace"}
    BY <1>1, <1>2, MutatorFacts DEF Candidates
  <2> QED BY <1>1, <1>5, <2>1 DEF MgrIInv, EntryOwn
<1>8. BackupInUse'
  <2>1. caller'[t].pc = "activate" BY <1>1 DEF Go, Move, MgrIInv, MgrTyped
  <2> QED BY <2>1 DEF BackupInUse
<1>9. KnownKept'
  <2>1. past.known # 0 => \E v \in disk.left \cup {disk.target} : v >= past.known
    BY <1>3, KnownWitness
  <2> QED BY <1>1, <1>6, <2>1 DEF KnownKept
<1>10. caller[t].pc \notin {"retire", "replace"} BY <1>1
<1>11. disk'.target \in {0, disk.target, obj[entries].version} BY <1>6
<1>12. disk'.backup = obj[entries].version /\ disk'.stage = caller[t].v BY <1>5, <1>6, <1>7
<1>13. "activate" \in LiveCandidate BY DEF LiveCandidate
<1> QED BY <1>1, <1>2, <1>5, <1>6, <1>8, <1>9, <1>10, <1>11, <1>12, <1>13, GoesOn

LEMMA SwapStep ==
  ASSUME MgrIInv, NEW t \in Callers, Swap(t)
  PROVE  MgrIInv'
<1>1. caller[t].pc = "activate" /\ UNCHANGED <<data, entries, made, mode, crashes, past>>
  BY DEF Swap
<1>2. caller[t].pc \in Candidates BY <1>1 DEF Candidates
<1>3. CandidateSound(t) BY DEF MgrIInv
<1>4. /\ entries # 0 /\ disk.stage = caller[t].v /\ disk.target = 0
      /\ disk.backup = obj[entries].version
  BY <1>1, <1>2, <1>3 DEF CandidateSound
<1>5. past.known # 0 => \E v \in disk.left \cup {disk.backup} : v # 0 /\ v >= past.known
  BY <1>4, KnownWitness
<1>6. CASE /\ disk' = [disk EXCEPT !.target = disk.stage, !.stage = 0]
           /\ Go(t, "retire") /\ UNCHANGED obj
  <2>1. /\ disk' \in Disks /\ disk'.target = caller[t].v /\ disk'.backup = disk.backup
        /\ disk'.left = disk.left
    BY <1>4, <1>6, DiskFacts DEF Disks
  <2>2. BackupInUse'
    <3>1. caller'[t].pc = "retire" BY <1>6 DEF Go, Move, MgrIInv, MgrTyped
    <3> QED BY <3>1 DEF BackupInUse
  <2>3. KnownKept' BY <1>1, <1>5, <2>1 DEF KnownKept
  <2>4. "retire" \in Candidates /\ "retire" \in LiveCandidate BY DEF Candidates, LiveCandidate
  <2> QED BY <1>1, <1>2, <1>4, <1>6, <2>1, <2>2, <2>3, <2>4, GoesOn
<1>7. CASE /\ \/ disk' = [disk EXCEPT !.target = disk.backup, !.stage = 0, !.backup = 0]
              \/ disk' = [disk EXCEPT !.stage = 0, !.backup = 0, !.left = @ \cup {disk.backup}]
           /\ obj' = [obj EXCEPT ![caller[t].o] = TornDown(@)] /\ Return(t)
  <2>1. /\ disk' \in Disks /\ disk'.backup = 0 /\ disk'.target \in {0, disk.backup}
        /\ disk.left \cup {disk.backup} \subseteq disk'.left \cup {disk'.target}
    <3>1. CASE disk' = [disk EXCEPT !.target = disk.backup, !.stage = 0, !.backup = 0]
      BY <3>1, DiskFacts DEF Disks
    <3>2. CASE disk' = [disk EXCEPT !.stage = 0, !.backup = 0, !.left = @ \cup {disk.backup}]
      BY <1>4, <3>2, DiskFacts DEF Disks
    <3> QED BY <1>7, <3>1, <3>2
  <2>2. disk'.target \in {0, obj[entries].version} BY <1>4, <2>1
  <2>3. past.known # 0 => \E v \in disk'.left \cup {disk'.target} : v >= past.known
    BY <1>5, <2>1
  <2>4. caller[t].pc \notin {"retire", "replace"} BY <1>1
  <2>5. data' \in {data, Touched} BY <1>1
  <2> QED BY <1>1, <1>2, <1>7, <2>1, <2>2, <2>3, <2>4, <2>5, Abandoned
<1> QED BY <1>6, <1>7 DEF Swap

LEMMA RetireStep ==
  ASSUME MgrIInv, NEW t \in Callers, Retire(t)
  PROVE  MgrIInv'
<1>1. /\ caller[t].pc = "retire" /\ obj' = [obj EXCEPT ![entries] = Disabled(@)]
      /\ Go(t, "replace") /\ UNCHANGED <<disk, data, entries, made, mode, crashes, past>>
  BY DEF Retire
<1>2. caller[t].pc \in Candidates BY <1>1 DEF Candidates
<1>3. CandidateSound(t) BY DEF MgrIInv
<1>4. /\ entries # 0 /\ caller[t].v # 0 /\ obj[caller[t].o].version = caller[t].v
      /\ caller[t].o # entries /\ \A u \in Callers : u # t => caller[u].o # caller[t].o
      /\ obj[caller[t].o].vm.code \in {0, caller[t].v} /\ obj[caller[t].o].idle = NoWorker
      /\ disk.target = caller[t].v
  BY <1>1, <1>2, <1>3 DEF CandidateSound
<1>5. PICK o \in Objects : o = entries BY <1>4, DiskFacts
<1> DEFINE y == [obj[o] EXCEPT !.enabled = FALSE]
           c == [caller[t] EXCEPT !.pc = "replace"]
<1>6. obj' = [obj EXCEPT ![o] = y] /\ caller' = [caller EXCEPT ![t] = c]
  BY <1>1, <1>5 DEF Disabled, Go, Move
<1>7. obj \in [Objects -> Installed] BY DiskFacts
<1>8. /\ y \in Installed /\ y.version = obj[o].version /\ y.vm = obj[o].vm
      /\ y.idle = obj[o].idle /\ y.gen = obj[o].gen /\ y.match = obj[o].match
      /\ y.active = obj[o].active
  BY <1>7 DEF Installed
<1>9. /\ caller[t] \in CallerState /\ caller[t].worker = NoWorker
      /\ caller[t].pc # "downloading" /\ caller[t].o \in Objects
  BY <1>2, MutatorFacts
<1>10. "replace" \in CallerPlaces BY DEF CallerPlaces, Candidates
<1>11. /\ c \in CallerState /\ c.pc = "replace" /\ c.o = caller[t].o /\ c.v = caller[t].v
       /\ c.worker = NoWorker
  BY <1>9, <1>10, GoState
<1> HIDE DEF c, y
<1>12. Tame(o, y) BY <1>8 DEF Tame, PoolKept
<1>13. Changes(t, o, y, c) BY <1>6, <1>8, <1>9, <1>11 DEF Changes
<1>14. /\ caller'[t] = c /\ \A u \in Callers : u # t => caller'[u] = caller[u]
  BY <1>6, <1>11, MovedCallers DEF MgrIInv
<1>15. obj'[caller[t].o] = obj[caller[t].o] BY <1>4, <1>5, <1>6, <1>7, <1>9
<1>16. CandidateSound(t)' BY <1>1, <1>4, <1>11, <1>14, <1>15 DEF CandidateSound
<1>17. BackupInUse' BY <1>11, <1>14 DEF BackupInUse
<1>18. KnownKept' BY <1>1 DEF MgrIInv, KnownKept
<1>19. /\ c.pc \in Candidates /\ c.pc \in LiveCandidate /\ c.pc \in {"retire", "replace"}
  BY <1>11 DEF Candidates, LiveCandidate
<1>20. disk' \in Disks BY <1>1, DiskFacts
<1>21. y.vm.open => obj[o].vm.open BY <1>8
<1>22. UNCHANGED <<entries, made, mode, crashes, past>> /\ data' \in {data, Touched} BY <1>1
<1> QED BY <1>2, <1>11, <1>12, <1>13, <1>16, <1>17, <1>18, <1>19, <1>20, <1>21, <1>22, CandidateGoes
-----------------------------------------------------------------------------
(* The teardown of an object whose engine is free: nothing of it runs on.   *)
LEMMA StopsAll ==
  ASSUME MgrIInv, NEW t \in Callers, NEW STATE o, o \in Objects, EngineFree(o), NEW STATE c,
         Changes(t, o, TornDown(obj[o]), c)
  PROVE  /\ WorkersSound' /\ IdleSound' /\ ActiveSound'
         /\ caller' \in [Callers -> CallerState] /\ caller'[t] = c
         /\ \A u \in Callers : u # t => Kept(u)
         /\ obj' \in [Objects -> Installed] /\ obj'[o].version = obj[o].version
         /\ obj'[o].vm = NoVM /\ obj'[o].idle = NoWorker
         /\ \A p \in Objects : p # o => obj'[p] = obj[p]
         /\ \A p \in Objects : Runs(p)' => p # o /\ Runs(p)
<1> DEFINE y == TornDown(obj[o])
<1>1. Tame(o, y) /\ y.vm = NoVM /\ y.idle = NoWorker /\ y.active = {}
  BY TornDownTame DEF MgrIInv
<1>2. Changes(t, o, y, c) OBVIOUS
<1> HIDE DEF y
<1>3. /\ WorkersSound' /\ IdleSound' /\ ActiveSound'
      /\ caller' \in [Callers -> CallerState] /\ caller'[t] = c
      /\ \A u \in Callers : u # t =>
           /\ Kept(u)
           /\ u \in obj[o].active \ y.active => caller'[u].worker = NoWorker
      /\ obj'[o] = y /\ \A p \in Objects : p # o => obj'[p] = obj[p]
      /\ obj' \in [Objects -> Installed]
  BY <1>1, <1>2, ChangesPool
<1>4. c.worker = NoWorker BY <1>2 DEF Changes
<1>5. ASSUME NEW u \in Callers, caller'[u].o = o PROVE caller'[u].worker = NoWorker
  <2> SUFFICES ASSUME caller'[u].worker # NoWorker PROVE FALSE OBVIOUS
  <2>1. u # t BY <1>3, <1>4
  <2>2. caller[u].o = o /\ caller[u].worker # NoWorker BY <1>3, <1>5, <2>1 DEF Kept
  <2>3. /\ caller[u].pc \in {"borrowing", "downloading"}
        /\ caller[u].pc = "downloading" => u \in obj[o].active
    BY <2>2 DEF MgrIInv, WorkersSound
  <2>4. u \in obj[o].active BY <2>2, <2>3 DEF EngineFree
  <2> QED BY <1>1, <1>3, <2>1, <2>4
<1>7. ASSUME NEW p \in Objects, Runs(p)' PROVE p # o /\ Runs(p)
  <2>1. p # o BY <1>1, <1>3, <1>5, <1>7, Constants DEF Runs
  <2>2. ASSUME NEW u \in Callers, caller'[u].o = p, caller'[u].worker # NoWorker PROVE Runs(p)
    <3>1. u # t BY <1>3, <1>4, <2>2
    <3> QED BY <1>3, <2>2, <3>1 DEF Kept, Runs
  <2> QED BY <1>3, <1>7, <2>1, <2>2 DEF Runs
<1> QED BY <1>1, <1>3, <1>7 DEF Tame

LEMMA ReplaceStep ==
  ASSUME MgrIInv, NEW t \in Callers, Replace(t)
  PROVE  MgrIInv'
<1>1. /\ caller[t].pc = "replace" /\ EngineFree(entries)
      /\ obj' = [obj EXCEPT ![entries] = TornDown(obj[entries])]
      /\ disk' = [disk EXCEPT !.backup = 0] /\ entries' = caller[t].o
      /\ past' = [past EXCEPT !.known = caller[t].v]
      /\ caller' = [Joined(obj[entries], TornDown(obj[entries])) EXCEPT ![t] = Resting]
      /\ UNCHANGED <<data, made, mode, crashes>>
  BY DEF Replace
<1>2. caller[t].pc \in Candidates BY <1>1 DEF Candidates
<1>3. CandidateSound(t) BY DEF MgrIInv
<1>4. /\ entries # 0 /\ caller[t].v # 0 /\ obj[caller[t].o].version = caller[t].v
      /\ caller[t].o # entries /\ \A u \in Callers : u # t => caller[u].o # caller[t].o
      /\ obj[caller[t].o].vm.code \in {0, caller[t].v} /\ obj[caller[t].o].idle = NoWorker
      /\ disk.target = caller[t].v
  BY <1>1, <1>2, <1>3 DEF CandidateSound
<1>5. PICK o \in Objects : o = entries BY <1>4, DiskFacts
<1>6. /\ caller[t].worker = NoWorker /\ caller[t].pc # "downloading" /\ ~past.gone
      /\ caller[t].o \in Objects /\ caller[t].o # 0 /\ caller[t].v \in Nat
      /\ \A u \in Callers : u # t => caller[u].pc \notin Candidates \cup Removing \cup OfEntry
  BY <1>2, MutatorFacts DEF CallerState
<1>7. Changes(t, o, TornDown(obj[o]), Resting) BY <1>1, <1>5, <1>6, Constants DEF Changes
<1>8. /\ WorkersSound' /\ IdleSound' /\ ActiveSound'
      /\ caller' \in [Callers -> CallerState] /\ caller'[t] = Resting
      /\ \A u \in Callers : u # t => Kept(u)
      /\ obj' \in [Objects -> Installed]
      /\ \A p \in Objects : p # o => obj'[p] = obj[p]
      /\ \A p \in Objects : Runs(p)' => p # o /\ Runs(p)
  BY <1>1, <1>5, <1>7, StopsAll
<1>9. /\ disk' \in Disks /\ disk'.target = caller[t].v /\ disk'.backup = 0
      /\ past' \in [known : Nat, gone : BOOLEAN] /\ past'.known = caller[t].v /\ ~past'.gone
  BY <1>1, <1>4, <1>6, DiskFacts DEF Disks
<1>10. MgrTyped' BY <1>1, <1>6, <1>8, <1>9, DiskFacts DEF MgrTyped, CallerState, Disks
<1>11. entries' <= made BY <1>1, DiskFacts
<1>12. EntryOwn'
  <2>1. obj'[caller[t].o] = obj[caller[t].o] BY <1>4, <1>5, <1>6, <1>8
  <2>2. \A u \in Callers : caller'[u].o # caller[t].o
    BY <1>4, <1>6, <1>8, Constants DEF Kept
  <2> QED BY <1>1, <1>4, <1>9, <2>1, <2>2, Constants DEF EntryOwn
<1>13. OnlyLiveRuns'
  <2> SUFFICES ASSUME NEW p \in Objects, Runs(p)' PROVE mode' = "open" /\ Live(p)'
    BY DEF OnlyLiveRuns
  <2>1. p # o /\ Runs(p) BY <1>8
  <2>2. mode = "open" /\ Live(p) BY <2>1 DEF MgrIInv, OnlyLiveRuns
  <2>3. p = caller[t].o BY <1>5, <1>6, <2>1, <2>2 DEF Live, Candidates, Removing
  <2> QED BY <1>1, <2>2, <2>3 DEF Live
<1>14. BackupInUse' /\ GoneForGood' BY <1>9 DEF BackupInUse, GoneForGood
<1>15. KnownKept' BY <1>6, <1>9 DEF KnownKept
<1>16. made' = made /\ caller[t].pc \in Candidates \cup Removing BY <1>1, <1>2
<1> QED BY <1>8, <1>10, <1>11, <1>12, <1>13, <1>14, <1>15, <1>16, EndsStep

LEMMA UnpublishStep ==
  ASSUME MgrIInv, NEW t \in Callers, Unpublish(t)
  PROVE  MgrIInv'
<1>1. PICK pc \in {"unload", "remove"} :
        /\ Move(t, [Resting EXCEPT !.pc = pc, !.o = entries])
        /\ past' = IF pc = "remove" THEN [past EXCEPT !.known = 0] ELSE past
  BY DEF Unpublish
<1>2. /\ caller[t].pc = "idle" /\ mode = "open" /\ MutationFree /\ entries # 0
      /\ obj' = [obj EXCEPT ![entries] = Disabled(@)] /\ entries' = 0
      /\ UNCHANGED <<disk, data, made, mode, crashes>>
  BY DEF Unpublish
<1>3. PICK o \in Objects : o = entries BY <1>2, DiskFacts
<1> DEFINE y == [obj[o] EXCEPT !.enabled = FALSE]
           c == [Resting EXCEPT !.pc = pc, !.o = entries]
<1>4. obj' = [obj EXCEPT ![o] = y] /\ caller' = [caller EXCEPT ![t] = c]
  BY <1>1, <1>2, <1>3 DEF Disabled, Move
<1>5. obj \in [Objects -> Installed] BY DiskFacts
<1>6. /\ y \in Installed /\ y.version = obj[o].version /\ y.vm = obj[o].vm
      /\ y.idle = obj[o].idle /\ y.gen = obj[o].gen /\ y.match = obj[o].match
      /\ y.active = obj[o].active
  BY <1>5 DEF Installed
<1>7. pc \in CallerPlaces BY DEF CallerPlaces, Removing
<1>8. c \in CallerState /\ c.pc = pc /\ c.o = o /\ c.worker = NoWorker
  BY <1>3, <1>7, RestingCaller
<1> HIDE DEF c, y
<1>9. /\ caller[t].worker = NoWorker /\ caller[t].pc # "downloading"
      /\ \A u \in Callers : caller[u].pc \notin Candidates \cup Removing \cup OfEntry
  BY <1>2, IdleFacts
<1>10. Tame(o, y) BY <1>6 DEF Tame, PoolKept
<1>11. Changes(t, o, y, c) BY <1>4, <1>6, <1>8, <1>9 DEF Changes
<1>12. /\ WorkersSound' /\ IdleSound' /\ ActiveSound'
       /\ caller' \in [Callers -> CallerState] /\ caller'[t] = c
       /\ \A u \in Callers : u # t => Kept(u)
       /\ obj'[o] = y /\ \A p \in Objects : p # o => obj'[p] = obj[p]
       /\ obj' \in [Objects -> Installed]
  BY <1>10, <1>11, ChangesPool
<1>13. /\ past' \in [known : Nat, gone : BOOLEAN] /\ past'.known \in {0, past.known}
       /\ pc = "remove" => past'.known = 0
       /\ ~past'.gone
  <2>1. ~past.gone BY <1>2 DEF MgrIInv, GoneForGood
  <2>2. past \in [known : Nat, gone : BOOLEAN] BY DiskFacts
  <2>3. CASE pc = "remove" BY <1>1, <2>1, <2>2, <2>3
  <2>4. CASE pc # "remove" BY <1>1, <2>1, <2>2, <2>4
  <2> QED BY <2>3, <2>4
<1>14. MgrTyped' BY <1>2, <1>12, <1>13, DiskFacts DEF MgrTyped, CallerState, Disks
<1>15. CandidateSound(t)' /\ (caller'[t].pc \in OfEntry => caller'[t].o = entries')
  BY <1>8, <1>12 DEF CandidateSound, Candidates, OfEntry
<1>16. RemovalSound(t)'
  <2>1. disk.target \in {0, obj[o].version}
    BY <1>2, <1>3, <1>9 DEF MgrIInv, EntryOwn, Candidates
  <2> QED BY <1>2, <1>6, <1>8, <1>12, <1>13, <2>1 DEF RemovalSound
<1>17. BackupInUse' BY <1>2, <1>9 DEF MgrIInv, BackupInUse, Candidates
<1>18. EntryOwn' /\ GoneForGood' BY <1>2, <1>13 DEF EntryOwn, GoneForGood
<1>19. OnlyLiveRuns'
  <2> SUFFICES ASSUME NEW p \in Objects, Runs(p)' PROVE mode' = "open" /\ Live(p)'
    BY DEF OnlyLiveRuns
  <2>1. Runs(p)
    <3>1. obj'[p].vm = obj[p].vm /\ obj'[p].idle = obj[p].idle BY <1>6, <1>12
    <3>2. ASSUME NEW u \in Callers, caller'[u].o = p, caller'[u].worker # NoWorker PROVE Runs(p)
      <4>1. u # t BY <1>8, <1>12, <3>2
      <4> QED BY <1>12, <3>2, <4>1 DEF Kept, Runs
    <3> QED BY <3>1, <3>2 DEF Runs
  <2>2. mode = "open" /\ Live(p) BY <2>1 DEF MgrIInv, OnlyLiveRuns
  <2>3. p = o BY <1>3, <1>9, <2>2 DEF Live, Candidates, Removing
  <2> QED BY <1>2, <1>8, <1>12, <2>3 DEF Live
<1>20. KnownKept' BY <1>2, <1>13 DEF MgrIInv, KnownKept
<1>21. entries' <= made' /\ caller'[t].o <= made' /\ made <= made'
  BY <1>2, <1>3, <1>8, <1>12, DiskFacts
<1>22. caller'[t].pc # "idle" => caller'[t].o \in Objects BY <1>8, <1>12
<1> QED BY <1>9, <1>12, <1>14, <1>15, <1>16, <1>17, <1>18, <1>19, <1>20, <1>21, <1>22, MutateStep

(* What a removal knows.                                                    *)
LEMMA RemovalFacts ==
  ASSUME MgrIInv, NEW t \in Callers, caller[t].pc \in Removing
  PROVE  /\ caller[t] \in CallerState /\ caller[t].o \in Objects /\ caller[t].o # 0
         /\ caller[t].worker = NoWorker /\ caller[t].pc # "downloading" /\ ~past.gone
         /\ \A u \in Callers : u # t => caller[u].pc \notin Candidates \cup Removing \cup OfEntry
         /\ \A u \in Callers : caller[u].pc \notin Candidates
         /\ entries = 0 /\ disk.target \in {0, obj[caller[t].o].version} /\ disk.backup = 0
         /\ caller[t].pc # "unload" => past.known = 0
         /\ caller[t].pc \in {"eraseSource", "eraseData"} =>
              /\ obj[caller[t].o].vm = NoVM /\ obj[caller[t].o].idle = NoWorker
              /\ \A p \in Objects : ~Runs(p)
<1>1. /\ caller[t] \in CallerState /\ caller[t].o \in Objects /\ caller[t].o # 0
      /\ caller[t].worker = NoWorker /\ caller[t].pc # "downloading" /\ ~past.gone
      /\ \A u \in Callers : u # t => caller[u].pc \notin Candidates \cup Removing \cup OfEntry
  BY MutatorFacts
<1>2. \A u \in Callers : caller[u].pc \notin Candidates BY <1>1 DEF Candidates, Removing
<1>3. RemovalSound(t) BY DEF MgrIInv
<1>4. disk.backup = 0 BY <1>2 DEF MgrIInv, BackupInUse, Candidates
<1>5. ASSUME caller[t].pc \in {"eraseSource", "eraseData"}, NEW p \in Objects, Runs(p) PROVE FALSE
  <2>1. Live(p) /\ p # 0 BY <1>5 DEF MgrIInv, OnlyLiveRuns, Objects
  <2> QED BY <1>1, <1>3, <1>5, <2>1 DEF Live, RemovalSound, Candidates, Removing
<1> QED BY <1>1, <1>2, <1>3, <1>4, <1>5 DEF RemovalSound

LEMMA TearDownStep ==
  ASSUME MgrIInv, NEW t \in Callers, TearDown(t)
  PROVE  MgrIInv'
<1>0. caller[t].pc \in {"unload", "remove"} /\ caller[t].pc \in Removing
  BY DEF TearDown, Removing
<1>1. PICK o \in Objects : o = caller[t].o BY <1>0, RemovalFacts
<1>2. /\ caller[t] \in CallerState /\ o # 0
      /\ caller[t].worker = NoWorker /\ caller[t].pc # "downloading" /\ ~past.gone
      /\ \A u \in Callers : u # t => caller[u].pc \notin Candidates \cup Removing \cup OfEntry
      /\ entries = 0 /\ disk.target \in {0, obj[o].version} /\ disk.backup = 0
      /\ caller[t].pc # "unload" => past.known = 0
  BY <1>0, <1>1, RemovalFacts
<1> DEFINE c == IF caller[t].pc = "unload" THEN Resting ELSE [caller[t] EXCEPT !.pc = "eraseSource"]
<1>3. obj \in [Objects -> Installed] BY DiskFacts
<1>4. /\ EngineFree(o) /\ obj' = [obj EXCEPT ![o] = TornDown(obj[o])]
      /\ UNCHANGED <<disk, data, entries, made, mode, crashes, past>>
  BY <1>1, <1>3 DEF TearDown
<1>5. caller' = [Joined(obj[o], TornDown(obj[o])) EXCEPT ![t] = c]
  <2>1. obj'[o] = TornDown(obj[o]) BY <1>3, <1>4
  <2> QED BY <1>1, <2>1 DEF TearDown
<1>6. /\ c \in CallerState /\ c.worker = NoWorker /\ c.pc \in {"idle", "eraseSource"}
      /\ c.pc = "idle" => c = Resting
      /\ c.pc = "eraseSource" => c.o = o /\ caller[t].pc = "remove"
  <2>1. "eraseSource" \in CallerPlaces BY DEF CallerPlaces, Removing
  <2>2. LET d == [caller[t] EXCEPT !.pc = "eraseSource"] IN
        d \in CallerState /\ d.pc = "eraseSource" /\ d.o = caller[t].o /\ d.worker = caller[t].worker
    BY <1>2, <2>1, GoState
  <2> QED BY <1>0, <1>1, <1>2, <2>2, Constants
<1> HIDE DEF c
<1>7. Changes(t, o, TornDown(obj[o]), c) BY <1>2, <1>4, <1>5, <1>6 DEF Changes
<1>8. /\ WorkersSound' /\ IdleSound' /\ ActiveSound'
      /\ caller' \in [Callers -> CallerState] /\ caller'[t] = c
      /\ \A u \in Callers : u # t => Kept(u)
      /\ obj' \in [Objects -> Installed] /\ obj'[o].version = obj[o].version
      /\ obj'[o].vm = NoVM /\ obj'[o].idle = NoWorker
      /\ \A p \in Objects : Runs(p)' => p # o /\ Runs(p)
  BY <1>4, <1>7, StopsAll
<1>9. MgrTyped' BY <1>4, <1>8, DiskFacts DEF MgrTyped, CallerState, Disks
<1>10. EntryOwn' /\ GoneForGood' /\ BackupInUse'
  BY <1>2, <1>4 DEF EntryOwn, GoneForGood, BackupInUse
<1>11. OnlyLiveRuns'
  <2> SUFFICES ASSUME NEW p \in Objects, Runs(p)' PROVE FALSE BY DEF OnlyLiveRuns
  <2>1. p # o /\ Runs(p) /\ p # 0 BY <1>8 DEF Objects
  <2>2. Live(p) BY <2>1 DEF MgrIInv, OnlyLiveRuns
  <2> QED BY <1>1, <1>2, <2>1, <2>2 DEF Live, Candidates, Removing
<1>12. KnownKept' BY <1>4 DEF MgrIInv, KnownKept
<1>13. caller[t].pc \in Candidates \cup Removing /\ made' = made /\ entries' <= made
  BY <1>0, <1>4, DiskFacts
<1>14. CASE c = Resting
  BY <1>8, <1>9, <1>10, <1>11, <1>12, <1>13, <1>14, EndsStep
<1>15. CASE c.pc = "eraseSource"
  <2>1. CandidateSound(t)' BY <1>8, <1>15 DEF CandidateSound, Candidates
  <2>2. RemovalSound(t)' BY <1>2, <1>4, <1>6, <1>8, <1>15 DEF RemovalSound
  <2>3. entries' <= made' /\ caller'[t].o <= made' /\ made <= made'
    BY <1>1, <1>4, <1>6, <1>8, <1>15, DiskFacts
  <2>4. /\ caller'[t].pc # "idle" => caller'[t].o \in Objects
        /\ caller'[t].pc \in OfEntry => caller'[t].o = entries'
    BY <1>6, <1>8, <1>15 DEF OfEntry
  <2> QED BY <1>2, <1>8, <1>9, <1>10, <1>11, <1>12, <2>1, <2>2, <2>3, <2>4, MutateStep
<1> QED BY <1>6, <1>14, <1>15

LEMMA EraseSourceStep ==
  ASSUME MgrIInv, NEW t \in Callers, EraseSource(t)
  PROVE  MgrIInv'
<1>1. PICK ok \in BOOLEAN :
        /\ disk' = IF ok THEN [disk EXCEPT !.target = 0] ELSE disk
        /\ Move(t, [caller[t] EXCEPT !.pc = "eraseData", !.s = IF ok THEN 1 ELSE 0])
  BY DEF EraseSource
<1>2. caller[t].pc = "eraseSource" /\ UNCHANGED <<data, entries, obj, made, mode, crashes, past>>
  BY DEF EraseSource
<1>3. caller[t].pc \in Removing BY <1>2 DEF Removing
<1>4. /\ caller[t] \in CallerState /\ caller[t].o \in Objects
      /\ caller[t].worker = NoWorker /\ caller[t].pc # "downloading" /\ ~past.gone
      /\ \A u \in Callers : u # t => caller[u].pc \notin Candidates \cup Removing \cup OfEntry
      /\ entries = 0 /\ disk.target \in {0, obj[caller[t].o].version} /\ disk.backup = 0
      /\ past.known = 0
      /\ obj[caller[t].o].vm = NoVM /\ obj[caller[t].o].idle = NoWorker
      /\ \A p \in Objects : ~Runs(p)
  BY <1>2, <1>3, RemovalFacts
<1> DEFINE s == IF ok THEN 1 ELSE 0
           c == [caller[t] EXCEPT !.pc = "eraseData", !.s = s]
<1>5. s \in Nat OBVIOUS
<1>6. Move(t, c) BY <1>1
<1> HIDE DEF s
<1>7. c \in CallerState /\ c.pc = "eraseData" /\ c.o = caller[t].o /\ c.worker = NoWorker
  <2>1. "eraseData" \in CallerPlaces BY DEF CallerPlaces, Removing
  <2> QED BY <1>4, <1>5, <2>1 DEF CallerState
<1> HIDE DEF c
<1>8. /\ WorkersSound' /\ IdleSound' /\ ActiveSound'
      /\ caller' \in [Callers -> CallerState] /\ caller'[t] = c
      /\ \A u \in Callers : u # t => Kept(u)
      /\ \A p \in Objects : Runs(p)' => Runs(p)
  BY <1>2, <1>4, <1>6, <1>7, KeepsPools
<1>9. disk' \in Disks /\ disk'.target \in {0, disk.target} /\ disk'.backup = 0
  <2>1. CASE ok BY <1>1, <1>4, <2>1, DiskFacts DEF Disks
  <2>2. CASE ~ok BY <1>1, <1>4, <2>2, DiskFacts
  <2> QED BY <2>1, <2>2
<1>10. MgrTyped' BY <1>2, <1>8, <1>9, DiskFacts DEF MgrTyped, CallerState, Disks
<1>11. CandidateSound(t)' BY <1>7, <1>8 DEF CandidateSound, Candidates
<1>12. RemovalSound(t)' BY <1>2, <1>4, <1>7, <1>8, <1>9 DEF RemovalSound
<1>13. /\ EntryOwn' /\ GoneForGood' /\ BackupInUse' /\ KnownKept' /\ OnlyLiveRuns'
  BY <1>2, <1>4, <1>8, <1>9 DEF EntryOwn, GoneForGood, BackupInUse, KnownKept, OnlyLiveRuns
<1>14. entries' <= made' /\ caller'[t].o <= made' /\ made <= made'
  BY <1>2, <1>7, <1>8, DiskFacts
<1>15. /\ caller'[t].pc # "idle" => caller'[t].o \in Objects
       /\ caller'[t].pc \in OfEntry => caller'[t].o = entries'
  BY <1>4, <1>7, <1>8 DEF OfEntry
<1> QED BY <1>4, <1>8, <1>10, <1>11, <1>12, <1>13, <1>14, <1>15, MutateStep

LEMMA EraseDataStep ==
  ASSUME MgrIInv, NEW t \in Callers, EraseData(t)
  PROVE  MgrIInv'
<1>1. PICK ok \in {FALSE, mode = "open"} :
        /\ data' = IF ok THEN [exists |-> FALSE, settings |-> data.settings, enabled |-> FALSE]
                   ELSE data
        /\ entries' = IF ok /\ caller[t].s = 1 THEN 0 ELSE caller[t].o
        /\ past' = [past EXCEPT !.gone = ok /\ caller[t].s = 1]
  BY DEF EraseData
<1>2. caller[t].pc = "eraseData" /\ Move(t, Resting) /\ UNCHANGED <<disk, obj, made, mode, crashes>>
  BY DEF EraseData, Return
<1>3. caller[t].pc \in Removing BY <1>2 DEF Removing
<1>4. /\ caller[t] \in CallerState /\ caller[t].o \in Objects /\ caller[t].o # 0
      /\ caller[t].worker = NoWorker /\ caller[t].pc # "downloading" /\ ~past.gone
      /\ \A u \in Callers : u # t => caller[u].pc \notin Candidates \cup Removing \cup OfEntry
      /\ entries = 0 /\ disk.target \in {0, obj[caller[t].o].version} /\ disk.backup = 0
      /\ past.known = 0
      /\ obj[caller[t].o].vm = NoVM /\ obj[caller[t].o].idle = NoWorker
      /\ \A p \in Objects : ~Runs(p)
  BY <1>2, <1>3, RemovalFacts
<1>5. /\ WorkersSound' /\ IdleSound' /\ ActiveSound'
      /\ caller' \in [Callers -> CallerState] /\ caller'[t] = Resting
      /\ \A u \in Callers : u # t => caller'[u] = caller[u] /\ Kept(u)
      /\ \A p \in Objects : Runs(p)' => Runs(p)
  BY <1>2, <1>4, Constants, KeepsPools
<1> DEFINE gone == ok /\ caller[t].s = 1
<1>6. /\ past' \in [known : Nat, gone : BOOLEAN] /\ past'.known = 0 /\ past'.gone = gone
      /\ entries' \in {0, caller[t].o} /\ (gone => entries' = 0)
      /\ data' \in [exists : BOOLEAN, settings : Nat, enabled : BOOLEAN]
      /\ gone => ~data'.exists
  <2>1. CASE ok BY <1>1, <1>4, <2>1, DiskFacts
  <2>2. CASE ~ok BY <1>1, <1>4, <2>2, DiskFacts
  <2> QED BY <2>1, <2>2
<1> HIDE DEF gone
<1>7. MgrTyped' BY <1>2, <1>4, <1>5, <1>6, DiskFacts DEF MgrTyped, CallerState, Disks
<1>8. entries' <= made BY <1>4, <1>6, DiskFacts
<1>9. EntryOwn'
  <2> SUFFICES ASSUME entries' # 0 PROVE EntryOwn' BY DEF EntryOwn
  <2>1. entries' = caller[t].o BY <1>6
  <2>2. ASSUME NEW u \in Callers, caller'[u].o = caller[t].o PROVE caller'[u].worker = NoWorker
    <3>1. u # t BY <1>4, <1>5, <2>2, Constants
    <3> QED BY <1>4, <1>5, <2>2, <3>1 DEF Runs
  <2> QED BY <1>2, <1>4, <2>1, <2>2, Constants DEF EntryOwn
<1>10. OnlyLiveRuns' BY <1>4, <1>5 DEF OnlyLiveRuns
<1>11. BackupInUse' /\ KnownKept' BY <1>2, <1>4, <1>6 DEF BackupInUse, KnownKept
<1>12. GoneForGood'
  <2>1. Mutating' = {}
    <3>1. \A u \in Callers : caller'[u].pc \notin Candidates \cup Removing \cup OfEntry
      BY <1>4, <1>5, Constants DEF Candidates, Removing, OfEntry
    <3> QED BY <3>1 DEF Mutating, Candidates, Removing, OfEntry
  <2> QED BY <1>6, <2>1 DEF GoneForGood
<1>13. caller[t].pc \in Candidates \cup Removing /\ made' = made BY <1>2, <1>3
<1> QED BY <1>5, <1>7, <1>8, <1>9, <1>10, <1>11, <1>12, <1>13, EndsStep
-----------------------------------------------------------------------------
LEMMA LoadAllStep ==
  ASSUME MgrIInv, NEW t \in Callers, LoadAll(t)
  PROVE  MgrIInv'
<1> DEFINE n == made + 1
<1>1. PICK on \in BOOLEAN : obj' = [obj EXCEPT ![n] = Fresh(disk.target, on)]
  <2>1. PICK valid \in BOOLEAN :
          obj' = [obj EXCEPT ![n] = Fresh(disk.target, valid /\ data.enabled)]
    BY DEF LoadAll
  <2>2. (valid /\ data.enabled) \in BOOLEAN BY DiskFacts
  <2> QED BY <2>1, <2>2
<1>2. /\ caller[t].pc = "idle" /\ mode = "open" /\ MutationFree
      /\ entries = 0 /\ disk.target # 0 /\ made < MaxObjects
      /\ made' = n /\ entries' = n /\ data' = Touched
      /\ past' = [known |-> disk.target, gone |-> FALSE]
      /\ UNCHANGED <<disk, caller, mode, crashes>>
  BY DEF LoadAll
<1>3. made \in Nat /\ MaxObjects \in Nat /\ disk.target \in Nat
  <2>1. {MaxVersion, MaxSettings, MaxObjects, MaxCrashes} \subseteq Nat BY ManagerAssumption
  <2>2. MaxObjects \in Nat BY <2>1
  <2> QED BY <2>2, DiskFacts DEF Disks
<1>4. n \in Objects /\ n \in Nat BY <1>2, <1>3 DEF Objects
<1>5. /\ WorkersSound' /\ IdleSound' /\ ActiveSound'
      /\ obj' \in [Objects -> Installed] /\ obj'[n] = Fresh(disk.target, on)
      /\ \A p \in Objects : p # n => obj'[p] = obj[p]
      /\ \A u \in Callers : caller[u].o # n
  BY <1>1, <1>2, <1>3, <1>4, NewObject
<1>6. obj'[n].version = disk.target /\ obj'[n].vm = NoVM /\ obj'[n].idle = NoWorker
  BY <1>3, <1>5, FreshFacts
<1>7. \A u \in Callers : caller[u].pc \notin Candidates \cup Removing \cup OfEntry
  BY <1>2, IdleFacts
<1>8. \A u \in Callers : u # t => Kept(u) BY <1>2 DEF Kept
<1>9. past' \in [known : Nat, gone : BOOLEAN] /\ past'.known = disk.target /\ ~past'.gone
  BY <1>2, <1>3
<1>10. caller \in [Callers -> CallerState] BY DEF MgrIInv, MgrTyped, CallerState
<1>11. MgrTyped' BY <1>2, <1>4, <1>5, <1>9, <1>10, DiskFacts DEF MgrTyped, CallerState, Disks
<1>12. /\ CandidateSound(t)' /\ RemovalSound(t)'
       /\ caller'[t].pc \in OfEntry => caller'[t].o = entries'
       /\ caller'[t].pc # "idle" => caller'[t].o \in Objects
  BY <1>2 DEF CandidateSound, RemovalSound, Candidates, Removing, OfEntry
<1>13. BackupInUse' BY <1>2, <1>7 DEF MgrIInv, BackupInUse, Candidates
<1>14. EntryOwn' BY <1>2, <1>5, <1>6, Constants DEF EntryOwn
<1>15. OnlyLiveRuns'
  <2> SUFFICES ASSUME NEW p \in Objects, Runs(p)' PROVE FALSE BY DEF OnlyLiveRuns
  <2>1. p # n BY <1>2, <1>5, <1>6, Constants DEF Runs
  <2>2. Runs(p) BY <1>2, <1>5, <2>1 DEF Runs
  <2>3. Live(p) /\ p # 0 BY <2>2 DEF MgrIInv, OnlyLiveRuns, Objects
  <2> QED BY <1>2, <1>7, <2>3 DEF Live, Candidates, Removing
<1>16. GoneForGood' BY <1>9 DEF GoneForGood
<1>17. KnownKept' BY <1>2, <1>3, <1>9 DEF KnownKept
<1>18. entries' <= made' /\ caller'[t].o <= made' /\ made <= made'
  <2>1. caller[t].o \in {0} \cup Objects /\ caller[t].o <= made
    BY DEF MgrIInv, MgrTyped, ObjectsMade
  <2> QED BY <1>2, <1>3, <2>1 DEF Objects
<1>19. \A u \in Callers : u # t =>
         caller[u].pc \notin Candidates \cup Removing \cup OfEntry /\ Kept(u)
  BY <1>7, <1>8
<1> QED BY <1>5, <1>11, <1>12, <1>13, <1>14, <1>15, <1>16, <1>17, <1>18, <1>19, MutateStep

LEMMA CloseStep ==
  ASSUME MgrIInv, Close
  PROVE  MgrIInv'
<1>1. /\ mode' = "closing" /\ UNCHANGED <<disk, data, entries, made, crashes, past>>
      /\ obj' = [o \in Objects |-> [obj[o] EXCEPT !.vm.open = FALSE, !.idle = NoWorker]]
      /\ caller' = [t \in Callers |-> [caller[t] EXCEPT !.worker = NoWorker]]
  BY DEF Close
<1>2. caller \in [Callers -> CallerState] /\ obj \in [Objects -> Installed]
  BY DEF MgrIInv, MgrTyped, CallerState
<1>3. /\ caller' \in [Callers -> CallerState]
      /\ \A t \in Callers :
           /\ caller'[t].worker = NoWorker
           /\ caller'[t].pc = caller[t].pc /\ caller'[t].o = caller[t].o
           /\ caller'[t].v = caller[t].v
  <2>1. ASSUME NEW t \in Callers
        PROVE  LET c == [caller[t] EXCEPT !.worker = NoWorker] IN
               /\ c \in CallerState /\ c.worker = NoWorker
               /\ c.pc = caller[t].pc /\ c.o = caller[t].o /\ c.v = caller[t].v
    BY <1>2, Constants DEF CallerState
  <2> QED BY <1>1, <2>1
<1>4. /\ obj' \in [Objects -> Installed]
      /\ \A o \in Objects :
           /\ obj'[o].version = obj[o].version /\ obj'[o].active = obj[o].active
           /\ obj'[o].idle = NoWorker /\ ~obj'[o].vm.open /\ obj'[o].vm.code = obj[o].vm.code
           /\ obj[o].vm = NoVM => obj'[o].vm = NoVM
  <2>1. ASSUME NEW o \in Objects
        PROVE  LET x == obj[o]
                   w == [x.vm EXCEPT !.open = FALSE]
                   y == [x EXCEPT !.vm = w, !.idle = NoWorker]
               IN /\ y \in Installed /\ y.version = x.version /\ y.active = x.active
                  /\ y.idle = NoWorker /\ ~y.vm.open /\ y.vm.code = x.vm.code
                  /\ x.vm = NoVM => y.vm = NoVM
    <3> DEFINE w == [obj[o].vm EXCEPT !.open = FALSE]
    <3>1. obj[o] \in Installed /\ obj[o].vm \in [code : Nat, open : BOOLEAN]
      BY <1>2 DEF Installed
    <3>2. w \in [code : Nat, open : BOOLEAN] /\ w.code = obj[o].vm.code BY <3>1
    <3>3. ~w.open BY <3>1
    <3>4. obj[o].vm = NoVM => w = NoVM
      <4>1. \A r \in [code : Nat, open : BOOLEAN] : r.code = 0 /\ ~r.open => r = NoVM BY DEF NoVM
      <4>2. obj[o].vm = NoVM => w.code = 0 BY <3>2, Constants
      <4> HIDE DEF w
      <4> QED BY <3>2, <3>3, <4>1, <4>2
    <3> HIDE DEF w
    <3>5. LET y == [obj[o] EXCEPT !.vm = w, !.idle = NoWorker] IN
          /\ y \in Installed /\ y.version = obj[o].version /\ y.active = obj[o].active
          /\ y.idle = NoWorker /\ y.vm = w
      BY <3>1, <3>2, Constants DEF Installed
    <3> QED BY <3>2, <3>3, <3>4, <3>5 DEF w
  <2>2. ASSUME NEW o \in Objects
        PROVE  [obj[o] EXCEPT !.vm.open = FALSE, !.idle = NoWorker]
                 = [obj[o] EXCEPT !.vm = [obj[o].vm EXCEPT !.open = FALSE], !.idle = NoWorker]
    BY <1>2 DEF Installed
  <2> QED BY <1>1, <2>1, <2>2
<1>5. MgrTyped' BY <1>1, <1>3, <1>4, DiskFacts DEF MgrTyped, CallerState, Disks
<1>6. ObjectsMade' BY <1>1, <1>3 DEF MgrIInv, ObjectsMade
<1>7. OneMutates'
  <2>1. Mutating' = Mutating BY <1>3 DEF Mutating
  <2> QED BY <2>1 DEF MgrIInv, OneMutates
<1>8. EntryMutated' BY <1>1, <1>3 DEF MgrIInv, EntryMutated
<1>9. ASSUME NEW t \in Callers PROVE CandidateSound(t)'
  <2> SUFFICES ASSUME caller[t].pc \in Candidates PROVE CandidateSound(t)'
    BY <1>3 DEF CandidateSound
  <2>1. CandidateSound(t) /\ caller[t].o \in Objects BY MutatorFacts DEF MgrIInv
  <2>2. caller[t].pc = "activate" => entries \in Objects
    BY <2>1, DiskFacts DEF CandidateSound, Candidates
  <2>3. /\ obj'[caller[t].o].version = obj[caller[t].o].version
        /\ obj'[caller[t].o].vm.code = obj[caller[t].o].vm.code
        /\ obj'[caller[t].o].idle = NoWorker
        /\ caller[t].pc = "activate" => obj'[entries].version = obj[entries].version
    BY <1>4, <2>1, <2>2
  <2>4. /\ caller'[t].pc = caller[t].pc /\ caller'[t].v = caller[t].v
        /\ \A u \in Callers : caller'[u].o = caller[u].o
    BY <1>3
  <2>5. disk' = disk /\ entries' = entries BY <1>1
  <2> HIDE <1>1, <1>3, <1>4
  <2> QED BY <2>1, <2>3, <2>4, <2>5 DEF CandidateSound
<1>10. ASSUME NEW t \in Callers PROVE RemovalSound(t)'
  <2> SUFFICES ASSUME caller[t].pc \in Removing PROVE RemovalSound(t)'
    BY <1>3 DEF RemovalSound
  <2>1. RemovalSound(t) /\ caller[t].o \in Objects BY MutatorFacts DEF MgrIInv
  <2> QED BY <1>1, <1>3, <1>4, <2>1 DEF RemovalSound
<1>11. BackupInUse' BY <1>1, <1>3 DEF MgrIInv, BackupInUse
<1>12. EntryOwn'
  <2> SUFFICES ASSUME entries # 0, \A t \in Callers : caller[t].pc \notin {"retire", "replace"}
               PROVE  EntryOwn'
    BY <1>1, <1>3 DEF EntryOwn
  <2>1. entries \in Objects BY DiskFacts
  <2> QED BY <1>1, <1>3, <1>4, <2>1, Constants, ZenonT(60) DEF MgrIInv, EntryOwn
<1>13. WorkersSound' /\ IdleSound' BY <1>3, <1>4 DEF WorkersSound, IdleSound
<1>14. ActiveSound'
  <2> SUFFICES ASSUME NEW o \in Objects, NEW t \in obj'[o].active
               PROVE  caller'[t].pc = "downloading" /\ caller'[t].o = o
    BY DEF ActiveSound
  <2>1. t \in obj[o].active /\ t \in Callers BY <1>2, <1>4 DEF Installed
  <2> QED BY <1>3, <2>1 DEF MgrIInv, ActiveSound
<1>15. OnlyLiveRuns' BY <1>3, <1>4 DEF OnlyLiveRuns, Runs
<1>16. GoneForGood'
  <2>1. Mutating' = Mutating BY <1>3 DEF Mutating
  <2> QED BY <1>1, <2>1 DEF MgrIInv, GoneForGood
<1>17. KnownKept' BY <1>1 DEF MgrIInv, KnownKept
<1> QED BY <1>5, <1>6, <1>7, <1>8, <1>9, <1>10, <1>11, <1>12, <1>13, <1>14, <1>15, <1>16, <1>17 DEF MgrIInv

LEMMA ClosedStep ==
  ASSUME MgrIInv, Closed
  PROVE  MgrIInv'
<1>1. /\ mode = "closing" /\ MutationFree /\ mode' = "closed" /\ entries' = 0
      /\ UNCHANGED <<disk, data, obj, made, caller, crashes, past>>
  BY DEF Closed
<1>2. \A t \in Callers : caller[t].pc \notin Candidates \cup Removing \cup OfEntry
  BY <1>1 DEF MutationFree, Mutating, Candidates, Removing, OfEntry
<1>3. MgrTyped' BY <1>1, DiskFacts DEF MgrIInv, MgrTyped
<1>4. ObjectsMade' BY <1>1, DiskFacts DEF MgrIInv, ObjectsMade
<1>5. OneMutates' BY <1>1 DEF MgrIInv, OneMutates, Mutating
<1>6. EntryMutated' BY <1>1, <1>2 DEF EntryMutated
<1>7. \A t \in Callers : CandidateSound(t)' /\ RemovalSound(t)'
  BY <1>1, <1>2 DEF CandidateSound, RemovalSound
<1>8. BackupInUse' /\ EntryOwn' BY <1>1 DEF MgrIInv, BackupInUse, EntryOwn
<1>9. WorkersSound' /\ IdleSound' /\ ActiveSound'
  BY <1>1 DEF MgrIInv, WorkersSound, IdleSound, ActiveSound
<1>10. OnlyLiveRuns'
  <2>1. ASSUME NEW p \in Objects, Runs(p) PROVE FALSE BY <1>1, <2>1 DEF MgrIInv, OnlyLiveRuns
  <2> QED BY <1>1, <2>1 DEF OnlyLiveRuns, Runs
<1>11. GoneForGood' /\ KnownKept' BY <1>1 DEF MgrIInv, GoneForGood, KnownKept, Mutating
<1> QED BY <1>3, <1>4, <1>5, <1>6, <1>7, <1>8, <1>9, <1>10, <1>11 DEF MgrIInv

(* A process in which nothing was made yet.                                 *)
Restarted ==
  /\ entries = 0 /\ obj = [o \in Objects |-> Fresh(0, FALSE)] /\ made \in Nat
  /\ caller = [t \in Callers |-> Resting]
  /\ mode = "open" /\ crashes \in Nat
  /\ disk \in Disks /\ disk.backup = 0
  /\ data \in [exists : BOOLEAN, settings : Nat, enabled : BOOLEAN]
  /\ past \in [known : Nat, gone : BOOLEAN]
  /\ past.gone => ~data.exists

LEMMA RestartSound ==
  ASSUME Restarted, KnownKept
  PROVE  MgrIInv
<1> USE DEF Restarted
<1>1. Fresh(0, FALSE) \in Installed /\ Fresh(0, FALSE).vm = NoVM
      /\ Fresh(0, FALSE).idle = NoWorker /\ Fresh(0, FALSE).active = {}
  <2>1. 0 \in Nat /\ FALSE \in BOOLEAN OBVIOUS
  <2> QED BY <2>1, FreshFacts
<1>2. /\ caller \in [Callers -> CallerState]
      /\ \A t \in Callers : caller[t].pc = "idle" /\ caller[t].o = 0 /\ caller[t].worker = NoWorker
  BY Constants
<1>3. /\ obj \in [Objects -> Installed]
      /\ \A o \in Objects : obj[o].vm = NoVM /\ obj[o].idle = NoWorker /\ obj[o].active = {}
  BY <1>1
<1>4. MgrTyped BY <1>2, <1>3 DEF MgrTyped, CallerState, Disks
<1>5. ObjectsMade BY <1>2 DEF ObjectsMade
<1>6. \A t \in Callers : caller[t].pc \notin Candidates \cup Removing \cup OfEntry
  BY <1>2 DEF Candidates, Removing, OfEntry
<1>7. Mutating = {} BY <1>2 DEF Mutating
<1>8. OneMutates /\ EntryMutated BY <1>6, <1>7 DEF OneMutates, EntryMutated
<1>9. \A t \in Callers : CandidateSound(t) /\ RemovalSound(t)
  BY <1>6 DEF CandidateSound, RemovalSound
<1>10. BackupInUse /\ EntryOwn BY DEF BackupInUse, EntryOwn
<1>11. WorkersSound /\ IdleSound /\ ActiveSound
  BY <1>2, <1>3 DEF WorkersSound, IdleSound, ActiveSound
<1>12. OnlyLiveRuns BY <1>2, <1>3, Constants DEF OnlyLiveRuns, Runs
<1>13. GoneForGood BY <1>7 DEF GoneForGood
<1> QED BY <1>4, <1>5, <1>8, <1>9, <1>10, <1>11, <1>12, <1>13 DEF MgrIInv

LEMMA CrashStep ==
  ASSUME MgrIInv, Crash
  PROVE  MgrIInv'
<1>1. /\ crashes' = crashes + 1 /\ entries' = 0 /\ obj' = [o \in Objects |-> Fresh(0, FALSE)]
      /\ made' = crashes' /\ caller' = [t \in Callers |-> Resting] /\ mode' = "open"
      /\ disk' = [target |-> disk.target, stage |-> 0, backup |-> 0,
                  left |-> disk.left \cup ({disk.stage, disk.backup} \ {0})]
      /\ UNCHANGED <<data, past>>
  BY DEF Crash
<1>2. disk' \in Disks /\ disk'.backup = 0 BY <1>1, DiskFacts DEF Disks
<1>3. KnownKept'
  <2>1. past.known # 0 => \E v \in disk.left \cup {disk.target, disk.backup} :
                            v # 0 /\ v >= past.known
    BY KnownWitness
  <2> QED BY <1>1, <2>1 DEF KnownKept
<1>4. Restarted' BY <1>1, <1>2, DiskFacts DEF MgrIInv, GoneForGood, Restarted
<1>5. Restarted' /\ KnownKept' => MgrIInv' BY RestartSound, PTL
<1> QED BY <1>3, <1>4, <1>5
-----------------------------------------------------------------------------
(* Every step of the manager keeps the invariant.                           *)
LEMMA ManagerNextSound ==
  ASSUME MgrIInv, [ManagerNext]_mgrVars
  PROVE  MgrIInv'
<1>1. CASE UNCHANGED mgrVars
  BY <1>1 DEF mgrVars, MgrIInv, MgrTyped, ObjectsMade, OneMutates, EntryMutated, CandidateSound,
     RemovalSound, BackupInUse, EntryOwn, WorkersSound, IdleSound, ActiveSound, OnlyLiveRuns,
     Runs, Live, GoneForGood, KnownKept, Mutating
<1>2. ASSUME NEW t \in Callers, ManagerStep(t) PROVE MgrIInv'
  <2>1. CASE \E v \in Versions : Stage(t, v) BY <2>1, StageStep
  <2>2. CASE GiveUp(t) \/ Activate(t) \/ Publish(t) BY <2>2, GiveUpStep, ActivateStep, PublishStep
  <2>3. CASE Candidate(t) \/ Backup(t) \/ Swap(t) \/ Retire(t) \/ Replace(t)
    BY <2>3, CandidateStep, BackupStep, SwapStep, RetireStep, ReplaceStep
  <2>4. CASE \E on \in BOOLEAN : SetEnabled(t, on) BY <2>4, SetEnabledStep
  <2>5. CASE Enable(t) \/ Disable(t) \/ UpdateSettings(t) \/ BeginInitialize(t) \/ Initialize(t)
    BY <2>5, EnableStep, DisableStep, UpdateSettingsStep, BeginStep, InitializeStep
  <2>6. CASE BeginUse(t) \/ Call(t) \/ CallEnds(t) \/ Borrow(t) \/ Borrowed(t) \/ GiveBack(t)
    BY <2>6, BeginStep, CallStep, CallEndsStep, BorrowStep, BorrowedStep, GiveBackStep
  <2>7. CASE Unpublish(t) \/ TearDown(t) \/ EraseSource(t) \/ EraseData(t) \/ LoadAll(t)
    BY <2>7, UnpublishStep, TearDownStep, EraseSourceStep, EraseDataStep, LoadAllStep
  <2> QED BY <1>2, <2>1, <2>2, <2>3, <2>4, <2>5, <2>6, <2>7 DEF ManagerStep
<1>3. CASE ReleaseIdle BY <1>3, ReleaseIdleStep
<1>4. CASE Close \/ Closed \/ Crash BY <1>4, CloseStep, ClosedStep, CrashStep
<1> QED BY <1>1, <1>2, <1>3, <1>4 DEF ManagerNext

LEMMA ManagerInductive == ManagerSpec => []MgrIInv
<1>1. ManagerInit => MgrIInv
  <2> SUFFICES ASSUME ManagerInit PROVE MgrIInv OBVIOUS
  <2>1. Restarted BY DEF ManagerInit, Restarted, Disks
  <2>2. KnownKept BY DEF ManagerInit, KnownKept
  <2> QED BY <2>1, <2>2, RestartSound
<1>2. MgrIInv /\ [ManagerNext]_mgrVars => MgrIInv' BY ManagerNextSound
<1> QED BY <1>1, <1>2, PTL DEF ManagerSpec

(* However installs, upgrades, failures and crashes follow each other, the  *)
(* version that was published last, or a newer one, is somewhere on disk    *)
(* until its removal begins (install_package, upgrade_package).             *)
THEOREM ManagerKeepsCode == ManagerSpec => []CodeSurvives
<1>1. MgrIInv => CodeSurvives BY DEF MgrIInv, KnownKept, CodeSurvives
<1> QED BY <1>1, ManagerInductive, PTL

(* While remove() deletes the source and the data of an extension nothing   *)
(* of it runs, and nothing brings the data of a removed extension back.     *)
THEOREM ManagerRemovesWhole == ManagerSpec => []RemovalWhole
<1>1. MgrIInv => RemovalWhole
  <2> SUFFICES ASSUME MgrIInv PROVE NothingRunsDuringErase /\ RemovedLeavesNoData
    BY DEF RemovalWhole
  <2>1. RemovedLeavesNoData BY DEF MgrIInv, GoneForGood, RemovedLeavesNoData
  <2>2. ASSUME NEW t \in Callers, caller[t].pc \in {"eraseSource", "eraseData"}
        PROVE  /\ \A o \in Objects : ~obj[o].vm.open /\ ~obj[o].idle.open
               /\ \A u \in Callers : ~caller[u].worker.open
    <3>1. \A p \in Objects : ~Runs(p) BY <2>2, RemovalFacts DEF Removing
    <3>2. \A o \in Objects : ~obj[o].vm.open /\ ~obj[o].idle.open BY <3>1, Constants DEF Runs
    <3>3. ASSUME NEW u \in Callers PROVE caller[u].worker = NoWorker
      <4> SUFFICES ASSUME caller[u].worker # NoWorker PROVE FALSE OBVIOUS
      <4>1. caller[u].o \in Objects BY DEF MgrIInv, WorkersSound, ObjectsMade
      <4> QED BY <3>1, <4>1 DEF Runs
    <3> QED BY <3>2, <3>3, Constants
  <2> QED BY <2>1, <2>2 DEF NothingRunsDuringErase
<1> QED BY <1>1, ManagerInductive, PTL

(* What is installed is whole, and what is removed is gone whole (install,  *)
(* upgrade_package, remove, and a crash between any two of their steps).    *)
THEOREM ManagerKeepsPackages == ManagerSpec => []PackagesWhole
BY ManagerKeepsCode, ManagerRemovesWhole, PTL DEF PackagesWhole

(* Outside a mutation whatever runs for the published extension runs the    *)
(* code of its version, and a worker left in its pool has the settings for  *)
(* which it will be handed out (ready, borrow_download, Borrowed::drop).    *)
THEOREM ManagerRunsCurrent == ManagerSpec => []EnginesCurrent
<1>1. MgrIInv => EnginesCurrent
  <2> SUFFICES ASSUME MgrIInv PROVE RunsOwnVersion /\ PoolMatchesSettings BY DEF EnginesCurrent
  <2>1. RunsOwnVersion
    <3> SUFFICES ASSUME entries # 0, MutationFree
                 PROVE  LET x == obj[entries] IN
                        /\ {x.vm.code, x.idle.code} \subseteq {0, x.version}
                        /\ \A t \in x.active : caller[t].worker.code \in {0, x.version}
      BY DEF RunsOwnVersion
    <3>1. entries \in Objects /\ obj[entries] \in Installed BY DiskFacts
    <3>2. \A t \in Callers : caller[t].pc \notin {"retire", "replace"}
      BY DEF MutationFree, Mutating
    <3>3. ASSUME NEW t \in obj[entries].active
          PROVE  caller[t].worker.code \in {0, obj[entries].version}
      <4>1. t \in Callers /\ caller[t].o = entries
        BY <3>1, <3>3 DEF MgrIInv, ActiveSound, Installed
      <4> QED BY <3>2, <4>1 DEF MgrIInv, EntryOwn
    <3> QED BY <3>2, <3>3 DEF MgrIInv, EntryOwn
  <2>2. PoolMatchesSettings BY Constants DEF MgrIInv, IdleSound, PoolMatchesSettings
  <2> QED BY <2>1, <2>2
<1> QED BY <1>1, ManagerInductive, PTL

-----------------------------------------------------------------------------
(***************************************************************************)
(* Requests to extensions, and their hooks. First what the least number    *)
(* gives for functions that are defined along the numbers, and with it     *)
(* that the tracks of a search stay single; then ProviderInv and HooksInv, *)
(* which are inductive and contain CallsSound.                             *)
(***************************************************************************)

LEMMA SetInduction ==
  ASSUME NEW T, 0 \in T, \A n \in Nat : n \in T => n + 1 \in T
  PROVE  Nat \subseteq T
<1> SUFFICES ASSUME NEW x \in Nat, x \notin T PROVE FALSE OBVIOUS
<1>1. PICK m \in Nat \ T : \A k \in Nat \ T : m <= k BY LeastNat
<1>2. m # 0 /\ m - 1 \in Nat BY <1>1
<1>3. m - 1 \in T BY <1>1, <1>2
<1>4. (m - 1) + 1 \in T BY <1>2, <1>3
<1> QED BY <1>1, <1>4

Along(m, base, step, f) == f[0] = base /\ \A i \in 1 .. m : f[i] = step[<<f[i - 1], i>>]
LEMMA RecursionExists ==
  ASSUME NEW m \in Nat, NEW V, NEW base \in V, NEW step \in [V \X (1 .. m) -> V]
  PROVE  \E f \in [0 .. m -> V] : Along(m, base, step, f)
<1> USE DEF Along
<1> DEFINE Good(n, f) == Along(n, base, step, f)
           T == {n \in Nat : n <= m => \E f \in [0 .. n -> V] : Good(n, f)}
<1>1. 0 \in T
  <2>1. [i \in 0 .. 0 |-> base] \in [0 .. 0 -> V] /\ Good(0, [i \in 0 .. 0 |-> base]) OBVIOUS
  <2> QED BY <2>1
<1>2. ASSUME NEW n \in Nat, n \in T PROVE n + 1 \in T
  <2> SUFFICES ASSUME n + 1 <= m PROVE \E f \in [0 .. n + 1 -> V] : Good(n + 1, f) OBVIOUS
  <2>1. PICK f \in [0 .. n -> V] : Good(n, f) BY <1>2
  <2> DEFINE g == [i \in 0 .. n + 1 |-> IF i = n + 1 THEN step[<<f[n], n + 1>>] ELSE f[i]]
  <2>2. step[<<f[n], n + 1>>] \in V OBVIOUS
  <2>3. g \in [0 .. n + 1 -> V] BY <2>2
  <2>4. g[0] = base BY <2>1
  <2>5. ASSUME NEW i \in 1 .. n + 1 PROVE g[i] = step[<<g[i - 1], i>>]
    <3>1. CASE i = n + 1
      <4>1. i - 1 = n /\ n \in 0 .. n + 1 /\ n # n + 1 BY <3>1
      <4>2. g[n] = f[n] BY <4>1
      <4> QED BY <3>1, <4>1, <4>2
    <3>2. CASE i \in 1 .. n
      <4>1. i # n + 1 /\ i - 1 # n + 1 /\ i - 1 \in 0 .. n + 1 BY <3>2
      <4>2. g[i] = f[i] /\ g[i - 1] = f[i - 1] BY <4>1
      <4> QED BY <2>1, <3>2, <4>2
    <3> QED BY <3>1, <3>2
  <2> QED BY <2>3, <2>4, <2>5
<1>3. m \in T BY <1>1, <1>2, SetInduction
<1> QED BY <1>3

(* The tracks of one provider are added one by one; each key stays single.    *)
Distinct(tracks) == \A m, n \in DOMAIN tracks : Key(tracks[m]) = Key(tracks[n]) => m = n

LEMMA AddTrackSingle ==
  ASSUME NEW tracks \in Seq(Tracks), NEW track \in Tracks, Distinct(tracks)
  PROVE  AddTrack(tracks, track) \in Seq(Tracks) /\ Distinct(AddTrack(tracks, track))
<1>1. CASE Key(track) \in Keys(tracks) \/ Len(tracks) >= SearchLimit BY <1>1 DEF AddTrack
<1>2. CASE ~(Key(track) \in Keys(tracks) \/ Len(tracks) >= SearchLimit)
  <2> DEFINE all == Append(tracks, track)
             l == Len(tracks)
  <2>1. AddTrack(tracks, track) = all BY <1>2 DEF AddTrack
  <2>2. all \in Seq(Tracks) /\ l \in Nat /\ DOMAIN all = 1 .. l + 1 /\ DOMAIN tracks = 1 .. l BY AppendProperties, LenProperties
  <2>3. all[l + 1] = track /\ \A n \in 1 .. l : all[n] = tracks[n] BY AppendProperties
  <2>4. \A n \in 1 .. l : Key(tracks[n]) # Key(track) BY <1>2, <2>2 DEF Keys
  <2>5. \A n \in 1 .. l + 1 : n = l + 1 \/ n \in 1 .. l BY <2>2
  <2>6. Distinct(tracks) OBVIOUS
  <2> HIDE DEF all, l
  <2>7. \A m, n \in 1 .. l + 1 : Key(all[m]) = Key(all[n]) => m = n
    <3> SUFFICES ASSUME NEW m \in 1 .. l + 1, NEW n \in 1 .. l + 1, Key(all[m]) = Key(all[n]) PROVE m = n OBVIOUS
    <3>1. CASE m = l + 1 /\ n = l + 1 BY <3>1
    <3>2. CASE m \in 1 .. l /\ n = l + 1
      <4>1. all[m] = tracks[m] /\ all[n] = track BY <2>3, <3>2
      <4> QED BY <2>4, <3>2, <4>1
    <3>3. CASE m = l + 1 /\ n \in 1 .. l
      <4>1. all[n] = tracks[n] /\ all[m] = track BY <2>3, <3>3
      <4> QED BY <2>4, <3>3, <4>1
    <3>4. CASE m \in 1 .. l /\ n \in 1 .. l
      <4>1. all[m] = tracks[m] /\ all[n] = tracks[n] BY <2>3, <3>4
      <4> QED BY <2>2, <2>6, <3>4, <4>1 DEF Distinct
    <3> QED BY <2>5, <3>1, <3>2, <3>3, <3>4
  <2> QED BY <2>1, <2>2, <2>7 DEF Distinct
<1> QED BY <1>1, <1>2

LEMMA MergingSingle ==
  ASSUME NEW tracks \in Seq(Tracks), NEW found \in Seq(Tracks), Distinct(tracks)
  PROVE  Merging(tracks, found) \in Seq(Tracks) /\ Distinct(Merging(tracks, found))
<1> DEFINE V == {t \in Seq(Tracks) : Distinct(t)}
           m == Len(found)
           F(g) == [n \in 0 .. m |-> IF n = 0 THEN tracks ELSE AddTrack(g[n - 1], found[n])]
           all == CHOOSE g : g = F(g)
           step == [x \in V \X (1 .. m) |-> AddTrack(x[1], found[x[2]])]
<1>1. m \in Nat /\ DOMAIN found = 1 .. m /\ \A n \in 1 .. m : found[n] \in Tracks BY ElementOfSeq, LenProperties
<1>2. tracks \in V OBVIOUS
<1>3. \A t \in V, n \in 1 .. m : AddTrack(t, found[n]) \in V BY <1>1, AddTrackSingle
<1>4. all = F(all)
  <2>1. step \in [V \X (1 .. m) -> V]
    <3> HIDE DEF V, m
    <3> QED BY <1>3
  <2>2. PICK f \in [0 .. m -> V] : Along(m, tracks, step, f)
    <3>1. m \in Nat BY <1>1
    <3> HIDE DEF m, step, F, all, V
    <3> QED BY <3>1, <1>2, <2>1, RecursionExists
  <2>3. \A n \in 1 .. m : f[n] = AddTrack(f[n - 1], found[n])
    <3> SUFFICES ASSUME NEW n \in 1 .. m PROVE f[n] = AddTrack(f[n - 1], found[n]) OBVIOUS
    <3>0. m \in Nat BY <1>1
    <3> HIDE DEF V, m, step
    <3>1. n - 1 \in 0 .. m /\ f[n - 1] \in V BY <2>2, <3>0
    <3>2. f[n] = step[<<f[n - 1], n>>] BY <2>2 DEF Along
    <3>3. step[<<f[n - 1], n>>] = AddTrack(f[n - 1], found[n]) BY <3>1 DEF step
    <3> QED BY <3>2, <3>3
  <2>4. \A n \in 0 .. m : f[n] = (IF n = 0 THEN tracks ELSE AddTrack(f[n - 1], found[n]))
    <3>1. \A n \in 0 .. m : n # 0 => n \in 1 .. m BY <1>1
    <3> HIDE DEF V, m
    <3> QED BY <2>2, <2>3, <3>1 DEF Along
  <2>5. f = F(f)
    <3> HIDE DEF V, m
    <3> QED BY <2>2, <2>4
  <2> HIDE DEF F
  <2> QED BY <2>5
<1>5. Merging(tracks, found) = all[m] BY DEF Merging
<1> HIDE DEF all
<1>6. all[0] = tracks /\ \A n \in 1 .. m : all[n] = AddTrack(all[n - 1], found[n])
  <2>1. \A n \in 0 .. m : all[n] = (IF n = 0 THEN tracks ELSE AddTrack(all[n - 1], found[n])) BY <1>4 DEF F
  <2> HIDE DEF m
  <2>2. 0 \in 0 .. m /\ \A n \in 1 .. m : n \in 0 .. m /\ n # 0 BY <1>1
  <2> QED BY <2>1, <2>2
<1> DEFINE T == {n \in Nat : n <= m => all[n] \in V}
<1> HIDE DEF m, F, step, V
<1>7. 0 \in T BY <1>2, <1>6
<1>8. ASSUME NEW n \in Nat, n \in T PROVE n + 1 \in T
  <2> SUFFICES ASSUME n + 1 <= m PROVE all[n + 1] \in V OBVIOUS
  <2>1. all[n] \in V BY <1>1, <1>8
  <2>2. n + 1 \in 1 .. m /\ (n + 1) - 1 = n BY <1>1
  <2>3. all[n + 1] = AddTrack(all[n], found[n + 1]) BY <1>6, <2>2
  <2> QED BY <1>3, <2>1, <2>2, <2>3
<1>9. m \in T BY <1>1, <1>7, <1>8, SetInduction
<1>10. all[m] \in V BY <1>1, <1>9
<1> QED BY <1>5, <1>10 DEF V

LEMMA DistinctCount ==
  ASSUME NEW tracks \in Seq(Tracks), Distinct(tracks)
  PROVE  Cardinality(Keys(tracks)) = Len(tracks)
<1> DEFINE l == Len(tracks)
           g == [n \in 1 .. l |-> Key(tracks[n])]
<1>1. l \in Nat /\ DOMAIN tracks = 1 .. l BY LenProperties
<1>2. IsFiniteSet(1 .. l) /\ Cardinality(1 .. l) = l BY <1>1, FS_Interval
<1>a. Keys(tracks) = {Key(tracks[n]) : n \in 1 .. l} BY <1>1 DEF Keys
<1>b. g \in [1 .. l -> Keys(tracks)] BY <1>a
<1>c. \A i, j \in 1 .. l : g[i] = g[j] => i = j BY <1>1 DEF Distinct
<1>d. \A k \in Keys(tracks) : \E n \in 1 .. l : g[n] = k BY <1>a
<1> HIDE DEF g, l
<1>3. g \in Surjection(1 .. l, Keys(tracks)) BY <1>b, <1>d DEF Surjection
<1>5. g \in Injection(1 .. l, Keys(tracks)) BY <1>b, <1>c DEF Injection, IsInjective
<1>4. Cardinality(Keys(tracks)) = Cardinality(1 .. l) BY <1>2, <1>3, <1>5, FS_Surjection
<1> QED BY <1>1, <1>2, <1>4 DEF l

-----------------------------------------------------------------------------
(* AskSound speaks of one request, whatever the others do; AskCurrent says     *)
(* what it knows of the extensions; EnginesHeld that who holds an engine is   *)
(* the one who calls it.                                                    *)
AskPcs == {"idle", "list", "next", "engine", "call", "answer", "merge", "done"}
AtOne == {"engine", "call", "answer", "merge"}
AskRecords ==
  [pc : AskPcs, op : {"", "search", "available"}, order : Seq(Ids), rest : SUBSET Ids, providers : SUBSET Ids,
   version : Nat, cancelled : BOOLEAN, tracks : Seq(Tracks), verification : BOOLEAN, opened : BOOLEAN,
   answer : [kind : {"", "tracks", "failed", "unverified", "cancelled"}, tracks : Seq(Tracks)],
   result : {"", "cancelled", "error", "tracks", "verification", "available"}, steady : SUBSET Ids, asked : SUBSET Ids]
ExtensionRecords == [enabled : BOOLEAN, version : Nat, torn : BOOLEAN]
ProviderTyped ==
  /\ extension \in [Ids -> ExtensionRecords]
  /\ engine \in [Ids -> Askers \cup {NoCaller}] /\ page \in [Ids -> Askers \cup {NoCaller}]
  /\ priority \in Seq(Ids) /\ ask \in [Askers -> AskRecords]
  /\ switches \in Nat /\ asks \in Nat
Unasked(r) == ToSet(r.order) \cup r.rest
TargetOf(r) == IF r.order # <<>> THEN Head(r.order) ELSE FirstOf(r.rest)
AskSound(r) ==
  /\ r.pc \in AtOne => r.order # <<>> \/ r.rest # {}
  /\ r.pc \in {"list", "merge"} => r.op = "search"
  /\ r.op = "available" => ~r.verification
  /\ r.pc \in {"idle", "list"} => r.steady = {}
  /\ r.result # "" => r.pc = "done"
  /\ Distinct(r.tracks)
  /\ r.steady \subseteq r.providers
  /\ r.op = "search" /\ r.pc \in {"next"} \cup AtOne => r.steady \subseteq r.asked \cup Unasked(r)
  /\ r.pc \in {"call", "answer", "merge"} => TargetOf(r) \in r.asked
  /\ r.op = "search" /\ r.result = "tracks" /\ Len(r.tracks) < SearchLimit => r.steady \subseteq r.asked
  /\ r.op = "available" /\ r.result = "verification" => r.opened
CurrentIn(c, r, x, e, p) ==
  LET i == TargetOf(r) IN
  /\ \A j \in r.steady : x[j].enabled
  /\ r.pc = "engine" /\ i \in r.steady => r.version = x[i].version
  /\ r.pc \in {"call", "answer"} => e[i] = c /\ r.version = x[i].version
  /\ r.pc = "call" /\ r.op = "available" => p[i] = NoCaller
  /\ r.pc = "answer" /\ r.op = "available" /\ p[i] # NoCaller => r.opened
AskCurrent(c) == CurrentIn(c, ask[c], extension, engine, page)
EnginesHeld ==
  \A i \in Ids : engine[i] # NoCaller => ask[engine[i]].pc \in {"call", "answer"} /\ TargetOf(ask[engine[i]]) = i
ProviderInv == ProviderTyped /\ (\A c \in Askers : AskSound(ask[c]) /\ AskCurrent(c)) /\ EnginesHeld

LEMMA TargetIs == ASSUME NEW c \in Askers PROVE Target(c) = TargetOf(ask[c])
BY DEF Target, TargetOf

LEMMA FirstIn ==
  ASSUME NEW S \in SUBSET Ids, S # {}
  PROVE  FirstOf(S) \in S
<1> DEFINE T == {n \in DOMAIN ProviderIds : ProviderIds[n] \in S}
<1>1. ProviderIds \in Seq(Ids) BY ProviderAssumption
<1>2. Len(ProviderIds) \in Nat /\ DOMAIN ProviderIds = 1 .. Len(ProviderIds) BY <1>1, LenProperties
<1>3. T \subseteq Nat /\ T # {} BY <1>2 DEF Ids, ToSet
<1>4. \E n \in T : \A m \in T : n <= m
  <2> HIDE DEF T
  <2> QED BY <1>3, LeastNat
<1>5. PICK n \in T : \A m \in T : n <= m BY <1>4
<1>6. ASSUME NEW m \in 1 .. n - 1 PROVE ProviderIds[m] \notin S
  <2>1. m \in DOMAIN ProviderIds /\ ~(n <= m) BY <1>2, <1>3, <1>5
  <2> QED BY <1>5, <2>1
<1>7. n \in DOMAIN ProviderIds /\ ProviderIds[n] \in S /\ \A m \in 1 .. n - 1 : ProviderIds[m] \notin S BY <1>5, <1>6
<1>8. ProviderIds[CHOOSE k \in DOMAIN ProviderIds : ProviderIds[k] \in S /\ \A m \in 1 .. k - 1 : ProviderIds[m] \notin S] \in S
  BY <1>7
<1> QED BY <1>8 DEF FirstOf

LEMMA TargetIn ==
  ASSUME NEW r \in AskRecords, r.order # <<>> \/ r.rest # {}
  PROVE  TargetOf(r) \in Unasked(r) /\ TargetOf(r) \in Ids
<1>1. r.order \in Seq(Ids) /\ r.rest \in SUBSET Ids BY DEF AskRecords
<1>2. CASE r.order # <<>>
  <2>1. Len(r.order) \in Nat /\ DOMAIN r.order = 1 .. Len(r.order) /\ Len(r.order) # 0 BY <1>1, <1>2, EmptySeq, LenProperties
  <2>2. 1 \in DOMAIN r.order BY <2>1
  <2>3. r.order[1] \in Ids /\ Head(r.order) = r.order[1] BY <1>1, <1>2, <2>1, <2>2, ElementOfSeq, HeadTailProperties
  <2> QED BY <1>2, <2>2, <2>3 DEF TargetOf, Unasked, ToSet
<1>3. CASE r.order = <<>> BY <1>1, <1>3, FirstIn DEF TargetOf, Unasked
<1> QED BY <1>2, <1>3

LEMMA PassedIs ==
  ASSUME NEW c \in Askers, ask[c] \in AskRecords, ~AllAsked(c)
  PROVE  /\ Passed(c) \in AskRecords /\ Passed(c).pc = "next"
         /\ \A i \in Unasked(ask[c]) : i \in Unasked(Passed(c)) \/ i = TargetOf(ask[c])
         /\ \A f \in {"op", "providers", "version", "cancelled", "tracks", "verification", "opened", "answer", "result", "steady", "asked"} :
               Passed(c)[f] = ask[c][f]
<1> DEFINE q == ask[c].order
           s == IF q # <<>> THEN Tail(q) ELSE q
           left == IF q # <<>> THEN ask[c].rest ELSE ask[c].rest \ {Target(c)}
<1>1. q \in Seq(Ids) /\ ask[c].rest \in SUBSET Ids BY DEF AskRecords
<1>2. s \in Seq(Ids) BY <1>1, HeadTailProperties
<1>3. Passed(c) = [ask[c] EXCEPT !.pc = "next", !.order = s, !.rest = left] BY DEF Passed
<1>4. left \in SUBSET Ids BY <1>1
<1>5. \A i \in ToSet(q) : q # <<>> => i \in ToSet(s) \/ i = Head(q)
  <2> SUFFICES ASSUME q # <<>>, NEW n \in DOMAIN q PROVE q[n] \in ToSet(s) \/ q[n] = Head(q) BY DEF ToSet
  <2>1. /\ Len(q) \in Nat /\ DOMAIN q = 1 .. Len(q) /\ Head(q) = q[1] /\ Len(Tail(q)) = Len(q) - 1
        /\ Tail(q) \in Seq(Ids) /\ \A i \in 1 .. Len(Tail(q)) : Tail(q)[i] = q[i + 1]
    BY <1>1, LenProperties, HeadTailProperties
  <2>2. CASE n = 1 BY <2>1, <2>2
  <2>3. CASE n # 1
    <3>1. n - 1 \in 1 .. Len(Tail(q)) /\ (n - 1) + 1 = n BY <2>1, <2>3
    <3>2. DOMAIN Tail(q) = 1 .. Len(Tail(q)) BY <2>1, LenProperties
    <3> QED BY <2>1, <3>1, <3>2 DEF ToSet
  <2> QED BY <2>2, <2>3
<1>6. ToSet(<<>>) = {} BY DEF ToSet
<1> HIDE DEF s, left
<1>7. Passed(c) \in AskRecords BY <1>2, <1>3, <1>4 DEF AskRecords, AskPcs
<1>8. Passed(c).order = s /\ Passed(c).rest = left /\ Passed(c).pc = "next" BY <1>3 DEF AskRecords
<1>9. \A i \in Unasked(ask[c]) : i \in Unasked(Passed(c)) \/ i = TargetOf(ask[c])
  <2>1. CASE q # <<>> BY <1>5, <1>8, <2>1 DEF Unasked, TargetOf, left
  <2>2. CASE q = <<>> BY <1>6, <1>8, <2>2, TargetIs DEF Unasked, left
  <2> QED BY <2>1, <2>2
<1>10. \A f \in {"op", "providers", "version", "cancelled", "tracks", "verification", "opened", "answer", "result", "steady", "asked"} :
         Passed(c)[f] = ask[c][f]
  BY <1>3 DEF AskRecords
<1> QED BY <1>7, <1>8, <1>9, <1>10

LEMMA OneMoves ==
  ASSUME ProviderInv, NEW c \in Askers, NEW r \in AskRecords, ask' = [ask EXCEPT ![c] = r],
         extension' = extension, priority' = priority, switches' = switches, asks' \in Nat,
         engine' \in [Ids -> Askers \cup {NoCaller}], page' \in [Ids -> Askers \cup {NoCaller}],
         \A i \in Ids : engine[i] \notin {NoCaller, c} => engine'[i] = engine[i] /\ page'[i] = page[i],
         \A i \in Ids : engine'[i] \in {engine[i], c, NoCaller},
         \A i \in Ids : engine'[i] = c => r.pc \in {"call", "answer"} /\ TargetOf(r) = i,
         AskSound(r), CurrentIn(c, r, extension, engine', page')
  PROVE  ProviderInv'
<1>1. ProviderTyped /\ EnginesHeld /\ \A d \in Askers : AskSound(ask[d]) /\ AskCurrent(d) BY DEF ProviderInv
<1>2. ask \in [Askers -> AskRecords] BY <1>1 DEF ProviderTyped
<1>3. ask'[c] = r /\ \A d \in Askers : d # c => ask'[d] = ask[d] BY <1>2
<1>4. ask' \in [Askers -> AskRecords] BY <1>2
<1>5. ProviderTyped' BY <1>1, <1>4 DEF ProviderTyped
<1>6. \A d \in Askers : AskSound(ask'[d]) BY <1>1, <1>3
<1>7. ASSUME NEW d \in Askers, d # c PROVE CurrentIn(d, ask[d], extension, engine', page')
  <2> DEFINE s == ask[d]
             i == TargetOf(s)
  <2>1. CurrentIn(d, s, extension, engine, page) /\ AskSound(s) /\ s \in AskRecords BY <1>1, <1>2 DEF AskCurrent
  <2>2. s.pc \in {"call", "answer"} => i \in Ids
    <3>1. s.pc \in {"call", "answer"} => s.order # <<>> \/ s.rest # {} BY <2>1 DEF AskSound, AtOne
    <3> QED BY <2>1, <3>1, TargetIn
  <2>3. d # NoCaller BY ProviderAssumption
  <2> HIDE DEF s, i
  <2>4. s.pc \in {"call", "answer"} => engine[i] = d BY <2>1 DEF CurrentIn, i
  <2>5. s.pc \in {"call", "answer"} => engine'[i] = d /\ page'[i] = page[i] BY <1>7, <2>2, <2>3, <2>4
  <2>6. CurrentIn(d, s, extension, engine', page') BY <2>1, <2>5 DEF CurrentIn, i
  <2> QED BY <2>6 DEF s
<1>8. \A d \in Askers : CurrentIn(d, ask'[d], extension', engine', page') BY <1>3, <1>7
<1>9. ASSUME NEW i \in Ids, engine'[i] # NoCaller
      PROVE  ask'[engine'[i]].pc \in {"call", "answer"} /\ TargetOf(ask'[engine'[i]]) = i
  <2>1. CASE engine'[i] = c BY <1>3, <2>1
  <2>2. CASE engine'[i] # c
    <3>1. engine'[i] = engine[i] /\ engine[i] \in Askers BY <1>1, <1>9, <2>2 DEF ProviderTyped
    <3>2. ask'[engine[i]] = ask[engine[i]] BY <1>3, <2>2, <3>1
    <3> QED BY <1>1, <1>9, <3>1, <3>2 DEF EnginesHeld
  <2> QED BY <2>1, <2>2
<1> QED BY <1>5, <1>6, <1>8, <1>9 DEF ProviderInv, AskCurrent, EnginesHeld

AskResults == {"", "cancelled", "error", "tracks", "verification", "available"}
LEMMA EndedIs ==
  ASSUME NEW c \in Askers, ask[c] \in AskRecords, AskSound(ask[c]), AskCurrent(c), NEW result \in AskResults,
         ask[c].op = "search" /\ result = "tracks" /\ Len(ask[c].tracks) < SearchLimit => ask[c].steady \subseteq ask[c].asked,
         ask[c].op = "available" /\ result = "verification" => ask[c].opened,
         NEW e, NEW p
  PROVE  /\ Ended(c, result) \in AskRecords /\ AskSound(Ended(c, result)) /\ CurrentIn(c, Ended(c, result), extension, e, p)
         /\ Ended(c, result).pc = "done"
<1> DEFINE r == Ended(c, result)
<1>1. r = [ask[c] EXCEPT !.pc = "done", !.result = result, !.order = <<>>, !.rest = {}, !.answer = NoAnswer] BY DEF Ended
<1>2. NoAnswer \in [kind : {"", "tracks", "failed", "unverified", "cancelled"}, tracks : Seq(Tracks)] BY EmptySeq DEF NoAnswer
<1>a. <<>> \in Seq(Ids) /\ {} \in SUBSET Ids BY EmptySeq
<1>b. result \in {"", "cancelled", "error", "tracks", "verification", "available"} BY DEF AskResults
<1> HIDE DEF r
<1>3. r \in AskRecords BY <1>1, <1>2, <1>a, <1>b DEF AskRecords, AskPcs
<1>4. /\ r.pc = "done" /\ r.result = result /\ r.order = <<>> /\ r.rest = {} /\ r.op = ask[c].op /\ r.tracks = ask[c].tracks
      /\ r.verification = ask[c].verification /\ r.steady = ask[c].steady /\ r.asked = ask[c].asked
      /\ r.providers = ask[c].providers /\ r.opened = ask[c].opened
  BY <1>1 DEF AskRecords
<1> HIDE DEF r
<1>5. AskSound(r) BY <1>4 DEF AskSound, AtOne
<1>6. CurrentIn(c, r, extension, e, p) BY <1>4 DEF AskCurrent, CurrentIn
<1> QED BY <1>3, <1>4, <1>5, <1>6 DEF r

(* A request that moves and leaves engines and pages as they are, and did not  *)
(* hold an engine.                                                          *)
LEMMA OneMovesAlone ==
  ASSUME ProviderInv, NEW c \in Askers, NEW r \in AskRecords, ask' = [ask EXCEPT ![c] = r],
         extension' = extension, priority' = priority, switches' = switches, asks' \in Nat,
         engine' = engine, page' = page, ask[c].pc \notin {"call", "answer"},
         AskSound(r), CurrentIn(c, r, extension, engine, page)
  PROVE  ProviderInv'
<1>1. ProviderTyped /\ EnginesHeld BY DEF ProviderInv
<1>2. \A i \in Ids : engine[i] # c
  <2> SUFFICES ASSUME NEW i \in Ids, engine[i] = c PROVE FALSE OBVIOUS
  <2>1. c # NoCaller BY ProviderAssumption
  <2> QED BY <1>1, <2>1 DEF EnginesHeld
<1>3. engine \in [Ids -> Askers \cup {NoCaller}] /\ page \in [Ids -> Askers \cup {NoCaller}] BY <1>1 DEF ProviderTyped
<1> QED BY <1>2, <1>3, OneMoves

LEMMA CallerHas ==
  ASSUME ProviderInv, NEW c \in Askers
  PROVE  /\ ask[c] \in AskRecords /\ AskSound(ask[c]) /\ AskCurrent(c) /\ asks \in Nat
         /\ ask[c].pc \in {"call", "answer"} \cup AtOne => Target(c) \in Ids
         /\ ask[c].pc \in {"call", "answer"} => engine[Target(c)] = c
<1>1. ask[c] \in AskRecords /\ AskSound(ask[c]) /\ AskCurrent(c) /\ asks \in Nat BY DEF ProviderInv, ProviderTyped
<1>2. ask[c].pc \in AtOne => TargetOf(ask[c]) \in Ids BY <1>1, TargetIn DEF AskSound
<1>3. ask[c].pc \in {"call", "answer"} => engine[TargetOf(ask[c])] = c BY <1>1 DEF AskCurrent, CurrentIn
<1> QED BY <1>1, <1>2, <1>3, TargetIs DEF AtOne

LEMMA StartSearchInv == ASSUME ProviderInv, NEW c \in Askers, StartSearch(c) PROVE ProviderInv'
<1> DEFINE r == [NoAsk EXCEPT !.pc = "list", !.op = "search", !.order = priority]
<1>1. ask[c] \in AskRecords /\ asks \in Nat BY CallerHas
<1>2. priority \in Seq(Ids) /\ <<>> \in Seq(Tracks) BY EmptySeq DEF ProviderInv, ProviderTyped
<1>3. r \in AskRecords BY <1>2 DEF NoAsk, NoAnswer, AskRecords, AskPcs
<1>4. /\ r.pc = "list" /\ r.op = "search" /\ r.steady = {} /\ r.tracks = <<>> /\ r.result = "" /\ r.verification = FALSE
      /\ r.providers = {}
  BY DEF NoAsk
<1>5. Distinct(<<>>) BY DEF Distinct
<1> HIDE DEF r
<1>6. AskSound(r) /\ CurrentIn(c, r, extension, engine, page) BY <1>4, <1>5 DEF AskSound, AtOne, CurrentIn
<1>7. ask' = [ask EXCEPT ![c] = r] /\ asks' \in Nat BY <1>1 DEF StartSearch, Asks, r
<1> QED BY <1>3, <1>6, <1>7, OneMovesAlone DEF StartSearch, Reached

LEMMA StartAvailabilityInv == ASSUME ProviderInv, NEW c \in Askers, StartAvailability(c) PROVE ProviderInv'
<1>1. ask[c] \in AskRecords /\ asks \in Nat BY CallerHas
<1>2. PICK i \in Ids : Asks(c, [NoAsk EXCEPT !.pc = "next", !.op = "available", !.order = <<i>>, !.providers = {i}])
  BY DEF StartAvailability
<1> DEFINE r == [NoAsk EXCEPT !.pc = "next", !.op = "available", !.order = <<i>>, !.providers = {i}]
<1>3. <<i>> \in Seq(Ids) /\ <<>> \in Seq(Tracks) BY EmptySeq
<1>4. r \in AskRecords BY <1>3 DEF NoAsk, NoAnswer, AskRecords, AskPcs
<1>5. /\ r.pc = "next" /\ r.op = "available" /\ r.steady = {} /\ r.tracks = <<>> /\ r.result = "" /\ r.verification = FALSE
  BY DEF NoAsk
<1>6. Distinct(<<>>) BY DEF Distinct
<1>a. ask' = [ask EXCEPT ![c] = r] BY <1>2 DEF Asks
<1>7. ask' = [ask EXCEPT ![c] = r] /\ asks' \in Nat BY <1>1, <1>a DEF StartAvailability
<1> HIDE DEF r
<1>8. AskSound(r) /\ CurrentIn(c, r, extension, engine, page) BY <1>5, <1>6 DEF AskSound, AtOne, CurrentIn
<1> QED BY <1>4, <1>7, <1>8, OneMovesAlone DEF StartAvailability, Reached

LEMMA ListProvidersInv == ASSUME ProviderInv, NEW c \in Askers, ListProviders(c) PROVE ProviderInv'
<1> DEFINE rest == Enabled \ ToSet(ask[c].order)
           r == [ask[c] EXCEPT !.pc = "next", !.rest = rest, !.providers = Enabled, !.steady = Enabled]
<1>1. ask[c] \in AskRecords /\ AskSound(ask[c]) /\ asks \in Nat /\ ask[c].pc = "list" BY CallerHas DEF ListProviders, Reached
<1>2. Enabled \in SUBSET Ids /\ rest \in SUBSET Ids /\ Enabled \subseteq ToSet(ask[c].order) \cup rest
      /\ \A i \in Enabled : extension[i].enabled
  BY DEF Enabled
<1> HIDE DEF rest
<1>3. r \in AskRecords BY <1>1, <1>2 DEF AskRecords, AskPcs
<1>4. /\ r.pc = "next" /\ r.rest = rest /\ r.order = ask[c].order /\ r.op = ask[c].op /\ r.steady = Enabled /\ r.providers = Enabled
      /\ r.tracks = ask[c].tracks /\ r.result = ask[c].result /\ r.verification = ask[c].verification
  BY <1>1 DEF AskRecords
<1>5. ask' = [ask EXCEPT ![c] = r] BY DEF ListProviders, Asks, rest
<1> HIDE DEF r
<1>6. AskSound(r) BY <1>1, <1>2, <1>4 DEF AskSound, AtOne, Unasked
<1>7. CurrentIn(c, r, extension, engine, page) BY <1>2, <1>4 DEF CurrentIn
<1> QED BY <1>1, <1>3, <1>5, <1>6, <1>7, OneMovesAlone DEF ListProviders

LEMMA EndSearchInv == ASSUME ProviderInv, NEW c \in Askers, EndSearch(c) PROVE ProviderInv'
<1> DEFINE result == IF ask[c].tracks = <<>> /\ ask[c].verification THEN "verification" ELSE "tracks"
<1>1. ask[c] \in AskRecords /\ AskSound(ask[c]) /\ AskCurrent(c) /\ asks \in Nat /\ ask[c].pc = "next"
  BY CallerHas DEF EndSearch, Reached
<1>2. Unasked(ask[c]) = {} BY DEF EndSearch, AllAsked, Unasked, ToSet
<1>3. ask[c].op = "search" => ask[c].steady \subseteq ask[c].asked BY <1>1, <1>2 DEF AskSound
<1>4. ask[c].op = "available" => result # "verification" BY <1>1 DEF AskSound
<1>5. result \in AskResults BY DEF AskResults
<1>6. ask' = [ask EXCEPT ![c] = Ended(c, result)] BY DEF EndSearch, Asks
<1> HIDE DEF result
<1>7. Ended(c, result) \in AskRecords /\ AskSound(Ended(c, result)) /\ CurrentIn(c, Ended(c, result), extension, engine, page)
  BY <1>1, <1>3, <1>4, <1>5, EndedIs
<1> QED BY <1>1, <1>6, <1>7, OneMovesAlone DEF EndSearch

(* A provider that is passed over was not there all the time.                *)
LEMMA PassedSound ==
  ASSUME ProviderInv, NEW c \in Askers, ~AllAsked(c), ask[c].pc \in {"next", "engine", "merge"},
         Target(c) \in ask[c].steady => Target(c) \in ask[c].asked
  PROVE  Passed(c) \in AskRecords /\ AskSound(Passed(c)) /\ CurrentIn(c, Passed(c), extension, engine, page)
<1> DEFINE r == Passed(c)
           s == ask[c]
<1>1. s \in AskRecords /\ AskSound(s) /\ AskCurrent(c) BY CallerHas
<1>2. /\ r \in AskRecords /\ r.pc = "next"
      /\ \A i \in Unasked(s) : i \in Unasked(r) \/ i = TargetOf(s)
  BY <1>1, PassedIs
<1>3. /\ r.op = s.op /\ r.providers = s.providers /\ r.tracks = s.tracks /\ r.verification = s.verification
      /\ r.opened = s.opened /\ r.result = s.result /\ r.steady = s.steady /\ r.asked = s.asked
  <2>1. \A f \in {"op", "providers", "version", "cancelled", "tracks", "verification", "opened", "answer", "result", "steady", "asked"} :
           r[f] = s[f]
    BY <1>1, PassedIs
  <2> QED BY <2>1
<1>4. TargetOf(s) \in s.steady => TargetOf(s) \in s.asked BY TargetIs
<1>5. s.pc \in {"next", "engine", "merge"} OBVIOUS
<1>6. \A j \in s.steady : extension[j].enabled BY <1>1 DEF AskCurrent, CurrentIn
<1> HIDE DEF r, s
<1>7. AskSound(r) BY <1>1, <1>2, <1>3, <1>4, <1>5 DEF AskSound, AtOne
<1>8. CurrentIn(c, r, extension, engine, page) BY <1>2, <1>3, <1>6 DEF CurrentIn
<1> QED BY <1>2, <1>7, <1>8 DEF r

LEMMA PassOverInv ==
  ASSUME ProviderInv, NEW c \in Askers, ~AllAsked(c), ask[c].pc \in {"next", "engine"},
         Target(c) \notin ask[c].steady
  PROVE  PassOver(c) \in AskRecords /\ AskSound(PassOver(c)) /\ CurrentIn(c, PassOver(c), extension, engine, page)
<1>1. CASE ask[c].op = "search" BY <1>1, PassedSound DEF PassOver
<1>2. CASE ask[c].op # "search" BY <1>2, CallerHas, EndedIs DEF PassOver, AskResults
<1> QED BY <1>1, <1>2

LEMMA NextProviderInv == ASSUME ProviderInv, NEW c \in Askers, NextProvider(c) PROVE ProviderInv'
<1>1. ask[c] \in AskRecords /\ AskSound(ask[c]) /\ AskCurrent(c) /\ asks \in Nat /\ ask[c].pc = "next" /\ ~AllAsked(c)
  BY CallerHas DEF NextProvider, Reached
<1>2. \A j \in ask[c].steady : extension[j].enabled /\ j \in ask[c].providers BY <1>1 DEF AskCurrent, CurrentIn, AskSound
<1> DEFINE last == [ask[c] EXCEPT !.pc = "engine", !.version = extension[Target(c)].version]
<1>3. TargetOf(ask[c]) \in Ids /\ TargetOf(ask[c]) \in Unasked(ask[c]) BY <1>1, TargetIn DEF AllAsked
<1>4. CASE ask[c].cancelled /\ ask' = [ask EXCEPT ![c] = Ended(c, "cancelled")]
  <2>1. Ended(c, "cancelled") \in AskRecords /\ AskSound(Ended(c, "cancelled")) /\ CurrentIn(c, Ended(c, "cancelled"), extension, engine, page)
    BY <1>1, EndedIs DEF AskResults
  <2> QED BY <1>1, <1>4, <2>1, OneMovesAlone DEF NextProvider
<1>5. CASE Target(c) \notin ask[c].providers /\ ask' = [ask EXCEPT ![c] = Passed(c)]
  <2>1. Passed(c) \in AskRecords /\ AskSound(Passed(c)) /\ CurrentIn(c, Passed(c), extension, engine, page)
    BY <1>1, <1>2, <1>5, PassedSound
  <2> QED BY <1>1, <1>5, <2>1, OneMovesAlone DEF NextProvider
<1>6. CASE ~extension[Target(c)].enabled /\ ask' = [ask EXCEPT ![c] = PassOver(c)]
  <2>1. PassOver(c) \in AskRecords /\ AskSound(PassOver(c)) /\ CurrentIn(c, PassOver(c), extension, engine, page)
    BY <1>1, <1>2, <1>6, PassOverInv
  <2> QED BY <1>1, <1>6, <2>1, OneMovesAlone DEF NextProvider
<1>7. CASE ask' = [ask EXCEPT ![c] = last]
  <2> DEFINE version == extension[Target(c)].version
  <2>1. version \in Nat BY <1>3, TargetIs DEF ProviderInv, ProviderTyped, ExtensionRecords
  <2> HIDE DEF version
  <2>2. last = [ask[c] EXCEPT !.pc = "engine", !.version = version] BY DEF version
  <2>3. last \in AskRecords BY <1>1, <2>1, <2>2 DEF AskRecords, AskPcs
  <2>4. /\ last.pc = "engine" /\ last.version = version /\ last.order = ask[c].order /\ last.rest = ask[c].rest /\ last.op = ask[c].op
        /\ last.tracks = ask[c].tracks /\ last.verification = ask[c].verification /\ last.steady = ask[c].steady
        /\ last.asked = ask[c].asked /\ last.providers = ask[c].providers /\ last.result = ask[c].result /\ last.opened = ask[c].opened
    BY <1>1, <2>2 DEF AskRecords
  <2>5. ask[c].order # <<>> \/ ask[c].rest # {} BY <1>1 DEF AllAsked
  <2>6. ask' = [ask EXCEPT ![c] = last] BY <1>7
  <2>7. TargetOf(last) = Target(c) BY <2>4, TargetIs DEF TargetOf
  <2> HIDE DEF last
  <2>8. AskSound(last) BY <1>1, <2>4, <2>5 DEF AskSound, AtOne, Unasked
  <2>9. CurrentIn(c, last, extension, engine, page) BY <1>2, <2>4, <2>7 DEF CurrentIn, version
  <2> QED BY <1>1, <2>3, <2>6, <2>8, <2>9, OneMovesAlone DEF NextProvider
<1> QED BY <1>4, <1>5, <1>6, <1>7 DEF NextProvider, Asks

LEMMA TakeEngineInv == ASSUME ProviderInv, NEW c \in Askers, TakeEngine(c) PROVE ProviderInv'
<1> DEFINE t == Target(c)
<1>1. /\ ask[c] \in AskRecords /\ AskSound(ask[c]) /\ AskCurrent(c) /\ asks \in Nat /\ ask[c].pc = "engine" /\ t \in Ids
      /\ asks' = asks
  BY CallerHas DEF TakeEngine, Reached, AtOne
<1>2. t = TargetOf(ask[c]) BY TargetIs
<1>3. engine \in [Ids -> Askers \cup {NoCaller}] /\ page \in [Ids -> Askers \cup {NoCaller}] BY DEF ProviderInv, ProviderTyped
<1>4. c # NoCaller BY ProviderAssumption
<1>5. \A i \in Ids : engine[i] # c BY <1>1, <1>4 DEF ProviderInv, EnginesHeld
<1>6. ~AllAsked(c) BY <1>1 DEF AskSound, AtOne, AllAsked
<1>7. CASE ask[c].cancelled /\ ask' = [ask EXCEPT ![c] = Ended(c, "cancelled")] /\ UNCHANGED <<engine, page>>
  <2>1. /\ Ended(c, "cancelled") \in AskRecords /\ AskSound(Ended(c, "cancelled"))
        /\ CurrentIn(c, Ended(c, "cancelled"), extension, engine, page)
    BY <1>1, EndedIs DEF AskResults
  <2> QED BY <1>1, <1>7, <2>1, OneMovesAlone DEF TakeEngine
<1>8. CASE /\ ~(extension[t].enabled /\ extension[t].version = ask[c].version)
           /\ ask' = [ask EXCEPT ![c] = PassOver(c)] /\ UNCHANGED <<engine, page>>
  <2>1. t \notin ask[c].steady BY <1>1, <1>2, <1>8 DEF AskCurrent, CurrentIn
  <2>2. PassOver(c) \in AskRecords /\ AskSound(PassOver(c)) /\ CurrentIn(c, PassOver(c), extension, engine, page)
    BY <1>1, <1>6, <2>1, PassOverInv
  <2> QED BY <1>1, <1>8, <2>2, OneMovesAlone DEF TakeEngine
<1>9. CASE /\ engine[t] = NoCaller /\ extension[t].version = ask[c].version /\ engine' = [engine EXCEPT ![t] = c]
           /\ page' = PageBefore(c) /\ ask' = [ask EXCEPT ![c] = [ask[c] EXCEPT !.pc = "call", !.asked = @ \cup {t}]]
  <2> DEFINE asked == ask[c].asked \cup {t}
             r == [ask[c] EXCEPT !.pc = "call", !.asked = asked]
  <2>1. asked \in SUBSET Ids BY <1>1 DEF AskRecords
  <2>2. ask[c].asked \subseteq asked /\ t \in asked OBVIOUS
  <2>3. ask' = [ask EXCEPT ![c] = r] BY <1>9
  <2> HIDE DEF asked, t
  <2>4. r \in AskRecords BY <1>1, <2>1 DEF AskRecords, AskPcs
  <2>5. /\ r.pc = "call" /\ r.version = ask[c].version /\ r.order = ask[c].order /\ r.rest = ask[c].rest /\ r.op = ask[c].op
        /\ r.tracks = ask[c].tracks /\ r.verification = ask[c].verification /\ r.steady = ask[c].steady
        /\ r.asked = asked /\ r.providers = ask[c].providers /\ r.result = ask[c].result /\ r.opened = ask[c].opened
    BY <1>1 DEF AskRecords
  <2> HIDE DEF r
  <2>6. TargetOf(r) = t BY <1>2, <2>5 DEF TargetOf
  <2>7. AskSound(r) BY <1>1, <2>2, <2>5, <2>6 DEF AskSound, AtOne, Unasked
  <2>8. engine'[t] = c /\ (\A i \in Ids : i # t => engine'[i] = engine[i]) /\ engine' \in [Ids -> Askers \cup {NoCaller}]
    BY <1>1, <1>3, <1>9
  <2>9. /\ page' \in [Ids -> Askers \cup {NoCaller}] /\ (\A i \in Ids : i # t => page'[i] = page[i])
        /\ ask[c].op = "available" => page'[t] = NoCaller
    BY <1>1, <1>3, <1>9 DEF PageBefore, t
  <2>10. CurrentIn(c, r, extension, engine', page') BY <1>1, <1>9, <2>5, <2>6, <2>8, <2>9 DEF CurrentIn, AskCurrent
  <2>11. \A i \in Ids : engine[i] \notin {NoCaller, c} => engine'[i] = engine[i] /\ page'[i] = page[i] BY <1>9, <2>8, <2>9
  <2>12. \A i \in Ids : engine'[i] \in {engine[i], c, NoCaller} BY <2>8
  <2>13. \A i \in Ids : engine'[i] = c => r.pc \in {"call", "answer"} /\ TargetOf(r) = i BY <1>5, <2>5, <2>6, <2>8
  <2>14. extension' = extension /\ priority' = priority /\ switches' = switches BY DEF TakeEngine
  <2> QED BY <1>1, <2>3, <2>4, <2>7, <2>8, <2>9, <2>10, <2>11, <2>12, <2>13, <2>14, OneMoves
<1> QED BY <1>7, <1>8, <1>9 DEF TakeEngine, Asks

LEMMA CallProviderInv == ASSUME ProviderInv, NEW c \in Askers, CallProvider(c) PROVE ProviderInv'
<1> DEFINE t == Target(c)
<1>1. /\ ask[c] \in AskRecords /\ AskSound(ask[c]) /\ AskCurrent(c) /\ asks \in Nat /\ ask[c].pc = "call" /\ t \in Ids
      /\ engine[t] = c /\ asks' = asks
  BY CallerHas DEF CallProvider, Reached, AtOne
<1>2. t = TargetOf(ask[c]) BY TargetIs
<1>3. engine \in [Ids -> Askers \cup {NoCaller}] /\ page \in [Ids -> Askers \cup {NoCaller}] BY DEF ProviderInv, ProviderTyped
<1>4. c # NoCaller BY ProviderAssumption
<1>5. \A i \in Ids : engine[i] = c => i = t BY <1>2, <1>4 DEF ProviderInv, EnginesHeld
<1> DEFINE Answers == [kind : {"", "tracks", "failed", "unverified", "cancelled"}, tracks : Seq(Tracks)]
<1>6. PICK opens \in BOOLEAN, answer \in {[kind |-> "tracks", tracks |-> found] : found \in Catalogue[t]}
                                          \cup {[kind |-> k, tracks |-> <<>>] : k \in {"failed", "unverified"}} :
        /\ page' = IF opens THEN [page EXCEPT ![t] = c] ELSE page
        /\ ask' = [ask EXCEPT ![c] = [ask[c] EXCEPT !.pc = "answer", !.opened = opens, !.answer =
                        IF ask[c].cancelled THEN [kind |-> "cancelled", tracks |-> <<>>] ELSE answer]]
  BY DEF CallProvider, Asks
<1> DEFINE given == IF ask[c].cancelled THEN [kind |-> "cancelled", tracks |-> <<>>] ELSE answer
           r == [ask[c] EXCEPT !.pc = "answer", !.opened = opens, !.answer = given]
<1>7. given \in Answers
  <2>1. Catalogue[t] \subseteq Seq(Tracks) /\ <<>> \in Seq(Tracks) BY <1>1, ProviderAssumption, EmptySeq
  <2>2. ASSUME NEW found \in Catalogue[t] PROVE [kind |-> "tracks", tracks |-> found] \in Answers
    <3>1. found \in Seq(Tracks) BY <2>1
    <3> QED BY <3>1
  <2>3. ASSUME NEW k \in {"failed", "unverified", "cancelled"} PROVE [kind |-> k, tracks |-> <<>>] \in Answers BY <2>1
  <2> HIDE DEF Answers
  <2>4. answer \in Answers BY <1>6, <2>2, <2>3
  <2> QED BY <2>3, <2>4
<1>8. ask' = [ask EXCEPT ![c] = r] BY <1>6
<1> HIDE DEF given, t
<1>9. r \in AskRecords BY <1>1, <1>7 DEF AskRecords, AskPcs
<1>10. /\ r.pc = "answer" /\ r.version = ask[c].version /\ r.order = ask[c].order /\ r.rest = ask[c].rest /\ r.op = ask[c].op
       /\ r.tracks = ask[c].tracks /\ r.verification = ask[c].verification /\ r.steady = ask[c].steady
       /\ r.asked = ask[c].asked /\ r.providers = ask[c].providers /\ r.result = ask[c].result /\ r.opened = opens
  BY <1>1 DEF AskRecords
<1> HIDE DEF r
<1>11. TargetOf(r) = t BY <1>2, <1>10 DEF TargetOf
<1>12. AskSound(r) BY <1>1, <1>2, <1>10, <1>11 DEF AskSound, AtOne, Unasked
<1>13. /\ page' \in [Ids -> Askers \cup {NoCaller}] /\ (\A i \in Ids : i # t => page'[i] = page[i])
       /\ ~opens => page' = page
  BY <1>1, <1>3, <1>6
<1>14. engine' = engine BY DEF CallProvider
<1>15. CurrentIn(c, r, extension, engine', page')
  <2>1. CurrentIn(c, ask[c], extension, engine, page) BY <1>1 DEF AskCurrent
  <2>2. r.op = "available" /\ page'[t] # NoCaller => opens BY <1>1, <1>2, <1>10, <1>13, <2>1 DEF CurrentIn
  <2> QED BY <1>1, <1>2, <1>10, <1>11, <1>14, <2>1, <2>2 DEF CurrentIn
<1>16. \A i \in Ids : engine[i] \notin {NoCaller, c} => engine'[i] = engine[i] /\ page'[i] = page[i] BY <1>1, <1>13, <1>14
<1>17. \A i \in Ids : engine'[i] = c => r.pc \in {"call", "answer"} /\ TargetOf(r) = i BY <1>5, <1>10, <1>11, <1>14
<1>18. extension' = extension /\ priority' = priority /\ switches' = switches BY DEF CallProvider
<1> QED BY <1>1, <1>3, <1>8, <1>9, <1>12, <1>13, <1>14, <1>15, <1>16, <1>17, <1>18, OneMoves

LEMMA TakePageInv == ASSUME ProviderInv, NEW c \in Askers, TakePage(c) PROVE ProviderInv'
<1> DEFINE t == Target(c)
<1>1. /\ ask[c] \in AskRecords /\ AskSound(ask[c]) /\ AskCurrent(c) /\ asks \in Nat /\ ask[c].pc = "answer" /\ t \in Ids
      /\ engine[t] = c /\ asks' = asks
  BY CallerHas DEF TakePage, Reached, AtOne
<1>2. t = TargetOf(ask[c]) BY TargetIs
<1>3. engine \in [Ids -> Askers \cup {NoCaller}] /\ page \in [Ids -> Askers \cup {NoCaller}] BY DEF ProviderInv, ProviderTyped
<1>4. c # NoCaller BY ProviderAssumption
<1>5. \A i \in Ids : engine[i] = c => i = t BY <1>2, <1>4 DEF ProviderInv, EnginesHeld
<1>6. engine' = [engine EXCEPT ![t] = NoCaller] BY DEF TakePage
<1>7. /\ page' \in [Ids -> Askers \cup {NoCaller}] /\ \A i \in Ids : i # t => page'[i] = page[i]
  BY <1>1, <1>3 DEF TakePage
<1>8. extension' = extension /\ priority' = priority /\ switches' = switches BY DEF TakePage
<1>9. /\ engine' \in [Ids -> Askers \cup {NoCaller}] /\ (\A i \in Ids : engine'[i] # c)
      /\ (\A i \in Ids : engine[i] \notin {NoCaller, c} => engine'[i] = engine[i] /\ page'[i] = page[i])
      /\ \A i \in Ids : engine'[i] \in {engine[i], c, NoCaller}
  <2> HIDE DEF t
  <2>1. engine' \in [Ids -> Askers \cup {NoCaller}] /\ engine'[t] = NoCaller /\ \A i \in Ids : i # t => engine'[i] = engine[i]
    BY <1>1, <1>3, <1>6
  <2> QED BY <1>1, <1>4, <1>5, <1>7, <2>1
<1> HIDE DEF t
<1>10. ASSUME NEW r \in AskRecords, ask' = [ask EXCEPT ![c] = r], AskSound(r), CurrentIn(c, r, extension, engine', page')
       PROVE  ProviderInv'
  BY <1>1, <1>7, <1>8, <1>9, <1>10, OneMoves
<1>11. CASE ask[c].op = "search" /\ ask' = [ask EXCEPT ![c] = [ask[c] EXCEPT !.pc = "merge"]]
  <2> DEFINE r == [ask[c] EXCEPT !.pc = "merge"]
  <2>1. r \in AskRecords BY <1>1 DEF AskRecords, AskPcs
  <2>2. /\ r.pc = "merge" /\ r.order = ask[c].order /\ r.rest = ask[c].rest /\ r.op = ask[c].op
        /\ r.tracks = ask[c].tracks /\ r.verification = ask[c].verification /\ r.steady = ask[c].steady
        /\ r.asked = ask[c].asked /\ r.providers = ask[c].providers /\ r.result = ask[c].result /\ r.opened = ask[c].opened
    BY <1>1 DEF AskRecords
  <2>3. ask' = [ask EXCEPT ![c] = r] BY <1>11
  <2> HIDE DEF r
  <2>4. TargetOf(r) = t BY <1>2, <2>2 DEF TargetOf
  <2>5. AskSound(r) BY <1>1, <1>2, <1>11, <2>2, <2>4 DEF AskSound, AtOne, Unasked
  <2>6. CurrentIn(c, r, extension, engine', page') BY <1>1, <2>2 DEF CurrentIn, AskCurrent
  <2> QED BY <1>10, <2>1, <2>3, <2>5, <2>6
<1>12. ASSUME NEW result \in AskResults, ask[c].op # "search", ask' = [ask EXCEPT ![c] = Ended(c, result)],
              result = "verification" => page[t] # NoCaller
       PROVE  ProviderInv'
  <2>1. ask[c].op = "available" /\ result = "verification" => ask[c].opened BY <1>1, <1>2, <1>12 DEF AskCurrent, CurrentIn
  <2>2. Ended(c, result) \in AskRecords /\ AskSound(Ended(c, result)) /\ CurrentIn(c, Ended(c, result), extension, engine', page')
    BY <1>1, <1>12, <2>1, EndedIs
  <2> QED BY <1>10, <1>12, <2>2
<1>13. {"cancelled", "verification", "error", "available"} \subseteq AskResults BY DEF AskResults
<1>14. \/ ask[c].op = "search" /\ ask' = [ask EXCEPT ![c] = [ask[c] EXCEPT !.pc = "merge"]]
       \/ /\ ask[c].op # "search"
          /\ \/ ask' = [ask EXCEPT ![c] = Ended(c, "cancelled")] \/ ask' = [ask EXCEPT ![c] = Ended(c, "error")]
             \/ ask' = [ask EXCEPT ![c] = Ended(c, "available")]
             \/ page[t] # NoCaller /\ ask' = [ask EXCEPT ![c] = Ended(c, "verification")]
  BY DEF TakePage, Asks, t
<1> QED BY <1>11, <1>12, <1>13, <1>14

LEMMA MergeTracksInv == ASSUME ProviderInv, NEW c \in Askers, MergeTracks(c) PROVE ProviderInv'
<1> DEFINE all == Merged(c)
           s == ask[c]
           sorry == Passed(c).verification \/ s.answer.kind = "unverified"
           r == [Passed(c) EXCEPT !.tracks = all, !.answer = NoAnswer, !.opened = FALSE, !.verification = sorry]
           full == [Ended(c, "tracks") EXCEPT !.tracks = all]
<1>1. s \in AskRecords /\ AskSound(s) /\ AskCurrent(c) /\ asks \in Nat /\ s.pc = "merge" /\ s.op = "search" /\ asks' = asks
  BY CallerHas DEF MergeTracks, Reached, AskSound
<1>2. s.tracks \in Seq(Tracks) /\ s.answer.tracks \in Seq(Tracks) /\ Distinct(s.tracks) BY <1>1 DEF AskRecords, AskSound
<1>3. all \in Seq(Tracks) /\ Distinct(all) BY <1>2, MergingSingle DEF Merged
<1>4. ~AllAsked(c) BY <1>1 DEF AskSound, AtOne, AllAsked
<1>5. CASE ask' = [ask EXCEPT ![c] = Ended(c, "cancelled")]
  <2>1. /\ Ended(c, "cancelled") \in AskRecords /\ AskSound(Ended(c, "cancelled"))
        /\ CurrentIn(c, Ended(c, "cancelled"), extension, engine, page)
    BY <1>1, EndedIs DEF AskResults
  <2> QED BY <1>1, <1>5, <2>1, OneMovesAlone DEF MergeTracks
<1>6. CASE Len(all) >= SearchLimit /\ ask' = [ask EXCEPT ![c] = full]
  <2> DEFINE e == Ended(c, "tracks")
  <2>1. e = [s EXCEPT !.pc = "done", !.result = "tracks", !.order = <<>>, !.rest = {}, !.answer = NoAnswer] BY DEF Ended
  <2>2. NoAnswer \in [kind : {"", "tracks", "failed", "unverified", "cancelled"}, tracks : Seq(Tracks)] BY EmptySeq DEF NoAnswer
  <2>3. <<>> \in Seq(Ids) BY EmptySeq
  <2> HIDE DEF e, s, all
  <2>4. e \in AskRecords BY <1>1, <2>1, <2>2, <2>3 DEF AskRecords, AskPcs
  <2>5. /\ e.pc = "done" /\ e.result = "tracks" /\ e.op = s.op
        /\ e.verification = s.verification /\ e.steady = s.steady /\ e.providers = s.providers
    BY <1>1, <2>1 DEF AskRecords
  <2>6. full = [e EXCEPT !.tracks = all] BY DEF e
  <2> HIDE DEF full
  <2>7. full \in AskRecords BY <1>3, <2>4, <2>6 DEF AskRecords
  <2>8. /\ full.pc = "done" /\ full.result = "tracks" /\ full.op = s.op /\ full.tracks = all
        /\ full.verification = s.verification /\ full.steady = s.steady /\ full.providers = s.providers
    BY <2>4, <2>5, <2>6 DEF AskRecords
  <2>9. Len(all) \in Nat /\ SearchLimit \in Nat BY <1>3, LenProperties, ProviderAssumption
  <2>a. ~(Len(full.tracks) < SearchLimit) BY <1>6, <2>8, <2>9
  <2>b. Distinct(full.tracks) BY <1>3, <2>8
  <2>c. full.steady \subseteq full.providers BY <1>1, <2>8 DEF AskSound
  <2>10. AskSound(full) BY <1>1, <2>8, <2>a, <2>b, <2>c DEF AskSound, AtOne
  <2>11. CurrentIn(c, full, extension, engine, page) BY <1>1, <2>8 DEF AskCurrent, CurrentIn, s
  <2> QED BY <1>1, <1>6, <2>7, <2>10, <2>11, OneMovesAlone DEF MergeTracks, s
<1>7. CASE ask' = [ask EXCEPT ![c] = r]
  <2> DEFINE e == Passed(c)
  <2>1. TargetOf(s) \in s.asked BY <1>1 DEF AskSound
  <2>2. e \in AskRecords /\ AskSound(e) /\ CurrentIn(c, e, extension, engine, page) BY <1>1, <1>4, <2>1, TargetIs, PassedSound
  <2>3. e.pc = "next" /\ e.op = s.op /\ e.result = s.result
    <3>1. e.pc = "next" /\ \A f \in {"op", "providers", "version", "cancelled", "tracks", "verification", "opened", "answer", "result", "steady", "asked"} :
             e[f] = s[f]
      BY <1>1, <1>4, PassedIs
    <3> QED BY <3>1
  <2>4. NoAnswer \in [kind : {"", "tracks", "failed", "unverified", "cancelled"}, tracks : Seq(Tracks)] BY EmptySeq DEF NoAnswer
  <2>5. sorry \in BOOLEAN BY <2>2 DEF AskRecords
  <2>6. r = [e EXCEPT !.tracks = all, !.answer = NoAnswer, !.opened = FALSE, !.verification = sorry] OBVIOUS
  <2> HIDE DEF e, s, all, sorry, r
  <2>7. r \in AskRecords BY <1>3, <2>2, <2>4, <2>5, <2>6 DEF AskRecords
  <2>8. /\ r.pc = "next" /\ r.op = "search" /\ r.result = e.result /\ r.tracks = all /\ r.steady = e.steady
        /\ r.asked = e.asked /\ r.providers = e.providers /\ r.order = e.order /\ r.rest = e.rest
    BY <1>1, <2>2, <2>3, <2>6 DEF AskRecords
  <2>9. e.result = ""
    BY <2>2, <2>3 DEF AskSound
  <2>10. AskSound(r) BY <1>1, <1>3, <2>2, <2>3, <2>8, <2>9 DEF AskSound, AtOne, Unasked
  <2>11. CurrentIn(c, r, extension, engine, page) BY <2>2, <2>8 DEF CurrentIn
  <2>12. ask' = [ask EXCEPT ![c] = r] BY <1>7
  <2> QED BY <1>1, <2>7, <2>10, <2>11, <2>12, OneMovesAlone DEF MergeTracks, s
<1> HIDE DEF full, r, all, s, sorry
<1>8. \/ ask' = [ask EXCEPT ![c] = Ended(c, "cancelled")]
      \/ Len(all) >= SearchLimit /\ ask' = [ask EXCEPT ![c] = full]
      \/ ask' = [ask EXCEPT ![c] = r]
  BY DEF MergeTracks, Asks, full, r, all, s, sorry
<1> QED BY <1>5, <1>6, <1>7, <1>8

LEMMA ReturnAnswerInv == ASSUME ProviderInv, NEW c \in Askers, ReturnAnswer(c) PROVE ProviderInv'
<1>1. asks \in Nat /\ ask[c].pc = "done" BY CallerHas DEF ReturnAnswer, Reached
<1>2. <<>> \in Seq(Ids) /\ <<>> \in Seq(Tracks) /\ Distinct(<<>>) BY EmptySeq DEF Distinct
<1>3. NoAsk \in AskRecords BY <1>2 DEF NoAsk, NoAnswer, AskRecords, AskPcs
<1>4. AskSound(NoAsk) /\ CurrentIn(c, NoAsk, extension, engine, page) BY <1>2 DEF AskSound, AtOne, CurrentIn, NoAsk
<1>5. ask' = [ask EXCEPT ![c] = NoAsk] BY DEF ReturnAnswer, Asks
<1> QED BY <1>1, <1>3, <1>4, <1>5, OneMovesAlone DEF ReturnAnswer

LEMMA CancelAskInv == ASSUME ProviderInv, NEW c \in Askers, CancelAsk(c) PROVE ProviderInv'
<1> DEFINE r == [ask[c] EXCEPT !.cancelled = TRUE]
<1>1. ask[c] \in AskRecords /\ AskSound(ask[c]) /\ AskCurrent(c) /\ asks \in Nat BY CallerHas
<1>2. engine \in [Ids -> Askers \cup {NoCaller}] /\ page \in [Ids -> Askers \cup {NoCaller}] BY DEF ProviderInv, ProviderTyped
<1>3. r \in AskRecords BY <1>1 DEF AskRecords
<1>4. /\ r.pc = ask[c].pc /\ r.version = ask[c].version /\ r.order = ask[c].order /\ r.rest = ask[c].rest /\ r.op = ask[c].op
      /\ r.tracks = ask[c].tracks /\ r.verification = ask[c].verification /\ r.steady = ask[c].steady
      /\ r.asked = ask[c].asked /\ r.providers = ask[c].providers /\ r.result = ask[c].result /\ r.opened = ask[c].opened
  BY <1>1 DEF AskRecords
<1>5. ask' = [ask EXCEPT ![c] = r] BY DEF CancelAsk, Asks
<1> HIDE DEF r
<1>6. TargetOf(r) = TargetOf(ask[c]) BY <1>4 DEF TargetOf
<1>7. AskSound(r) BY <1>1, <1>4, <1>6 DEF AskSound, AtOne, Unasked
<1>8. CurrentIn(c, r, extension, engine, page) BY <1>1, <1>4, <1>6 DEF AskCurrent, CurrentIn
<1>9. c # NoCaller BY ProviderAssumption
<1>10. \A i \in Ids : engine[i] = c => r.pc \in {"call", "answer"} /\ TargetOf(r) = i
  BY <1>4, <1>6, <1>9 DEF ProviderInv, EnginesHeld
<1>11. /\ engine' = engine /\ page' = page /\ extension' = extension /\ priority' = priority /\ switches' = switches
       /\ asks' = asks
  BY DEF CancelAsk
<1> QED BY <1>1, <1>2, <1>3, <1>5, <1>7, <1>8, <1>10, <1>11, OneMoves

(* The user changes an extension: it counts no more as there all the time, and *)
(* its version and its page change only while nobody is in its engine.        *)
LEMMA SwitchInv ==
  ASSUME ProviderInv, NEW i \in Ids, NEW record \in ExtensionRecords, Switch(i, record),
         page' \in [Ids -> Askers \cup {NoCaller}], \A j \in Ids : j # i => page'[j] = page[j],
         engine[i] # NoCaller => record.version = extension[i].version /\ page'[i] = page[i]
  PROVE  ProviderInv'
<1> DEFINE Without(d) == [ask[d] EXCEPT !.steady = @ \ {i}]
<1>1. ProviderTyped /\ EnginesHeld BY DEF ProviderInv
<1>2. \A d \in Askers : ask[d] \in AskRecords /\ AskSound(ask[d]) /\ AskCurrent(d) BY CallerHas
<1>3. /\ extension' = [extension EXCEPT ![i] = record] /\ engine' = engine /\ priority' = priority /\ asks' = asks
      /\ switches' = switches + 1 /\ ask' = [d \in Askers |-> Without(d)]
  BY DEF Switch
<1>4. extension' \in [Ids -> ExtensionRecords] /\ extension'[i] = record /\ \A j \in Ids : j # i => extension'[j] = extension[j]
  BY <1>1, <1>3 DEF ProviderTyped
<1>5. ASSUME NEW d \in Askers
      PROVE  /\ Without(d) \in AskRecords /\ AskSound(Without(d)) /\ CurrentIn(d, Without(d), extension', engine, page')
             /\ Without(d).pc = ask[d].pc /\ TargetOf(Without(d)) = TargetOf(ask[d])
  <2> DEFINE s == ask[d]
             steady == s.steady \ {i}
             r == [s EXCEPT !.steady = steady]
             t == TargetOf(s)
  <2>1. s \in AskRecords /\ AskSound(s) /\ CurrentIn(d, s, extension, engine, page) BY <1>2 DEF AskCurrent
  <2>2. steady \in SUBSET Ids /\ s.steady \in SUBSET Ids BY <2>1 DEF AskRecords
  <2>3. steady \subseteq s.steady /\ i \notin steady OBVIOUS
  <2>4. Without(d) = r OBVIOUS
  <2> HIDE DEF s, steady
  <2>5. r \in AskRecords BY <2>1, <2>2 DEF AskRecords
  <2>6. /\ r.pc = s.pc /\ r.version = s.version /\ r.order = s.order /\ r.rest = s.rest /\ r.op = s.op
        /\ r.tracks = s.tracks /\ r.verification = s.verification /\ r.steady = steady
        /\ r.asked = s.asked /\ r.providers = s.providers /\ r.result = s.result /\ r.opened = s.opened
    BY <2>1 DEF AskRecords
  <2> HIDE DEF r, Without
  <2>7. TargetOf(r) = t BY <2>6 DEF TargetOf
  <2>8. AskSound(r) BY <2>1, <2>3, <2>6, <2>7 DEF AskSound, AtOne, Unasked
  <2>9. d # NoCaller BY ProviderAssumption
  <2>10. s.pc \in {"call", "answer"} => t \in Ids /\ engine[t] = d
    <3>1. s.pc \in {"call", "answer"} => s.order # <<>> \/ s.rest # {} BY <2>1 DEF AskSound, AtOne
    <3> QED BY <2>1, <3>1, TargetIn DEF CurrentIn
  <2> HIDE DEF t
  <2>11. s.pc \in {"call", "answer"} => extension'[t].version = extension[t].version /\ page'[t] = page[t]
    BY <1>4, <2>9, <2>10
  <2>12. \A j \in steady : extension'[j].enabled BY <1>4, <2>1, <2>2, <2>3 DEF CurrentIn
  <2>13. s.pc = "engine" /\ t \in steady => s.version = extension'[t].version
    BY <1>4, <2>1, <2>2, <2>3 DEF CurrentIn, t
  <2>14. CurrentIn(d, r, extension', engine, page')
    BY <2>1, <2>6, <2>7, <2>11, <2>12, <2>13 DEF CurrentIn, t
  <2> QED BY <2>4, <2>5, <2>6, <2>7, <2>8, <2>14 DEF s, t
<1> HIDE DEF Without
<1>6. \A d \in Askers : ask'[d] = Without(d) BY <1>3
<1>7. ask' \in [Askers -> AskRecords] BY <1>3, <1>5
<1>8. ProviderTyped' BY <1>1, <1>3, <1>4, <1>7 DEF ProviderTyped
<1>9. \A d \in Askers : AskSound(ask'[d]) /\ CurrentIn(d, ask'[d], extension', engine', page') BY <1>3, <1>5, <1>6
<1>10. ASSUME NEW j \in Ids, engine'[j] # NoCaller
       PROVE  ask'[engine'[j]].pc \in {"call", "answer"} /\ TargetOf(ask'[engine'[j]]) = j
  <2>1. engine'[j] = engine[j] /\ engine[j] \in Askers BY <1>1, <1>3, <1>10 DEF ProviderTyped
  <2> QED BY <1>1, <1>5, <1>6, <1>10, <2>1 DEF EnginesHeld
<1> QED BY <1>8, <1>9, <1>10 DEF ProviderInv, AskCurrent, EnginesHeld

LEMMA UserInv ==
  ASSUME ProviderInv, NEW i \in Ids, ToggleProvider(i) \/ UpgradeProvider(i)
  PROVE  ProviderInv'
<1>1. extension[i] \in ExtensionRecords /\ page \in [Ids -> Askers \cup {NoCaller}] BY DEF ProviderInv, ProviderTyped
<1>2. CASE ToggleProvider(i)
  <2> DEFINE record == [extension[i] EXCEPT !.enabled = ~@, !.torn = extension[i].enabled]
  <2>1. record \in ExtensionRecords /\ record.version = extension[i].version BY <1>1 DEF ExtensionRecords
  <2>2. Switch(i, record) /\ page' = page BY <1>2 DEF ToggleProvider
  <2> HIDE DEF record
  <2> QED BY <1>1, <2>1, <2>2, SwitchInv
<1>3. CASE UpgradeProvider(i)
  <2> DEFINE record == [extension[i] EXCEPT !.version = @ + 1]
  <2>1. record \in ExtensionRecords BY <1>1 DEF ExtensionRecords
  <2>2. Switch(i, record) /\ engine[i] = NoCaller /\ page' = [page EXCEPT ![i] = NoCaller] BY <1>3 DEF UpgradeProvider
  <2>3. page' \in [Ids -> Askers \cup {NoCaller}] /\ \A j \in Ids : j # i => page'[j] = page[j] BY <1>1, <2>2
  <2> HIDE DEF record
  <2> QED BY <2>1, <2>2, <2>3, SwitchInv
<1> QED BY <1>2, <1>3

LEMMA TeardownInv == ASSUME ProviderInv, NEW i \in Ids, Teardown(i) PROVE ProviderInv'
<1>1. ProviderTyped /\ EnginesHeld BY DEF ProviderInv
<1>2. \A d \in Askers : ask[d] \in AskRecords /\ AskSound(ask[d]) /\ AskCurrent(d) BY CallerHas
<1> DEFINE record == [extension[i] EXCEPT !.torn = FALSE]
<1>3. record \in ExtensionRecords /\ record.version = extension[i].version /\ record.enabled = extension[i].enabled
  BY <1>1 DEF ProviderTyped, ExtensionRecords
<1>4. extension' = [extension EXCEPT ![i] = record] BY <1>1 DEF Teardown, ProviderTyped, ExtensionRecords
<1> HIDE DEF record
<1>5. /\ extension' \in [Ids -> ExtensionRecords]
      /\ \A j \in Ids : extension'[j].version = extension[j].version /\ extension'[j].enabled = extension[j].enabled
  BY <1>1, <1>3, <1>4 DEF ProviderTyped
<1>6. page' \in [Ids -> Askers \cup {NoCaller}] /\ \A j \in Ids : j # i => page'[j] = page[j]
  BY <1>1 DEF Teardown, ProviderTyped
<1>7. engine' = engine /\ engine[i] = NoCaller /\ ask' = ask /\ priority' = priority /\ switches' = switches /\ asks' = asks
  BY DEF Teardown
<1>8. ProviderTyped' BY <1>1, <1>5, <1>6, <1>7 DEF ProviderTyped
<1>9. ASSUME NEW d \in Askers PROVE CurrentIn(d, ask[d], extension', engine, page')
  <2> DEFINE s == ask[d]
             t == TargetOf(s)
  <2>1. s \in AskRecords /\ AskSound(s) /\ CurrentIn(d, s, extension, engine, page) BY <1>2 DEF AskCurrent
  <2>2. d # NoCaller /\ s.steady \in SUBSET Ids BY <2>1, ProviderAssumption DEF AskRecords
  <2>3. s.pc \in AtOne => t \in Ids BY <2>1, TargetIn DEF AskSound
  <2> HIDE DEF s, t
  <2>4. s.pc \in {"call", "answer"} => t # i BY <1>7, <2>1, <2>2 DEF CurrentIn, t
  <2>5. s.pc \in {"call", "answer"} => page'[t] = page[t] BY <1>6, <2>3, <2>4 DEF AtOne
  <2>6. CurrentIn(d, s, extension', engine, page') BY <1>5, <2>1, <2>2, <2>3, <2>5 DEF CurrentIn, AtOne, t
  <2> QED BY <2>6 DEF s
<1> QED BY <1>1, <1>2, <1>7, <1>8, <1>9 DEF ProviderInv, AskCurrent, EnginesHeld

LEMMA PriorityInv == ASSUME ProviderInv, SetProviderPriority PROVE ProviderInv'
<1>1. PICK order \in Orders : priority' = order BY DEF SetProviderPriority
<1>2. order \in Seq(Ids)
  <2>1. <<>> \in Seq(Ids) /\ (\A i \in Ids : <<i>> \in Seq(Ids)) /\ \A i, j \in Ids : <<i, j>> \in Seq(Ids) BY EmptySeq
  <2>2. order = <<>> \/ (\E i \in Ids : order = <<i>>) \/ \E i, j \in Ids : order = <<i, j>> BY <1>1 DEF Orders
  <2> QED BY <2>1, <2>2
<1> QED BY <1>1, <1>2 DEF SetProviderPriority, ProviderInv, ProviderTyped, AskCurrent, EnginesHeld

LEMMA ProviderInitInv == ProviderInit => ProviderInv
<1> SUFFICES ASSUME ProviderInit PROVE ProviderInv OBVIOUS
<1>1. <<>> \in Seq(Ids) /\ <<>> \in Seq(Tracks) /\ Distinct(<<>>) BY EmptySeq DEF Distinct
<1>2. NoAsk \in AskRecords BY <1>1 DEF NoAsk, NoAnswer, AskRecords, AskPcs
<1>3. ProviderTyped BY <1>1, <1>2 DEF ProviderInit, ProviderTyped, ExtensionRecords
<1>4. \A d \in Askers : ask[d] = NoAsk BY DEF ProviderInit
<1>5. \A d \in Askers : AskSound(NoAsk) /\ CurrentIn(d, NoAsk, extension, engine, page)
  BY <1>1 DEF AskSound, AtOne, CurrentIn, NoAsk
<1>6. EnginesHeld BY DEF ProviderInit, EnginesHeld
<1> QED BY <1>3, <1>4, <1>5, <1>6 DEF ProviderInv, AskCurrent

LEMMA ProviderStep == ASSUME ProviderInv, [ProviderNext]_providerVars PROVE ProviderInv'
<1>1. CASE UNCHANGED providerVars
  BY <1>1 DEF providerVars, ProviderInv, ProviderTyped, AskCurrent, EnginesHeld
<1>2. CASE ProviderNext
  BY <1>2, StartSearchInv, ListProvidersInv, StartAvailabilityInv, EndSearchInv, NextProviderInv, TakeEngineInv, CallProviderInv,
     TakePageInv, MergeTracksInv, ReturnAnswerInv, CancelAskInv, UserInv, TeardownInv, PriorityInv DEF ProviderNext
<1> QED BY <1>1, <1>2

LEMMA ProviderInvSound == ASSUME ProviderInv PROVE ProviderAnswersSound
<1>1. \A c \in Askers : ask[c] \in AskRecords /\ AskSound(ask[c]) /\ AskCurrent(c) BY CallerHas
<1>2. VerificationOwn BY <1>1 DEF VerificationOwn, AskSound
<1>3. SearchComplete
  <2>1. \A c \in Askers : Cardinality(Keys(ask[c].tracks)) = Len(ask[c].tracks)
    <3> SUFFICES ASSUME NEW c \in Askers PROVE Cardinality(Keys(ask[c].tracks)) = Len(ask[c].tracks) OBVIOUS
    <3>1. ask[c].tracks \in Seq(Tracks) /\ Distinct(ask[c].tracks) BY <1>1 DEF AskRecords, AskSound
    <3> QED BY <3>1, DistinctCount
  <2> QED BY <1>1, <2>1 DEF SearchComplete, AskSound
<1>4. EngineCurrent
  <2> SUFFICES ASSUME NEW i \in Ids, engine[i] # NoCaller
               PROVE  ask[engine[i]].version = extension[i].version /\ Target(engine[i]) = i
    BY DEF EngineCurrent
  <2> DEFINE c == engine[i]
  <2>1. c \in Askers /\ ask[c].pc \in {"call", "answer"} /\ TargetOf(ask[c]) = i BY DEF ProviderInv, ProviderTyped, EnginesHeld
  <2>2. CurrentIn(c, ask[c], extension, engine, page) BY <1>1, <2>1 DEF AskCurrent
  <2> HIDE DEF c
  <2>3. ask[c].version = extension[i].version /\ Target(c) = i BY <2>1, <2>2, TargetIs DEF CurrentIn
  <2> QED BY <2>3 DEF c
<1> QED BY <1>2, <1>3, <1>4 DEF ProviderAnswersSound

-----------------------------------------------------------------------------
(* A hook that is about to be taken at its word has run.                     *)
HookPaths == {NoPath} \cup [place : Places, format : Formats]
HookRecords ==
  [pc : {"idle", "check", "engine", "run", "answered", "done", "cancelled"}, at : Nat, version : [Workers -> Int], runs : Int,
   path : HookPaths, uri : {"", "own"}, answer : HookPaths, answerUri : {"", "own", "other"}, ran : SUBSET Workers]
PostTyped ==
  /\ hookWorker \in [Workers -> [installed : BOOLEAN, enabled : BOOLEAN, version : Nat]]
  /\ hooks \in HookRecords
HookNow ==
  /\ hooks.pc = "check" => hooks.at >= 1
  /\ hooks.pc \in {"engine", "run", "answered"} => hooks.at \in DOMAIN HookList
  /\ hooks.pc = "answered" => Hook.extension \in hooks.ran
HooksInv == PostTyped /\ HookNow /\ HooksContained

LEMMA HookKnown ==
  ASSUME hooks \in HookRecords, HookNow, hooks.pc \in {"engine", "run", "answered"}
  PROVE  Hook.extension \in Workers
BY DEF HookNow, Hook, Workers

LEMMA AdvanceIs ==
  ASSUME hooks \in HookRecords
  PROVE  /\ Advance \in HookRecords /\ Advance.pc = "check" /\ Advance.at = hooks.at + 1 /\ Advance.path = hooks.path
         /\ Advance.ran = hooks.ran /\ Advance.version = hooks.version
<1>a. hooks.at \in Nat BY DEF HookRecords
<1>1. NoPath \in HookPaths /\ -1 \in Int /\ hooks.at + 1 \in Nat BY <1>a DEF HookPaths
<1> DEFINE next == hooks.at + 1
<1>2. Advance = [hooks EXCEPT !.pc = "check", !.at = next, !.runs = -1, !.answer = NoPath, !.answerUri = ""] BY DEF Advance, HookRecords
<1> HIDE DEF next
<1>3. next \in Nat BY <1>1 DEF next
<1>4. Advance \in HookRecords BY <1>1, <1>2, <1>3 DEF HookRecords
<1>5. /\ Advance.pc = "check" /\ Advance.at = next /\ Advance.path = hooks.path /\ Advance.ran = hooks.ran
      /\ Advance.version = hooks.version
  BY <1>2 DEF HookRecords
<1> QED BY <1>4, <1>5 DEF next

LEMMA NoHooksTyped == NoHooks \in HookRecords
<1>1. NoPath \in HookPaths /\ -1 \in Int /\ [w \in Workers |-> -1] \in [Workers -> Int] /\ {} \in SUBSET Workers BY DEF HookPaths
<1> QED BY <1>1 DEF NoHooks, HookRecords

(* The same path, and as many hooks that have run as before or more.          *)
LEMMA SamePath ==
  ASSUME HooksInv, hooks.pc \notin {"idle", "cancelled"}, NEW r \in HookRecords, hooks' = r,
         UNCHANGED hookWorker \/ hookWorker' \in [Workers -> [installed : BOOLEAN, enabled : BOOLEAN, version : Nat]],
         r.path = hooks.path, r.version = hooks.version, hooks.ran \subseteq r.ran,
         r.pc = "check" => r.at >= 1,
         r.pc \in {"engine", "run", "answered"} => r.at \in DOMAIN HookList,
         r.pc = "answered" => HookList[r.at].extension \in r.ran
  PROVE  HooksInv'
<1>1. PostTyped' BY DEF HooksInv, PostTyped
<1>2. HookNow' BY DEF HookNow, Hook
<1>3. HooksContained' BY DEF HooksInv, HooksContained
<1> QED BY <1>1, <1>2, <1>3 DEF HooksInv

LEMMA CancelsInv ==
  ASSUME HooksInv, Cancels, hookWorker' = hookWorker
  PROVE  HooksInv'
<1> DEFINE r == [NoHooks EXCEPT !.pc = "cancelled"]
<1>1. NoHooks \in HookRecords /\ r \in HookRecords /\ r.pc = "cancelled" BY NoHooksTyped DEF HookRecords
<1>2. hooks' = r BY DEF Cancels
<1> HIDE DEF r
<1> QED BY <1>1, <1>2 DEF HooksInv, PostTyped, HookNow, HooksContained

LEMMA PostInitInv == PostInit => HooksInv
<1> SUFFICES ASSUME PostInit PROVE HooksInv OBVIOUS
<1>1. NoHooks \in HookRecords /\ NoHooks.pc = "idle" BY NoHooksTyped DEF NoHooks
<1>2. hooks = NoHooks BY DEF PostInit
<1>3. hookWorker \in [Workers -> [installed : BOOLEAN, enabled : BOOLEAN, version : Nat]] BY DEF PostInit
<1> QED BY <1>1, <1>2, <1>3 DEF HooksInv, PostTyped, HookNow, HooksContained

LEMMA PostStep == ASSUME HooksInv, [PostNext]_postVars PROVE HooksInv'
<1>1. PostTyped /\ HookNow /\ HooksContained /\ hooks \in HookRecords BY DEF HooksInv, PostTyped
<1>2. HookList \in Seq(ToSet(HookList)) BY PostAssumption
<1>3. Len(HookList) \in Nat /\ DOMAIN HookList = 1 .. Len(HookList) BY <1>2, LenProperties
<1>4. CASE UNCHANGED postVars BY <1>1, <1>4 DEF postVars, HooksInv, PostTyped, HookNow, Hook, HooksContained
<1>5. CASE StartHooks
  <2>1. CASE Cancels BY <1>5, <2>1, CancelsInv DEF StartHooks
  <2>2. CASE ~Cancels
    <3> DEFINE versions == [w \in Workers |-> IF hookWorker[w].installed /\ hookWorker[w].enabled
                                              THEN hookWorker[w].version ELSE -1]
               r == [NoHooks EXCEPT !.pc = "check", !.at = 1, !.path = Original, !.uri = "own", !.version = versions]
    <3>1. versions \in [Workers -> Int] BY <1>1 DEF PostTyped
    <3>2. Original \in HookPaths BY DEF Original, HookPaths, Places, Formats
    <3>3. hooks' = r BY <1>5, <2>2 DEF StartHooks
    <3> HIDE DEF versions
    <3>4. r \in HookRecords BY <3>1, <3>2, NoHooksTyped DEF HookRecords
    <3>5. r.pc = "check" /\ r.at = 1 /\ r.path = Original /\ r.ran = {} BY DEF NoHooks
    <3> HIDE DEF r
    <3>6. HooksContained' BY <3>3, <3>5 DEF HooksContained, Original
    <3>7. HookNow' BY <3>3, <3>5 DEF HookNow
    <3> QED BY <1>1, <1>5, <3>3, <3>4, <3>6, <3>7 DEF StartHooks, HooksInv, PostTyped
  <2> QED BY <2>1, <2>2
<1>6. CASE NextHook
  <2>0. hooks.pc = "check" /\ hooks.at >= 1 /\ hooks.at \in Nat /\ hookWorker' = hookWorker
    BY <1>1, <1>6 DEF NextHook, HookNow, HookRecords
  <2>1. CASE Cancels BY <2>0, <2>1, CancelsInv
  <2>2. CASE hooks.at > Len(HookList) /\ hooks' = [hooks EXCEPT !.pc = "done"]
    <3>1. [hooks EXCEPT !.pc = "done"] \in HookRecords BY <1>1 DEF HookRecords
    <3> QED BY <1>1, <2>0, <2>2, <3>1, SamePath DEF HookRecords
  <2>3. CASE hooks.at <= Len(HookList) /\ hooks' = [hooks EXCEPT !.pc = "engine"]
    <3>1. [hooks EXCEPT !.pc = "engine"] \in HookRecords BY <1>1 DEF HookRecords
    <3>2. hooks.at \in DOMAIN HookList BY <1>3, <2>0, <2>3
    <3> QED BY <1>1, <2>0, <2>3, <3>1, <3>2, SamePath DEF HookRecords
  <2>4. CASE hooks' = Advance
    <3>1. hooks.at + 1 >= 1 BY <2>0
    <3> QED BY <1>1, <2>0, <2>4, <3>1, AdvanceIs, SamePath
  <2> QED BY <1>3, <1>6, <2>0, <2>1, <2>2, <2>3, <2>4 DEF NextHook
<1>7. CASE TakeWorker
  <2>0. hooks.pc = "engine" /\ hooks.at \in Nat /\ hooks.at \in DOMAIN HookList /\ hookWorker' = hookWorker
    BY <1>1, <1>7 DEF TakeWorker, HookNow, HookRecords
  <2>1. CASE hooks' = Advance
    <3>1. hooks.at + 1 >= 1 BY <2>0
    <3> QED BY <1>1, <2>0, <2>1, <3>1, AdvanceIs, SamePath
  <2>2. CASE hooks' = [hooks EXCEPT !.pc = "run", !.runs = hookWorker[Hook.extension].version]
    <3> DEFINE version == hookWorker[Hook.extension].version
    <3>1. version \in Int BY <1>1, <2>0, HookKnown DEF PostTyped
    <3> HIDE DEF version
    <3>2. [hooks EXCEPT !.pc = "run", !.runs = version] \in HookRecords BY <1>1, <3>1 DEF HookRecords
    <3>3. hooks' = [hooks EXCEPT !.pc = "run", !.runs = version] BY <2>2 DEF version
    <3> QED BY <1>1, <2>0, <3>2, <3>3, SamePath DEF HookRecords
  <2> QED BY <1>7, <2>1, <2>2 DEF TakeWorker
<1>8. CASE CallHook
  <2> DEFINE x == Hook.extension
             ran == hooks.ran \cup {x}
  <2>0. hooks.pc = "run" /\ hooks.at \in Nat /\ hooks.at \in DOMAIN HookList BY <1>1, <1>8 DEF CallHook, HookNow, HookRecords
  <2>1. x \in Workers /\ ran \in SUBSET Workers BY <1>1, <2>0, HookKnown DEF HookRecords
  <2>2. hooks.ran \subseteq ran /\ x \in ran OBVIOUS
  <2>3. hookWorker' \in [Workers -> [installed : BOOLEAN, enabled : BOOLEAN, version : Nat]]
    <3>1. hookWorker' = hookWorker \/ hookWorker' = [hookWorker EXCEPT ![x].enabled = FALSE] BY <1>8 DEF CallHook
    <3> QED BY <1>1, <2>1, <3>1 DEF PostTyped
  <2>4. hooks.at + 1 >= 1 BY <2>0
  <2>5. CASE hooks' = Advance BY <1>1, <2>0, <2>3, <2>4, <2>5, AdvanceIs, SamePath
  <2>6. CASE hooks' = [Advance EXCEPT !.ran = @ \cup {x}]
    <3> DEFINE a == Advance
               r == [a EXCEPT !.ran = ran]
    <3>1. /\ a \in HookRecords /\ a.pc = "check" /\ a.at = hooks.at + 1 /\ a.path = hooks.path
          /\ a.ran = hooks.ran /\ a.version = hooks.version
      BY <1>1, AdvanceIs
    <3>2. hooks' = r BY <2>6, <3>1
    <3> HIDE DEF a, ran
    <3>3. r \in HookRecords /\ r.pc = "check" /\ r.at = hooks.at + 1 /\ r.path = hooks.path /\ r.version = hooks.version /\ r.ran = ran
      BY <2>1, <3>1 DEF HookRecords
    <3> HIDE DEF r
    <3> QED BY <1>1, <2>0, <2>2, <2>3, <2>4, <3>2, <3>3, SamePath
  <2>7. ASSUME NEW answer \in HookPaths, NEW uri \in {"", "own", "other"},
               hooks' = [hooks EXCEPT !.pc = "answered", !.answer = answer, !.answerUri = uri, !.ran = @ \cup {x}]
        PROVE  HooksInv'
    <3> DEFINE r == [hooks EXCEPT !.pc = "answered", !.answer = answer, !.answerUri = uri, !.ran = ran]
    <3>1. hooks' = r BY <2>7
    <3> HIDE DEF ran
    <3>2. r \in HookRecords /\ r.pc = "answered" /\ r.at = hooks.at /\ r.path = hooks.path /\ r.version = hooks.version /\ r.ran = ran
      BY <1>1, <2>1 DEF HookRecords
    <3> HIDE DEF r
    <3>3. HookList[r.at].extension \in r.ran BY <2>2, <3>2 DEF Hook
    <3> QED BY <1>1, <2>0, <2>2, <2>3, <3>1, <3>2, <3>3, SamePath
  <2>8. \/ hooks' = Advance \/ hooks' = [Advance EXCEPT !.ran = @ \cup {x}]
        \/ \E answer \in HookPaths, uri \in {"", "own", "other"} :
              hooks' = [hooks EXCEPT !.pc = "answered", !.answer = answer, !.answerUri = uri, !.ran = @ \cup {x}]
    BY <1>8 DEF CallHook, HookPaths
  <2> QED BY <2>5, <2>6, <2>7, <2>8
<1>9. CASE TakeResult
  <2>0. hooks.pc = "answered" /\ hooks.at \in Nat /\ hookWorker' = hookWorker /\ Hook.extension \in hooks.ran
    BY <1>1, <1>9 DEF TakeResult, HookNow, HookRecords
  <2>1. CASE Cancels BY <2>0, <2>1, CancelsInv
  <2>2. hooks.at + 1 >= 1 BY <2>0
  <2>3. CASE hooks' = Advance BY <1>1, <2>0, <2>2, <2>3, AdvanceIs, SamePath
  <2>4. CASE Safe /\ hooks.answer # NoPath /\ hooks' = [Advance EXCEPT !.path = hooks.answer]
    <3> DEFINE a == Advance
               r == [a EXCEPT !.path = hooks.answer]
    <3>1. /\ a \in HookRecords /\ a.pc = "check" /\ a.at = hooks.at + 1 /\ a.path = hooks.path
          /\ a.ran = hooks.ran /\ a.version = hooks.version
      BY <1>1, AdvanceIs
    <3>2. hooks' = r BY <2>4
    <3>3. hooks.answer \in HookPaths BY <1>1 DEF HookRecords
    <3> HIDE DEF a
    <3>4. r \in HookRecords /\ r.pc = "check" /\ r.at = hooks.at + 1 /\ r.path = hooks.answer /\ r.version = hooks.version /\ r.ran = hooks.ran
      BY <3>1, <3>3 DEF HookRecords
    <3> HIDE DEF r
    <3>5. HooksContained' BY <1>1, <2>0, <2>4, <3>2, <3>4 DEF HooksContained, Safe
    <3>6. HookNow' BY <2>2, <3>2, <3>4 DEF HookNow
    <3> QED BY <1>1, <2>0, <3>2, <3>4, <3>5, <3>6 DEF HooksInv, PostTyped
  <2> QED BY <1>9, <2>1, <2>3, <2>4 DEF TakeResult
<1>10. CASE CancelItem BY <1>1, <1>10 DEF CancelItem, HooksInv, PostTyped, HookNow, Hook, HooksContained
<1>11. ASSUME NEW w \in Workers, ChangeWorker(w) PROVE HooksInv'
  <2>1. hookWorker' \in [Workers -> [installed : BOOLEAN, enabled : BOOLEAN, version : Nat]]
    <3>1. hookWorker[w] \in [installed : BOOLEAN, enabled : BOOLEAN, version : Nat] BY <1>1 DEF PostTyped
    <3>2. \/ hookWorker' = [hookWorker EXCEPT ![w] = [hookWorker[w] EXCEPT !.enabled = ~hookWorker[w].enabled]]
          \/ hookWorker' = [hookWorker EXCEPT ![w] = [hookWorker[w] EXCEPT !.version = hookWorker[w].version + 1]]
          \/ hookWorker' = [hookWorker EXCEPT ![w] = [hookWorker[w] EXCEPT !.installed = FALSE]]
      BY <1>1, <1>11 DEF ChangeWorker, PostTyped
    <3> DEFINE x == hookWorker[w]
               on == ~hookWorker[w].enabled
               next == hookWorker[w].version + 1
    <3>a. on \in BOOLEAN OBVIOUS
    <3>b. next \in Nat BY <3>1
    <3> HIDE DEF x, on, next
    <3>3. /\ [x EXCEPT !.enabled = on] \in [installed : BOOLEAN, enabled : BOOLEAN, version : Nat]
          /\ [x EXCEPT !.version = next] \in [installed : BOOLEAN, enabled : BOOLEAN, version : Nat]
          /\ [x EXCEPT !.installed = FALSE] \in [installed : BOOLEAN, enabled : BOOLEAN, version : Nat]
      BY <3>1, <3>a, <3>b DEF x
    <3> QED BY <1>1, <3>2, <3>3 DEF PostTyped, x, on, next
  <2>2. hooks' = hooks BY <1>11 DEF ChangeWorker
  <2> QED BY <1>1, <2>1, <2>2 DEF HooksInv, PostTyped, HookNow, Hook, HooksContained
<1> QED BY <1>4, <1>5, <1>6, <1>7, <1>8, <1>9, <1>10, <1>11 DEF PostNext

(* A check sends the user only to a page that its own call opened; a search     *)
(* returns each track once and asks everyone who is there all the time; nobody  *)
(* is in the engine of an extension that changes; and the file that hooks hand  *)
(* back is where the app or a hook that may replace files can have put it       *)
(* (provider_operation_value, search_metadata_providers_with_lease,             *)
(* run_post_processing).                                                    *)
THEOREM CallsAreSound == ProviderSpec /\ PostSpec => []CallsSound
<1>1. ProviderSpec => []ProviderInv BY ProviderInitInv, ProviderStep, PTL DEF ProviderSpec
<1>2. PostSpec => []HooksInv BY PostInitInv, PostStep, PTL DEF PostSpec
<1>3. ProviderInv /\ HooksInv => CallsSound BY ProviderInvSound DEF HooksInv, CallsSound
<1> QED BY <1>1, <1>2, <1>3, PTL
=============================================================================
