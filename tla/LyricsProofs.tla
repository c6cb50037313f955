---------------------------- MODULE LyricsProofs ----------------------------
(***************************************************************************)
(* Proofs about lyrics and the network they come over, for all values of   *)
(* the constants: the service whose callers share flights (LyricsService), *)
(* the cache on disk (LyricsCache) as an implementation of WriteBehind,    *)
(* the search among the providers with the token that one of them shares   *)
(* (LyricsProviders), and the client for HTTP with its cookies and         *)
(* addresses (Network).                                                    *)
(***************************************************************************)
EXTENDS LyricsService, LyricsCache, LyricsProviders, Network, FiniteSetTheorems, SequenceTheorems,
        NaturalsInduction, WellFoundedInduction, TLAPS

(***************************************************************************)
(* The service.  IInv is inductive and contains FlightsSafe and             *)
(* ShutdownQuiescent.                                                       *)
(***************************************************************************)

(* The callers counted by the waiters of f, and the flights by active.      *)
Waiting(f) == {c \in Callers : joined[c] = f /\ caller[c] \in {"spawn", "waiting"}}
AtWork == {f \in Flights : Running(f)}

Locked(c) == caller[c] \in {"joining", "starting"}

(* One caller at a time is under the lock of fetch(), and it holds the      *)
(* flight that the table has for its key.                                   *)
LockSound ==
  /\ \A c, d \in Callers : Locked(c) /\ Locked(d) => c = d
  /\ \A c \in Callers : Locked(c) => flights[flightKey[joined[c]]] = joined[c]

(* A caller in fetch() has a flight, and a flight it has is not reused.     *)
CallersJoined ==
  /\ \A c \in Callers : joined[c] = NoFlight <=> caller[c] = "idle"
  /\ \A c \in Callers : joined[c] \in Flights => worker[joined[c]] # "free"

(* A new flight has one caller that is to start its worker.                 *)
Starting(c) == caller[c] \in {"starting", "spawn"}
StartersAlone ==
  /\ \A c \in Callers : Starting(c) => worker[joined[c]] = "new"
  /\ \A c, d \in Callers : Starting(c) /\ Starting(d) /\ joined[c] = joined[d] => c = d

(* The table has flights at work only, each under its own key.              *)
TableSound ==
  \A k \in FlightKeys : flights[k] # NoFlight => Running(flights[k]) /\ flightKey[flights[k]] = k

Quiescent == stopped => closed /\ \A f \in Flights : ~Running(f)

IInv ==
  /\ TypeOK /\ ActiveExact /\ WaitersExact /\ SharedWork /\ NoStaleCache
  /\ LockSound /\ CallersJoined /\ StartersAlone /\ TableSound /\ Quiescent
-----------------------------------------------------------------------------
(* What adding and removing an element does to the size of a finite set.    *)
LEMMA Counting ==
  ASSUME NEW S, IsFiniteSet(S), NEW x
  PROVE  /\ Cardinality(S) \in Nat
         /\ S = {} <=> Cardinality(S) = 0
         /\ x \notin S => Cardinality(S \cup {x}) = Cardinality(S) + 1
         /\ x \in S => Cardinality(S \ {x}) = Cardinality(S) - 1
         /\ IsFiniteSet(S \cup {x}) /\ IsFiniteSet(S \ {x})
BY FS_CardinalityType, FS_EmptySet, FS_AddElement, FS_RemoveElement

LEMMA Counted ==
  /\ IsFiniteSet(AtWork)
  /\ \A f : IsFiniteSet(Waiting(f))
  /\ ActiveExact <=> active = Cardinality(AtWork)
  /\ WaitersExact <=> \A f \in Flights : waiters[f] = Cardinality(Waiting(f))
<1>1. AtWork \subseteq Flights /\ \A f : Waiting(f) \subseteq Callers BY DEF AtWork, Waiting
<1>2. IsFiniteSet(AtWork) /\ \A f : IsFiniteSet(Waiting(f))
  BY <1>1, FS_Subset, LyricsAssumption
<1> QED BY <1>2 DEF ActiveExact, WaitersExact, AtWork, Waiting

(* The workers that have been started and are not done.                     *)
Started == {"start", "lookup", "search", "fallback", "store", "finish"}

LEMMA InitIInv == Init => IInv
<1> SUFFICES ASSUME Init PROVE IInv OBVIOUS
<1>1. TypeOK
  <2>1. Cardinality(negative) = 0 BY FS_EmptySet DEF Init
  <2>2. flightKey \in [Flights -> FlightKeys]
    <3>1. flightKey \in [Flights -> {k \in FlightKeys : k[1] = 0}] BY DEF Init
    <3> QED BY <3>1
  <2>3. generation \in Generations /\ active \in 0 .. MaxFlights /\ Cardinality(negative) <= MaxNegative
    BY <2>1, LyricsAssumption DEF Init, Generations
  <2> QED BY <2>2, <2>3 DEF Init, TypeOK, WorkerState, Outcome, CallerState
<1>2. AtWork = {} /\ \A f : Waiting(f) = {} BY DEF Init, AtWork, Running, Waiting
<1>3. ActiveExact /\ WaitersExact
  BY <1>2, Counted, FS_EmptySet DEF Init
<1>4. SharedWork /\ Quiescent /\ NoStaleCache
  BY DEF Init, SharedWork, Quiescent, NoStaleCache, Running
<1>5. LockSound /\ CallersJoined /\ StartersAlone /\ TableSound
  BY LyricsAssumption
     DEF Init, LockSound, Locked, CallersJoined, StartersAlone, Starting, TableSound
<1> QED BY <1>1, <1>3, <1>4, <1>5 DEF IInv

(* Steps that touch neither callers nor the table, and let no worker begin  *)
(* or end.                                                                  *)
LEMMA QuietIInv ==
  ASSUME IInv, TypeOK', UNCHANGED <<flights, active, flightKey, waiters, caller, joined>>,
         \A f \in Flights : worker'[f] = worker[f] \/ {worker[f], worker'[f]} \subseteq Started,
         NoStaleCache', Quiescent'
  PROVE  IInv'
<1>1. \A f \in Flights : Running(f)' = Running(f) /\ (worker[f] = "free" => worker'[f] = "free")
  BY DEF Running, Started
<1>2. AtWork' = AtWork /\ \A f : Waiting(f)' = Waiting(f) BY <1>1 DEF AtWork, Waiting
<1>3. ActiveExact' /\ WaitersExact'
  <2>1. /\ ActiveExact' <=> active' = Cardinality(AtWork')
        /\ WaitersExact' <=> \A f \in Flights : waiters'[f] = Cardinality(Waiting(f)')
    BY DEF ActiveExact, WaitersExact, AtWork, Waiting
  <2> QED BY <1>2, <2>1, Counted DEF IInv
<1>4. SharedWork' BY <1>1 DEF IInv, SharedWork
<1>5. LockSound' BY DEF IInv, LockSound, Locked
<1>6. CallersJoined' BY DEF IInv, CallersJoined, Started
<1>7. StartersAlone'
  <2>1. \A c \in Callers : Starting(c) => joined[c] \in Flights
    BY DEF IInv, TypeOK, CallersJoined, Starting
  <2> QED BY <2>1 DEF IInv, StartersAlone, Starting, Started
<1>8. TableSound' BY <1>1 DEF IInv, TableSound, TypeOK
<1> QED BY <1>3, <1>4, <1>5, <1>6, <1>7, <1>8 DEF IInv

(* A worker goes on, or nothing but settings, caches and flags changes.     *)
LEMMA WorkerGoIInv ==
  ASSUME IInv, NEW f \in Flights,
         WorkerCheck(f) \/ WorkerLookup(f) \/ WorkerAborts(f) \/ WorkerSearched(f) \/ WorkerStore(f)
  PROVE  IInv'
<1>1. PICK w \in Started, r \in Outcome : Go(f, w, r)
  BY DEF WorkerCheck, WorkerLookup, WorkerAborts, WorkerSearched, WorkerStore, Started, Outcome
<1>2. worker[f] \in Started
  BY DEF WorkerCheck, WorkerLookup, WorkerAborts, WorkerSearched, WorkerStore, Started
<1>3. /\ UNCHANGED <<closed, stopped, generation, negative, flights, active, flightKey, result,
                     waiters, caller, joined, cancelled>>
      /\ worker' = [worker EXCEPT ![f] = w] /\ outcome' = [outcome EXCEPT ![f] = r]
  BY <1>1 DEF Go, callerVars
<1>4. \A e \in cache' : e \in cache \/ (e = <<flightKey[f][2], generation>>)
  BY DEF WorkerCheck, WorkerLookup, WorkerAborts, WorkerSearched, WorkerStore
<1>5. TypeOK'
  <2>1. worker' \in [Flights -> WorkerState] BY <1>3 DEF IInv, TypeOK, Started, WorkerState
  <2>2. outcome' \in [Flights -> Outcome] BY <1>3 DEF IInv, TypeOK
  <2>3. flightKey[f][2] \in Keys BY DEF IInv, TypeOK, FlightKeys
  <2>4. cache' \subseteq Keys \X Generations BY <1>4, <2>3 DEF IInv, TypeOK
  <2> QED BY <1>3, <2>1, <2>2, <2>4 DEF IInv, TypeOK
<1>6. NoStaleCache' BY <1>3, <1>4 DEF IInv, NoStaleCache
<1>7. \A g \in Flights : worker'[g] = worker[g] \/ {worker[g], worker'[g]} \subseteq Started
  BY <1>2, <1>3 DEF IInv, TypeOK
<1>8. Quiescent' BY <1>2, <1>3 DEF IInv, Quiescent, Running, Started
<1> QED BY <1>3, <1>5, <1>6, <1>7, <1>8, QuietIInv

LEMMA OutsideIInv ==
  ASSUME IInv,
         \/ \E c \in Callers : Cancel(c)
         \/ Reconfigure \/ DropMemory \/ Expire \/ Close \/ ShutdownReturns
  PROVE  IInv'
<1>1. UNCHANGED <<flights, active, flightKey, waiters, caller, joined, worker, outcome, result>>
  BY DEF Cancel, Reconfigure, DropMemory, Expire, Close, ShutdownReturns, serviceVars, workerVars,
         callerVars
<1>2. cancelled' \in [Callers -> BOOLEAN]
  BY DEF IInv, TypeOK, Cancel, Reconfigure, DropMemory, Expire, Close, ShutdownReturns, callerVars
<1>3. closed' \in BOOLEAN /\ stopped' \in BOOLEAN
  BY DEF IInv, TypeOK, Cancel, Reconfigure, DropMemory, Expire, Close, ShutdownReturns
<1>4. generation' \in Generations
  BY LyricsAssumption
     DEF IInv, TypeOK, Cancel, Reconfigure, DropMemory, Expire, Close, ShutdownReturns, serviceVars,
         Generations
<1>5. cache' \subseteq cache /\ negative' \subseteq negative
  BY DEF Cancel, Reconfigure, DropMemory, Expire, Close, ShutdownReturns, serviceVars
<1>6. Cardinality(negative') <= MaxNegative
  <2>1. IsFiniteSet(negative) BY FS_Subset, LyricsAssumption DEF IInv, TypeOK
  <2>2. Cardinality(negative') <= Cardinality(negative) /\ IsFiniteSet(negative')
    BY <1>5, <2>1, FS_Subset
  <2>3. Cardinality(negative') \in Nat /\ Cardinality(negative) \in Nat
    BY <2>1, <2>2, FS_CardinalityType
  <2> QED BY <2>2, <2>3, LyricsAssumption DEF IInv, TypeOK
<1>7. TypeOK' BY <1>1, <1>2, <1>3, <1>4, <1>5, <1>6 DEF IInv, TypeOK
<1>8. NoStaleCache'
  BY DEF IInv, NoStaleCache, Cancel, Reconfigure, DropMemory, Expire, Close, ShutdownReturns, serviceVars
<1>9. Quiescent'
  <2>1. active = 0 => \A f \in Flights : ~Running(f)
    <3>1. active = Cardinality(AtWork) /\ IsFiniteSet(AtWork) BY Counted DEF IInv
    <3>2. active = 0 => AtWork = {} BY <3>1, FS_EmptySet
    <3> QED BY <3>2 DEF AtWork
  <2>2. \A f \in Flights : Running(f)' = Running(f) BY <1>1 DEF Running
  <2>3. \/ ShutdownReturns
        \/ stopped' = stopped /\ (closed => closed')
    BY DEF Cancel, Reconfigure, DropMemory, Expire, Close
  <2> QED BY <2>1, <2>2, <2>3 DEF IInv, Quiescent, ShutdownReturns
<1> QED BY <1>1, <1>7, <1>8, <1>9, QuietIInv

(* The caller takes the lock and joins the flight it found.                 *)
LEMMA LookupJoinIInv == ASSUME IInv, NEW c \in Callers, NEW k \in Keys, LookupJoin(c, k) PROVE IInv'
<1> DEFINE f == flights[<<generation, k>>]
<1>1. /\ f \in Flights /\ flightKey[f] = <<generation, k>> /\ Running(f)
      /\ caller' = [caller EXCEPT ![c] = "joining"] /\ joined' = [joined EXCEPT ![c] = f]
  <2>1. <<generation, k>> \in FlightKeys BY DEF FlightKeys, IInv, TypeOK
  <2> QED BY <2>1 DEF LookupJoin, Existing, IInv, TypeOK, TableSound
<1>2. /\ LockFree /\ caller[c] = "idle" /\ joined[c] = NoFlight
      /\ UNCHANGED <<closed, stopped, generation, negative, cache, flights, active, worker, flightKey,
                     outcome, result, waiters, cancelled>>
  BY DEF LookupJoin, serviceVars, workerVars, IInv, CallersJoined
<1> HIDE DEF f
<1>3. TypeOK' BY <1>1, <1>2 DEF IInv, TypeOK, CallerState
<1>4. AtWork' = AtWork /\ \A g \in Flights : Waiting(g)' = Waiting(g) /\ Running(g)' = Running(g)
  BY <1>1, <1>2, LyricsAssumption DEF AtWork, Running, Waiting, IInv, TypeOK
<1>5. ActiveExact' /\ WaitersExact'
  <2>1. /\ ActiveExact' <=> active' = Cardinality(AtWork')
        /\ WaitersExact' <=> \A g \in Flights : waiters'[g] = Cardinality(Waiting(g)')
    BY DEF ActiveExact, WaitersExact, AtWork, Waiting
  <2> QED BY <1>2, <1>4, <2>1, Counted DEF IInv
<1>6. SharedWork' /\ NoStaleCache' /\ TableSound' /\ Quiescent'
  BY <1>2, <1>4 DEF IInv, SharedWork, NoStaleCache, TableSound, Quiescent, TypeOK
<1>7. LockSound'
  BY <1>1, <1>2 DEF IInv, TypeOK, LockSound, Locked, LockFree, f
<1>8. CallersJoined'
  BY <1>1, <1>2, LyricsAssumption DEF IInv, TypeOK, CallersJoined, Running
<1>9. StartersAlone' BY <1>1, <1>2 DEF IInv, TypeOK, StartersAlone, Starting
<1> QED BY <1>3, <1>5, <1>6, <1>7, <1>8, <1>9 DEF IInv

(* A new flight: one place more is taken, by a caller that nobody counts    *)
(* yet, and nobody has it from an earlier use.                              *)
LEMMA LookupStartIInv ==
  ASSUME IInv, NEW c \in Callers, NEW k \in Keys, NEW f \in Flights, LookupStart(c, k, f)
  PROVE  IInv'
<1> DEFINE key == <<generation, k>>
<1>1. /\ LockFree /\ caller[c] = "idle" /\ joined[c] = NoFlight /\ ~closed
      /\ active < MaxFlights /\ Unused(f) /\ ~Running(f)
      /\ caller' = [caller EXCEPT ![c] = "starting"] /\ joined' = [joined EXCEPT ![c] = f]
      /\ flights' = [flights EXCEPT ![key] = f] /\ active' = active + 1
      /\ worker' = [worker EXCEPT ![f] = "new"] /\ flightKey' = [flightKey EXCEPT ![f] = key]
      /\ waiters' = [waiters EXCEPT ![f] = 0] /\ result' = [result EXCEPT ![f] = "none"]
      /\ UNCHANGED <<closed, stopped, generation, negative, cache, outcome, cancelled>>
  BY DEF LookupStart, NewFlight, IInv, CallersJoined, Unused, Running
<1>2. key \in FlightKeys BY DEF FlightKeys, IInv, TypeOK
<1>3. \A d \in Callers : joined[d] # f BY <1>1 DEF Unused, IInv, CallersJoined
<1>4. Existing(key) = NoFlight BY DEF LookupStart
<1>k. flights[key] = NoFlight \/ ~(waiters[flights[key]] > 0)
  BY <1>4, LyricsAssumption, <1>2 DEF Existing, IInv, TypeOK
<1> HIDE DEF key
<1>5. TypeOK'
  <2>1. active' \in 0 .. MaxFlights BY <1>1, LyricsAssumption DEF IInv, TypeOK
  <2> QED BY <1>1, <1>2, <2>1 DEF IInv, TypeOK, WorkerState, CallerState
<1>6. /\ AtWork' = AtWork \cup {f} /\ f \notin AtWork
      /\ \A g \in Flights : Running(g)' <=> g = f \/ Running(g)
  BY <1>1 DEF AtWork, Running, IInv, TypeOK
<1>7. Waiting(f) = {} /\ \A g \in Flights : Waiting(g)' = Waiting(g)
  BY <1>1, <1>3 DEF Waiting, IInv, TypeOK
<1>8. ActiveExact' /\ WaitersExact'
  <2>1. /\ ActiveExact' <=> active' = Cardinality(AtWork')
        /\ WaitersExact' <=> \A g \in Flights : waiters'[g] = Cardinality(Waiting(g)')
    BY DEF ActiveExact, WaitersExact, AtWork, Waiting
  <2>2. Cardinality(AtWork') = Cardinality(AtWork) + 1 BY <1>6, Counted, Counting
  <2>3. Cardinality(Waiting(f)') = 0 BY <1>7, FS_EmptySet
  <2>4. \A g \in Flights : waiters'[g] = IF g = f THEN 0 ELSE waiters[g] BY <1>1 DEF IInv, TypeOK
  <2> QED BY <1>1, <1>7, <2>1, <2>2, <2>3, <2>4, Counted DEF IInv
<1>9. TableSound'
  <2> SUFFICES ASSUME NEW j \in FlightKeys, flights'[j] # NoFlight
               PROVE  /\ worker'[flights'[j]] \notin {"free", "done"}
                      /\ flightKey'[flights'[j]] = j
    BY DEF TableSound, Running
  <2>1. CASE j = key BY <1>1, <1>2, <2>1 DEF IInv, TypeOK
  <2>2. CASE j # key
    <3>1. flights'[j] = flights[j] /\ flights[j] \in Flights BY <1>1, <2>2 DEF IInv, TypeOK
    <3>2. Running(flights[j]) /\ flightKey[flights[j]] = j BY <3>1 DEF IInv, TableSound
    <3> QED BY <1>1, <3>1, <3>2 DEF IInv, TypeOK, Running
  <2> QED BY <2>1, <2>2
<1>10. SharedWork'
  <2> SUFFICES ASSUME NEW g \in Flights, Running(g)', waiters'[g] > 0
               PROVE  flights'[flightKey'[g]] = g
    BY DEF SharedWork
  <2>1. g # f /\ Running(g) /\ waiters[g] > 0 /\ flightKey'[g] = flightKey[g]
    BY <1>1, <1>6 DEF IInv, TypeOK
  <2>2. flights[flightKey[g]] = g BY <2>1 DEF IInv, SharedWork
  <2>3. flightKey[g] # key BY <1>k, <2>1, <2>2, LyricsAssumption
  <2> QED BY <1>1, <2>1, <2>2, <2>3 DEF IInv, TypeOK
<1>11. NoStaleCache' /\ Quiescent' BY <1>1 DEF IInv, NoStaleCache, Quiescent
<1>12. LockSound' BY <1>1, <1>2 DEF IInv, TypeOK, LockSound, Locked, LockFree
<1>13. CallersJoined' BY <1>1, <1>3, LyricsAssumption DEF IInv, TypeOK, CallersJoined
<1>14. StartersAlone' BY <1>1, <1>3 DEF IInv, TypeOK, StartersAlone, Starting
<1> QED BY <1>5, <1>8, <1>9, <1>10, <1>11, <1>12, <1>13, <1>14 DEF IInv

(* The caller is counted and gives up the lock.                             *)
LEMMA JoinIInv == ASSUME IInv, NEW c \in Callers, Join(c) PROVE IInv'
<1>0. PICK f \in Flights : f = joined[c]
  BY DEF Join, IInv, TypeOK, CallersJoined
<1>1. /\ Locked(c) /\ caller[c] \in {"joining", "starting"}
      /\ caller' = [caller EXCEPT ![c] = IF @ = "starting" THEN "spawn" ELSE "waiting"]
      /\ waiters' = [waiters EXCEPT ![f] = @ + 1]
      /\ UNCHANGED <<closed, stopped, generation, negative, cache, flights, active, worker, flightKey,
                     outcome, result, joined, cancelled>>
  BY <1>0 DEF Join, Locked, serviceVars, workerVars
<1>2. flights[flightKey[f]] = f
  BY <1>0, <1>1 DEF IInv, LockSound
<1>3. TypeOK' BY <1>1, <1>2 DEF IInv, TypeOK, CallerState
<1>4. AtWork' = AtWork /\ \A g \in Flights : Running(g)' = Running(g)
  BY <1>1 DEF AtWork, Running
<1>5. /\ c \notin Waiting(f) /\ Waiting(f)' = Waiting(f) \cup {c}
      /\ \A g \in Flights : g # f => Waiting(g)' = Waiting(g)
  BY <1>0, <1>1 DEF Waiting, IInv, TypeOK
<1>6. ActiveExact' /\ WaitersExact'
  <2>1. /\ ActiveExact' <=> active' = Cardinality(AtWork')
        /\ WaitersExact' <=> \A g \in Flights : waiters'[g] = Cardinality(Waiting(g)')
    BY DEF ActiveExact, WaitersExact, AtWork, Waiting
  <2>2. Cardinality(Waiting(f)') = Cardinality(Waiting(f)) + 1 BY <1>5, Counted, Counting
  <2>3. \A g \in Flights : waiters'[g] = IF g = f THEN waiters[f] + 1 ELSE waiters[g]
    BY <1>1, <1>2 DEF IInv, TypeOK
  <2>4. \A g \in Flights : waiters[g] = Cardinality(Waiting(g)) BY Counted DEF IInv
  <2>5. \A g \in Flights : waiters'[g] = Cardinality(Waiting(g)')
    <3> SUFFICES ASSUME NEW g \in Flights PROVE waiters'[g] = Cardinality(Waiting(g)') OBVIOUS
    <3>1. CASE g = f BY <1>2, <2>2, <2>3, <2>4, <3>1
    <3>2. CASE g # f BY <1>5, <2>3, <2>4, <3>2
    <3> QED BY <3>1, <3>2
  <2>6. active' = Cardinality(AtWork') BY <1>1, <1>4, Counted DEF IInv
  <2> QED BY <2>1, <2>5, <2>6
<1>7. SharedWork'
  BY <1>1, <1>2, <1>4 DEF IInv, TypeOK, SharedWork
<1>8. NoStaleCache' /\ Quiescent' /\ TableSound'
  BY <1>1, <1>4 DEF IInv, NoStaleCache, Quiescent, TableSound, TypeOK
<1>9. LockSound' BY <1>1 DEF IInv, TypeOK, LockSound, Locked
<1>10. CallersJoined' BY <1>1 DEF IInv, TypeOK, CallersJoined
<1>11. StartersAlone' BY <1>1 DEF IInv, TypeOK, StartersAlone, Starting
<1> QED BY <1>3, <1>6, <1>7, <1>8, <1>9, <1>10, <1>11 DEF IInv

(* The worker of a new flight begins.                                       *)
LEMMA SpawnIInv == ASSUME IInv, NEW c \in Callers, Spawn(c) PROVE IInv'
<1> DEFINE f == joined[c]
<1>1. /\ caller[c] = "spawn" /\ caller' = [caller EXCEPT ![c] = "waiting"]
      /\ worker' = [worker EXCEPT ![f] = "start"]
      /\ UNCHANGED <<closed, stopped, generation, negative, cache, flights, active, flightKey,
                     outcome, result, waiters, joined, cancelled>>
  BY DEF Spawn, serviceVars
<1>2. /\ f \in Flights /\ worker[f] = "new"
      /\ \A d \in Callers : Starting(d) /\ joined[d] = f => d = c
  BY <1>1 DEF IInv, TypeOK, CallersJoined, StartersAlone, Starting
<1> HIDE DEF f
<1>3. TypeOK' BY <1>1, <1>2 DEF IInv, TypeOK, CallerState, WorkerState
<1>4. AtWork' = AtWork /\ \A g \in Flights : Running(g)' = Running(g) /\ Waiting(g)' = Waiting(g)
  BY <1>1, <1>2 DEF AtWork, Running, Waiting, IInv, TypeOK
<1>5. ActiveExact' /\ WaitersExact'
  <2>1. /\ ActiveExact' <=> active' = Cardinality(AtWork')
        /\ WaitersExact' <=> \A g \in Flights : waiters'[g] = Cardinality(Waiting(g)')
    BY DEF ActiveExact, WaitersExact, AtWork, Waiting
  <2> QED BY <1>1, <1>4, <2>1, Counted DEF IInv
<1>6. SharedWork' /\ NoStaleCache' /\ Quiescent' /\ TableSound'
  BY <1>1, <1>4 DEF IInv, SharedWork, NoStaleCache, Quiescent, TableSound, TypeOK
<1>7. LockSound' BY <1>1 DEF IInv, TypeOK, LockSound, Locked
<1>8. CallersJoined' BY <1>1, <1>2 DEF IInv, TypeOK, CallersJoined
<1>9. StartersAlone' BY <1>1, <1>2 DEF IInv, TypeOK, StartersAlone, Starting
<1> QED BY <1>3, <1>5, <1>6, <1>7, <1>8, <1>9 DEF IInv

(* fetch() returns: the caller was counted.                                 *)
LEMMA ReturnIInv ==
  ASSUME IInv, NEW c \in Callers, caller[c] = "waiting", Return(c)
  PROVE  IInv'
<1>0. PICK f \in Flights : f = joined[c]
  BY DEF IInv, TypeOK, CallersJoined
<1>1. /\ caller' = [caller EXCEPT ![c] = "idle"] /\ joined' = [joined EXCEPT ![c] = NoFlight]
      /\ cancelled' = [cancelled EXCEPT ![c] = FALSE]
      /\ waiters' = [waiters EXCEPT ![f] = @ - 1]
      /\ UNCHANGED <<closed, stopped, generation, negative, cache, flights, active, worker, flightKey,
                     outcome, result>>
  BY <1>0 DEF Return, serviceVars, workerVars
<1>3. AtWork' = AtWork /\ \A g \in Flights : Running(g)' = Running(g)
  BY <1>1 DEF AtWork, Running
<1>4. /\ c \in Waiting(f) /\ Waiting(f)' = Waiting(f) \ {c}
      /\ \A g \in Flights : g # f => Waiting(g)' = Waiting(g)
  BY <1>0, <1>1, LyricsAssumption DEF Waiting, IInv, TypeOK
<1>5. \A g \in Flights : waiters'[g] = IF g = f THEN waiters[f] - 1 ELSE waiters[g]
  BY <1>1 DEF IInv, TypeOK
<1>6. \A g \in Flights : waiters[g] = Cardinality(Waiting(g)) /\ Cardinality(Waiting(g)) \in Nat
  BY Counted, Counting DEF IInv
<1>7. \A g \in Flights : waiters'[g] = Cardinality(Waiting(g)')
  <2> SUFFICES ASSUME NEW g \in Flights PROVE waiters'[g] = Cardinality(Waiting(g)') OBVIOUS
  <2>1. Cardinality(Waiting(f)') = Cardinality(Waiting(f)) - 1 BY <1>4, Counted, Counting
  <2>2. CASE g = f BY <1>5, <1>6, <2>1, <2>2
  <2>3. CASE g # f BY <1>4, <1>5, <1>6, <2>3
  <2> QED BY <2>2, <2>3
<1>8. ActiveExact' /\ WaitersExact'
  <2>1. /\ ActiveExact' <=> active' = Cardinality(AtWork')
        /\ WaitersExact' <=> \A g \in Flights : waiters'[g] = Cardinality(Waiting(g)')
    BY DEF ActiveExact, WaitersExact, AtWork, Waiting
  <2>2. active' = Cardinality(AtWork') BY <1>1, <1>3, Counted DEF IInv
  <2> QED BY <1>7, <2>1, <2>2
<1>9. TypeOK'
  <2>1. \A g \in Flights : IsFiniteSet(Waiting(g)')
    <3>1. IsFiniteSet(Waiting(f) \ {c}) BY Counted, Counting
    <3> QED BY <1>4, <3>1, Counted
  <2>2. \A g \in Flights : waiters'[g] \in Nat BY <1>7, <2>1, FS_CardinalityType
  <2>3. waiters' \in [Flights -> Nat] BY <1>1, <2>2 DEF IInv, TypeOK
  <2> QED BY <1>1, <2>3 DEF IInv, TypeOK, CallerState
<1>10. SharedWork'
  <2>1. \A g \in Flights : waiters'[g] > 0 => waiters[g] > 0
    BY <1>5 DEF IInv, TypeOK
  <2> QED BY <1>1, <1>3, <2>1 DEF IInv, TypeOK, SharedWork
<1>11. NoStaleCache' /\ Quiescent' /\ TableSound'
  BY <1>1, <1>3 DEF IInv, NoStaleCache, Quiescent, TableSound, TypeOK
<1>12. LockSound' BY <1>1 DEF IInv, TypeOK, LockSound, Locked
<1>13. CallersJoined' BY <1>1, LyricsAssumption DEF IInv, TypeOK, CallersJoined
<1>14. StartersAlone' BY <1>1 DEF IInv, TypeOK, StartersAlone, Starting
<1> QED BY <1>8, <1>9, <1>10, <1>11, <1>12, <1>13, <1>14 DEF IInv

(* The negative cache stays within its limit.                               *)
LEMMA NegativeBounded ==
  ASSUME TypeOK, NEW f \in Flights, NEW r, NEW N \in NegativeAfter(f, r)
  PROVE  N \subseteq Keys /\ Cardinality(N) <= MaxNegative
<1> DEFINE k == flightKey[f][2]
<1>1. k \in Keys /\ IsFiniteSet(negative) /\ negative \subseteq Keys /\ Cardinality(negative) <= MaxNegative
  BY FS_Subset, LyricsAssumption DEF TypeOK, FlightKeys
<1>2. Cardinality(negative) \in Nat BY <1>1, FS_CardinalityType
<1>3. CASE N = negative BY <1>1, <1>3
<1>4. CASE N = negative \ {k}
  <2>1. N \subseteq negative BY <1>4
  <2>2. IsFiniteSet(N) /\ Cardinality(N) <= Cardinality(negative) BY <1>1, <2>1, FS_Subset
  <2>3. Cardinality(N) \in Nat BY <2>2, FS_CardinalityType
  <2> QED BY <1>1, <1>2, <2>1, <2>2, <2>3, LyricsAssumption
<1>5. ASSUME NEW M \in SUBSET negative, N = M \cup {k},
             IF Cardinality(negative) < MaxNegative
             THEN M = negative ELSE Cardinality(M) = MaxNegative - 1
      PROVE  N \subseteq Keys /\ Cardinality(N) <= MaxNegative
  <2>1. IsFiniteSet(M) BY <1>1, FS_Subset
  <2>2. Cardinality(M) \in Nat BY <2>1, FS_CardinalityType
  <2>3. Cardinality(M) <= MaxNegative - 1 BY <1>2, <1>5, LyricsAssumption
  <2>4. k \in M => N = M BY <1>5
  <2>5. k \notin M => Cardinality(N) = Cardinality(M) + 1 BY <1>5, <2>1, Counting
  <2>6. Cardinality(N) <= MaxNegative
    BY <2>2, <2>3, <2>4, <2>5, LyricsAssumption
  <2>7. N \subseteq Keys BY <1>1, <1>5
  <2> QED BY <2>6, <2>7
<1>6. \/ N = negative \/ N = negative \ {k}
      \/ \E M \in SUBSET negative :
           /\ N = M \cup {k}
           /\ IF Cardinality(negative) < MaxNegative
              THEN M = negative ELSE Cardinality(M) = MaxNegative - 1
  BY DEF NegativeAfter
<1> HIDE DEF k
<1> QED BY <1>3, <1>4, <1>5, <1>6

(* A flight ends: one place is given back, and its entry is removed unless  *)
(* it is that of a newer flight.  The caller that ends it itself was the    *)
(* only one to start it.                                                    *)
LEMMA FinishIInv ==
  ASSUME IInv, NEW f \in Flights, NEW r \in Outcome, Running(f), FinishWith(f, r),
         UNCHANGED <<closed, stopped, flightKey, waiters, joined, cancelled>>,
         outcome' \in [Flights -> Outcome], caller' \in [Callers -> CallerState],
         \A c \in Callers :
           \/ caller'[c] = caller[c] /\ (Starting(c) => joined[c] # f)
           \/ caller[c] = "spawn" /\ caller'[c] = "waiting"
  PROVE  IInv'
<1>1. /\ result' = [result EXCEPT ![f] = r]
      /\ flights' = [flights EXCEPT ![flightKey[f]] = IF @ = f THEN NoFlight ELSE @]
      /\ active' = active - 1 /\ worker' = [worker EXCEPT ![f] = "done"]
      /\ LockFree /\ UNCHANGED <<generation, cache>>
      /\ negative' \in NegativeAfter(f, r)
  BY DEF FinishWith
<1>2. flightKey[f] \in FlightKeys BY DEF IInv, TypeOK
<1>3. /\ AtWork' = AtWork \ {f} /\ f \in AtWork
      /\ \A g \in Flights : Running(g)' <=> Running(g) /\ g # f
      /\ \A g \in Flights : Waiting(g)' = Waiting(g)
  BY <1>1 DEF AtWork, Running, Waiting, IInv, TypeOK
<1>4. /\ Cardinality(AtWork') = Cardinality(AtWork) - 1
      /\ Cardinality(AtWork) \in Nat /\ Cardinality(AtWork') \in Nat
      /\ active = Cardinality(AtWork)
  <2>1. IsFiniteSet(AtWork) BY Counted
  <2>2. IsFiniteSet(AtWork \ {f}) /\ Cardinality(AtWork) \in Nat /\ Cardinality(AtWork \ {f}) = Cardinality(AtWork) - 1
    BY <2>1, <1>3, Counting
  <2> QED BY <1>3, <2>2, FS_CardinalityType, Counted DEF IInv
<1>5. ActiveExact' /\ WaitersExact'
  <2>1. /\ ActiveExact' <=> active' = Cardinality(AtWork')
        /\ WaitersExact' <=> \A g \in Flights : waiters'[g] = Cardinality(Waiting(g)')
    BY DEF ActiveExact, WaitersExact, AtWork, Waiting
  <2> QED BY <1>1, <1>3, <1>4, <2>1, Counted DEF IInv
<1>6. TypeOK'
  <2>1. active' \in 0 .. MaxFlights BY <1>1, <1>4, LyricsAssumption DEF IInv, TypeOK
  <2>2. negative' \subseteq Keys /\ Cardinality(negative') <= MaxNegative
    BY <1>1, NegativeBounded DEF IInv
  <2> QED BY <1>1, <2>1, <2>2 DEF IInv, TypeOK, WorkerState
<1>7. \A j \in FlightKeys : /\ flights'[j] \in {flights[j], NoFlight}
                            /\ flights[j] # f => flights'[j] = flights[j]
                            /\ flights'[j] # f
  BY <1>1, <1>2, LyricsAssumption DEF IInv, TypeOK, TableSound
<1>8. TableSound'
  <2> SUFFICES ASSUME NEW j \in FlightKeys, flights'[j] # NoFlight
               PROVE  /\ worker'[flights'[j]] \notin {"free", "done"}
                      /\ flightKey'[flights'[j]] = j
    BY DEF TableSound, Running
  <2>1. flights'[j] = flights[j] /\ flights[j] \in Flights /\ flights[j] # f BY <1>7 DEF IInv, TypeOK
  <2>2. Running(flights[j]) /\ flightKey[flights[j]] = j BY <2>1 DEF IInv, TableSound
  <2> QED BY <1>1, <2>1, <2>2 DEF IInv, TypeOK, Running
<1>9. SharedWork'
  <2> SUFFICES ASSUME NEW g \in Flights, Running(g)', waiters'[g] > 0
               PROVE  flights'[flightKey'[g]] = g
    BY DEF SharedWork
  <2>1. g # f /\ flights[flightKey[g]] = g /\ flightKey[g] \in FlightKeys
    BY <1>3 DEF IInv, TypeOK, SharedWork
  <2> QED BY <1>7, <2>1
<1>10. NoStaleCache' /\ Quiescent'
  BY <1>1, <1>3 DEF IInv, NoStaleCache, Quiescent
<1>11. \A c \in Callers : ~Locked(c) /\ ~Locked(c)'
  BY <1>1 DEF LockFree, Locked
<1>12. LockSound' BY <1>11 DEF LockSound
<1>13. CallersJoined' BY <1>1 DEF IInv, TypeOK, CallersJoined
<1>14. StartersAlone'
  <2>1. \A c \in Callers : Starting(c)' =>
          Starting(c) /\ joined[c] \in Flights /\ joined[c] # f /\ worker[joined[c]] = "new"
    BY DEF Starting, IInv, TypeOK, CallersJoined, StartersAlone
  <2> QED BY <1>1, <2>1 DEF IInv, TypeOK, StartersAlone
<1> QED BY <1>5, <1>6, <1>8, <1>9, <1>10, <1>12, <1>13, <1>14 DEF IInv

LEMMA SpawnFailsIInv == ASSUME IInv, NEW c \in Callers, SpawnFails(c) PROVE IInv'
<1>1. /\ caller[c] = "spawn" /\ FinishWith(joined[c], "error")
      /\ caller' = [caller EXCEPT ![c] = "waiting"]
      /\ UNCHANGED <<closed, stopped, flightKey, outcome, waiters, joined, cancelled>>
  BY DEF SpawnFails
<1>2. /\ joined[c] \in Flights /\ worker[joined[c]] = "new"
      /\ \A d \in Callers : Starting(d) /\ joined[d] = joined[c] => d = c
  BY <1>1 DEF IInv, TypeOK, CallersJoined, StartersAlone, Starting
<1>3. Running(joined[c]) BY <1>2 DEF Running
<1>4. caller' \in [Callers -> CallerState] /\ outcome' \in [Flights -> Outcome] /\ "error" \in Outcome
  BY <1>1 DEF IInv, TypeOK, CallerState, Outcome
<1>5. \A d \in Callers :
        \/ caller'[d] = caller[d] /\ (Starting(d) => joined[d] # joined[c])
        \/ caller[d] = "spawn" /\ caller'[d] = "waiting"
  BY <1>1, <1>2 DEF IInv, TypeOK
<1> QED BY <1>1, <1>2, <1>3, <1>4, <1>5, FinishIInv

LEMMA WorkerFinishIInv == ASSUME IInv, NEW f \in Flights, WorkerFinish(f) PROVE IInv'
<1>1. /\ worker[f] = "finish" /\ FinishWith(f, outcome[f])
      /\ outcome' = [outcome EXCEPT ![f] = "ok"]
      /\ UNCHANGED <<closed, stopped, flightKey, waiters, caller, joined, cancelled>>
  BY DEF WorkerFinish, callerVars
<1>2. Running(f) /\ outcome[f] \in Outcome BY <1>1 DEF Running, IInv, TypeOK
<1>3. caller' \in [Callers -> CallerState] /\ outcome' \in [Flights -> Outcome]
  BY <1>1 DEF IInv, TypeOK, Outcome
<1>4. \A d \in Callers : Starting(d) => joined[d] # f BY <1>1 DEF IInv, StartersAlone
<1> QED BY <1>1, <1>2, <1>3, <1>4, FinishIInv
-----------------------------------------------------------------------------
LEMMA NextIInv == IInv /\ [Next]_vars => IInv'
<1> SUFFICES ASSUME IInv, [Next]_vars PROVE IInv' OBVIOUS
<1>1. CASE UNCHANGED vars
  <2>1. UNCHANGED <<closed, stopped, generation, negative, cache, flights, active, worker, flightKey,
                    outcome, result, waiters, caller, joined, cancelled>>
    BY <1>1 DEF vars, serviceVars, workerVars, callerVars
  <2>2. TypeOK' /\ NoStaleCache' /\ Quiescent'
    BY <2>1 DEF IInv, TypeOK, NoStaleCache, Quiescent, Running
  <2> QED BY <2>1, <2>2, QuietIInv
<1>2. ASSUME NEW c \in Callers, NEW k \in Keys, LookupJoin(c, k) PROVE IInv'
  BY <1>2, LookupJoinIInv
<1>3. ASSUME NEW c \in Callers, NEW k \in Keys, NEW f \in Flights, LookupStart(c, k, f) PROVE IInv'
  BY <1>3, LookupStartIInv
<1>4. ASSUME NEW c \in Callers, Join(c) PROVE IInv' BY <1>4, JoinIInv
<1>5. ASSUME NEW c \in Callers, Spawn(c) PROVE IInv' BY <1>5, SpawnIInv
<1>6. ASSUME NEW c \in Callers, SpawnFails(c) PROVE IInv' BY <1>6, SpawnFailsIInv
<1>7. ASSUME NEW c \in Callers, Leave(c) \/ Receive(c) PROVE IInv'
  BY <1>7, ReturnIInv DEF Leave, Receive
<1>8. ASSUME NEW f \in Flights,
             WorkerCheck(f) \/ WorkerLookup(f) \/ WorkerAborts(f) \/ WorkerSearched(f) \/ WorkerStore(f)
      PROVE  IInv'
  BY <1>8, WorkerGoIInv
<1>9. ASSUME NEW f \in Flights, WorkerFinish(f) PROVE IInv' BY <1>9, WorkerFinishIInv
<1>10. ASSUME \/ \E c \in Callers : Cancel(c)
              \/ Reconfigure \/ DropMemory \/ Expire \/ Close \/ ShutdownReturns
       PROVE  IInv'
  BY <1>10, OutsideIInv
<1> QED
  BY <1>1, <1>2, <1>3, <1>4, <1>5, <1>6, <1>7, <1>8, <1>9, <1>10 DEF Next, CallerStep, WorkerStep

(* Whatever callers, workers, settings and a shutdown do: places and        *)
(* waiters are counted exactly, callers of one key share the flight at      *)
(* work, and the cache holds nothing of older settings.                     *)
THEOREM FlightsAreSafe == Spec => []FlightsSafe
<1>1. IInv => FlightsSafe BY DEF IInv, FlightsSafe, CountsExact
<1> QED BY InitIInv, NextIInv, <1>1, PTL DEF Spec

(* Once shutdown() has returned no worker is left, and none starts again.   *)
THEOREM ShutdownIsQuiescent == Spec => []ShutdownQuiescent
<1>1. IInv => ShutdownQuiescent BY DEF IInv, ShutdownQuiescent, Quiescent
<1> QED BY InitIInv, NextIInv, <1>1, PTL DEF Spec
-----------------------------------------------------------------------------
(***************************************************************************)
(* The cache on disk.  Of the two snapshots that may be on their way, the   *)
(* one the thread has is older than the one that is pending, and both are   *)
(* newer than the file: so a write only ever goes forward.                  *)
(***************************************************************************)

(* A snapshot on its way has a number between the file's and the last one.  *)
OnItsWay(s) == s = NoSnapshot \/ (s.number \in Nat /\ written < s.number /\ s.number <= scheduled)

CacheIInv ==
  /\ scheduled \in Nat /\ written \in Nat /\ written <= scheduled
  /\ OnItsWay(pending) /\ OnItsWay(job)
  /\ job # NoSnapshot /\ pending # NoSnapshot => job.number < pending.number

LEMMA CacheInitIInv == CacheInit => CacheIInv
BY DEF CacheInit, CacheIInv, OnItsWay

(* What schedule() does to the numbers.                                     *)
LEMMA ScheduleIInv ==
  ASSUME CacheIInv, NEW keys, NEW p, Schedule(keys, p), job' = job, written' = written
  PROVE  CacheIInv' /\ [Abstract!Accept]_<<scheduled, written, error>>
<1>1. CASE p = NoPath
  BY <1>1 DEF Schedule, CacheIInv, OnItsWay
<1>2. CASE p # NoPath
  <2>1. /\ scheduled' = scheduled + 1 /\ error' \in {error, TRUE}
        /\ pending' = [path |-> p, keys |-> keys, number |-> scheduled + 1]
    BY <1>2 DEF Schedule
  <2>2. pending'.number = scheduled + 1 BY <2>1
  <2>3. CacheIInv' BY <2>1, <2>2 DEF CacheIInv, OnItsWay
  <2>4. Abstract!Accept BY <2>1 DEF Abstract!Accept
  <2> QED BY <2>3, <2>4
<1> QED BY <1>1, <1>2

LEMMA CacheStep ==
  CacheIInv /\ [CacheNext]_cacheVars
    => CacheIInv' /\ [Abstract!WBNext]_<<scheduled, written, error>>
<1> SUFFICES ASSUME CacheIInv, [CacheNext]_cacheVars
             PROVE  CacheIInv' /\ [Abstract!WBNext]_<<scheduled, written, error>>
  OBVIOUS
<1> USE DEF Abstract!WBNext
<1>1. ASSUME \/ \E k \in LyricKeys : Set(k)
             \/ ClearLyrics
             \/ \E p \in CachePaths : SetPath(p) /\ pending # NoSnapshot
      PROVE  CacheIInv' /\ [Abstract!WBNext]_<<scheduled, written, error>>
  <2>1. PICK keys, p : Schedule(keys, p) /\ job' = job /\ written' = written
    BY <1>1 DEF Set, ClearLyrics, SetPath
  <2> QED BY <2>1, ScheduleIInv
<1>2. ASSUME \/ CleanExpired
             \/ \E p \in CachePaths : SetPath(p) /\ pending = NoSnapshot
             \/ \E t \in Flushers : BeginFlush(t) \/ EndFlush(t)
             \/ UNCHANGED cacheVars
      PROVE  CacheIInv' /\ [Abstract!WBNext]_<<scheduled, written, error>>
  <2>1. UNCHANGED <<pending, job, scheduled, written, error>>
    BY <1>2 DEF CleanExpired, SetPath, BeginFlush, EndFlush, cacheVars
  <2> QED BY <2>1 DEF CacheIInv, OnItsWay
<1>3. ASSUME Take PROVE CacheIInv' /\ UNCHANGED <<scheduled, written, error>>
  BY <1>3 DEF Take, CacheIInv, OnItsWay
<1>4. ASSUME Write PROVE CacheIInv' /\ [Abstract!WBNext]_<<scheduled, written, error>>
  <2>1. /\ job # NoSnapshot /\ job' = NoSnapshot /\ UNCHANGED <<pending, scheduled>>
        /\ \/ written' = job.number /\ error' = FALSE
           \/ written' = written /\ error' = TRUE
    BY <1>4 DEF Write, Noted
  <2>2. CacheIInv' BY <2>1 DEF CacheIInv, OnItsWay
  <2>3. job.number \in (written + 1) .. scheduled BY <2>1 DEF CacheIInv, OnItsWay
  <2>4. CASE written' = job.number /\ error' = FALSE
    BY <2>1, <2>2, <2>3, <2>4 DEF Abstract!Land
  <2>5. CASE written' = written /\ error' = TRUE
    BY <2>1, <2>2, <2>5 DEF Abstract!Fail
  <2> QED BY <2>1, <2>4, <2>5
<1>5. ASSUME Restart PROVE CacheIInv' /\ Abstract!Lose
  BY <1>5 DEF Restart, CacheIInv, OnItsWay, Abstract!Lose
<1> QED BY <1>1, <1>2, <1>3, <1>4, <1>5 DEF CacheNext

(* The cache implements the safety part of the write-behind cache: the file *)
(* never goes back to an older snapshot, whichever path it is written to,   *)
(* and never gets one that was not scheduled; only a crash loses any.       *)
THEOREM CacheImplementsWriteBehind == CacheSpec => Abstract!WBSafety
<1>1. CacheInit => Abstract!WBInit BY DEF CacheInit, Abstract!WBInit
<1> QED BY CacheInitIInv, CacheStep, <1>1, PTL DEF CacheSpec, Abstract!WBSafety, Abstract!wbVars

-----------------------------------------------------------------------------
(***************************************************************************)
(* The search among the providers.  SearchInv is inductive and contains    *)
(* LyricsSearchSound.                                                      *)
(***************************************************************************)

SearchPcs == {"idle", "begin", "collect", "leaving"}
FetchPcs == {"take", "ask", "record", "send", "ended"}
Findings == {"", "lyrics", "cancelled", "recursive", "nothing"}
Tellings == {"", "ok", "recursive", "down", "failed"}
Searches ==
  [pc: SearchPcs, names: ProviderOrders \cup {<<>>}, list: SUBSET Nat, left: SUBSET Nat, stopped: BOOLEAN,
   cancelled: BOOLEAN, epoch: Nat, completed: SUBSET Nat, best: Nat, graceOver: BOOLEAN, recursive: BOOLEAN,
   result: Findings, usable: SUBSET Nat, count: Nat]
FetchRecords == [pc: FetchPcs, index: Nat, step: Nat, attempt: Nat, result: Tellings]
Messages == [index: Nat, result: Tellings]
SearchTyped ==
  /\ providers \in ProviderOrders
  /\ cooling \in [Names -> Int] /\ epoch \in Nat /\ forgiven \in Nat
  /\ search \in Searches
  /\ fetch \in [SearchThreads -> FetchRecords]
  /\ channel \in Seq(Messages)

AtARequest == {"ask", "record", "send"}
Asking(n) == \E w \in SearchThreads : fetch[w].pc \in AtARequest /\ fetch[w].index = n
Reported(n) == \E k \in 1 .. Len(channel) : channel[k].index = n
NobodyAsks == \A w \in SearchThreads : fetch[w].pc = "ended"

(* What the threads, the channel and the collector speak of are candidates.  *)
ListSound ==
  /\ search.pc \in {"idle", "begin"} => NobodyAsks /\ search.list = {}
  /\ search.pc # "idle" => search.names \in ProviderOrders
  /\ search.list \subseteq DOMAIN search.names
  /\ search.left \subseteq search.list /\ search.completed \subseteq search.list
  /\ \A w \in SearchThreads : fetch[w].pc \in AtARequest => fetch[w].index \in search.list
  /\ search.pc \in {"collect", "leaving"} => \A k \in 1 .. Len(channel) : channel[k].index \in search.list
  /\ search.stopped <=> search.pc = "leaving"

(* A candidate that was taken is not lost on its way to the collector, and   *)
(* somebody is there to take the others.                                    *)
NoneForgotten ==
  search.pc = "collect" =>
    /\ \A n \in search.list \ search.left : n \in search.completed \/ Asking(n) \/ Reported(n)
    /\ ~search.cancelled /\ search.left # {} => ~NobodyAsks

(* The best answer so far is the first one of those that came.               *)
BestIs ==
  /\ search.usable \subseteq search.completed
  /\ search.usable = {} <=> search.best = NoIndex
  /\ search.best # NoIndex => search.best \in search.usable /\ \A n \in search.usable : search.best <= n

SearchInv == SearchTyped /\ ListSound /\ NoneForgotten /\ BestIs /\ epoch >= forgiven /\ BestWins /\ HealthOwn

LEMMA LeastOf ==
  ASSUME NEW S, S \subseteq Nat, S # {}
  PROVE  Min(S) \in S /\ \A y \in S : Min(S) <= y
<1>1. PICK m \in S : \A y \in S : ~(<<y, m>> \in OpToRel(<, Nat)) BY NatLessThanWellFounded, WFMin
<1>2. \A y \in S : ~(y < m) BY <1>1 DEF OpToRel
<1>3. \A y \in S : m <= y BY <1>2
<1> QED BY <1>3 DEF Min

LEMMA SearchInitInv == SearchInit => SearchInv
<1> SUFFICES ASSUME SearchInit PROVE SearchInv OBVIOUS
<1> USE DEF SearchInit, NoSearch, NoFetch
<1>1. SearchTyped
  <2>1. search \in Searches /\ search.list = {} /\ search.left = {} /\ search.completed = {} /\ search.usable = {}
    BY DEF Searches, SearchPcs, Findings, NoIndex
  <2>2. fetch \in [SearchThreads -> FetchRecords] BY DEF FetchRecords, FetchPcs, NoIndex, Tellings
  <2>3. cooling \in [Names -> Int]
    <3>1. cooling \in [Names -> {-1, 0}] OBVIOUS
    <3> QED BY ONLY <3>1
  <2>4. channel \in Seq(Messages)
    <3>1. channel = <<>> OBVIOUS
    <3> QED BY ONLY <3>1
  <2>5. epoch \in Nat /\ forgiven \in Nat /\ providers \in ProviderOrders OBVIOUS
  <2> QED BY <2>1, <2>2, <2>3, <2>4, <2>5 DEF SearchTyped
<1>2. ListSound BY DEF ListSound, NobodyAsks, AtARequest
<1>3. NoneForgotten /\ BestIs /\ BestWins BY DEF NoneForgotten, BestIs, BestWins
<1>4. epoch >= forgiven /\ HealthOwn
  <2>1. \A n \in Names : cooling[n] \in {-1, 0} OBVIOUS
  <2>2. epoch = 0 /\ forgiven = 0 OBVIOUS
  <2> QED BY ONLY <2>1, <2>2 DEF HealthOwn
<1> QED BY <1>1, <1>2, <1>3, <1>4 DEF SearchInv

(* The health of the providers, and the user's order.                       *)
LEMMA HealthSteps ==
  ASSUME SearchInv, SetProviders \/ NewGeneration \/ \E n \in Names : CoolDown(n)
  PROVE  SearchInv'
<1>1. UNCHANGED <<search, fetch, channel>> BY DEF SetProviders, NewGeneration, CoolDown
<1>2. ListSound' /\ NoneForgotten' /\ BestIs' /\ BestWins'
  BY <1>1 DEF SearchInv, ListSound, NoneForgotten, BestIs, BestWins, NobodyAsks, Asking, Reported, Pending
<1>3. providers' \in ProviderOrders /\ cooling' \in [Names -> Int] /\ epoch' \in Nat /\ forgiven' \in Nat
      /\ epoch' >= forgiven' /\ HealthOwn'
  <2>1. providers \in ProviderOrders /\ cooling \in [Names -> Int] /\ epoch \in Nat /\ forgiven \in Nat
        /\ epoch >= forgiven /\ HealthOwn
    BY DEF SearchInv, SearchTyped
  <2>2. CASE SetProviders BY <2>1, <2>2 DEF SetProviders, HealthOwn
  <2>3. CASE NewGeneration BY <2>1, <2>3 DEF NewGeneration, HealthOwn
  <2>4. ASSUME NEW n \in Names, CoolDown(n) PROVE <1>3!: BY <2>1, <2>4 DEF CoolDown, HealthOwn
  <2> QED BY <2>2, <2>3, <2>4
<1> QED BY <1>1, <1>2, <1>3 DEF SearchInv, SearchTyped

(* Steps of the search alone.                                               *)
LEMMA SearchOnly ==
  ASSUME SearchInv, UNCHANGED <<providers, cooling, epoch, forgiven>>,
         search' \in Searches, fetch' \in [SearchThreads -> FetchRecords], channel' \in Seq(Messages),
         ListSound', NoneForgotten', BestIs', BestWins'
  PROVE  SearchInv'
BY DEF SearchInv, SearchTyped, HealthOwn

LEMMA StartFlightInv == ASSUME SearchInv, StartFlight PROVE SearchInv'
<1> DEFINE c == search.count + 1
           r == [NoSearch EXCEPT !.pc = "begin", !.names = providers, !.epoch = epoch, !.count = c]
<1>1. search' = r /\ UNCHANGED <<providers, cooling, epoch, forgiven, fetch, channel>> /\ search.pc = "idle"
  BY DEF StartFlight
<1>2. c \in Nat BY DEF SearchInv, SearchTyped, Searches
<1> HIDE DEF c
<1>3. /\ r \in Searches /\ r.pc = "begin" /\ r.names = providers /\ r.list = {} /\ r.left = {} /\ r.completed = {}
      /\ r.usable = {} /\ r.best = 0 /\ r.stopped = FALSE
  BY <1>2 DEF NoSearch, NoIndex, Searches, SearchPcs, Findings, SearchInv, SearchTyped
<1> HIDE DEF r
<1>4. ListSound' BY <1>1, <1>3 DEF ListSound, NobodyAsks, AtARequest, SearchInv, SearchTyped
<1>5. NoneForgotten' /\ BestIs' /\ BestWins' BY <1>1, <1>3 DEF NoneForgotten, BestIs, BestWins, NoIndex
<1>6. search' \in Searches /\ fetch' \in [SearchThreads -> FetchRecords] /\ channel' \in Seq(Messages)
  BY <1>1, <1>3 DEF SearchInv, SearchTyped
<1> QED BY <1>1, <1>4, <1>5, <1>6, SearchOnly

LEMMA EndOfSearchInv == ASSUME SearchInv, EndOfSearch PROVE SearchInv'
<1> DEFINE c == search.count
           r == [NoSearch EXCEPT !.count = c]
<1>1. /\ search' = r /\ UNCHANGED <<providers, cooling, epoch, forgiven, fetch, channel>> /\ search.pc = "leaving"
      /\ NobodyAsks
  BY DEF EndOfSearch, NobodyAsks
<1>2. c \in Nat BY DEF SearchInv, SearchTyped, Searches
<1> HIDE DEF c
<1>3. /\ r \in Searches /\ r.pc = "idle" /\ r.list = {} /\ r.left = {} /\ r.completed = {}
      /\ r.usable = {} /\ r.best = 0 /\ r.stopped = FALSE
  BY <1>2 DEF NoSearch, NoIndex, Searches, SearchPcs, Findings
<1> HIDE DEF r
<1>4. ListSound' BY <1>1, <1>3 DEF ListSound, NobodyAsks, AtARequest
<1>5. NoneForgotten' /\ BestIs' /\ BestWins' BY <1>1, <1>3 DEF NoneForgotten, BestIs, BestWins, NoIndex
<1>6. search' \in Searches /\ fetch' \in [SearchThreads -> FetchRecords] /\ channel' \in Seq(Messages)
  BY <1>1, <1>3 DEF SearchInv, SearchTyped
<1> QED BY <1>1, <1>4, <1>5, <1>6, SearchOnly

(* The first candidates are taken by threads that there are.                *)
LEMMA BeginSearchInv == ASSUME SearchInv, BeginSearch PROVE SearchInv'
<1> DEFINE list == {n \in DOMAIN search.names : cooling[search.names[n]] = -1}
           r == [search EXCEPT !.pc = "collect", !.list = list, !.left = list]
<1>1. /\ search' = r /\ search.pc = "begin" /\ channel' = <<>>
      /\ UNCHANGED <<providers, cooling, epoch, forgiven>>
      /\ \E crew \in SUBSET SearchThreads :
           /\ Cardinality(crew) = Min({Cardinality(list), Cardinality(SearchThreads)})
           /\ fetch' = [w \in SearchThreads |-> [NoFetch EXCEPT !.pc = IF w \in crew THEN "take" ELSE "ended"]]
  BY DEF BeginSearch
<1>2. /\ list \subseteq DOMAIN search.names /\ list \subseteq Nat /\ IsFiniteSet(list)
      /\ DOMAIN search.names \subseteq Nat
  <2>1. search.names \in ProviderOrders BY <1>1 DEF SearchInv, ListSound
  <2>2. search.names \in Seq(ToSet(search.names)) BY <2>1, LyricsSearchAssumption
  <2>3. DOMAIN search.names = 1 .. Len(search.names) /\ Len(search.names) \in Nat BY <2>2
  <2>4. IsFiniteSet(1 .. Len(search.names)) BY <2>3, FS_Interval
  <2> QED BY <2>3, <2>4, FS_Subset
<1> HIDE DEF list
<1>3. /\ r \in Searches /\ r.pc = "collect" /\ r.list = list /\ r.left = list /\ r.names = search.names
      /\ r.completed = search.completed /\ r.usable = search.usable /\ r.best = search.best
      /\ r.stopped = search.stopped /\ r.cancelled = search.cancelled
  BY <1>2 DEF Searches, SearchPcs, SearchInv, SearchTyped
<1> HIDE DEF r
<1>4. PICK crew \in SUBSET SearchThreads :
        /\ Cardinality(crew) = Min({Cardinality(list), Cardinality(SearchThreads)})
        /\ fetch' = [w \in SearchThreads |-> [NoFetch EXCEPT !.pc = IF w \in crew THEN "take" ELSE "ended"]]
  BY <1>1
<1>5. fetch' \in [SearchThreads -> FetchRecords] BY <1>4 DEF NoFetch, NoIndex, FetchRecords, FetchPcs, Tellings
<1>6. \A w \in SearchThreads : fetch'[w].pc \in {"take", "ended"} /\ (w \in crew => fetch'[w].pc = "take")
  BY <1>4 DEF NoFetch
<1>7. list # {} => crew # {}
  <2>1. Cardinality({}) = 0 BY FS_EmptySet
  <2>2. Cardinality(list) \in Nat /\ (list # {} => Cardinality(list) # 0) BY <1>2, FS_CardinalityType, FS_EmptySet
  <2> DEFINE S == {Cardinality(list), Cardinality(SearchThreads)}
  <2>3. S \subseteq Nat /\ S # {} /\ Cardinality(SearchThreads) # 0 BY <2>2, LyricsSearchAssumption
  <2>4. Min(S) \in S BY <2>3, LeastOf
  <2> QED BY <1>4, <2>1, <2>2, <2>3, <2>4
<1>8. search.completed = {} /\ search.stopped = FALSE BY <1>1 DEF SearchInv, ListSound
<1>9. ListSound'
  <2>1. r.list \subseteq DOMAIN r.names /\ r.names \in ProviderOrders BY <1>1, <1>2, <1>3 DEF SearchInv, ListSound
  <2> QED BY <1>1, <1>3, <1>6, <1>8, <2>1 DEF ListSound, AtARequest
<1>10. NoneForgotten' BY <1>1, <1>3, <1>6, <1>7 DEF NoneForgotten, NobodyAsks
<1>11. BestIs' /\ BestWins' BY <1>1, <1>3 DEF BestIs, BestWins, SearchInv
<1>12. channel' \in Seq(Messages) BY <1>1
<1> QED BY <1>1, <1>3, <1>5, <1>9, <1>10, <1>11, <1>12, SearchOnly

(* The threads.  One that asks goes on asking, or its result is on its way.   *)
LEMMA ThreadStep ==
  ASSUME SearchInv, NEW w \in SearchThreads, NEW f \in FetchRecords, Fetches(w, f),
         fetch[w].pc # "ended", f.pc # "ended",
         fetch[w].pc \in AtARequest => f.pc \in AtARequest /\ f.index = fetch[w].index,
         f.pc \in AtARequest => f.index \in search.list,
         UNCHANGED <<providers, cooling, epoch, forgiven, search, channel>>
  PROVE  SearchInv'
<1>1. fetch' = [fetch EXCEPT ![w] = f] /\ fetch \in [SearchThreads -> FetchRecords]
  BY DEF Fetches, SearchInv, SearchTyped
<1>2. fetch' \in [SearchThreads -> FetchRecords] /\ fetch'[w] = f
      /\ \A v \in SearchThreads \ {w} : fetch'[v] = fetch[v]
  BY <1>1
<1>3. \A n : Asking(n) => Asking(n)' BY <1>2 DEF Asking
<1>4. ListSound' BY <1>2 DEF SearchInv, ListSound, NobodyAsks
<1>5. NoneForgotten' BY <1>2, <1>3 DEF SearchInv, NoneForgotten, NobodyAsks, Reported
<1>6. BestIs' /\ BestWins' BY DEF SearchInv, BestIs, BestWins, Pending
<1>7. search' \in Searches /\ channel' \in Seq(Messages) BY DEF SearchInv, SearchTyped
<1> QED BY <1>2, <1>4, <1>5, <1>6, <1>7, SearchOnly

LEMMA AskInv == ASSUME SearchInv, NEW w \in SearchThreads, Ask(w) PROVE SearchInv'
<1> DEFINE f == fetch[w]
           step == f.step + 1
           attempt == f.attempt + 1
           pc == IF Stopped THEN "send" ELSE "record"
<1>1. f \in FetchRecords /\ f.pc = "ask" /\ f.index \in search.list
      /\ UNCHANGED <<providers, cooling, epoch, forgiven, search, channel>>
  BY DEF Ask, SearchInv, SearchTyped, ListSound, AtARequest
<1>2. step \in Nat /\ attempt \in Nat BY <1>1 DEF FetchRecords
<1>3. PICK reply :
        \/ Fetches(w, [f EXCEPT !.step = step])
        \/ Fetches(w, [f EXCEPT !.step = 1, !.attempt = attempt])
        \/ Fetches(w, [f EXCEPT !.pc = pc, !.result = Told(reply)])
  BY DEF Ask
<1> DEFINE told == Told(reply)
<1>4. told \in Tellings /\ pc \in {"send", "record"} BY DEF Told, Tellings
<1> HIDE DEF f, step, attempt, pc, told
<1>5. CASE Fetches(w, [f EXCEPT !.step = step])
  <2> DEFINE g == [f EXCEPT !.step = step]
  <2>1. g \in FetchRecords /\ g.pc = "ask" /\ g.index = f.index BY <1>1, <1>2 DEF FetchRecords
  <2> HIDE DEF g
  <2> QED BY <1>1, <1>5, <2>1, ThreadStep DEF g, f, AtARequest
<1>6. CASE Fetches(w, [f EXCEPT !.step = 1, !.attempt = attempt])
  <2> DEFINE g == [f EXCEPT !.step = 1, !.attempt = attempt]
  <2>1. g \in FetchRecords /\ g.pc = "ask" /\ g.index = f.index BY <1>1, <1>2 DEF FetchRecords
  <2> QED BY <1>1, <1>6, <2>1, ThreadStep DEF f, AtARequest
<1>7. CASE Fetches(w, [f EXCEPT !.pc = pc, !.result = told])
  <2> DEFINE g == [f EXCEPT !.pc = pc, !.result = told]
  <2>1. g \in FetchRecords /\ g.pc \in {"send", "record"} /\ g.index = f.index
    BY <1>1, <1>4 DEF FetchRecords, FetchPcs
  <2> QED BY <1>1, <1>7, <2>1, ThreadStep DEF f, AtARequest
<1> QED BY <1>3, <1>5, <1>6, <1>7 DEF told

(* A result counts for a provider in the generation of its search only.      *)
LEMMA RecordHealthInv == ASSUME SearchInv, NEW w \in SearchThreads, RecordHealth(w) PROVE SearchInv'
<1> DEFINE f == fetch[w]
           g == [f EXCEPT !.pc = "send"]
           name == search.names[f.index]
<1>1. /\ f \in FetchRecords /\ f.pc = "record" /\ f.index \in search.list /\ Fetches(w, g)
      /\ UNCHANGED <<providers, epoch, forgiven, search, channel>>
  BY DEF RecordHealth, SearchInv, SearchTyped, ListSound, AtARequest
<1>2. g \in FetchRecords /\ g.pc = "send" /\ g.index = f.index BY <1>1 DEF FetchRecords, FetchPcs
<1>3. \/ cooling' = cooling \/ cooling' = [cooling EXCEPT ![name] = -1]
      \/ HealthCounts /\ cooling' = [cooling EXCEPT ![name] = search.epoch]
  BY DEF RecordHealth
<1> HIDE DEF g, name
<1>4. fetch' = [fetch EXCEPT ![w] = g] /\ fetch \in [SearchThreads -> FetchRecords]
  BY <1>1 DEF Fetches, SearchInv, SearchTyped
<1>5. fetch' \in [SearchThreads -> FetchRecords] /\ fetch'[w] = g
      /\ \A v \in SearchThreads \ {w} : fetch'[v] = fetch[v]
  BY <1>2, <1>4
<1>6. \A n : Asking(n) => Asking(n)' BY <1>1, <1>2, <1>5 DEF Asking, AtARequest
<1>7. ListSound' BY <1>1, <1>2, <1>5 DEF SearchInv, ListSound, NobodyAsks, AtARequest
<1>8. NoneForgotten' BY <1>1, <1>2, <1>5, <1>6 DEF SearchInv, NoneForgotten, NobodyAsks, Reported
<1>9. BestIs' /\ BestWins' BY <1>1 DEF SearchInv, BestIs, BestWins, Pending
<1>10. cooling' \in [Names -> Int] /\ HealthOwn'
  <2>1. cooling \in [Names -> Int] /\ epoch \in Nat /\ forgiven \in Nat /\ epoch >= forgiven /\ HealthOwn
        /\ search.epoch \in Nat
    BY DEF SearchInv, SearchTyped, Searches
  <2>2. HealthCounts => search.epoch >= forgiven BY <2>1 DEF HealthCounts
  <2> QED BY <1>1, <1>3, <2>1, <2>2 DEF HealthOwn
<1> QED BY <1>1, <1>5, <1>7, <1>8, <1>9, <1>10 DEF SearchInv, SearchTyped

LEMMA SendInv == ASSUME SearchInv, NEW w \in SearchThreads, Send(w) PROVE SearchInv'
<1> DEFINE index == fetch[w].index
           told == fetch[w].result
           m == [index |-> index, result |-> told]
           f == [NoFetch EXCEPT !.pc = "take"]
<1>1. /\ fetch[w] \in FetchRecords /\ fetch[w].pc = "send" /\ index \in search.list
      /\ channel' = Append(channel, m) /\ Fetches(w, f)
      /\ UNCHANGED <<providers, cooling, epoch, forgiven, search>>
  BY DEF Send, SearchInv, SearchTyped, ListSound, AtARequest
<1>2. f \in FetchRecords /\ f.pc = "take" BY DEF NoFetch, NoIndex, FetchRecords, FetchPcs, Tellings
<1>3. m \in Messages /\ m.index = index BY <1>1 DEF FetchRecords, Messages
<1>4. channel \in Seq(Messages) /\ fetch \in [SearchThreads -> FetchRecords] BY DEF SearchInv, SearchTyped
<1> HIDE DEF f, m
<1>5. /\ channel' \in Seq(Messages) /\ Len(channel') = Len(channel) + 1 /\ Len(channel) \in Nat
      /\ channel'[Len(channel) + 1] = m /\ \A k \in 1 .. Len(channel) : channel'[k] = channel[k]
  BY <1>1, <1>3, <1>4, AppendProperties
<1>6. /\ fetch' \in [SearchThreads -> FetchRecords] /\ fetch'[w] = f
      /\ \A v \in SearchThreads \ {w} : fetch'[v] = fetch[v]
  BY <1>1, <1>2, <1>4 DEF Fetches
<1>7. ListSound'
  <2>1. search.pc \in {"collect", "leaving"} => \A k \in 1 .. Len(channel') : channel'[k].index \in search.list
    <3> SUFFICES ASSUME search.pc \in {"collect", "leaving"}, NEW k \in 1 .. Len(channel')
                 PROVE  channel'[k].index \in search.list
      OBVIOUS
    <3>1. CASE k = Len(channel) + 1 BY <1>1, <1>3, <1>5, <3>1
    <3>2. CASE k \in 1 .. Len(channel) BY <1>5, <3>2 DEF SearchInv, ListSound
    <3> QED BY <1>5, <3>1, <3>2
  <2>2. \A v \in SearchThreads : fetch'[v].pc \in AtARequest => fetch'[v].index \in search.list
    BY <1>2, <1>6 DEF SearchInv, ListSound, AtARequest
  <2>3. search.pc \notin {"idle", "begin"} BY <1>1 DEF SearchInv, ListSound, NobodyAsks
  <2> QED BY <1>1, <2>1, <2>2, <2>3 DEF SearchInv, ListSound
<1>8. NoneForgotten'
  <2>1. \A n : Reported(n) => Reported(n)' BY <1>5 DEF Reported
  <2>2. \A i : i = index => Reported(i)'
    <3>1. Len(channel) + 1 \in 1 .. Len(channel') BY <1>5
    <3> QED BY <1>3, <1>5, <3>1 DEF Reported
  <2>3. \A n : Asking(n) => Asking(n)' \/ n = index BY <1>6 DEF Asking
  <2>4. ~NobodyAsks' BY <1>2, <1>6 DEF NobodyAsks
  <2> QED BY <1>1, <2>1, <2>2, <2>3, <2>4 DEF SearchInv, NoneForgotten
<1>9. BestIs' /\ BestWins' BY <1>1 DEF SearchInv, BestIs, BestWins, Pending
<1>10. search' \in Searches BY <1>1 DEF SearchInv, SearchTyped
<1> QED BY <1>1, <1>5, <1>6, <1>7, <1>8, <1>9, <1>10, SearchOnly

LEMMA TakeCandidateInv == ASSUME SearchInv, NEW w \in SearchThreads, TakeCandidate(w) PROVE SearchInv'
<1> DEFINE n == Min(search.left)
           left == search.left \ {n}
           r == [search EXCEPT !.left = left]
           f == [NoFetch EXCEPT !.pc = "ask", !.index = n, !.step = 1, !.attempt = 1]
<1>1. /\ fetch[w].pc = "take" /\ UNCHANGED <<providers, cooling, epoch, forgiven, channel>>
      /\ fetch \in [SearchThreads -> FetchRecords] /\ search \in Searches /\ channel' \in Seq(Messages)
  BY DEF TakeCandidate, SearchInv, SearchTyped
<1>2. search.pc \notin {"idle", "begin"} BY <1>1 DEF SearchInv, ListSound, NobodyAsks
<1>3. CASE (Stopped \/ search.left = {}) /\ Fetches(w, NoFetch) /\ UNCHANGED search
  <2>1. NoFetch \in FetchRecords /\ NoFetch.pc = "ended" BY DEF NoFetch, NoIndex, FetchRecords, FetchPcs, Tellings
  <2>2. /\ fetch' \in [SearchThreads -> FetchRecords] /\ fetch'[w].pc = "ended"
        /\ \A v \in SearchThreads \ {w} : fetch'[v] = fetch[v]
    BY <1>1, <1>3, <2>1 DEF Fetches
  <2>3. ListSound' BY <1>1, <1>2, <1>3, <2>2 DEF SearchInv, ListSound, AtARequest
  <2>4. NoneForgotten'
    <3>1. \A i : Asking(i) => Asking(i)' BY <1>1, <2>2 DEF Asking, AtARequest
    <3>2. search.pc = "collect" /\ ~search.cancelled => search.left = {}
      BY <1>3 DEF Stopped, SearchInv, ListSound
    <3> QED BY <1>1, <1>3, <3>1, <3>2 DEF SearchInv, NoneForgotten, Reported
  <2>5. BestIs' /\ BestWins' BY <1>3 DEF SearchInv, BestIs, BestWins, Pending
  <2> QED BY <1>1, <1>3, <2>2, <2>3, <2>4, <2>5, SearchOnly
<1>4. CASE ~(Stopped \/ search.left = {}) /\ Fetches(w, f) /\ search' = r
  <2>1. search.left \subseteq Nat /\ search.list \subseteq Nat /\ search.left \subseteq search.list
    BY <1>1 DEF Searches, SearchInv, ListSound
  <2>2. n \in search.left /\ n \in Nat /\ n \in search.list BY <1>4, <2>1, LeastOf
  <2>3. left \subseteq Nat /\ left \subseteq search.list BY <2>1
  <2> HIDE DEF n, left
  <2>4. f \in FetchRecords /\ f.pc = "ask" /\ f.index = n
    BY <2>2 DEF NoFetch, NoIndex, FetchRecords, FetchPcs, Tellings
  <2>5. /\ r \in Searches /\ r.left = left /\ r.pc = search.pc /\ r.names = search.names /\ r.list = search.list
        /\ r.stopped = search.stopped /\ r.cancelled = search.cancelled /\ r.completed = search.completed
        /\ r.best = search.best /\ r.graceOver = search.graceOver /\ r.result = search.result
        /\ r.usable = search.usable
    BY <1>1, <2>3 DEF Searches
  <2> HIDE DEF f, r
  <2>6. /\ fetch' \in [SearchThreads -> FetchRecords] /\ fetch'[w] = f
        /\ \A v \in SearchThreads \ {w} : fetch'[v] = fetch[v]
    BY <1>1, <1>4, <2>4 DEF Fetches
  <2>7. ListSound' BY <1>1, <1>2, <1>4, <2>2, <2>3, <2>4, <2>5, <2>6 DEF SearchInv, ListSound, AtARequest
  <2>8. NoneForgotten'
    <3>1. \A i : Asking(i) => Asking(i)' BY <1>1, <2>6 DEF Asking, AtARequest
    <3>2. \A i : i = n => Asking(i)' BY <2>4, <2>6 DEF Asking, AtARequest
    <3>3. ~NobodyAsks' BY <2>4, <2>6 DEF NobodyAsks
    <3>4. \A i \in search.list \ left : i \in search.list \ search.left \/ i = n BY DEF left
    <3>5. \A i : Reported(i) => Reported(i)' BY <1>1 DEF Reported
    <3> QED BY <1>1, <1>4, <2>5, <3>1, <3>2, <3>3, <3>4, <3>5 DEF SearchInv, NoneForgotten
  <2>9. BestIs' /\ BestWins'
    <3>1. search'.pc = search.pc /\ BestIs' BY <1>4, <2>5 DEF SearchInv, BestIs
    <3>2. BestWins' BY <1>4, <2>5 DEF SearchInv, BestWins, Pending
    <3> QED BY <3>1, <3>2
  <2> QED BY <1>1, <1>4, <2>5, <2>6, <2>7, <2>8, <2>9, SearchOnly
<1> QED BY <1>3, <1>4 DEF TakeCandidate

(* Marks of the collector that leave its results as they are.                *)
LEMMA GraceEndsInv == ASSUME SearchInv, GraceEnds PROVE SearchInv'
<1> DEFINE r == [search EXCEPT !.graceOver = TRUE]
<1>1. /\ search.pc = "collect" /\ search' = r /\ search \in Searches
      /\ UNCHANGED <<providers, cooling, epoch, forgiven, fetch, channel>>
  BY DEF GraceEnds, SearchInv, SearchTyped
<1>2. /\ r \in Searches /\ r.left = search.left /\ r.pc = search.pc /\ r.names = search.names /\ r.list = search.list
      /\ r.stopped = search.stopped /\ r.cancelled = search.cancelled /\ r.completed = search.completed
      /\ r.best = search.best /\ r.usable = search.usable
  BY <1>1 DEF Searches
<1> HIDE DEF r
<1>3. ListSound' /\ BestIs' BY <1>1, <1>2 DEF SearchInv, ListSound, BestIs, NobodyAsks
<1>4. NoneForgotten' BY <1>1, <1>2 DEF SearchInv, NoneForgotten, NobodyAsks, Asking, Reported
<1>5. BestWins' BY <1>1, <1>2 DEF BestWins
<1>6. fetch' \in [SearchThreads -> FetchRecords] /\ channel' \in Seq(Messages) BY <1>1 DEF SearchInv, SearchTyped
<1> QED BY <1>1, <1>2, <1>3, <1>4, <1>5, <1>6, SearchOnly

LEMMA CancelSearchInv == ASSUME SearchInv, CancelSearch PROVE SearchInv'
<1> DEFINE r == [search EXCEPT !.cancelled = TRUE]
<1>1. /\ search.pc = "collect" /\ search' = r /\ search \in Searches
      /\ UNCHANGED <<providers, cooling, epoch, forgiven, fetch, channel>>
  BY DEF CancelSearch, SearchInv, SearchTyped
<1>2. /\ r \in Searches /\ r.left = search.left /\ r.pc = search.pc /\ r.names = search.names /\ r.list = search.list
      /\ r.stopped = search.stopped /\ r.cancelled = TRUE /\ r.completed = search.completed
      /\ r.best = search.best /\ r.usable = search.usable
  BY <1>1 DEF Searches
<1> HIDE DEF r
<1>3. ListSound' /\ BestIs' BY <1>1, <1>2 DEF SearchInv, ListSound, BestIs, NobodyAsks
<1>4. NoneForgotten' BY <1>1, <1>2 DEF SearchInv, NoneForgotten, NobodyAsks, Asking, Reported
<1>5. BestWins' BY <1>1, <1>2 DEF BestWins
<1>6. fetch' \in [SearchThreads -> FetchRecords] /\ channel' \in Seq(Messages) BY <1>1 DEF SearchInv, SearchTyped
<1> QED BY <1>1, <1>2, <1>3, <1>4, <1>5, <1>6, SearchOnly

(* The best answer that came is the first of them.                          *)
LEMMA BestIsFirst ==
  ASSUME SearchInv, search.best # NoIndex
  PROVE  search.usable # {} /\ search.best = Min(search.usable)
<1>1. search.usable \subseteq Nat /\ search.best \in search.usable /\ \A n \in search.usable : search.best <= n
  BY DEF SearchInv, SearchTyped, Searches, BestIs
<1>2. search.usable # {} BY <1>1
<1>3. Min(search.usable) \in search.usable /\ \A y \in search.usable : Min(search.usable) <= y BY <1>1, <1>2, LeastOf
<1>4. search.best <= Min(search.usable) /\ Min(search.usable) <= search.best
      /\ search.best \in Nat /\ Min(search.usable) \in Nat
  BY <1>1, <1>3
<1> QED BY <1>2, <1>4

(* The collector leaves with a result.                                      *)
LEMMA Leaves ==
  ASSUME SearchInv, search.pc = "collect", NEW ending \in Findings, search' = Decides(ending),
         UNCHANGED <<providers, cooling, epoch, forgiven, fetch, channel>>,
         \/ ending = "cancelled"
         \/ ending = "lyrics" /\ search.best # NoIndex /\ (Pending = {} \/ search.graceOver)
         \/ ending # "lyrics" /\ search.best = NoIndex /\ search.completed = search.list
  PROVE  SearchInv'
<1> DEFINE r == [search EXCEPT !.pc = "leaving", !.result = ending, !.stopped = TRUE]
<1>1. search' = r /\ search \in Searches BY DEF Decides, SearchInv, SearchTyped
<1>2. /\ r \in Searches /\ r.left = search.left /\ r.pc = "leaving" /\ r.names = search.names /\ r.list = search.list
      /\ r.stopped = TRUE /\ r.cancelled = search.cancelled /\ r.completed = search.completed
      /\ r.best = search.best /\ r.usable = search.usable /\ r.result = ending /\ r.graceOver = search.graceOver
  BY <1>1 DEF Searches, SearchPcs
<1> HIDE DEF r
<1>3. ListSound' /\ BestIs' /\ NoneForgotten' BY <1>1, <1>2 DEF SearchInv, ListSound, BestIs, NoneForgotten
<1>4. BestWins'
  <2>1. Pending' = Pending BY <1>1, <1>2 DEF Pending
  <2>2. search.usable = {} <=> search.best = NoIndex BY DEF SearchInv, BestIs
  <2>3. search.best # NoIndex => search.best = Min(search.usable) BY BestIsFirst
  <2> QED BY <1>1, <1>2, <2>1, <2>2, <2>3 DEF BestWins
<1>5. fetch' \in [SearchThreads -> FetchRecords] /\ channel' \in Seq(Messages) BY DEF SearchInv, SearchTyped
<1> QED BY <1>1, <1>2, <1>3, <1>4, <1>5, SearchOnly

LEMMA DecideInv == ASSUME SearchInv, Decide PROVE SearchInv'
<1>1. search.pc = "collect" /\ UNCHANGED <<providers, cooling, epoch, forgiven, fetch, channel>> BY DEF Decide
<1>2. CASE search' = Decides("cancelled")
  <2>1. "cancelled" \in Findings BY DEF Findings
  <2> QED BY <1>1, <1>2, <2>1, Leaves
<1>3. CASE Decided /\ search' = Decides("lyrics")
  <2>1. "lyrics" \in Findings BY DEF Findings
  <2> QED BY <1>1, <1>3, <2>1, Leaves DEF Decided
<1> QED BY <1>2, <1>3 DEF Decide

(* Nobody is left who could still send anything: every candidate was asked.   *)
LEMMA ReceiveEndInv == ASSUME SearchInv, ReceiveEnd PROVE SearchInv'
<1> DEFINE ending == IF search.best # NoIndex THEN "lyrics" ELSE IF search.recursive THEN "recursive" ELSE "nothing"
<1>1. /\ search.pc = "collect" /\ ~search.cancelled /\ NobodyAsks /\ channel = <<>> /\ search' = Decides(ending)
      /\ UNCHANGED <<providers, cooling, epoch, forgiven, fetch, channel>>
  BY DEF ReceiveEnd, Disconnected, NobodyAsks
<1>2. search.completed = search.list
  <2>1. search.left = {} BY <1>1 DEF SearchInv, NoneForgotten
  <2>2. \A n : ~Asking(n) /\ ~Reported(n)
    <3>1. 1 .. Len(channel) = {} BY <1>1
    <3> QED BY <1>1, <3>1 DEF Asking, Reported, NobodyAsks, AtARequest
  <2>3. search.list \subseteq search.completed BY <1>1, <2>1, <2>2 DEF SearchInv, NoneForgotten
  <2> QED BY <2>3 DEF SearchInv, ListSound
<1>3. Pending = {} BY <1>2 DEF Pending
<1>4. ending \in Findings BY DEF Findings
<1> QED BY <1>1, <1>2, <1>3, <1>4, Leaves

LEMMA ReceiveResultInv == ASSUME SearchInv, ReceiveResult PROVE SearchInv'
<1> DEFINE m == Head(channel)
           usable == m.result = "ok"
           completed == search.completed \cup {m.index}
           answers == IF usable THEN search.usable \cup {m.index} ELSE search.usable
           recursive == search.recursive \/ m.result = "recursive"
           best == IF usable /\ Better(m.index) THEN m.index ELSE search.best
           grace == IF usable /\ Better(m.index) THEN FALSE ELSE search.graceOver
           r == [search EXCEPT !.completed = completed, !.usable = answers, !.recursive = recursive, !.best = best,
                               !.graceOver = grace]
<1>1. /\ search.pc = "collect" /\ channel # <<>> /\ search' = r /\ channel' = Tail(channel)
      /\ UNCHANGED <<providers, cooling, epoch, forgiven, fetch>>
  BY DEF ReceiveResult
<1>2. search \in Searches /\ channel \in Seq(Messages) /\ fetch' \in [SearchThreads -> FetchRecords]
  BY <1>1 DEF SearchInv, SearchTyped
<1>3. /\ m \in Messages /\ m = channel[1] /\ channel' \in Seq(Messages) /\ Len(channel) \in Nat
      /\ Len(channel) > 0 /\ Len(channel') = Len(channel) - 1
      /\ \A k \in 1 .. Len(channel') : channel'[k] = channel[k + 1]
  BY <1>1, <1>2, HeadTailProperties
<1>4. m.index \in search.list /\ m.index \in Nat /\ m.index # NoIndex
  <2>1. 1 \in 1 .. Len(channel) BY <1>3
  <2>2. m.index \in search.list BY <1>1, <1>3, <2>1 DEF SearchInv, ListSound
  <2>3. search.names \in Seq(ToSet(search.names))
    BY <1>1, LyricsSearchAssumption DEF SearchInv, ListSound
  <2>4. DOMAIN search.names = 1 .. Len(search.names) /\ Len(search.names) \in Nat BY <2>3
  <2> QED BY <2>2, <2>4 DEF SearchInv, ListSound, NoIndex
<1>5. /\ completed \subseteq Nat /\ answers \subseteq Nat /\ best \in Nat /\ recursive \in BOOLEAN /\ grace \in BOOLEAN
  BY <1>2, <1>4 DEF Searches
<1>6. /\ answers \subseteq completed
      /\ answers = {} <=> best = NoIndex
      /\ best # NoIndex => best \in answers /\ \A n \in answers : best <= n
  <2>1. BestIs /\ search.best \in Nat /\ search.usable \subseteq Nat BY <1>2 DEF SearchInv, Searches
  <2>2. CASE ~usable BY <2>1, <2>2 DEF BestIs
  <2>3. CASE usable /\ Better(m.index) BY <1>4, <2>1, <2>3 DEF BestIs, Better
  <2>4. CASE usable /\ ~Better(m.index) BY <1>4, <2>1, <2>4 DEF BestIs, Better
  <2> QED BY <2>2, <2>3, <2>4
<1> HIDE DEF answers, recursive, best, grace
<1>7. completed = search.completed \cup {m.index} OBVIOUS
<1> HIDE DEF completed, m
<1>8. /\ r \in Searches /\ r.left = search.left /\ r.pc = search.pc /\ r.names = search.names /\ r.list = search.list
      /\ r.stopped = search.stopped /\ r.cancelled = search.cancelled /\ r.completed = completed
      /\ r.best = best /\ r.usable = answers
  BY <1>2, <1>5 DEF Searches
<1> HIDE DEF r
<1>9. ListSound'
  <2>1. \A k \in 1 .. Len(channel') : channel'[k].index \in search.list
    <3> SUFFICES ASSUME NEW k \in 1 .. Len(channel') PROVE channel'[k].index \in search.list OBVIOUS
    <3>1. k + 1 \in 1 .. Len(channel) BY <1>3
    <3> QED BY <1>1, <1>3, <3>1 DEF SearchInv, ListSound
  <2> QED BY <1>1, <1>4, <1>7, <1>8, <2>1 DEF SearchInv, ListSound
<1>10. NoneForgotten'
  <2>1. \A n : Asking(n) => Asking(n)' BY <1>1 DEF Asking
  <2>2. \A n : Reported(n) => n \in completed \/ Reported(n)'
    <3> SUFFICES ASSUME NEW n, NEW k \in 1 .. Len(channel), channel[k].index = n PROVE n \in completed \/ Reported(n)'
      BY DEF Reported
    <3>1. CASE k = 1 BY <1>3, <1>7, <3>1
    <3>2. CASE k # 1
      <4>1. k - 1 \in 1 .. Len(channel') /\ (k - 1) + 1 = k BY <1>3, <3>2
      <4>2. channel'[k - 1].index = n BY <1>3, <4>1
      <4> QED BY <4>1, <4>2 DEF Reported
    <3> QED BY <3>1, <3>2
  <2> QED BY <1>1, <1>7, <1>8, <2>1, <2>2 DEF SearchInv, NoneForgotten, NobodyAsks
<1>11. BestIs' /\ BestWins' BY <1>1, <1>6, <1>8 DEF BestIs, BestWins
<1> QED BY <1>1, <1>2, <1>3, <1>8, <1>9, <1>10, <1>11, SearchOnly

LEMMA SearchNextInv == SearchInv /\ [SearchNext]_searchVars => SearchInv'
<1> SUFFICES ASSUME SearchInv, [SearchNext]_searchVars PROVE SearchInv' OBVIOUS
<1>1. CASE UNCHANGED searchVars
  BY <1>1 DEF searchVars, SearchInv, SearchTyped, ListSound, NoneForgotten, BestIs, BestWins, HealthOwn, NobodyAsks,
              Asking, Reported, Pending
<1> QED
  BY <1>1, HealthSteps, StartFlightInv, EndOfSearchInv, BeginSearchInv, AskInv, RecordHealthInv, SendInv,
     TakeCandidateInv, GraceEndsInv, CancelSearchInv, DecideInv, ReceiveEndInv, ReceiveResultInv
  DEF SearchNext

(***************************************************************************)
(* The token of Apple Music.                                               *)
(***************************************************************************)

LookupPcs == {"idle", "token", "page", "script", "found", "search", "denied", "unauthorized", "done", "failed"}
Tokens == Nat \cup {-1}
LookupRecords == [pc: LookupPcs, first: Tokens, token: Tokens]
AppleTyped ==
  /\ appleToken \in Tokens /\ tokenLock \in Lookups \cup {NoLookup} /\ current \in Nat
  /\ lookup \in [Lookups -> LookupRecords]

(* Nobody has a token that the service has not had, and the ones that were   *)
(* denied are old.                                                          *)
TokensBehind ==
  /\ appleToken <= current
  /\ \A l \in Lookups : lookup[l].token <= current /\ lookup[l].first < current
  /\ \A l \in Lookups : lookup[l].pc = "denied" => lookup[l].token < current

(* Whoever reads the player has the lock, and the cache is empty meanwhile.   *)
ReadsPlayer(l) == lookup[l].pc \in {"page", "script", "found"}
LockHeld == \A l \in Lookups : ReadsPlayer(l) => tokenLock = l /\ appleToken = NoToken

(* The cached token, or the one about to be, is newer than what was denied,   *)
(* and nobody has a newer one.                                              *)
Newest(token) == \A l \in Lookups : lookup[l].first < token /\ lookup[l].token <= token
TokenNewest ==
  /\ appleToken # NoToken => Newest(appleToken)
  /\ \A l \in Lookups : lookup[l].pc = "found" => Newest(lookup[l].token)
SecondNewer ==
  \A l \in Lookups : lookup[l].pc \in {"found", "search", "unauthorized"} => lookup[l].token > lookup[l].first

AppleInv == AppleTyped /\ TokensBehind /\ LockHeld /\ TokenNewest /\ SecondNewer /\ TokenKept

LEMMA AppleInitInv == AppleInit => AppleInv
BY AppleAssumption
DEF AppleInit, AppleInv, AppleTyped, LookupRecords, LookupPcs, Tokens, NoneYet, NoToken, TokensBehind, LockHeld,
    ReadsPlayer, TokenNewest, Newest, SecondNewer, TokenKept

LEMMA AppleNextInv == AppleInv /\ [AppleNext]_appleVars => AppleInv'
<1> SUFFICES ASSUME AppleInv, [AppleNext]_appleVars PROVE AppleInv' OBVIOUS
<1> USE AppleAssumption
    DEF AppleInv, AppleTyped, LookupRecords, LookupPcs, Tokens, NoneYet, NoToken, TokensBehind, LockHeld,
        ReadsPlayer, TokenNewest, Newest, SecondNewer, TokenKept, LooksUp
<1>1. ASSUME NEW l \in Lookups, StartLookup(l) PROVE AppleInv' BY <1>1 DEF StartLookup
<1>2. ASSUME NEW l \in Lookups, TakeToken(l) PROVE AppleInv'
  <2>1. CASE appleToken # NoToken
    <3> DEFINE r == [lookup[l] EXCEPT !.pc = "search", !.token = appleToken]
    <3>1. lookup' = [lookup EXCEPT ![l] = r] /\ UNCHANGED <<appleToken, tokenLock, current>> /\ lookup[l].pc = "token"
      BY <1>2, <2>1 DEF TakeToken
    <3>2. r \in LookupRecords /\ r.pc = "search" /\ r.token = appleToken /\ r.first = lookup[l].first OBVIOUS
    <3> HIDE DEF r
    <3> QED BY <2>1, <3>1, <3>2
  <2>2. CASE appleToken = NoToken
    <3> DEFINE r == [lookup[l] EXCEPT !.pc = "page"]
    <3>1. /\ lookup' = [lookup EXCEPT ![l] = r] /\ UNCHANGED <<appleToken, current>> /\ lookup[l].pc = "token"
          /\ tokenLock = NoLookup /\ tokenLock' = l
      BY <1>2, <2>2 DEF TakeToken
    <3>2. r \in LookupRecords /\ r.pc = "page" /\ r.token = lookup[l].token /\ r.first = lookup[l].first OBVIOUS
    <3> HIDE DEF r
    <3> QED BY <2>2, <3>1, <3>2
  <2> QED BY <2>1, <2>2
<1>3. ASSUME NEW l \in Lookups, ReadPage(l) PROVE AppleInv' BY <1>3 DEF ReadPage
<1>4. ASSUME NEW l \in Lookups, ReadScript(l) PROVE AppleInv'
  <2> USE <1>4 DEF ReadScript
  <2>1. AppleTyped' OBVIOUS
  <2>2. TokensBehind' OBVIOUS
  <2>3. LockHeld' OBVIOUS
  <2>4. TokenNewest' OBVIOUS
  <2>5. SecondNewer' OBVIOUS
  <2>6. TokenKept' OBVIOUS
  <2> QED BY <2>1, <2>2, <2>3, <2>4, <2>5, <2>6
<1>5. ASSUME NEW l \in Lookups, KeepToken(l) PROVE AppleInv' BY <1>5 DEF KeepToken
<1>6. ASSUME NEW l \in Lookups, AskCatalogue(l) PROVE AppleInv'
  <2> USE <1>6 DEF AskCatalogue
  <2>1. AppleTyped' OBVIOUS
  <2>2. TokensBehind' BY SMTT(60)
  <2>3. LockHeld' OBVIOUS
  <2>4. TokenNewest' OBVIOUS
  <2>5. SecondNewer' OBVIOUS
  <2>6. TokenKept' OBVIOUS
  <2> QED BY <2>1, <2>2, <2>3, <2>4, <2>5, <2>6
<1>7. ASSUME NEW l \in Lookups, DiscardToken(l) PROVE AppleInv'
  <2> USE <1>7 DEF DiscardToken, AfterDenial
  <2>1. AppleTyped' OBVIOUS
  <2>2. TokensBehind' OBVIOUS
  <2>3. LockHeld' OBVIOUS
  <2>4. TokenNewest' OBVIOUS
  <2>5. SecondNewer' OBVIOUS
  <2>6. TokenKept' OBVIOUS
  <2> QED BY <2>1, <2>2, <2>3, <2>4, <2>5, <2>6
<1>8. ASSUME NEW l \in Lookups, GiveUpLookup(l) PROVE AppleInv' BY <1>8 DEF GiveUpLookup
<1>9. CASE Rotate BY <1>9 DEF Rotate
<1>10. CASE UNCHANGED appleVars BY <1>10 DEF appleVars
<1> QED BY <1>1, <1>2, <1>3, <1>4, <1>5, <1>6, <1>7, <1>8, <1>9, <1>10 DEF AppleNext

(* A search for lyrics returns the best answer it has found and waits no     *)
(* longer than it is worth; a search that began before the providers were     *)
(* made healthy again does not take one of them out; and a token that the      *)
(* service still accepts stays cached, whatever a late 401 says of an older     *)
(* one (LyricsService::search, apple_token).                                 *)
THEOREM LyricsAreFound == SearchSpec /\ AppleSpec => []LyricsFound
<1>1. SearchSpec => []SearchInv BY SearchInitInv, SearchNextInv, PTL DEF SearchSpec
<1>2. AppleSpec => []AppleInv BY AppleInitInv, AppleNextInv, PTL DEF AppleSpec
<1>3. SearchInv /\ AppleInv => LyricsFound BY DEF SearchInv, AppleInv, LyricsFound, LyricsSearchSound
<1> QED BY <1>1, <1>2, <1>3, PTL

-----------------------------------------------------------------------------
(***************************************************************************)
(* The network.  HttpInv is inductive and contains RequestsKeepPolicy, JarInv *)
(* contains CookiesOwn, DnsInv contains ResolvedSound.                      *)
(***************************************************************************)

UnderWay == {"permit", "send", "sent", "error", "stream"}
Pools == [id: Nat, private: BOOLEAN, fallback: BOOLEAN]
Places == Urls \cup {NoUrl}
RequestRecords ==
  [pc: UnderWay \cup {"idle", "failed", "done"}, pool: Pools, generation: Nat, url: Places, hops: Nat, auth: BOOLEAN,
   native: BOOLEAN, permit: Places, private: BOOLEAN, strayed: BOOLEAN]
HttpTyped ==
  /\ netPool \in Pools /\ policyGeneration \in Nat
  /\ connections \subseteq [pool: Nat, private: BOOLEAN]
  /\ request \in [Requests -> RequestRecords]

(* A request knows an older policy, or the one in force; its permit is for   *)
(* the URL it is at.                                                        *)
RequestSound(x) ==
  /\ x.pc \in UnderWay =>
       /\ x.generation <= policyGeneration /\ (x.generation = policyGeneration => x.pool.private = netPool.private)
       /\ x.pool.id <= netPool.id /\ (x.pool.id = netPool.id => x.pool = netPool)
       /\ x.url \in Urls
  /\ x.pc \in {"sent", "stream"} => (x.private => x.pool.private)
  /\ x.auth => ~x.strayed
  /\ x.permit # NoUrl => x.permit = x.url /\ x.pc \in UnderWay \ {"permit"}
RequestsSound == \A r \in Requests : RequestSound(request[r])

(* A pool is known by its number, and keeps private connections only if its   *)
(* policy allows them.                                                      *)
PoolsAgree ==
  \A r, s \in Requests :
    request[r].pc \in UnderWay /\ request[s].pc \in UnderWay /\ request[r].pool.id = request[s].pool.id
      => request[r].pool = request[s].pool
ConnectionSound(c) ==
  /\ c.pool <= netPool.id
  /\ c.private => /\ c.pool = netPool.id => netPool.private
                  /\ \A r \in Requests : request[r].pc \in UnderWay /\ request[r].pool.id = c.pool => request[r].pool.private
ConnectionsSound == \A c \in connections : ConnectionSound(c)

HoldersOf(id, url) == {r \in Requests : request[r].pool.id = id /\ request[r].permit = url}
PermitsBounded == \A id \in Nat, url \in Urls : Cardinality(HoldersOf(id, url)) <= MaxPermits

HttpInv == HttpTyped /\ RequestsSound /\ PoolsAgree /\ ConnectionsSound /\ PermitsBounded

(* The cookies.  JarInv is inductive and contains CookiesOwn.                *)
EntrySound(c) ==
  /\ c.jar = JarKey(c.setBy) /\ (c.hostOnly => c.domain = c.setBy)
  /\ c.sequence \in Nat /\ c.sequence < sequence
HeaderSound(h) ==
  \A n \in DOMAIN h.cookies :
    LET c == h.cookies[n] IN
    /\ JarKey(c.setBy) = JarKey(h.host) /\ (c.hostOnly => c.setBy = h.host)
    /\ c.secure => h.scheme = "https"
    /\ \A m \in n + 1 .. Len(h.cookies) :
         LET d == h.cookies[m] IN
         ~SameKey(c, d) /\ (c.path = d.path => c.sequence < d.sequence) /\ (PathCovers(c.path, d.path) => c.path = d.path)
JarSound ==
  /\ sequence \in Nat
  /\ \A c \in jar : EntrySound(c)
  /\ \A c, d \in jar : c # d => ~SameKey(c, d) /\ c.sequence # d.sequence
JarInv == JarSound /\ IsFiniteSet(jar) /\ CookiesOwn

(* The addresses.  DnsInv is inductive and contains ResolvedSound.           *)
Known(host) == Zones[host].a \cup Zones[host].aaaa
AnyAddress == UNION {Known(h) : h \in ZoneHosts}
SomeHost == CHOOSE h \in ZoneHosts : TRUE
ResolverRecords ==
  [pc: {"idle", "system", "cache", "query", "insert", "done"}, host: ZoneHosts \cup {SomeHost}, private: BOOLEAN,
   upstream: Nat, kind: {"a", "aaaa"}, addresses: SUBSET AnyAddress, outcome: {"", "found", "denied", "failed"}]
ResolverSound(r) ==
  /\ r.pc # "idle" => r.host \in ZoneHosts
  /\ r.pc \in {"system", "cache", "query"} => r.addresses = {}
  /\ r.pc = "insert" => r.addresses \subseteq Known(r.host)
EntriesSound == \A e \in dnsCache : e.host \in ZoneHosts /\ e.addresses \subseteq Known(e.host) /\ (e.addresses = {} => e.host \in broken)
DnsInv ==
  /\ resolver \in [Resolvers -> ResolverRecords]
  /\ \A t \in Resolvers : ResolverSound(resolver[t])
  /\ EntriesSound /\ IsFiniteSet(dnsCache) /\ ResolvedSound

LEMMA NoUrlIsNone == NoUrl \notin Urls
<1>1. NoUrl.scheme = "" BY DEF NoUrl
<1>2. \A url \in Urls : url.scheme \in {"https", "http"} BY DEF Urls
<1>3. "" \notin {"https", "http"} OBVIOUS
<1> QED BY <1>1, <1>2, <1>3

LEMMA HttpInitInv == HttpInit => HttpInv
<1> SUFFICES ASSUME HttpInit PROVE HttpInv OBVIOUS
<1> USE DEF HttpInit
<1>1. NoRequest \in RequestRecords /\ NoRequest.pc = "idle" /\ NoRequest.permit = NoUrl /\ ~NoRequest.auth
  BY DEF NoRequest, RequestRecords, Pools, Places, UnderWay
<1>2. HttpTyped
  <2>1. netPool \in Pools BY DEF Pools
  <2>2. request \in [Requests -> RequestRecords] BY <1>1
  <2>3. policyGeneration \in Nat /\ connections \subseteq [pool: Nat, private: BOOLEAN] OBVIOUS
  <2> QED BY <2>1, <2>2, <2>3 DEF HttpTyped
<1>3. \A r \in Requests : request[r] = NoRequest OBVIOUS
<1>4. RequestsSound /\ PoolsAgree /\ ConnectionsSound
  BY <1>1, <1>3 DEF RequestsSound, RequestSound, PoolsAgree, ConnectionsSound, UnderWay
<1>5. PermitsBounded
  <2> SUFFICES ASSUME NEW id \in Nat, NEW url \in Urls PROVE Cardinality(HoldersOf(id, url)) <= MaxPermits
    BY DEF PermitsBounded
  <2>1. HoldersOf(id, url) = {} BY <1>1, <1>3, NoUrlIsNone DEF HoldersOf
  <2> QED BY <2>1, FS_EmptySet, HttpAssumption
<1> QED BY <1>2, <1>4, <1>5 DEF HttpInv

(* A step of one request.  It keeps its pool or is over, takes at most the    *)
(* permit of its URL, and leaves connections of its pool.                    *)
LEMMA RequestStep ==
  ASSUME HttpInv, NEW r \in Requests, NEW x \in RequestRecords, Updates(r, x), UNCHANGED <<netPool, policyGeneration>>,
         RequestSound(x),
         \/ x.pc \notin UnderWay
         \/ request[r].pc \in UnderWay /\ x.pool = request[r].pool
         \/ x.pool = netPool,
         \/ x.permit \in {NoUrl, request[r].permit}
         \/ Cardinality(HoldersOf(x.pool.id, x.permit)) < MaxPermits,
         x.permit # NoUrl => x.pool = request[r].pool,
         \A c \in connections' \ connections :
            /\ c \in [pool: Nat, private: BOOLEAN]
            /\ request[r].pc \in UnderWay /\ c.pool = request[r].pool.id /\ (c.private => request[r].pool.private)
  PROVE  HttpInv'
<1>1. HttpTyped /\ RequestsSound /\ PoolsAgree /\ ConnectionsSound /\ PermitsBounded BY DEF HttpInv
<1>2. /\ request' \in [Requests -> RequestRecords] /\ request'[r] = x
      /\ \A s \in Requests \ {r} : request'[s] = request[s]
  BY <1>1 DEF Updates, HttpTyped
<1>3. HttpTyped' BY <1>1, <1>2 DEF HttpTyped
<1>4. RequestsSound'
  <2>1. \A s \in Requests : RequestSound(request'[s]) BY <1>1, <1>2 DEF RequestsSound
  <2> QED BY <2>1 DEF RequestsSound, RequestSound
<1>5. PoolsAgree'
  <2>1. \A s \in Requests \ {r} : request[s].pc \in UnderWay /\ x.pc \in UnderWay /\ request[s].pool.id = x.pool.id
          => request[s].pool = x.pool
    BY <1>1 DEF PoolsAgree, RequestsSound, RequestSound
  <2> QED BY <1>1, <1>2, <2>1 DEF PoolsAgree
<1>6. ConnectionsSound'
  <2> SUFFICES ASSUME NEW c \in connections' PROVE ConnectionSound(c)' BY DEF ConnectionsSound
  <2>1. c.pool <= netPool.id /\ (c.private /\ c.pool = netPool.id => netPool.private)
        /\ (c.private => \A s \in Requests : request[s].pc \in UnderWay /\ request[s].pool.id = c.pool
                                              => request[s].pool.private)
    <3>1. CASE c \in connections BY <1>1, <3>1 DEF ConnectionsSound, ConnectionSound
    <3>2. CASE c \notin connections
      <4>1. /\ request[r].pc \in UnderWay /\ c.pool = request[r].pool.id /\ (c.private => request[r].pool.private)
        BY <3>2
      <4>2. RequestSound(request[r]) BY <1>1 DEF RequestsSound
      <4> QED BY <1>1, <4>1, <4>2 DEF PoolsAgree, RequestSound
    <3> QED BY <3>1, <3>2
  <2>2. c.private /\ x.pc \in UnderWay /\ x.pool.id = c.pool => x.pool.private BY <2>1
  <2> QED BY <1>2, <2>1, <2>2 DEF ConnectionSound
<1>7. PermitsBounded'
  <2> SUFFICES ASSUME NEW id \in Nat, NEW url \in Urls PROVE Cardinality(HoldersOf(id, url)') <= MaxPermits
    BY DEF PermitsBounded
  <2>1. url # NoUrl BY NoUrlIsNone
  <2>2. IsFiniteSet(HoldersOf(id, url)) /\ Cardinality(HoldersOf(id, url)) \in Nat
    <3>1. HoldersOf(id, url) \subseteq Requests BY DEF HoldersOf
    <3> QED BY <3>1, FS_Subset, FS_CardinalityType, HttpAssumption
  <2>3. CASE x.permit = url /\ x.pool.id = id /\ r \notin HoldersOf(id, url)
    <3>1. x.permit \notin {NoUrl, request[r].permit} BY <2>1, <2>3 DEF HoldersOf
    <3>2. Cardinality(HoldersOf(id, url)) < MaxPermits BY <2>3, <3>1
    <3>3. HoldersOf(id, url)' = HoldersOf(id, url) \cup {r} BY <1>2, <2>3 DEF HoldersOf
    <3>4. Cardinality(HoldersOf(id, url) \cup {r}) = Cardinality(HoldersOf(id, url)) + 1 BY <2>2, <2>3, FS_AddElement
    <3> QED BY <2>2, <3>2, <3>3, <3>4, HttpAssumption
  <2>4. CASE ~(x.permit = url /\ x.pool.id = id /\ r \notin HoldersOf(id, url))
    <3>1. HoldersOf(id, url)' \subseteq HoldersOf(id, url) BY <1>2, <2>4 DEF HoldersOf
    <3>2. Cardinality(HoldersOf(id, url)') <= Cardinality(HoldersOf(id, url)) BY <2>2, <3>1, FS_Subset
    <3>3. Cardinality(HoldersOf(id, url)') \in Nat BY <2>2, <3>1, FS_Subset, FS_CardinalityType
    <3>4. Cardinality(HoldersOf(id, url)) <= MaxPermits BY <1>1 DEF PermitsBounded
    <3> QED BY <2>2, <3>2, <3>3, <3>4, HttpAssumption
  <2> QED BY <2>3, <2>4
<1> QED BY <1>3, <1>4, <1>5, <1>6, <1>7 DEF HttpInv

(* A request that is over has no permit.                                    *)
LEMMA FailedIs ==
  ASSUME NEW r
  PROVE  /\ Failed(r) \in RequestRecords /\ Failed(r).pc = "failed" /\ Failed(r).permit = NoUrl
         /\ RequestSound(Failed(r))
<1>1. /\ Failed(r) \in RequestRecords /\ Failed(r).pc = "failed" /\ Failed(r).permit = NoUrl /\ ~Failed(r).auth
  BY DEF Failed, NoRequest, RequestRecords, Pools, Places, UnderWay
<1> QED BY <1>1 DEF RequestSound, UnderWay
LEMMA FailsSoundly ==
  ASSUME HttpInv, NEW r \in Requests, Updates(r, Failed(r)), UNCHANGED <<netPool, policyGeneration>>,
         \A c \in connections' \ connections :
            /\ c \in [pool: Nat, private: BOOLEAN]
            /\ request[r].pc \in UnderWay /\ c.pool = request[r].pool.id /\ (c.private => request[r].pool.private)
  PROVE  HttpInv'
<1> DEFINE x == Failed(r)
<1>1. x \in RequestRecords /\ x.pc = "failed" /\ x.permit = NoUrl /\ RequestSound(x) BY FailedIs
<1>2. Updates(r, x) /\ x.pc \notin UnderWay BY <1>1 DEF UnderWay
<1> HIDE DEF x
<1> QED BY <1>1, <1>2, RequestStep

LEMMA RequestIs ==
  ASSUME HttpInv, NEW r \in Requests
  PROVE  request[r] \in RequestRecords /\ RequestSound(request[r])
BY DEF HttpInv, HttpTyped, RequestsSound

LEMMA StartRequestInv == ASSUME HttpInv, NEW r \in Requests, StartRequest(r) PROVE HttpInv'
<1>1. PICK native \in BOOLEAN :
        Updates(r, [NoRequest EXCEPT !.native = native, !.pc = "permit", !.pool = netPool, !.generation = policyGeneration,
                                     !.url = [scheme |-> "https", host |-> "own"], !.auth = TRUE])
  BY DEF StartRequest
<1> DEFINE first == [scheme |-> "https", host |-> "own"]
           x == [NoRequest EXCEPT !.native = native, !.pc = "permit", !.pool = netPool, !.generation = policyGeneration,
                                  !.url = first, !.auth = TRUE]
<1>2. first \in Urls /\ first # NoUrl BY DEF Urls, Hosts, NoUrl
<1>3. netPool \in Pools /\ policyGeneration \in Nat BY DEF HttpInv, HttpTyped
<1> HIDE DEF first
<1>4. /\ x \in RequestRecords /\ x.pc = "permit" /\ x.pool = netPool /\ x.generation = policyGeneration /\ x.url = first
      /\ x.permit = NoUrl /\ x.strayed = FALSE
  BY <1>2, <1>3 DEF NoRequest, RequestRecords, Places, UnderWay
<1>5. Updates(r, x) /\ UNCHANGED <<netPool, policyGeneration, connections>> BY <1>1 DEF StartRequest, first
<1> HIDE DEF x
<1>6. RequestSound(x) BY <1>2, <1>3, <1>4 DEF RequestSound, UnderWay, Pools
<1> QED BY <1>4, <1>5, <1>6, RequestStep

LEMMA AcquirePermitInv == ASSUME HttpInv, NEW r \in Requests, AcquirePermit(r) PROVE HttpInv'
<1> DEFINE old == request[r]
           url == old.url
           x == [old EXCEPT !.pc = "send", !.permit = url]
<1>1. old \in RequestRecords /\ RequestSound(old) /\ old.pc = "permit" BY RequestIs DEF AcquirePermit, At
<1>2. url \in Urls BY <1>1 DEF RequestSound, UnderWay
<1>3. Updates(r, x) /\ UNCHANGED <<netPool, policyGeneration, connections>>
      /\ Cardinality(HoldersOf(old.pool.id, url)) < MaxPermits
  BY DEF AcquirePermit, Holders, HoldersOf
<1> HIDE DEF url
<1>4. /\ x \in RequestRecords /\ x.pc = "send" /\ x.pool = old.pool /\ x.generation = old.generation /\ x.url = old.url
      /\ x.permit = url /\ x.strayed = old.strayed /\ x.auth = old.auth
  BY <1>1, <1>2 DEF RequestRecords, Places, UnderWay
<1> HIDE DEF x
<1>5. RequestSound(x) BY <1>1, <1>4 DEF RequestSound, UnderWay, url
<1>6. request[r].pc \in UnderWay BY <1>1 DEF UnderWay
<1> QED BY <1>1, <1>3, <1>4, <1>5, <1>6, RequestStep

(* A step that leaves pool, policy, URL and permit as they are.              *)
LEMMA StepOn ==
  ASSUME HttpInv, NEW r \in Requests, request[r].pc \in {"send", "sent", "stream"},
         NEW pc \in {"sent", "error", "stream"}, NEW private \in BOOLEAN,
         pc \in {"sent", "stream"} => (private => request[r].pool.private),
         Updates(r, [request[r] EXCEPT !.pc = pc, !.private = private]), UNCHANGED <<netPool, policyGeneration>>,
         \A c \in connections' \ connections :
            /\ c \in [pool: Nat, private: BOOLEAN]
            /\ request[r].pc \in UnderWay /\ c.pool = request[r].pool.id /\ (c.private => request[r].pool.private)
  PROVE  HttpInv'
<1> DEFINE old == request[r]
           x == [old EXCEPT !.pc = pc, !.private = private]
<1>1. old \in RequestRecords /\ RequestSound(old) /\ old.pc \in UnderWay \ {"permit"} BY RequestIs DEF UnderWay
<1>2. /\ x \in RequestRecords /\ x.pc = pc /\ x.pool = old.pool /\ x.generation = old.generation /\ x.url = old.url
      /\ x.permit = old.permit /\ x.strayed = old.strayed /\ x.auth = old.auth /\ x.private = private
  BY <1>1 DEF RequestRecords, UnderWay
<1>3. Updates(r, x) OBVIOUS
<1> HIDE DEF x
<1>4. RequestSound(x) BY <1>1, <1>2 DEF RequestSound, UnderWay
<1>5. x.permit \in {NoUrl, request[r].permit} /\ x.pool = request[r].pool BY <1>2
<1> QED BY <1>1, <1>2, <1>3, <1>4, <1>5, RequestStep

LEMMA SendRequestInv == ASSUME HttpInv, NEW r \in Requests, SendRequest(r) PROVE HttpInv'
<1> DEFINE old == request[r]
<1>1. old \in RequestRecords /\ RequestSound(old) /\ old.pc = "send" BY RequestIs DEF SendRequest, At
<1>2. UNCHANGED <<netPool, policyGeneration>> BY DEF SendRequest
<1>3. ASSUME NEW c \in Idle(r), connections' = connections \ {c},
             Updates(r, [request[r] EXCEPT !.pc = "sent", !.private = c.private])
      PROVE  HttpInv'
  <2>1. c \in connections /\ c.pool = old.pool.id BY <1>3 DEF Idle
  <2>2. c.private \in BOOLEAN /\ (c.private => old.pool.private)
    BY <1>1, <2>1 DEF HttpInv, HttpTyped, ConnectionsSound, ConnectionSound, UnderWay
  <2> QED BY <1>1, <1>2, <1>3, <2>2, StepOn
<1>4. ASSUME NEW private \in BOOLEAN, Permitted(r, private),
             Updates(r, [request[r] EXCEPT !.pc = "sent", !.private = private]), UNCHANGED connections
      PROVE  HttpInv'
  BY <1>1, <1>2, <1>4, StepOn DEF Permitted
<1>5. ASSUME Updates(r, [request[r] EXCEPT !.pc = "error"]), UNCHANGED connections PROVE HttpInv'
  <2> DEFINE private == old.private
  <2>1. private \in BOOLEAN BY <1>1 DEF RequestRecords
  <2>2. [old EXCEPT !.pc = "error"] = [old EXCEPT !.pc = "error", !.private = private] BY <1>1 DEF RequestRecords
  <2> HIDE DEF private
  <2>3. Updates(r, [request[r] EXCEPT !.pc = "error", !.private = private]) BY <1>5, <2>2
  <2> QED BY <1>1, <1>2, <1>5, <2>1, <2>3, StepOn
<1> QED BY <1>3, <1>4, <1>5 DEF SendRequest

(* The connection of an answer is one its pool may keep.                     *)
LEMMA ConnectionLeft ==
  ASSUME HttpInv, NEW r \in Requests, request[r].pc \in {"sent", "stream"},
         connections' \in {connections, connections \cup {ConnectionOf(r)}}
  PROVE  \A c \in connections' \ connections :
            /\ c \in [pool: Nat, private: BOOLEAN]
            /\ request[r].pc \in UnderWay /\ c.pool = request[r].pool.id /\ (c.private => request[r].pool.private)
<1>1. request[r] \in RequestRecords /\ RequestSound(request[r]) BY RequestIs
<1>2. \A c \in connections' \ connections : c = ConnectionOf(r) OBVIOUS
<1>3. /\ ConnectionOf(r).pool = request[r].pool.id /\ ConnectionOf(r).private = request[r].private
      /\ ConnectionOf(r) \in [pool: Nat, private: BOOLEAN]
  BY <1>1 DEF ConnectionOf, RequestRecords, Pools
<1>4. request[r].private => request[r].pool.private BY <1>1 DEF RequestSound
<1>5. request[r].pc \in UnderWay BY DEF UnderWay
<1> QED BY <1>2, <1>3, <1>4, <1>5

LEMMA AnswerStep ==
  ASSUME HttpInv, NEW r \in Requests, request[r].pc = "sent", NEW pc \in {"error", "stream"},
         Updates(r, [request[r] EXCEPT !.pc = pc]), UNCHANGED <<netPool, policyGeneration>>,
         connections' \in {connections, connections \cup {ConnectionOf(r)}}
  PROVE  HttpInv'
<1> DEFINE old == request[r]
           private == old.private
<1>1. old \in RequestRecords /\ RequestSound(old) BY RequestIs
<1>2. private \in BOOLEAN /\ (private => old.pool.private) BY <1>1 DEF RequestRecords, RequestSound
<1>3. [old EXCEPT !.pc = pc] = [old EXCEPT !.pc = pc, !.private = private] BY <1>1 DEF RequestRecords
<1> HIDE DEF private
<1>4. Updates(r, [request[r] EXCEPT !.pc = pc, !.private = private]) BY <1>3
<1> QED BY <1>1, <1>2, <1>4, ConnectionLeft, StepOn

LEMMA FallBackInv == ASSUME HttpInv, NEW r \in Requests, FallBack(r) PROVE HttpInv'
<1> DEFINE old == request[r]
           url == [old.url EXCEPT !.scheme = "http"]
           x == [old EXCEPT !.permit = NoUrl, !.pc = "permit", !.url = url]
<1>1. old \in RequestRecords /\ RequestSound(old) /\ old.pc = "error" BY RequestIs DEF FallBack, At
<1>2. UNCHANGED <<netPool, policyGeneration, connections>> BY DEF FallBack
<1>3. CASE Updates(r, FallenBack(r))
  <2>1. old.url \in Urls BY <1>1 DEF RequestSound, UnderWay
  <2>2. url \in Urls BY <2>1 DEF Urls
  <2> HIDE DEF url
  <2>3. /\ x \in RequestRecords /\ x.pc = "permit" /\ x.pool = old.pool /\ x.generation = old.generation /\ x.url = url
        /\ x.permit = NoUrl /\ x.strayed = old.strayed /\ x.auth = old.auth
    BY <1>1, <2>2 DEF RequestRecords, Places, UnderWay
  <2>4. FallenBack(r) = x BY <1>1, <2>1 DEF FallenBack, Released, url, RequestRecords
  <2> HIDE DEF x
  <2>5. RequestSound(x) BY <1>1, <2>2, <2>3 DEF RequestSound, UnderWay
  <2>6. request[r].pc \in UnderWay BY <1>1 DEF UnderWay
  <2> QED BY <1>2, <1>3, <2>3, <2>4, <2>5, <2>6, RequestStep
<1>4. CASE Updates(r, Failed(r)) BY <1>2, <1>4, FailsSoundly
<1> QED BY <1>3, <1>4 DEF FallBack

LEMMA RedirectInv == ASSUME HttpInv, NEW r \in Requests, Redirect(r) PROVE HttpInv'
<1> DEFINE old == request[r]
<1>1. old \in RequestRecords /\ RequestSound(old) /\ old.pc = "sent" /\ UNCHANGED <<netPool, policyGeneration>>
      /\ connections' \in {connections, connections \cup {ConnectionOf(r)}}
  BY RequestIs DEF Redirect, At
<1>2. CASE Updates(r, Failed(r)) BY <1>1, <1>2, FailsSoundly, ConnectionLeft
<1>3. CASE Updates(r, [request[r] EXCEPT !.pc = "stream"]) BY <1>1, <1>3, AnswerStep
<1>4. ASSUME NEW target \in Urls,
             Updates(r, [Released(r) EXCEPT !.pc = "permit", !.url = target, !.hops = @ + 1,
                                            !.auth = KeepsSensitive(r, target.host),
                                            !.strayed = @ \/ target.host \notin {"own", "sub"}])
      PROVE  HttpInv'
  <2> DEFINE hops == old.hops + 1
             auth == KeepsSensitive(r, target.host)
             strayed == old.strayed \/ target.host \notin {"own", "sub"}
             x == [old EXCEPT !.permit = NoUrl, !.pc = "permit", !.url = target, !.hops = hops, !.auth = auth,
                              !.strayed = strayed]
  <2>1. hops \in Nat /\ auth \in BOOLEAN /\ strayed \in BOOLEAN BY <1>1 DEF RequestRecords, KeepsSensitive
  <2>2. auth => ~strayed BY <1>1 DEF KeepsSensitive, RequestSound
  <2>3. [Released(r) EXCEPT !.pc = "permit", !.url = target, !.hops = @ + 1,
                            !.auth = KeepsSensitive(r, target.host),
                            !.strayed = @ \/ target.host \notin {"own", "sub"}] = x
    BY <1>1 DEF Released, RequestRecords
  <2> HIDE DEF hops, auth, strayed
  <2>4. /\ x \in RequestRecords /\ x.pc = "permit" /\ x.pool = old.pool /\ x.generation = old.generation
        /\ x.url = target /\ x.permit = NoUrl /\ x.strayed = strayed /\ x.auth = auth
    BY <1>1, <2>1 DEF RequestRecords, Places, UnderWay
  <2> HIDE DEF x
  <2>5. RequestSound(x) BY <1>1, <2>2, <2>4 DEF RequestSound, UnderWay
  <2>6. request[r].pc \in UnderWay BY <1>1 DEF UnderWay
  <2> QED BY <1>1, <1>4, <2>3, <2>4, <2>5, <2>6, RequestStep, ConnectionLeft
<1> QED BY <1>2, <1>3, <1>4 DEF Redirect

LEMMA ReadBodyInv == ASSUME HttpInv, NEW r \in Requests, ReadBody(r) PROVE HttpInv'
<1> DEFINE old == request[r]
           pool == old.pool
           known == old.generation
           private == old.private
           x == [NoRequest EXCEPT !.pc = "done", !.pool = pool, !.generation = known, !.private = private]
<1>1. old \in RequestRecords /\ RequestSound(old) /\ old.pc = "stream" /\ UNCHANGED <<netPool, policyGeneration>>
      /\ connections' \in {connections, connections \cup {ConnectionOf(r)}}
  BY RequestIs DEF ReadBody, At
<1>2. CASE Updates(r, Failed(r)) BY <1>1, <1>2, FailsSoundly, ConnectionLeft
<1>3. CASE Updates(r, x)
  <2>1. pool \in Pools /\ known \in Nat /\ private \in BOOLEAN BY <1>1 DEF RequestRecords
  <2> HIDE DEF pool, known, private
  <2>2. x \in RequestRecords /\ x.pc = "done" /\ x.permit = NoUrl /\ x.auth = FALSE
    BY <2>1 DEF NoRequest, RequestRecords, Places, UnderWay
  <2> HIDE DEF x
  <2>3. RequestSound(x) BY <2>2 DEF RequestSound, UnderWay
  <2>4. x.pc \notin UnderWay BY <2>2 DEF UnderWay
  <2> QED BY <1>1, <1>3, <2>2, <2>3, <2>4, RequestStep, ConnectionLeft
<1> QED BY <1>2, <1>3 DEF ReadBody

(* A new policy.                                                            *)
LEMMA PolicyInv ==
  ASSUME HttpInv, SetAllowPrivateNetwork \/ SetCompatibility \/ ResetConnections
  PROVE  HttpInv'
<1>1. /\ netPool \in Pools /\ netPool' \in Pools /\ netPool'.id = netPool.id + 1 /\ policyGeneration' \in Nat
      /\ \/ policyGeneration' = policyGeneration /\ netPool'.private = netPool.private
         \/ policyGeneration' = policyGeneration + 1
      /\ UNCHANGED <<connections, request>>
  <2> DEFINE id == netPool.id + 1
             private == ~netPool.private
             fallback == ~netPool.fallback
  <2>1. netPool \in Pools /\ policyGeneration \in Nat BY DEF HttpInv, HttpTyped
  <2>2. id \in Nat /\ private \in BOOLEAN /\ fallback \in BOOLEAN BY <2>1 DEF Pools
  <2>3. /\ UNCHANGED <<connections, request>>
        /\ \/ netPool' = [netPool EXCEPT !.id = id, !.private = private] /\ policyGeneration' = policyGeneration + 1
           \/ netPool' = [netPool EXCEPT !.id = id, !.fallback = fallback] /\ policyGeneration' = policyGeneration
           \/ netPool' = [netPool EXCEPT !.id = id] /\ policyGeneration' = policyGeneration
    BY DEF SetAllowPrivateNetwork, SetCompatibility, ResetConnections
  <2>4. netPool'.id = id BY <2>1, <2>3 DEF Pools
  <2> HIDE DEF id, private, fallback
  <2>5. netPool' \in Pools /\ policyGeneration' \in Nat
    <3>1. /\ [netPool EXCEPT !.id = id, !.private = private] \in Pools
          /\ [netPool EXCEPT !.id = id, !.fallback = fallback] \in Pools
          /\ [netPool EXCEPT !.id = id] \in Pools
      BY <2>1, <2>2 DEF Pools
    <3>2. netPool' \in Pools BY <2>3, <3>1
    <3>3. policyGeneration + 1 \in Nat BY <2>1
    <3> QED BY <2>1, <2>3, <3>2, <3>3
  <2>6. (policyGeneration' = policyGeneration /\ netPool'.private = netPool.private) \/ policyGeneration' = policyGeneration + 1
    BY <2>1, <2>3 DEF Pools
  <2> QED BY <2>1, <2>3, <2>4, <2>5, <2>6 DEF id
<1>2. HttpTyped' /\ PermitsBounded' /\ PoolsAgree' BY <1>1 DEF HttpInv, HttpTyped, PermitsBounded, HoldersOf, PoolsAgree
<1>3. \A r \in Requests : request[r].pool.id \in Nat /\ request[r].generation \in Nat
  BY DEF HttpInv, HttpTyped, RequestRecords, Pools
<1>4. netPool.id \in Nat /\ policyGeneration \in Nat BY <1>1 DEF Pools, HttpInv, HttpTyped
<1>5. RequestsSound'
  <2> SUFFICES ASSUME NEW r \in Requests PROVE RequestSound(request[r])' BY <1>1 DEF RequestsSound
  <2>1. RequestSound(request[r]) BY DEF HttpInv, RequestsSound
  <2> QED BY <1>1, <1>3, <1>4, <2>1 DEF RequestSound
<1>6. ConnectionsSound'
  <2>1. \A c \in connections : c.pool \in Nat BY DEF HttpInv, HttpTyped
  <2> QED BY <1>1, <1>4, <2>1 DEF HttpInv, ConnectionsSound, ConnectionSound
<1> QED BY <1>2, <1>5, <1>6 DEF HttpInv

LEMMA HttpNextInv == HttpInv /\ [HttpNext]_httpVars => HttpInv'
<1> SUFFICES ASSUME HttpInv, [HttpNext]_httpVars PROVE HttpInv' OBVIOUS
<1>1. CASE UNCHANGED httpVars
  BY <1>1 DEF httpVars, HttpInv, HttpTyped, RequestsSound, RequestSound, PoolsAgree, ConnectionsSound, ConnectionSound,
              PermitsBounded, HoldersOf
<1>2. CASE DropPool
  <2>1. connections' \subseteq connections /\ UNCHANGED <<netPool, policyGeneration, request>> BY <1>2 DEF DropPool
  <2> QED BY <2>1 DEF HttpInv, HttpTyped, RequestsSound, RequestSound, PoolsAgree, ConnectionsSound, ConnectionSound,
                      PermitsBounded, HoldersOf
<1>3. ASSUME NEW r \in Requests, LoseConnection(r) \/ Respond(r) PROVE HttpInv'
  BY <1>3, AnswerStep DEF LoseConnection, Respond, At
<1>4. ASSUME NEW r \in Requests, Abort(r) PROVE HttpInv' BY <1>4, FailsSoundly DEF Abort
<1> QED
  BY <1>1, <1>2, <1>3, <1>4, StartRequestInv, AcquirePermitInv, SendRequestInv, FallBackInv, RedirectInv, ReadBodyInv,
     PolicyInv
  DEF HttpNext

LEMMA HttpInvKeepsPolicy == HttpInv => RequestsKeepPolicy
<1> SUFFICES ASSUME HttpInv PROVE RequestsKeepPolicy OBVIOUS
<1>1. \A r \in Requests : request[r] \in RequestRecords /\ RequestSound(request[r]) BY RequestIs
<1>2. PolicyHeld
  <2>1. \A r \in Requests : Active(r) => request[r].pc \in UnderWay BY <1>1 DEF Active, RequestRecords
  <2> QED BY <1>1, <2>1 DEF PolicyHeld, RequestSound, Permitted, At
<1>3. SensitiveOnce BY <1>1 DEF SensitiveOnce, RequestSound
<1>4. PermitsFlow
  <2> SUFFICES ASSUME NEW r \in Requests
               PROVE  /\ At(r, "permit") => request[r].permit = NoUrl
                      /\ request[r].permit # NoUrl =>
                           /\ request[r].permit = request[r].url
                           /\ Cardinality(Holders(request[r].pool, request[r].permit)) <= MaxPermits
    BY DEF PermitsFlow
  <2>1. At(r, "permit") => request[r].permit = NoUrl BY <1>1 DEF RequestSound, At
  <2>2. ASSUME request[r].permit # NoUrl
        PROVE  /\ request[r].permit = request[r].url
               /\ Cardinality(Holders(request[r].pool, request[r].permit)) <= MaxPermits
    <3>1. request[r].permit = request[r].url /\ request[r].permit \in Urls /\ request[r].pool.id \in Nat
      BY <1>1, <2>2 DEF RequestSound, RequestRecords, Places, Pools
    <3>2. Holders(request[r].pool, request[r].permit) = HoldersOf(request[r].pool.id, request[r].permit)
      BY DEF Holders, HoldersOf
    <3> QED BY <3>1, <3>2 DEF HttpInv, PermitsBounded
  <2> QED BY <2>1, <2>2
<1> QED BY <1>2, <1>3, <1>4 DEF RequestsKeepPolicy

(* What a header has belongs to the site, in order.                         *)
LEMMA HeaderOwn ==
  ASSUME JarSound, NEW S, S \subseteq jar, NEW host, NEW urlPath, NEW scheme, \A c \in S : GoesTo(c, host, urlPath, scheme),
         NEW cookies \in SetToSeqs(S), \A m, n \in DOMAIN cookies : m < n => ~Before(cookies[n], cookies[m]),
         NEW h, h = [host |-> host, scheme |-> scheme, cookies |-> cookies],
         IsFiniteSet(S)
  PROVE  HeaderSound(h)
<1>1. h.host = host /\ h.scheme = scheme /\ h.cookies = cookies OBVIOUS
<1>2. Cardinality(S) \in Nat BY FS_CardinalityType
<1>3. /\ cookies \in [1 .. Cardinality(S) -> S]
      /\ \A i, j \in 1 .. Cardinality(S) : i # j => cookies[i] # cookies[j]
  BY DEF SetToSeqs
<1>4. DOMAIN cookies = 1 .. Cardinality(S) /\ Len(cookies) = Cardinality(S) BY <1>2, <1>3
<1> SUFFICES ASSUME NEW n \in DOMAIN cookies
             PROVE  /\ JarKey(cookies[n].setBy) = JarKey(host) /\ (cookies[n].hostOnly => cookies[n].setBy = host)
                    /\ cookies[n].secure => scheme = "https"
                    /\ \A m \in n + 1 .. Len(cookies) :
                         /\ ~SameKey(cookies[n], cookies[m])
                         /\ cookies[n].path = cookies[m].path => cookies[n].sequence < cookies[m].sequence
                         /\ PathCovers(cookies[n].path, cookies[m].path) => cookies[n].path = cookies[m].path
  BY <1>1 DEF HeaderSound
<1>5. cookies[n] \in S /\ GoesTo(cookies[n], host, urlPath, scheme) /\ EntrySound(cookies[n])
  BY <1>3, <1>4 DEF JarSound
<1>6. /\ JarKey(cookies[n].setBy) = JarKey(host) /\ (cookies[n].hostOnly => cookies[n].setBy = host)
      /\ cookies[n].secure => scheme = "https"
  BY <1>5 DEF GoesTo, EntrySound
<1>7. ASSUME NEW m \in n + 1 .. Len(cookies)
      PROVE  /\ ~SameKey(cookies[n], cookies[m])
             /\ cookies[n].path = cookies[m].path => cookies[n].sequence < cookies[m].sequence
             /\ PathCovers(cookies[n].path, cookies[m].path) => cookies[n].path = cookies[m].path
  <2>1. m \in DOMAIN cookies /\ n < m /\ n # m BY <1>2, <1>4
  <2>2. cookies[m] \in S /\ cookies[m] # cookies[n] /\ ~Before(cookies[m], cookies[n]) BY <1>3, <1>4, <2>1
  <2>3. EntrySound(cookies[m]) /\ ~SameKey(cookies[n], cookies[m]) /\ cookies[n].sequence # cookies[m].sequence
    BY <1>5, <2>2 DEF JarSound
  <2>4. cookies[n].sequence \in Nat /\ cookies[m].sequence \in Nat BY <1>5, <2>3 DEF EntrySound
  <2> QED BY <2>2, <2>3, <2>4 DEF Before
<1> QED BY <1>6, <1>7

LEMMA HeaderIs == CookiesOwn <=> HeaderSound(header)
BY DEF CookiesOwn, HeaderSound

LEMMA NoHeaderOwn == HeaderSound(NoHeader)
<1>1. NoHeader.cookies = <<>> BY DEF NoHeader
<1>2. DOMAIN NoHeader.cookies = {} BY <1>1
<1> QED BY <1>2 DEF HeaderSound

LEMMA JarInitInv == JarInit => JarInv
<1> SUFFICES ASSUME JarInit PROVE JarInv OBVIOUS
<1>1. JarSound /\ IsFiniteSet(jar) BY FS_EmptySet DEF JarInit, JarSound
<1>2. CookiesOwn BY NoHeaderOwn, HeaderIs DEF JarInit
<1> QED BY <1>1, <1>2 DEF JarInv

(* A cookie that is set.                                                    *)
LEMMA StoreInv == ASSUME JarInv, Store PROVE JarInv'
<1>1. PICK host \in CookieHosts, urlPath \in UrlPaths, domain \in DomainAttributes, attribute \in PathAttributes,
        secure \in BOOLEAN, expires \in {jarTime, jarTime + 1, Never} :
       LET entry == Entry(host, urlPath, domain, attribute, secure, expires)
           old == {c \in jar : SameKey(c, entry)}
       IN IF ~MayName(host, domain) THEN UNCHANGED <<jar, sequence>>
          ELSE IF expires <= jarTime THEN jar' = jar \ old /\ UNCHANGED sequence
          ELSE IF old = {} THEN jar' = jar \cup {entry} /\ sequence' = sequence + 1
          ELSE /\ jar' = (jar \ old) \cup {[entry EXCEPT !.sequence = (CHOOSE c \in old : TRUE).sequence]}
               /\ UNCHANGED sequence
  BY DEF Store
<1> DEFINE entry == Entry(host, urlPath, domain, attribute, secure, expires)
           old == {c \in jar : SameKey(c, entry)}
           kept == (CHOOSE c \in old : TRUE).sequence
           again == [entry EXCEPT !.sequence = kept]
<1>2. CookiesOwn'
  <2>1. header' = NoHeader BY DEF Store
  <2> QED BY <2>1, NoHeaderOwn DEF CookiesOwn, HeaderSound
<1>3. JarSound /\ IsFiniteSet(jar) BY DEF JarInv
<1>4. /\ entry.jar = JarKey(entry.setBy) /\ (MayName(host, domain) /\ entry.hostOnly => entry.domain = entry.setBy)
      /\ entry.sequence = sequence
  BY DEF Entry, HostOnly, MayName
<1>5. /\ again.jar = entry.jar /\ again.setBy = entry.setBy /\ again.hostOnly = entry.hostOnly
      /\ again.domain = entry.domain /\ again.path = entry.path /\ again.name = entry.name /\ again.sequence = kept
  BY DEF Entry
<1> HIDE DEF entry, again, kept
<1>6. CASE jar' \subseteq jar /\ UNCHANGED sequence
  <2>1. JarSound' BY <1>3, <1>6 DEF JarSound, EntrySound
  <2>2. IsFiniteSet(jar') BY <1>3, <1>6, FS_Subset
  <2> QED BY <1>2, <2>1, <2>2 DEF JarInv
<1>7. CASE MayName(host, domain) /\ old = {} /\ jar' = jar \cup {entry} /\ sequence' = sequence + 1
  <2>1. \A c \in jar : ~SameKey(c, entry) /\ ~SameKey(entry, c) BY <1>7 DEF SameKey
  <2>2. \A c \in jar : c.sequence \in Nat /\ c.sequence < sequence /\ sequence \in Nat BY <1>3 DEF JarSound, EntrySound
  <2>3. JarSound' BY <1>3, <1>4, <1>7, <2>1, <2>2 DEF JarSound, EntrySound
  <2>4. IsFiniteSet(jar') BY <1>3, <1>7, FS_AddElement
  <2> QED BY <1>2, <2>3, <2>4 DEF JarInv
<1>8. CASE MayName(host, domain) /\ old # {} /\ jar' = (jar \ old) \cup {again} /\ UNCHANGED sequence
  <2>1. PICK c \in old : kept = c.sequence BY <1>8 DEF kept
  <2>2. c \in jar /\ SameKey(c, entry) BY <2>1
  <2>3. \A d \in jar \ old : ~SameKey(d, again) /\ ~SameKey(again, d) BY <1>5 DEF SameKey
  <2>4. \A d \in jar \ old : d.sequence # again.sequence BY <1>3, <1>5, <2>1, <2>2 DEF JarSound
  <2>5. EntrySound(again) BY <1>3, <1>4, <1>5, <1>8, <2>1, <2>2 DEF JarSound, EntrySound
  <2>6. JarSound' BY <1>3, <1>8, <2>3, <2>4, <2>5 DEF JarSound, EntrySound
  <2>7. IsFiniteSet(jar')
    <3>1. IsFiniteSet(jar \ old) BY <1>3, FS_Subset
    <3> QED BY <1>8, <3>1, FS_AddElement
  <2> QED BY <1>2, <2>6, <2>7 DEF JarInv
<1> QED BY <1>1, <1>6, <1>7, <1>8 DEF entry, again, kept

LEMMA JarNextInv == JarInv /\ [JarNext]_jarVars => JarInv'
<1> SUFFICES ASSUME JarInv, [JarNext]_jarVars PROVE JarInv' OBVIOUS
<1>1. CASE UNCHANGED jarVars BY <1>1 DEF jarVars, JarInv, JarSound, EntrySound, CookiesOwn
<1>2. CASE MakeHeader
  <2>1. jar' = Live /\ sequence' = sequence /\ Live \subseteq jar BY <1>2 DEF MakeHeader, Live
  <2>2. PICK host \in CookieHosts, urlPath \in UrlPaths, scheme \in {"http", "https"} :
          \E cookies \in SetToSeqs({c \in Live : GoesTo(c, host, urlPath, scheme)}) :
            /\ \A m, n \in DOMAIN cookies : m < n => ~Before(cookies[n], cookies[m])
            /\ header' = [host |-> host, scheme |-> scheme, cookies |-> cookies]
    BY <1>2 DEF MakeHeader
  <2> DEFINE S == {c \in Live : GoesTo(c, host, urlPath, scheme)}
  <2>3. PICK cookies \in SetToSeqs(S) :
          /\ \A m, n \in DOMAIN cookies : m < n => ~Before(cookies[n], cookies[m])
          /\ header' = [host |-> host, scheme |-> scheme, cookies |-> cookies]
    BY <2>2
  <2>4. S \subseteq jar /\ (\A c \in S : GoesTo(c, host, urlPath, scheme)) BY <2>1
  <2>5. IsFiniteSet(S) /\ IsFiniteSet(Live) BY <2>1, <2>4, FS_Subset DEF JarInv
  <2> HIDE DEF S
  <2>6. CookiesOwn'
    <3>1. JarSound BY DEF JarInv
    <3>2. \A h : h = [host |-> host, scheme |-> scheme, cookies |-> cookies] => HeaderSound(h)
      BY <2>3, <2>4, <2>5, <3>1, HeaderOwn
    <3>3. HeaderSound(header') BY <2>3, <3>2
    <3> QED BY <3>3 DEF CookiesOwn, HeaderSound
  <2>7. JarSound' BY <2>1 DEF JarInv, JarSound, EntrySound
  <2> QED BY <2>1, <2>5, <2>6, <2>7 DEF JarInv
<1>3. CASE ClearJar \/ JarTick
  <2>1. header' = NoHeader /\ jar' \subseteq jar /\ sequence' = sequence BY <1>3 DEF ClearJar, JarTick
  <2>2. JarSound' BY <2>1 DEF JarInv, JarSound, EntrySound
  <2>3. CookiesOwn' BY <2>1, NoHeaderOwn DEF CookiesOwn, HeaderSound
  <2> QED BY <2>1, <2>2, <2>3, FS_Subset DEF JarInv
<1> QED BY <1>1, <1>2, <1>3, StoreInv DEF JarNext

LEMMA DnsInitInv == DnsInit => DnsInv
<1> SUFFICES ASSUME DnsInit PROVE DnsInv OBVIOUS
<1>1. \A t \in Resolvers : resolver[t].pc = "idle" BY DEF DnsInit, NoResolve
<1>2. dnsCache = {} /\ Cardinality(dnsCache) = 0 /\ IsFiniteSet(dnsCache) BY FS_EmptySet DEF DnsInit
<1>3. ResolvedSound BY <1>1, <1>2, DnsAssumption DEF ResolvedSound, Doing
<1>4. (\A t \in Resolvers : ResolverSound(resolver[t])) /\ EntriesSound BY <1>1, <1>2 DEF ResolverSound, EntriesSound
<1>5. NoResolve \in ResolverRecords BY DEF NoResolve, ResolverRecords, SomeHost
<1>6. resolver \in [Resolvers -> ResolverRecords] BY <1>5 DEF DnsInit
<1> QED BY <1>2, <1>3, <1>4, <1>6 DEF DnsInv

(* What a thread may return.                                                *)
Returned(r) ==
  /\ "private" \in r.addresses => r.private
  /\ r.outcome = "found" => r.addresses # {} /\ r.addresses \subseteq Known(r.host)
  /\ r.outcome = "denied" => ~r.private \/ Known(r.host) = {}
  /\ r.outcome = "failed" => r.host \in broken

LEMMA ResolvedIs ==
  ResolvedSound <=> (\A t \in Resolvers : resolver[t].pc = "done" => Returned(resolver[t]))
                    /\ Cardinality(dnsCache) <= MaxCached
BY DEF ResolvedSound, Returned, Known, Doing

(* A step of one thread, with the cache as it is or with a sound new entry.   *)
LEMMA ResolverStep ==
  ASSUME DnsInv, NEW t \in Resolvers, NEW x \in ResolverRecords, Resolves(t, x),
         ResolverSound(x), x.pc = "done" => Returned(x)', broken \subseteq broken',
         EntriesSound', IsFiniteSet(dnsCache'), Cardinality(dnsCache') <= MaxCached
  PROVE  DnsInv'
<1>1. /\ resolver' \in [Resolvers -> ResolverRecords]
      /\ \A s \in Resolvers : resolver'[s] = IF s = t THEN x ELSE resolver[s]
  BY DEF DnsInv, Resolves
<1>2. \A s \in Resolvers : ResolverSound(resolver'[s]) BY <1>1 DEF DnsInv
<1>3. \A s \in Resolvers : resolver[s].pc = "done" => Returned(resolver[s]) BY ResolvedIs DEF DnsInv
<1>4. \A s \in Resolvers : resolver'[s].pc = "done" => Returned(resolver[s])' BY <1>1, <1>3 DEF Returned
<1>5. ResolvedSound' BY <1>4 DEF ResolvedSound, Returned, Known, Doing
<1> QED BY <1>1, <1>2, <1>5 DEF DnsInv, ResolverSound

LEMMA CacheKept ==
  ASSUME DnsInv, UNCHANGED <<dnsCache, broken>>
  PROVE  EntriesSound' /\ IsFiniteSet(dnsCache') /\ Cardinality(dnsCache') <= MaxCached /\ broken \subseteq broken'
BY ResolvedIs DEF DnsInv, EntriesSound

(* Addresses are what the DNS has for the host.                             *)
LEMMA SettledSound ==
  ASSUME DnsInv, NEW t \in Resolvers, resolver[t].pc # "idle", NEW addresses, addresses \subseteq Known(resolver[t].host),
         addresses # {} \/ Known(resolver[t].host) = {}
  PROVE  /\ Settled(t, addresses) \in ResolverRecords /\ ResolverSound(Settled(t, addresses))
         /\ \A y : y = Settled(t, addresses) => Returned(y)'
<1> DEFINE r == resolver[t]
           may == MayUse(t, addresses)
           verdict == IF may = {} THEN "denied" ELSE "found"
           x == [r EXCEPT !.pc = "done", !.addresses = may, !.outcome = verdict]
<1>1. r \in ResolverRecords /\ r.host \in ZoneHosts BY DEF DnsInv, ResolverSound
<1>2. may \subseteq addresses /\ ("private" \in may => r.private) /\ (may = {} => ~r.private \/ addresses = {})
  BY DEF MayUse
<1>3. addresses \subseteq AnyAddress BY <1>1 DEF AnyAddress
<1> HIDE DEF may
<1>4. verdict \in {"found", "denied"} OBVIOUS
<1>5. (verdict = "found" <=> may # {}) OBVIOUS
<1> HIDE DEF verdict
<1>6. /\ x \in ResolverRecords /\ x.pc = "done" /\ x.addresses = may /\ x.outcome = verdict /\ x.host = r.host
      /\ x.private = r.private
  BY <1>1, <1>2, <1>3, <1>4 DEF ResolverRecords
<1>7. Settled(t, addresses) = x BY DEF Settled, may, verdict
<1> HIDE DEF x
<1>8. ResolverSound(x) BY <1>1, <1>6 DEF ResolverSound
<1>9. \A y : y = x => Returned(y)' BY <1>1, <1>2, <1>4, <1>5, <1>6 DEF Returned
<1> QED BY <1>6, <1>7, <1>8, <1>9

LEMMA UnresolvedSound ==
  ASSUME DnsInv, NEW t \in Resolvers, resolver[t].pc # "idle", resolver[t].host \in broken'
  PROVE  /\ Unresolved(t) \in ResolverRecords /\ ResolverSound(Unresolved(t))
         /\ \A y : y = Unresolved(t) => Returned(y)'
<1> DEFINE r == resolver[t]
           x == [r EXCEPT !.pc = "done", !.addresses = {}, !.outcome = "failed"]
<1>1. r \in ResolverRecords /\ r.host \in ZoneHosts BY DEF DnsInv, ResolverSound
<1>2. x \in ResolverRecords /\ x.pc = "done" /\ x.addresses = {} /\ x.outcome = "failed" /\ x.host = r.host
  BY <1>1 DEF ResolverRecords
<1>3. Unresolved(t) = x BY DEF Unresolved
<1> HIDE DEF x
<1>4. ResolverSound(x) BY <1>1, <1>2 DEF ResolverSound
<1>5. r.host \in broken' OBVIOUS
<1> HIDE DEF r
<1>6. \A y : y = x => Returned(y)' BY <1>2, <1>5 DEF Returned
<1> QED BY <1>2, <1>3, <1>4, <1>6

LEMMA LookupsInv ==
  ASSUME DnsInv, NEW t \in Resolvers, StartResolve(t) \/ SystemLookup(t) \/ LookInCache(t) PROVE DnsInv'
<1>1. UNCHANGED <<dnsCache, broken>> BY DEF StartResolve, SystemLookup, LookInCache
<1> DEFINE r == resolver[t]
<1>2. r \in ResolverRecords /\ ResolverSound(r) BY DEF DnsInv
<1>3. CASE StartResolve(t)
  <2>1. PICK host \in ZoneHosts, private \in BOOLEAN :
          Resolves(t, [NoResolve EXCEPT !.pc = "system", !.host = host, !.private = private])
    BY <1>3 DEF StartResolve
  <2> DEFINE x == [NoResolve EXCEPT !.pc = "system", !.host = host, !.private = private]
  <2>2. x \in ResolverRecords /\ x.pc = "system" /\ x.host = host /\ x.addresses = {}
    BY DEF NoResolve, ResolverRecords, SomeHost
  <2>3. Resolves(t, x) BY <2>1
  <2> HIDE DEF x
  <2>4. ResolverSound(x) BY <2>2 DEF ResolverSound
  <2> QED BY <1>1, <2>2, <2>3, <2>4, CacheKept, ResolverStep
<1>4. ASSUME NEW addresses, Resolves(t, Settled(t, addresses)), r.pc # "idle", addresses \subseteq Known(r.host),
             addresses # {} \/ Known(r.host) = {}
      PROVE  DnsInv'
  <2> DEFINE x == Settled(t, addresses)
  <2>1. x \in ResolverRecords /\ ResolverSound(x) /\ (\A y : y = x => Returned(y)') BY <1>4, SettledSound
  <2>2. Resolves(t, x) BY <1>4
  <2>3. \A y : y = x => Returned(y)' BY <2>1
  <2> HIDE DEF x
  <2> QED BY <1>1, <2>1, <2>2, <2>3, CacheKept, ResolverStep
<1>5. CASE SystemLookup(t)
  <2>1. r.pc = "system" BY <1>5 DEF SystemLookup, Doing
  <2>2. CASE Resolves(t, Settled(t, Zones[r.host].a \cup Zones[r.host].aaaa))
    BY <1>4, <2>1, <2>2 DEF Known
  <2>3. CASE Resolves(t, [r EXCEPT !.pc = "cache"])
    <3> DEFINE x == [r EXCEPT !.pc = "cache"]
    <3>1. x \in ResolverRecords /\ x.pc = "cache" /\ x.host = r.host /\ x.addresses = r.addresses
      BY <1>2 DEF ResolverRecords
    <3>2. Resolves(t, x) BY <2>3
    <3> HIDE DEF x
    <3>3. ResolverSound(x) BY <1>2, <2>1, <3>1 DEF ResolverSound
    <3> QED BY <1>1, <3>1, <3>2, <3>3, CacheKept, ResolverStep
  <2> QED BY <1>5, <2>2, <2>3 DEF SystemLookup
<1>6. CASE LookInCache(t)
  <2> DEFINE hit == {e \in dnsCache : e.host = r.host /\ Fresh(e)}
  <2>1. r.pc = "cache" BY <1>6 DEF LookInCache, Doing
  <2>2. CASE hit = {} /\ Resolves(t, [r EXCEPT !.pc = "query", !.upstream = 1])
    <3> DEFINE x == [r EXCEPT !.pc = "query", !.upstream = 1]
    <3>1. x \in ResolverRecords /\ x.pc = "query" /\ x.host = r.host /\ x.addresses = r.addresses
      BY <1>2 DEF ResolverRecords
    <3>2. Resolves(t, x) BY <2>2
    <3> HIDE DEF x
    <3>3. ResolverSound(x) BY <1>2, <2>1, <3>1 DEF ResolverSound
    <3> QED BY <1>1, <3>1, <3>2, <3>3, CacheKept, ResolverStep
  <2>3. CASE hit # {}
    <3> DEFINE e == CHOOSE e \in hit : TRUE
    <3>1. e \in dnsCache /\ e.host = r.host BY <2>3
    <3>2. e.addresses \subseteq Known(r.host) /\ (e.addresses = {} => r.host \in broken)
      BY <3>1 DEF DnsInv, EntriesSound
    <3>3. Resolves(t, IF e.addresses = {} THEN Unresolved(t) ELSE Settled(t, e.addresses))
      BY <1>6, <2>3 DEF LookInCache
    <3> HIDE DEF e
    <3>4. CASE e.addresses # {} BY <1>4, <2>1, <3>2, <3>3, <3>4
    <3>5. CASE e.addresses = {}
      <4> DEFINE x == Unresolved(t)
      <4>1. x \in ResolverRecords /\ ResolverSound(x) /\ (\A y : y = x => Returned(y)')
        BY <1>1, <2>1, <3>2, <3>5, UnresolvedSound
      <4>2. Resolves(t, x) BY <3>3, <3>5
      <4>3. \A y : y = x => Returned(y)' BY <4>1
      <4> HIDE DEF x
      <4> QED BY <1>1, <4>1, <4>2, <4>3, CacheKept, ResolverStep
    <3> QED BY <3>4, <3>5
  <2> QED BY <1>6, <2>2, <2>3 DEF LookInCache
<1> QED BY <1>3, <1>5, <1>6

LEMMA QueryUpstreamInv == ASSUME DnsInv, NEW t \in Resolvers, QueryUpstream(t) PROVE DnsInv'
<1> DEFINE r == resolver[t]
           up == r.upstream + 1
           answer == IF r.kind = "a" THEN Zones[r.host].a ELSE Zones[r.host].aaaa
<1>1. UNCHANGED <<dnsCache, broken>> /\ r.pc = "query" BY DEF QueryUpstream, Doing
<1>2. r \in ResolverRecords /\ ResolverSound(r) /\ r.host \in ZoneHosts /\ r.addresses = {} /\ up \in Nat
  <2>1. r \in ResolverRecords /\ ResolverSound(r) BY DEF DnsInv
  <2>2. r.upstream \in Nat BY <2>1 DEF ResolverRecords
  <2>3. up \in Nat BY <2>2
  <2> QED BY <1>1, <2>1, <2>3 DEF ResolverSound
<1>3. answer \subseteq Known(r.host) /\ answer \subseteq AnyAddress BY <1>2 DEF Known, AnyAddress
<1>4. \/ Resolves(t, [r EXCEPT !.upstream = up, !.kind = "a"])
      \/ Resolves(t, [r EXCEPT !.pc = "insert"])
      \/ Resolves(t, [r EXCEPT !.pc = "insert", !.addresses = answer])
      \/ Resolves(t, [r EXCEPT !.kind = "aaaa"])
  BY DEF QueryUpstream
<1> HIDE DEF up, answer
<1>5. ASSUME NEW x \in ResolverRecords, Resolves(t, x), x.host = r.host,
             \/ x.pc = "query" /\ x.addresses = {}
             \/ x.pc = "insert" /\ x.addresses \subseteq Known(r.host)
      PROVE  DnsInv'
  <2>1. ResolverSound(x) /\ x.pc # "done" BY <1>2, <1>5 DEF ResolverSound
  <2> QED BY <1>1, <1>5, <2>1, CacheKept, ResolverStep
<1>6. CASE Resolves(t, [r EXCEPT !.upstream = up, !.kind = "a"])
  <2> DEFINE x == [r EXCEPT !.upstream = up, !.kind = "a"]
  <2>1. x \in ResolverRecords /\ x.pc = "query" /\ x.host = r.host /\ x.addresses = {}
    BY <1>1, <1>2 DEF ResolverRecords
  <2>2. Resolves(t, x) BY <1>6
  <2> HIDE DEF x
  <2> QED BY <1>5, <2>1, <2>2
<1>7. CASE Resolves(t, [r EXCEPT !.pc = "insert"])
  <2> DEFINE x == [r EXCEPT !.pc = "insert"]
  <2>1. x \in ResolverRecords /\ x.pc = "insert" /\ x.host = r.host /\ x.addresses = {}
    BY <1>1, <1>2 DEF ResolverRecords
  <2>2. Resolves(t, x) BY <1>7
  <2> HIDE DEF x
  <2> QED BY <1>5, <2>1, <2>2
<1>8. CASE Resolves(t, [r EXCEPT !.pc = "insert", !.addresses = answer])
  <2> DEFINE x == [r EXCEPT !.pc = "insert", !.addresses = answer]
  <2>1. x \in ResolverRecords /\ x.pc = "insert" /\ x.host = r.host /\ x.addresses = answer
    BY <1>1, <1>2, <1>3 DEF ResolverRecords
  <2>2. Resolves(t, x) BY <1>8
  <2> HIDE DEF x
  <2> QED BY <1>3, <1>5, <2>1, <2>2
<1>9. CASE Resolves(t, [r EXCEPT !.kind = "aaaa"])
  <2> DEFINE x == [r EXCEPT !.kind = "aaaa"]
  <2>1. x \in ResolverRecords /\ x.pc = "query" /\ x.host = r.host /\ x.addresses = {}
    BY <1>1, <1>2 DEF ResolverRecords
  <2>2. Resolves(t, x) BY <1>9
  <2> HIDE DEF x
  <2> QED BY <1>5, <2>1, <2>2
<1> QED BY <1>4, <1>6, <1>7, <1>8, <1>9

(* The cache makes room for one more.                                        *)
LEMMA InsertAnswerInv == ASSUME DnsInv, NEW t \in Resolvers, InsertAnswer(t) PROVE DnsInv'
<1> DEFINE r == resolver[t]
           others == {e \in Evicted : e.host # r.host}
           expires == dnsTime + IF r.addresses # {} THEN Lifetime ELSE FailureLifetime
           entry == [host |-> r.host, addresses |-> Kept(t), expires |-> expires]
<1>1. /\ r.pc = "insert" /\ r \in ResolverRecords /\ r.host \in ZoneHosts /\ r.addresses \subseteq Known(r.host)
      /\ IsFiniteSet(dnsCache) /\ EntriesSound
  BY DEF InsertAnswer, Doing, DnsInv, ResolverSound
<1>2. /\ dnsCache' = others \cup {entry}
      /\ broken' = IF r.addresses # {} THEN broken ELSE broken \cup {r.host}
      /\ Resolves(t, IF r.addresses # {} THEN Settled(t, r.addresses) ELSE Unresolved(t))
  BY DEF InsertAnswer
<1>3. entry.host = r.host /\ entry.addresses = r.addresses BY DEF Kept
<1> HIDE DEF entry
<1>4. broken \subseteq broken' /\ (r.addresses = {} => r.host \in broken') BY <1>2
<1>5. others \subseteq dnsCache /\ IsFiniteSet(others) /\ Cardinality(others) \in Nat /\ Cardinality(others) < MaxCached
  <2>1. Evicted \subseteq dnsCache /\ IsFiniteSet(Evicted) /\ Cardinality(Evicted) < MaxCached
    <3> DEFINE fresh == {e \in dnsCache : Fresh(e)}
    <3>1. Evicted = IF Cardinality(dnsCache) < MaxCached THEN dnsCache
                    ELSE IF Cardinality(fresh) < MaxCached THEN fresh ELSE {}
      BY DEF Evicted
    <3>2. IsFiniteSet(fresh) /\ fresh \subseteq dnsCache BY <1>1, FS_Subset
    <3>3. IsFiniteSet({}) /\ Cardinality({}) = 0 /\ MaxCached \in Nat \ {0} BY FS_EmptySet, DnsAssumption
    <3> HIDE DEF fresh
    <3> QED BY <1>1, <3>1, <3>2, <3>3
  <2>2. others \subseteq Evicted OBVIOUS
  <2> HIDE DEF others
  <2>3. IsFiniteSet(others) /\ Cardinality(others) <= Cardinality(Evicted) BY <2>1, <2>2, FS_Subset
  <2>4. Cardinality(others) \in Nat /\ Cardinality(Evicted) \in Nat BY <2>1, <2>3, FS_CardinalityType
  <2>5. MaxCached \in Nat BY DnsAssumption
  <2> QED BY <2>1, <2>2, <2>3, <2>4, <2>5
<1> HIDE DEF others
<1>6. IsFiniteSet(dnsCache') /\ Cardinality(dnsCache') <= MaxCached
  <2>1. IsFiniteSet(others \cup {entry}) /\ Cardinality(others \cup {entry}) \in {Cardinality(others), Cardinality(others) + 1}
    BY <1>5, FS_AddElement
  <2>2. MaxCached \in Nat BY DnsAssumption
  <2> QED BY <1>2, <1>5, <2>1, <2>2
<1>7. EntriesSound'
  <2> SUFFICES ASSUME NEW e \in dnsCache'
               PROVE  e.host \in ZoneHosts /\ e.addresses \subseteq Known(e.host) /\ (e.addresses = {} => e.host \in broken')
    BY DEF EntriesSound
  <2>1. CASE e \in others BY <1>1, <1>4, <1>5, <2>1 DEF EntriesSound
  <2>2. CASE e = entry BY <1>1, <1>3, <1>4, <2>2
  <2> QED BY <1>2, <2>1, <2>2
<1>8. CASE r.addresses # {}
  <2> DEFINE x == Settled(t, r.addresses)
  <2>1. x \in ResolverRecords /\ ResolverSound(x) /\ (\A y : y = x => Returned(y)') BY <1>1, <1>8, SettledSound
  <2>2. Resolves(t, x) BY <1>2, <1>8
  <2>3. \A y : y = x => Returned(y)' BY <2>1
  <2> HIDE DEF x
  <2> QED BY <1>4, <1>6, <1>7, <2>1, <2>2, <2>3, ResolverStep
<1>9. CASE r.addresses = {}
  <2> DEFINE x == Unresolved(t)
  <2>1. x \in ResolverRecords /\ ResolverSound(x) /\ (\A y : y = x => Returned(y)') BY <1>1, <1>4, <1>9, UnresolvedSound
  <2>2. Resolves(t, x) BY <1>2, <1>9
  <2>3. \A y : y = x => Returned(y)' BY <2>1
  <2> HIDE DEF x
  <2> QED BY <1>4, <1>6, <1>7, <2>1, <2>2, <2>3, ResolverStep
<1> QED BY <1>8, <1>9

LEMMA DnsNextInv == DnsInv /\ [DnsNext]_dnsVars => DnsInv'
<1> SUFFICES ASSUME DnsInv, [DnsNext]_dnsVars PROVE DnsInv' OBVIOUS
<1>1. CASE UNCHANGED <<dnsCache, resolver, broken>>
  <2>1. ResolvedSound' BY <1>1 DEF DnsInv, ResolvedSound, Doing
  <2> QED BY <1>1, <2>1 DEF DnsInv, ResolverSound, EntriesSound
<1>2. SecondPasses \/ UNCHANGED dnsVars => UNCHANGED <<dnsCache, resolver, broken>> BY DEF SecondPasses, dnsVars
<1> QED BY <1>1, <1>2, LookupsInv, QueryUpstreamInv, InsertAnswerInv DEF DnsNext

(* Redirects, retries and changes of the user's policy leave every request    *)
(* with one permit at most, the headers of its site and the policy in force;    *)
(* a request carries cookies of its own site only, in their order; and a pool   *)
(* gets only addresses it may use, whoever looked them up (execute_stream,      *)
(* CookieJar::header, Dns::resolve).                                         *)
THEOREM NetworkIsSound == HttpSpec /\ JarSpec /\ DnsSpec => []NetworkSound
<1>1. HttpSpec => []HttpInv BY HttpInitInv, HttpNextInv, PTL DEF HttpSpec
<1>2. JarSpec => []JarInv BY JarInitInv, JarNextInv, PTL DEF JarSpec
<1>3. DnsSpec => []DnsInv BY DnsInitInv, DnsNextInv, PTL DEF DnsSpec
<1>4. HttpInv /\ JarInv /\ DnsInv => NetworkSound BY HttpInvKeepsPolicy DEF JarInv, DnsInv, NetworkSound
<1> QED BY <1>1, <1>2, <1>3, <1>4, PTL
=============================================================================
