--------------------------- MODULE LyricsService ---------------------------
(***************************************************************************)
(* The lyrics service of rust_backend/crates/providers/src/lyrics/service.rs *)
(*                                                                          *)
(* Callers that ask for the same lyrics share one flight, a worker thread   *)
(* that searches the providers.  A flight whose callers have all left is    *)
(* abandoned: its worker stops at its next check.  A change of settings     *)
(* starts a new generation and empties the cache; workers of an older       *)
(* generation run on, but must not write to the cache again.  Shutdown      *)
(* closes the service and waits for the workers.                            *)
(*                                                                          *)
(* One mutex guards the state, but the number of waiters of a flight is an  *)
(* atomic counter: a caller leaves, and a worker checks, without the lock.  *)
(* fetch() reads the counter and increments it later, under the lock, in    *)
(* two steps (the caller is "joining" in between and holds the lock).       *)
(*                                                                          *)
(* Lyrics are reduced to their cache key and the generation they were       *)
(* fetched for; a search is one step whose outcome the providers choose.    *)
(***************************************************************************)
EXTENDS Naturals, FiniteSets

CONSTANTS
  Keys,           \* cache keys
  Callers,        \* threads in fetch()
  Flights,        \* Arc<Flight> values
  NoFlight,       \* an absent entry of State::flights
  MaxFlights,     \* MAX_FLIGHTS
  MaxNegative,    \* MAX_NEGATIVE
  MaxGeneration   \* bound on the changes of settings

ASSUME LyricsAssumption ==
  /\ IsFiniteSet(Callers) /\ IsFiniteSet(Flights) /\ IsFiniteSet(Keys)
  /\ NoFlight \notin Flights
  /\ MaxFlights \in Nat /\ MaxNegative \in Nat \ {0} /\ MaxGeneration \in Nat

VARIABLES
  closed,       \* Inner::closed
  stopped,      \* shutdown() has returned
  generation,   \* State::generation
  negative,     \* keys with a negative entry that has not expired
  cache,        \* {<<key, generation fetched for>>}  Inner::cache
  flights,      \* [Generations \X Keys -> Flights or NoFlight]  State::flights
  active,       \* State::active
  worker,       \* [Flights -> WorkerState]  the worker of a flight
  flightKey,    \* [Flights -> Generations \X Keys]
  waiters,      \* [Flights -> Nat]  Flight::waiters
  outcome,      \* [Flights -> Outcome]  the result the worker has in hand
  result,       \* [Flights -> Outcome or "none"]  Flight::result
  caller,       \* [Callers -> CallerState]
  joined,       \* [Callers -> Flights or NoFlight]
  cancelled     \* [Callers -> BOOLEAN]  the check of the caller fails

serviceVars == <<generation, negative, cache, flights, active>>
workerVars == <<worker, flightKey, outcome, result>>
callerVars == <<caller, joined, cancelled>>
vars == <<closed, stopped, serviceVars, workerVars, waiters, callerVars>>

Generations == 0 .. MaxGeneration
FlightKeys == Generations \X Keys

(* Err(Cancelled) is "abandoned" when a check of the worker itself failed,  *)
(* and "cancelled" when a provider reported it.                             *)
Outcome == {"ok", "error", "recursive", "cancelled", "abandoned"}

WorkerState ==
  {"free", "new", "start", "lookup", "search", "fallback", "store", "finish", "done"}

CallerState == {"idle", "joining", "starting", "spawn", "waiting"}

Init ==
  /\ closed = FALSE /\ stopped = FALSE
  /\ generation = 0 /\ negative = {} /\ cache = {} /\ active = 0
  /\ flights = [k \in FlightKeys |-> NoFlight]
  /\ worker = [f \in Flights |-> "free"]
  /\ flightKey \in [Flights -> {k \in FlightKeys : k[1] = 0}]
  /\ waiters = [f \in Flights |-> 0]
  /\ outcome = [f \in Flights |-> "ok"]
  /\ result = [f \in Flights |-> "none"]
  /\ caller = [c \in Callers |-> "idle"]
  /\ joined = [c \in Callers |-> NoFlight]
  /\ cancelled = [c \in Callers |-> FALSE]

(* No caller is between its lookup and its fetch_add.                       *)
LockFree == \A c \in Callers : caller[c] \notin {"joining", "starting"}

(* The check of a worker fails.                                             *)
Aborted(f) == closed \/ waiters[f] = 0

(* The flight a lookup finds, if it still has waiters.                      *)
Existing(key) ==
  IF flights[key] # NoFlight /\ waiters[flights[key]] > 0 THEN flights[key] ELSE NoFlight

(* The last reference to a flight is gone.                                  *)
Unused(f) ==
  \/ worker[f] = "free"
  \/ worker[f] = "done" /\ \A c \in Callers : joined[c] # f

-----------------------------------------------------------------------------
(* fetch(), the part under the lock.  It returns at once, and changes       *)
(* nothing, if the service is closed, the key has a negative entry, a new   *)
(* flight would be one too many, or the call graph refuses a recursive call *)
(* (see CallGraph); those callers stay idle.                                *)

(* A flight with waiters is joined.                                         *)
LookupJoin(c, k) ==
  LET f == Existing(<<generation, k>>) IN
    /\ LockFree /\ caller[c] = "idle" /\ ~closed
    /\ k \notin negative
    /\ f # NoFlight
    /\ caller' = [caller EXCEPT ![c] = "joining"]
    /\ joined' = [joined EXCEPT ![c] = f]
    /\ UNCHANGED <<closed, stopped, serviceVars, workerVars, waiters, cancelled>>

(* A new flight is inserted, over an abandoned one if there is one.         *)
NewFlight(c, k, f, count) ==
  /\ caller' = [caller EXCEPT ![c] = "starting"]
  /\ joined' = [joined EXCEPT ![c] = f]
  /\ flights' = [flights EXCEPT ![<<generation, k>>] = f]
  /\ active' = active + 1
  /\ worker' = [worker EXCEPT ![f] = "new"]
  /\ flightKey' = [flightKey EXCEPT ![f] = <<generation, k>>]
  /\ waiters' = [waiters EXCEPT ![f] = count]
  /\ result' = [result EXCEPT ![f] = "none"]
  /\ UNCHANGED <<closed, stopped, generation, negative, cache, outcome, cancelled>>

(* Mutations: the service is only found closed before the lock is taken;    *)
(* the flight is created with its first waiter counted already.             *)
LookupStartClosed(c, k, f) ==
  /\ LockFree /\ caller[c] = "idle"
  /\ k \notin negative
  /\ Existing(<<generation, k>>) = NoFlight
  /\ active < MaxFlights
  /\ Unused(f)
  /\ NewFlight(c, k, f, 0)
LookupStartCounted(c, k, f) ==
  /\ LockFree /\ caller[c] = "idle" /\ ~closed
  /\ k \notin negative
  /\ Existing(<<generation, k>>) = NoFlight
  /\ active < MaxFlights
  /\ Unused(f)
  /\ NewFlight(c, k, f, 1)

(* No flight has waiters: a new one is started.                             *)
LookupStart(c, k, f) ==
  /\ LockFree /\ caller[c] = "idle" /\ ~closed
  /\ k \notin negative
  /\ Existing(<<generation, k>>) = NoFlight
  /\ active < MaxFlights
  /\ Unused(f)
  /\ NewFlight(c, k, f, 0)

(* flight.waiters.fetch_add(1), after which the lock is released.           *)
Join(c) ==
  /\ caller[c] \in {"joining", "starting"}
  /\ caller' = [caller EXCEPT ![c] = IF @ = "starting" THEN "spawn" ELSE "waiting"]
  /\ waiters' = [waiters EXCEPT ![joined[c]] = @ + 1]
  /\ UNCHANGED <<closed, stopped, serviceVars, workerVars, joined, cancelled>>

(* Inner::finish() with result r: the negative cache is updated if the      *)
(* settings are still those of the flight, the result is published, and     *)
(* the entry is removed unless a newer flight has taken its place.          *)
NegativeAfter(f, r) ==
  LET k == flightKey[f][2] IN
    IF flightKey[f][1] # generation \/ closed THEN {negative}
    ELSE IF r = "error"
      THEN {N \cup {k} : N \in {M \in SUBSET negative :
              IF Cardinality(negative) < MaxNegative
              THEN M = negative
              ELSE Cardinality(M) = MaxNegative - 1}}
      ELSE IF r = "ok" THEN {negative \ {k}} ELSE {negative}

FinishWith(f, r) ==
  /\ LockFree
  /\ negative' \in NegativeAfter(f, r)
  /\ result' = [result EXCEPT ![f] = r]
  /\ flights' = [flights EXCEPT ![flightKey[f]] = IF @ = f THEN NoFlight ELSE @]
  /\ active' = active - 1
  /\ worker' = [worker EXCEPT ![f] = "done"]
  /\ UNCHANGED <<generation, cache>>

(* The first caller starts the worker; if that fails it finishes the flight *)
(* itself.                                                                  *)
Spawn(c) ==
  /\ caller[c] = "spawn"
  /\ caller' = [caller EXCEPT ![c] = "waiting"]
  /\ worker' = [worker EXCEPT ![joined[c]] = "start"]
  /\ UNCHANGED <<closed, stopped, serviceVars, flightKey, outcome, result, waiters, joined,
                 cancelled>>

(* Mutation: a worker that cannot be started is only logged.                *)
SpawnFailsUnfinished(c) ==
  /\ caller[c] = "spawn"
  /\ LockFree
  /\ caller' = [caller EXCEPT ![c] = "waiting"]
  /\ UNCHANGED <<closed, stopped, serviceVars, workerVars, waiters, joined, cancelled>>

SpawnFails(c) ==
  /\ caller[c] = "spawn"
  /\ FinishWith(joined[c], "error")
  /\ caller' = [caller EXCEPT ![c] = "waiting"]
  /\ UNCHANGED <<closed, stopped, flightKey, outcome, waiters, joined, cancelled>>

(* The caller's request is cancelled.                                       *)
Cancel(c) ==
  /\ caller[c] # "idle"
  /\ ~cancelled[c]
  /\ cancelled' = [cancelled EXCEPT ![c] = TRUE]
  /\ UNCHANGED <<closed, stopped, serviceVars, workerVars, waiters, caller, joined>>

(* fetch() returns, and the Waiter is dropped, which takes no lock.         *)
Return(c) ==
  /\ caller' = [caller EXCEPT ![c] = "idle"]
  /\ joined' = [joined EXCEPT ![c] = NoFlight]
  /\ cancelled' = [cancelled EXCEPT ![c] = FALSE]
  /\ waiters' = [waiters EXCEPT ![joined[c]] = @ - 1]
  /\ UNCHANGED <<closed, stopped, serviceVars, workerVars>>

(* The wait loop: a failed check comes before the result.                   *)
Leave(c) ==
  /\ caller[c] = "waiting"
  /\ closed \/ cancelled[c]
  /\ Return(c)

Receive(c) ==
  /\ caller[c] = "waiting"
  /\ ~closed /\ ~cancelled[c]
  /\ result[joined[c]] # "none"
  /\ Return(c)

-----------------------------------------------------------------------------
(* fetch_uncached() on the worker of f.                                     *)

(* The worker goes on to state w with outcome r.                            *)
Go(f, w, r) ==
  /\ worker' = [worker EXCEPT ![f] = w]
  /\ outcome' = [outcome EXCEPT ![f] = r]
  /\ UNCHANGED <<closed, stopped, generation, negative, flights, active, flightKey, result,
                 waiters, callerVars>>

WorkerCheck(f) ==
  /\ worker[f] = "start"
  /\ IF Aborted(f) THEN Go(f, "finish", "abandoned") ELSE Go(f, "lookup", "ok")
  /\ UNCHANGED cache

Cached(f) == \E e \in cache : e[1] = flightKey[f][2]

(* An instrumental track needs no search; a cached entry is the answer or,  *)
(* when extensions come first, what is left if the search fails.            *)
WorkerLookup(f) ==
  /\ worker[f] = "lookup"
  /\ \/ Go(f, "store", "ok")
     \/ Cached(f) /\ Go(f, "finish", "ok")
     \/ Cached(f) /\ Go(f, "fallback", "ok")
     \/ Go(f, "search", "ok")
  /\ UNCHANGED cache

(* A check inside the search or after it fails.                             *)
WorkerAborts(f) ==
  /\ worker[f] \in {"search", "fallback"}
  /\ Aborted(f)
  /\ Go(f, "finish", "abandoned")
  /\ UNCHANGED cache

WorkerSearched(f) ==
  /\ worker[f] \in {"search", "fallback"}
  /\ ~Aborted(f)
  /\ \/ Go(f, "finish", "cancelled")
     \/ Go(f, "store", "ok")
     \/ worker[f] = "fallback" /\ Go(f, "finish", "ok")
     \/ worker[f] = "search" /\ \E r \in {"recursive", "error"} : Go(f, "finish", r)
  /\ UNCHANGED cache

(* store() checks again under the lock and drops a result of an older       *)
(* generation.                                                              *)
WorkerStore(f) ==
  LET g == flightKey[f][1]  k == flightKey[f][2] IN
    /\ worker[f] = "store"
    /\ LockFree
    /\ \/ Aborted(f) /\ Go(f, "finish", "abandoned") /\ UNCHANGED cache
       \/ /\ ~Aborted(f)
          /\ Go(f, "finish", "ok")
          /\ cache' = IF g = generation
                      THEN {e \in cache : e[1] # k} \cup {<<k, g>>}
                      ELSE cache

WorkerFinish(f) ==
  /\ worker[f] = "finish"
  /\ FinishWith(f, outcome[f])
  /\ outcome' = [outcome EXCEPT ![f] = "ok"]
  /\ UNCHANGED <<closed, stopped, flightKey, waiters, callerVars>>

-----------------------------------------------------------------------------
(* set_providers(), set_options() with new settings, and clear_cache().     *)
Reconfigure ==
  /\ LockFree /\ ~closed
  /\ generation < MaxGeneration
  /\ generation' = generation + 1
  /\ cache' = {}
  /\ UNCHANGED <<closed, stopped, negative, flights, active, workerVars, waiters, callerVars>>

(* drop_memory() forgets the negative entries too.                          *)
DropMemory ==
  /\ LockFree /\ ~closed
  /\ generation < MaxGeneration
  /\ generation' = generation + 1
  /\ cache' = {} /\ negative' = {}
  /\ UNCHANGED <<closed, stopped, flights, active, workerVars, waiters, callerVars>>

(* Time passes: a negative entry or a cached one expires.                   *)
Expire ==
  /\ \/ \E k \in negative : negative' = negative \ {k} /\ UNCHANGED cache
     \/ \E e \in cache : cache' = cache \ {e} /\ UNCHANGED negative
  /\ UNCHANGED <<closed, stopped, generation, flights, active, workerVars, waiters, callerVars>>

(* shutdown(): the flag is set without the lock; then it waits for the      *)
(* workers and flushes the cache.                                           *)
Close ==
  /\ closed' = TRUE
  /\ UNCHANGED <<stopped, serviceVars, workerVars, waiters, callerVars>>

ShutdownReturns ==
  /\ closed
  /\ LockFree
  /\ active = 0
  /\ stopped' = TRUE
  /\ UNCHANGED <<closed, serviceVars, workerVars, waiters, callerVars>>

WorkerStep(f) ==
  \/ WorkerCheck(f) \/ WorkerLookup(f) \/ WorkerAborts(f) \/ WorkerSearched(f)
  \/ WorkerStore(f) \/ WorkerFinish(f)

CallerStep(c) == Join(c) \/ Spawn(c) \/ SpawnFails(c) \/ Leave(c) \/ Receive(c)

Next ==
  \/ \E c \in Callers :
       \/ Cancel(c) \/ CallerStep(c)
       \/ \E k \in Keys :
            \/ LookupJoin(c, k)
            \/ \E f \in Flights : LookupStart(c, k, f)
  \/ \E f \in Flights : WorkerStep(f)
  \/ Reconfigure \/ DropMemory \/ Expire \/ Close \/ ShutdownReturns

Spec == Init /\ [][Next]_vars

(* Threads run, providers return ("must observe `check' during blocking     *)
(* work"), and a worker that wants the lock gets it in the end although     *)
(* callers take it again and again.                                         *)
FairSpec ==
  /\ Spec
  /\ \A c \in Callers : WF_vars(CallerStep(c))
  /\ \A f \in Flights : SF_vars(WorkerStep(f))
  /\ WF_vars(ShutdownReturns)

-----------------------------------------------------------------------------
(* State, flights and callers have their types; the negative cache and the  *)
(* flights stay within their limits.                                        *)
TypeOK ==
  /\ closed \in BOOLEAN /\ stopped \in BOOLEAN
  /\ generation \in Generations
  /\ negative \subseteq Keys /\ Cardinality(negative) <= MaxNegative
  /\ cache \subseteq Keys \X Generations
  /\ flights \in [FlightKeys -> Flights \cup {NoFlight}]
  /\ active \in 0 .. MaxFlights
  /\ worker \in [Flights -> WorkerState]
  /\ flightKey \in [Flights -> FlightKeys]
  /\ waiters \in [Flights -> Nat]
  /\ outcome \in [Flights -> Outcome]
  /\ result \in [Flights -> Outcome \cup {"none"}]
  /\ caller \in [Callers -> CallerState]
  /\ joined \in [Callers -> Flights \cup {NoFlight}]
  /\ cancelled \in [Callers -> BOOLEAN]

Running(f) == worker[f] \notin {"free", "done"}

(* active is the number of flights without a result, so that the limit is a *)
(* limit and shutdown() waits for the last worker.                          *)
ActiveExact == active = Cardinality({f \in Flights : Running(f)})

(* A flight's waiters are the callers that wait for it: it is abandoned     *)
(* when, and only when, the last of them has left.                          *)
WaitersExact ==
  \A f \in Flights :
    waiters[f] =
      Cardinality({c \in Callers : joined[c] = f /\ caller[c] \in {"spawn", "waiting"}})

(* What every way a flight can end, or fail to begin, has to keep: no place *)
(* and no waiter is counted twice or forgotten.                             *)
CountsExact == TypeOK /\ ActiveExact /\ WaitersExact

(* Callers share work: of the flights for one key and one generation at     *)
(* most one has both a worker at work and somebody waiting for it, the one  *)
(* a further caller would find.                                             *)
SharedWork ==
  \A f \in Flights : Running(f) /\ waiters[f] > 0 => flights[flightKey[f]] = f

(* What the cache holds was fetched for the current settings: late results  *)
(* of an older generation do not come back after set_options(),             *)
(* clear_cache() or drop_memory().                                          *)
NoStaleCache == \A e \in cache : e[2] = generation

(* When shutdown() has returned no worker is left, and none starts again.   *)
ShutdownQuiescent == stopped => \A f \in Flights : ~Running(f)

(* Every fetch() returns, also during shutdown.                             *)
FetchReturns == \A c \in Callers : caller[c] # "idle" ~> caller[c] = "idle"

(* shutdown() returns.                                                      *)
ShutdownEnds == closed ~> stopped

(* Nobody waits for ever for a flight (fetch, run, shutdown).                *)
FlightsEnd == FetchReturns /\ ShutdownEnds

(* Callers that share a flight share work that is done once, and what it     *)
(* found is not cached after the options it was found with have gone         *)
(* (fetch, set_options, clear_cache).                                        *)
FlightsSafe == CountsExact /\ SharedWork /\ NoStaleCache
=============================================================================
