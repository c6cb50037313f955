------------------------------ MODULE Resolver ------------------------------
(* Where a track is available, and how often resolvers may be asked.         *)
EXTENDS Naturals, FiniteSets, Sequences

-----------------------------------------------------------------------------
(***************************************************************************)
(* Where a track is available (providers/src/resolver): the service with    *)
(* the cache (availability/cache.rs) in front of the one that only shares   *)
(* resolutions (service.rs), which runs the chain of resolvers (client.rs). *)
(* Both share a running lookup between the callers of one key: a flight has *)
(* a worker, which stops when nobody waits for it.  The worker of an        *)
(* availability flight is itself a caller of the resolver service.          *)
(***************************************************************************)

CONSTANTS
  LookupCallers,
  Regions,        \* one track is looked up; the region is part of the key
  Flights,        \* the Flight objects, reused once nobody refers to them
  MaxActive,      \* limit of running flights of a service (64)
  MaxClears       \* bound on the times the cache is cleared

ASSUME LookupAssumption == MaxActive \in Nat \ {0} /\ MaxClears \in Nat

Layers == {"avail", "raw"}
NoFlight == "none"

VARIABLES
  region,       \* State::region
  cleared,      \* State::generation
  available,    \* State::cache: region -> the result and the generation it is of
  flight,       \* the flights
  flights,      \* State::flights: layer -> the flights that can be joined
  asking,       \* caller -> its place, its flight, and whether it is cancelled
  service       \* "open", "closing" (closed is set), "idle" (avail drained) or "closed"

lookupVars == <<region, cleared, available, flight, flights, asking, service>>

NoEntry == [result |-> "none", born |-> 0]
Quiet == [pc |-> "idle", f |-> NoFlight, cancelled |-> FALSE]
Grounded == [layer |-> "avail", key |-> "none", gen |-> 0, state |-> "done",
             result |-> "none", sub |-> NoFlight, links |-> "none"]

LookupInit ==
  /\ region \in Regions /\ cleared = 0
  /\ available = [r \in Regions |-> NoEntry]
  /\ flight = [f \in Flights |-> Grounded]
  /\ flights = [l \in Layers |-> {}]
  /\ asking = [t \in LookupCallers |-> Quiet]
  /\ service = "open"

Waiters(f) == {t \in LookupCallers : asking[t].pc = "waiting" /\ asking[t].f = f}
              \cup {g \in Flights : flight[g].state = "waiting" /\ flight[g].sub = f}
Referenced(f) == Waiters(f) # {} \/ \E t \in LookupCallers : asking[t].f = f
Running(l) == {f \in Flights : flight[f].layer = l /\ flight[f].state # "done"}
(* A joiner holds the state lock between finding a flight and counting      *)
(* itself in.                                                               *)
LockFree == \A t \in LookupCallers : asking[t].pc # "joining"

Put(t, a) == asking' = [asking EXCEPT ![t] = a]
Joinable(l, r) == {f \in flights[l] : flight[f].key = r /\ (l = "avail" => flight[f].gen = cleared)}

(* A new flight takes the place of one that nobody waits for.               *)
Launch(l, r, f) ==
  /\ ~Referenced(f) /\ f \notin Running("avail") \cup Running("raw")
  /\ \A k \in Layers : f \notin flights[k]
  /\ Cardinality(Running(l)) < MaxActive
  /\ flights' = [flights EXCEPT ![l] = (@ \ Joinable(l, r)) \cup {f}]

Launched(l, r) == [Grounded EXCEPT !.layer = l, !.key = r, !.state = "run",
                            !.gen = IF l = "avail" THEN cleared ELSE 0]
-----------------------------------------------------------------------------
(* lookup(), under the state lock: the cache, a flight to join, or a new    *)
(* one unless there are too many.  Flights without waiters are not joined.  *)
Lookup(t) ==
  LET entry == available[region]
      open == {f \in Joinable("avail", region) : Waiters(f) # {}}
  IN
  /\ asking[t].pc = "idle" /\ service = "open" /\ LockFree
  /\ \/ entry.result # "none" /\ UNCHANGED <<available, flight, flights, asking>>
     \/ \* nothing is cached, or it has expired
        /\ available' = [available EXCEPT ![region] = NoEntry]
        /\ \/ \E f \in open : /\ Put(t, [Quiet EXCEPT !.pc = "joining", !.f = f])
                              /\ UNCHANGED <<flight, flights>>
           \/ /\ open = {}
              /\ \E f \in Flights :
                   /\ Launch("avail", region, f)
                   /\ flight' = [flight EXCEPT ![f] = Launched("avail", region)]
                   /\ Put(t, [Quiet EXCEPT !.pc = "waiting", !.f = f])
           \/ /\ open = {} /\ Cardinality(Running("avail")) >= MaxActive
              /\ UNCHANGED <<flight, flights, asking>>
  /\ UNCHANGED <<region, cleared, service>>

Join(t) ==
  /\ asking[t].pc = "joining"
  /\ Put(t, [asking[t] EXCEPT !.pc = "waiting"])
  /\ UNCHANGED <<region, cleared, available, flight, flights, service>>

(* A flight that has ended is forgotten with its last reference.            *)
Kept(t) == [f \in Flights |->
  IF f = asking[t].f /\ flight[f].state = "done" /\ Waiters(f) = {t}
       /\ \A u \in LookupCallers \ {t} : asking[u].f # f
  THEN Grounded ELSE flight[f]]

(* The wait: closed and cancelled are checked before the result is used.    *)
Answered(t) ==
  /\ asking[t].pc = "waiting"
  /\ service # "open" \/ asking[t].cancelled \/ flight[asking[t].f].state = "done"
  /\ Put(t, Quiet)
  /\ flight' = Kept(t)
  /\ UNCHANGED <<region, cleared, available, flights, service>>

CancelLookup(t) ==
  /\ asking[t].pc = "waiting" /\ ~asking[t].cancelled
  /\ Put(t, [asking[t] EXCEPT !.cancelled = TRUE])
  /\ UNCHANGED <<region, cleared, available, flight, flights, service>>
-----------------------------------------------------------------------------
(* The worker's check: the service has closed, or nobody waits any more.    *)
Abandoned(f) == service # "open" \/ Waiters(f) = {}

(* fetch() of an availability flight: the ISRC lookup, which may fail, then *)
(* the resolver service is asked like any caller asks it.                   *)
Fetch(f) ==
  LET open == {g \in Joinable("raw", flight[f].key) : Waiters(g) # {}}
      Ask(g) == [flight[f] EXCEPT !.state = "waiting", !.sub = g]
      Fails(e) == [flight[f] EXCEPT !.state = "check", !.result = e]
  IN
  /\ flight[f].layer = "avail" /\ flight[f].state = "run"
  /\ \/ flight' = [flight EXCEPT ![f] = Fails("failed")] /\ UNCHANGED flights
     \/ Abandoned(f) /\ flight' = [flight EXCEPT ![f] = Fails("cancelled")] /\ UNCHANGED flights
     \/ /\ ~Abandoned(f)
        /\ \/ \E g \in open : flight' = [flight EXCEPT ![f] = Ask(g)] /\ UNCHANGED flights
           \/ /\ open = {}
              /\ \E g \in Flights \ {f} :
                   /\ Launch("raw", flight[f].key, g)
                   /\ flight' = [flight EXCEPT ![f] = Ask(g), ![g] = Launched("raw", flight[f].key)]
           \/ /\ open = {} /\ Cardinality(Running("raw")) >= MaxActive
              /\ flight' = [flight EXCEPT ![f] = Fails("busy")] /\ UNCHANGED flights
  /\ UNCHANGED <<region, cleared, available, asking, service>>

(* Its wait for the resolver service ends.                                  *)
Fetched(f) ==
  LET g == flight[f].sub IN
  /\ flight[f].state = "waiting"
  /\ \/ /\ Abandoned(f)
        /\ flight' = [flight EXCEPT ![f].state = "check", ![f].result = "cancelled", ![f].sub = NoFlight]
     \/ /\ ~Abandoned(f) /\ flight[g].state = "done"
        /\ flight' = [flight EXCEPT ![f].state = "check", ![f].result = flight[g].result,
                                    ![f].sub = NoFlight]
  /\ UNCHANGED <<region, cleared, available, flights, asking, service>>

(* A resolver is asked, and finds links.                                    *)
Links(f) == flight[f].links = "none" /\ flight' = [flight EXCEPT ![f].links = "some"]

(* resolve_chain(): the resolvers in order, until the links are useful.  An *)
(* error of one is noted, the chain's own deadline ends the search but      *)
(* keeps what was found; a cancelled request and a changed network policy   *)
(* end it.                                                                  *)
Resolve(f) ==
  LET x == flight[f]
      Ends(r) == flight' = [flight EXCEPT ![f] = [x EXCEPT !.state = "check", !.result = r]]
  IN
  /\ x.layer = "raw" /\ x.state = "run"
  /\ \/ Links(f)
     \/ ~Abandoned(f) /\ x.links # "none" /\ Ends("ok")
     \/ ~Abandoned(f) /\ x.links = "none" /\ \E r \in {"ok", "failed"} : Ends(r)  \* the source may be a link
     \/ Abandoned(f) /\ Ends("cancelled")
     \/ Ends("policy")
  /\ UNCHANGED <<region, cleared, available, flights, asking, service>>

(* The worker checks once more before it publishes.                         *)
Recheck(f) ==
  /\ flight[f].state = "check"
  /\ flight' = [flight EXCEPT ![f].state = "finish", ![f].links = "none",
                              ![f].result = IF Abandoned(f) THEN "cancelled" ELSE @]
  /\ UNCHANGED <<region, cleared, available, flights, asking, service>>

(* Mutation: the generation of the flight is not compared. *)
CacheLate(x) == x.layer = "avail" /\ service = "open" /\ x.result \in {"ok", "failed"}

(* The result is cached if its generation is current and it says something  *)
(* about the track.                                                         *)
Cache(x) ==
  x.layer = "avail" /\ service = "open" /\ x.gen = cleared /\ x.result \in {"ok", "failed"}

Land(f) == IF Waiters(f) = {} /\ \A t \in LookupCallers : asking[t].f # f THEN Grounded
           ELSE [flight[f] EXCEPT !.state = "done", !.links = "none"]

(* finish(): what is worth it is cached, the flight leaves the table, and   *)
(* the waiters get the result.                                              *)
Finish(f) ==
  LET x == flight[f] IN
  /\ x.state = "finish" /\ (x.layer = "avail" => LockFree)
  /\ available' = IF Cache(x) THEN [available EXCEPT ![x.key] = [result |-> x.result, born |-> x.gen]]
                  ELSE available
  /\ flight' = [flight EXCEPT ![f] = Land(f)]
  /\ flights' = [flights EXCEPT ![x.layer] = @ \ {f}]
  /\ UNCHANGED <<region, cleared, asking, service>>
-----------------------------------------------------------------------------
SetRegion(r) ==
  /\ service = "open" /\ LockFree /\ r # region
  /\ region' = r
  /\ UNCHANGED <<cleared, available, flight, flights, asking, service>>

ClearCache ==
  /\ service = "open" /\ LockFree /\ cleared < MaxClears
  /\ cleared' = cleared + 1
  /\ available' = [r \in Regions |-> NoEntry]
  /\ UNCHANGED <<region, flight, flights, asking, service>>

(* shutdown(): the flag, the running availability flights, the cache, and   *)
(* then the resolver service.                                               *)
CloseLookups ==
  /\ service = "open"
  /\ service' = "closing"
  /\ UNCHANGED <<region, cleared, available, flight, flights, asking>>

DrainLookups ==
  /\ \/ service = "closing" /\ Running("avail") = {} /\ LockFree /\ service' = "idle"
     \/ service = "idle" /\ Running("raw") = {} /\ service' = "closed"
  /\ available' = [r \in Regions |-> NoEntry]
  /\ UNCHANGED <<region, cleared, flight, flights, asking>>

LookupNext ==
  \/ \E t \in LookupCallers :
       Lookup(t) \/ Join(t) \/ Answered(t) \/ CancelLookup(t)
  \/ \E f \in Flights : Fetch(f) \/ Fetched(f) \/ Resolve(f) \/ Recheck(f) \/ Finish(f)
  \/ \E r \in Regions : SetRegion(r)
  \/ ClearCache \/ CloseLookups \/ DrainLookups

-----------------------------------------------------------------------------
(* What is cached was looked up after the cache was last cleared, and says  *)
(* something about the track: an error of the sharing itself (cancelled,    *)
(* closed, too many flights), whichever service it comes from, never is.    *)
CachedIsCurrent ==
  \A r \in Regions : available[r].result # "none" =>
    available[r].born = cleared /\ available[r].result \in {"ok", "failed"}

-----------------------------------------------------------------------------
(***************************************************************************)
(* The limit on the requests to a resolver (providers/src/resolver/rate.rs):*)
(* a thread waits until fewer than `maximum` requests were let through in   *)
(* the window that ends now.                                                *)
(***************************************************************************)

CONSTANTS
  Requesters,   \* threads
  Maximum, Window,
  MaxClock,     \* bound on the time
  MaxLate       \* bound on how late a thread wakes up

ASSUME RateAssumption == Maximum \in Nat \ {0} /\ Window \in Nat \ {0} /\ MaxClock \in Nat /\ MaxLate \in Nat

VARIABLES
  clock,
  timestamps,   \* RateLimiter::timestamps
  limited,      \* thread -> "idle", or the time its sleep ends
  admitted      \* the times at which requests were let through

rateVars == <<clock, timestamps, limited, admitted>>

RateInit ==
  /\ clock = 0 /\ timestamps = <<>> /\ admitted = <<>>
  /\ limited = [t \in Requesters |-> MaxClock + MaxLate + 1]   \* does not wait

(* Mutation: a timestamp is forgotten a tick too early. *)
ExpiredEarly(stamp) == clock - stamp + 1 >= Window
(* The timestamp has left the window.                                       *)
Expired(stamp) == clock - stamp >= Window

(* The timestamps popped from the front: those that have left the window,   *)
(* up to the first that has not.                                            *)
Popped(n) ==
  /\ \A i \in 1 .. n : Expired(timestamps[i])
  /\ n < Len(timestamps) => ~Expired(timestamps[n + 1])

Asleep(t) == limited[t] <= MaxClock + MaxLate

(* wait(), once around, under the lock: let through, or asleep until the    *)
(* first timestamp leaves the window, or for the polling interval.          *)
WaitTurn(t) ==
  /\ Asleep(t) => limited[t] <= clock
  /\ \E n \in 0 .. Len(timestamps) :
       LET recent == SubSeq(timestamps, n + 1, Len(timestamps)) IN
       /\ Popped(n)
       /\ IF Len(recent) < Maximum
          THEN /\ timestamps' = Append(recent, clock)
               /\ admitted' = Append(admitted, clock)
               /\ limited' = [limited EXCEPT ![t] = MaxClock + MaxLate + 1]
          ELSE /\ timestamps' = recent
               /\ \E late \in 1 .. MaxLate : limited' = [limited EXCEPT ![t] = clock + late]
               /\ UNCHANGED admitted
  /\ UNCHANGED clock

GiveUpTurn(t) ==
  /\ Asleep(t)
  /\ limited' = [limited EXCEPT ![t] = MaxClock + MaxLate + 1]
  /\ UNCHANGED <<clock, timestamps, admitted>>

RateTick == clock < MaxClock /\ clock' = clock + 1 /\ UNCHANGED <<timestamps, limited, admitted>>

RateNext == RateTick \/ \E t \in Requesters : WaitTurn(t) \/ GiveUpTurn(t)
RateSpec == RateInit /\ [][RateNext]_rateVars
-----------------------------------------------------------------------------
(* However the threads interleave, no window of that length sees more       *)
(* requests than the maximum.                                               *)
WindowRespected ==
  \A i \in 1 .. Len(admitted) :
    i + Maximum <= Len(admitted) => admitted[i + Maximum] - admitted[i] >= Window
=============================================================================
