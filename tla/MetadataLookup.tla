--------------------------- MODULE MetadataLookup ---------------------------
(***************************************************************************)
(* Shared requests for metadata of one key, in two shapes.  Deezer          *)
(* (providers/src/deezer): the first caller makes the request itself, the   *)
(* others wait for it and try again if it was cancelled.  MusicBrainz       *)
(* (providers/src/musicbrainz.rs): a worker makes the request as long as    *)
(* somebody waits.  Both try a request three times.                         *)
(***************************************************************************)
EXTENDS Naturals, FiniteSets

CONSTANTS
  Askers,      \* threads
  Workers,     \* flights of MusicBrainz, each with its worker
  MaxWorkers   \* MAX_FLIGHTS

ASSUME MetadataAssumption == MaxWorkers \in Nat \ {0} /\ "none" \notin Askers \cup Workers

Attempts == 3

VARIABLES
  kept,      \* Deezer's cache has the value
  owner,     \* Deezer's flight: the caller that makes the request, or "none"
  asker,     \* thread -> its place, the flight it waits for, its result
  found,     \* MusicBrainz' cache: "none", "ok" or "failed"
  current,   \* its flight in the table, or "none"
  worker,    \* flight -> [state, attempt, result]
  mbOpen     \* the client is not closed

metaVars == <<kept, owner, asker, found, current, worker, mbOpen>>

Silent == [pc |-> "idle", f |-> "none", attempt |-> 0, result |-> "none", cancelled |-> FALSE]
Spare == [state |-> "idle", attempt |-> 0, result |-> "none"]

MetaInit ==
  /\ kept = FALSE /\ owner = "none"
  /\ asker = [t \in Askers |-> Silent]
  /\ found = "none" /\ current = "none" /\ mbOpen = TRUE
  /\ worker = [w \in Workers |-> Spare]

Say(t, a) == asker' = [asker EXCEPT ![t] = a]
deezerRest == <<found, current, worker, mbOpen>>
mbRest == <<kept, owner>>

CancelAsker(t) ==
  /\ asker[t].pc # "idle" /\ ~asker[t].cancelled
  /\ Say(t, [asker[t] EXCEPT !.cancelled = TRUE])
  /\ UNCHANGED <<kept, owner, found, current, worker, mbOpen>>
-----------------------------------------------------------------------------
(* coalesced(), each time around: the cache, then, under the lock of the    *)
(* flights, the flight to wait for or a new one.                            *)
Ask(t) ==
  /\ asker[t].pc \in {"idle", "again"}
  /\ Say(t, IF asker[t].cancelled \/ kept THEN Silent ELSE [asker[t] EXCEPT !.pc = "claim"])
  /\ UNCHANGED <<kept, owner, deezerRest>>

Claim(t) ==
  /\ asker[t].pc = "claim"
  /\ \/ owner # "none" /\ Say(t, [asker[t] EXCEPT !.pc = "shared", !.f = owner]) /\ UNCHANGED owner
     \/ owner = "none" /\ owner' = t /\ Say(t, [asker[t] EXCEPT !.pc = "own", !.f = t])
     \/ owner = "none" /\ Say(t, Silent) /\ UNCHANGED owner   \* too many flights of other keys
  /\ UNCHANGED <<kept, deezerRest>>

(* The owner looks into the cache once more.                                *)
Own(t) ==
  /\ asker[t].pc = "own"
  /\ Say(t, [asker[t] EXCEPT !.pc = IF kept THEN "store" ELSE "request",
                              !.result = IF kept THEN "ok" ELSE "none"])
  /\ UNCHANGED <<kept, owner, deezerRest>>

(* get_json(): transport errors, 429 and 5xx are retried after a delay.     *)
GetJson(t) ==
  LET a == asker[t] Ends(r) == Say(t, [a EXCEPT !.pc = "store", !.result = r]) IN
  /\ a.pc = "request"
  /\ \/ a.cancelled /\ Ends("cancelled")
     \/ ~a.cancelled /\ a.attempt < Attempts - 1 /\ Say(t, [a EXCEPT !.attempt = @ + 1])
     \/ ~a.cancelled /\ \E r \in {"ok", "failed"} : Ends(r)
  /\ UNCHANGED <<kept, owner, deezerRest>>

(* The value is stored unless the owner was cancelled, then the flight      *)
(* leaves the table, and then its waiters get the result.                   *)
StoreValue(t) ==
  LET r == IF asker[t].result = "ok" /\ asker[t].cancelled THEN "cancelled" ELSE asker[t].result IN
  /\ asker[t].pc = "store"
  /\ kept' = (kept \/ r = "ok")
  /\ Say(t, [asker[t] EXCEPT !.pc = "stored", !.result = r])
  /\ UNCHANGED <<owner, deezerRest>>

Unclaim(t) ==
  /\ asker[t].pc = "stored"
  /\ owner' = "none"
  /\ Say(t, [asker[t] EXCEPT !.pc = "answer"])
  /\ UNCHANGED <<kept, deezerRest>>

Tell(t) ==
  /\ asker[t].pc = "answer"
  /\ asker' = [u \in Askers |->
       IF u = t THEN Silent
       ELSE IF asker[u].pc = "shared" /\ asker[u].f = t /\ asker[u].result = "none"
            THEN [asker[u] EXCEPT !.result = asker[t].result] ELSE asker[u]]
  /\ UNCHANGED <<kept, owner, deezerRest>>

Hear(r) == r # "cancelled"

(* A waiter of a flight that was cancelled starts again.                    *)
Told(t) ==
  LET a == asker[t] IN
  /\ a.pc = "shared"
  /\ \/ a.cancelled /\ Say(t, Silent)
     \/ /\ ~a.cancelled /\ a.result # "none"
        /\ Say(t, IF Hear(a.result) THEN [Silent EXCEPT !.result = a.result, !.pc = "end"]
                  ELSE [Silent EXCEPT !.pc = "again"])
  /\ UNCHANGED <<kept, owner, deezerRest>>

(* cleanup(): the value has expired or is among the oldest.                 *)
Cleanup ==
  /\ kept /\ kept' = FALSE
  /\ UNCHANGED <<owner, asker, deezerRest>>
-----------------------------------------------------------------------------
Waiting(w) == {t \in Askers : asker[t].pc = "mb" /\ asker[t].f = w}
Busy == {w \in Workers : worker[w].state \in {"run", "check", "finish"}}

(* fetch_update: a waiter adds itself unless there is none.                 *)
Joins(w) == Waiting(w) # {}

(* snapshot(): the cache, the flight, or a new one with its worker.         *)
Snapshot(t) ==
  /\ asker[t].pc = "idle" /\ mbOpen
  /\ \/ found # "none" /\ UNCHANGED <<asker, found, current, worker>>
     \/ /\ current # "none" /\ Joins(current)
        /\ Say(t, [Silent EXCEPT !.pc = "mb", !.f = current])
        /\ found' = "none" /\ UNCHANGED <<current, worker>>
     \/ /\ current = "none" \/ ~Joins(current)
        /\ Cardinality(Busy) < MaxWorkers
        /\ \E w \in Workers :
             /\ worker[w].state = "idle"
             /\ \/ \* the worker is started, or cannot be
                   /\ current' = w /\ worker' = [worker EXCEPT ![w] = [Spare EXCEPT !.state = "run"]]
                \/ /\ current' = "none"
                   /\ worker' = [worker EXCEPT ![w] = [Spare EXCEPT !.state = "done", !.result = "failed"]]
             /\ Say(t, [Silent EXCEPT !.pc = "mb", !.f = w])
        /\ found' = "none"
  /\ UNCHANGED <<mbOpen, mbRest>>

Stopped(w) == ~mbOpen \/ Waiting(w) = {}

(* fetch(): transport errors and statuses are retried, a body is not.       *)
WorkerFetches(w) ==
  LET Ends(r) == [worker[w] EXCEPT !.state = "check", !.attempt = 0, !.result = r] IN
  /\ worker[w].state = "run"
  /\ worker' \in {[worker EXCEPT ![w] = x] : x \in
       {Ends("policy")}
       \cup (IF Stopped(w) THEN {Ends("cancelled")} ELSE {Ends("ok"), Ends("failed")})
       \cup (IF ~Stopped(w) /\ worker[w].attempt < Attempts - 1
             THEN {[worker[w] EXCEPT !.attempt = @ + 1]} ELSE {})}
  /\ UNCHANGED <<asker, found, current, mbOpen, mbRest>>

(* The worker checks again; what it brings is cached if it still is the     *)
(* flight of the table and somebody waits.                                  *)
WorkerRechecks(w) ==
  /\ worker[w].state = "check"
  /\ worker' = [worker EXCEPT ![w].state = "finish",
                              ![w].result = IF Stopped(w) THEN "cancelled" ELSE @]
  /\ UNCHANGED <<asker, found, current, mbOpen, mbRest>>

WorkerFinishes(w) ==
  LET x == worker[w] IN
  /\ x.state = "finish"
  /\ found' = IF current = w /\ mbOpen /\ Waiting(w) # {} /\ x.result \in {"ok", "failed"}
              THEN x.result ELSE found
  /\ current' = IF current = w THEN "none" ELSE current
  /\ worker' = [worker EXCEPT ![w] = IF Waiting(w) = {} THEN Spare ELSE [x EXCEPT !.state = "done"]]
  /\ UNCHANGED <<asker, mbOpen, mbRest>>

SnapshotReturns(t) ==
  LET a == asker[t] IN
  /\ a.pc = "mb"
  /\ a.cancelled \/ ~mbOpen \/ worker[a.f].state = "done"
  /\ Say(t, IF a.cancelled \/ ~mbOpen THEN Silent
            ELSE [Silent EXCEPT !.pc = "end", !.result = worker[a.f].result])
  /\ worker' = IF worker[a.f].state = "done" /\ Waiting(a.f) = {t}
               THEN [worker EXCEPT ![a.f] = Spare] ELSE worker
  /\ UNCHANGED <<found, current, mbOpen, mbRest>>

(* shutdown(): the flag, and, once no worker is busy, the cache.            *)
ShutdownMusicBrainz ==
  /\ \/ mbOpen /\ mbOpen' = FALSE /\ UNCHANGED found
     \/ ~mbOpen /\ Busy = {} /\ found' = "none" /\ UNCHANGED mbOpen
  /\ UNCHANGED <<asker, current, worker, mbRest>>

(* The caller has the result.                                               *)
Use(t) ==
  /\ asker[t].pc = "end" /\ Say(t, Silent)
  /\ UNCHANGED <<kept, owner, deezerRest>>

DeezerNext ==
  \/ \E t \in Askers :
       \/ CancelAsker(t) \/ Ask(t) \/ Claim(t) \/ Own(t) \/ GetJson(t) \/ StoreValue(t)
       \/ Unclaim(t) \/ Tell(t) \/ Told(t) \/ Use(t)
  \/ Cleanup
MusicBrainzNext ==
  \/ \E t \in Askers : CancelAsker(t) \/ Snapshot(t) \/ SnapshotReturns(t) \/ Use(t)
  \/ \E w \in Workers : WorkerFetches(w) \/ WorkerRechecks(w) \/ WorkerFinishes(w)
  \/ ShutdownMusicBrainz
-----------------------------------------------------------------------------
(* No request is made for a value that the cache has, and no two at a time: *)
(* the owner looks again, and a value is stored before its flight ends.     *)
NoSecondRequest ==
  /\ \A t \in Askers : asker[t].pc = "request" => ~kept
  /\ \A t, u \in Askers : asker[t].pc = "request" /\ asker[u].pc = "request" => t = u

(* "Waiting callers can cancel independently": a caller that gets a result  *)
(* is not told that it was cancelled because another one was.               *)
CancelsAlone == \A t \in Askers : asker[t].pc = "end" => asker[t].result # "cancelled"
=============================================================================
