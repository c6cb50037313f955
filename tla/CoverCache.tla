----------------------------- MODULE CoverCache -----------------------------
(***************************************************************************)
(* Covers in memory (backend/cover.rs).  Callers of one URL share a flight; *)
(* the first one leads it.  A resized cover is a flight of its own, whose   *)
(* leader takes the original through the same cache, so that a leader of    *)
(* one flight may wait for another.                                         *)
(*                                                                         *)
(* A cover is its key.  Callers make one download each: a flight is named   *)
(* by the caller that leads it and its key.                                 *)
(***************************************************************************)
EXTENDS Integers, Sequences, FiniteSets, SequencesExt

CONSTANTS CoverCallers,    \* threads that download the cover
          CoverBytes,      \* "original" and "resized" -> number of bytes
          MaxCoverBytes    \* MAX_DOWNLOAD_BYTES

ASSUME CoverAssumption == /\ CoverBytes \in [{"original", "resized"} -> Nat \ {0}]
                          /\ MaxCoverBytes \in Nat

CoverKeys == {"original", "resized"}
CoverFlights == CoverCallers \X CoverKeys

VARIABLES covers,        \* the keys cached, the one that expires first in front
          expired,       \* how many of them have expired
          coverBytes,    \* what the cache believes they take
          coverFlights,  \* the flights registered
          coverOutcome,  \* flight -> "pending", "ok", "error", "cancelled" or "retry"
          cover          \* caller -> its record
coverVars == <<covers, expired, coverBytes, coverFlights, coverOutcome, cover>>

CoverInit ==
  /\ covers = <<>> /\ expired = 0 /\ coverBytes = 0
  /\ coverFlights = {}
  /\ coverOutcome = [f \in CoverFlights |-> "pending"]
  /\ cover = [c \in CoverCallers |->
       [pc |-> "idle", want |-> "original", at |-> "original", flight |-> <<c, "original">>, result |-> "none",
        stopped |-> FALSE, noticed |-> FALSE]]

Does(c, pc) == cover[c].pc = pc
Move(c, record) == cover' = [cover EXCEPT ![c] = record]
StartCover(c, key) ==
  /\ Does(c, "idle")
  /\ Move(c, [cover[c] EXCEPT !.pc = "enter", !.want = key, !.at = key])
  /\ UNCHANGED <<covers, expired, coverBytes, coverFlights, coverOutcome>>
(* The caller's check fails from now on.                                    *)
StopCover(c) ==
  /\ cover[c].pc \notin {"idle", "done"} /\ ~cover[c].stopped
  /\ Move(c, [cover[c] EXCEPT !.stopped = TRUE])
  /\ UNCHANGED <<covers, expired, coverBytes, coverFlights, coverOutcome>>

(* cached() returns: the call ends, or the leader of the resized cover goes  *)
(* on with the original.  Resizing may fail.                                *)
Returned(c, result) ==
  IF cover[c].at = cover[c].want THEN {[cover[c] EXCEPT !.pc = "done", !.result = result]}
  ELSE {[cover[c] EXCEPT !.pc = "check", !.at = "resized", !.result = r]
          : r \in IF result = "ok" THEN {"ok", "error"} ELSE {result}}
ReturnsCover(c, result) == \E record \in Returned(c, result) : Move(c, record)

(* Mutation: an entry that has expired is taken out and still counted.       *)
BytesAfterStill(key) == coverBytes
BytesAfter(key) == coverBytes - CoverBytes[key]

Position(key) == CHOOSE i \in 0 .. Len(covers) : IF key \in Range(covers) THEN i > 0 /\ covers[i] = key ELSE i = 0
(* Under the lock: an entry, a flight to follow, or a flight to lead.       *)
EnterCover(c) ==
  /\ Does(c, "enter")
  /\ LET key == cover[c].at
         at  == Position(key)
         led == {f \in coverFlights : f[2] = key}
     IN \/ /\ cover[c].stopped
           /\ ReturnsCover(c, "cancelled")
           /\ UNCHANGED <<covers, expired, coverBytes, coverFlights, coverOutcome>>
        \/ /\ ~cover[c].stopped /\ at > expired
           /\ ReturnsCover(c, "ok")
           /\ UNCHANGED <<covers, expired, coverBytes, coverFlights, coverOutcome>>
        \/ /\ ~cover[c].stopped /\ at <= expired
           /\ IF at = 0 THEN UNCHANGED <<covers, expired, coverBytes>>
              ELSE covers' = RemoveAt(covers, at) /\ expired' = expired - 1 /\ coverBytes' = BytesAfter(key)
           /\ IF led # {}
              THEN /\ Move(c, [cover[c] EXCEPT !.pc = "wait", !.flight = CHOOSE f \in led : TRUE])
                   /\ UNCHANGED <<coverFlights, coverOutcome>>
              ELSE /\ coverFlights' = coverFlights \cup {<<c, key>>}
                   /\ coverOutcome' = [coverOutcome EXCEPT ![<<c, key>>] = "pending"]
                   /\ Move(c, [cover[c] EXCEPT !.pc = "fetch"])

(* A follower looks again every 25 ms.                                      *)
FollowCover(c) ==
  /\ Does(c, "wait")
  /\ LET outcome == coverOutcome[cover[c].flight] IN
     \/ cover[c].stopped /\ ReturnsCover(c, "cancelled")
     \/ ~cover[c].stopped /\ outcome = "retry" /\ Move(c, [cover[c] EXCEPT !.pc = "enter"])
     \/ ~cover[c].stopped /\ outcome \notin {"retry", "pending"} /\ ReturnsCover(c, outcome)
  /\ UNCHANGED <<covers, expired, coverBytes, coverFlights, coverOutcome>>

(* The leader fetches: the original from the network, which may fail, panic  *)
(* or be stopped, the resized cover by way of the original.                  *)
FetchCover(c) ==
  /\ Does(c, "fetch")
  /\ IF cover[c].at = "resized" THEN Move(c, [cover[c] EXCEPT !.pc = "enter", !.at = "original"])
     ELSE \E r \in {"ok", "error"} \cup (IF cover[c].stopped THEN {"cancelled"} ELSE {}) :
            (r = "ok" => CoverBytes["original"] <= MaxCoverBytes) /\ Move(c, [cover[c] EXCEPT !.pc = "check", !.result = r])
  /\ UNCHANGED <<covers, expired, coverBytes, coverFlights, coverOutcome>>
CheckCover(c) ==
  /\ Does(c, "check")
  /\ Move(c, [cover[c] EXCEPT !.pc = "settle", !.noticed = cover[c].stopped])
  /\ UNCHANGED <<covers, expired, coverBytes, coverFlights, coverOutcome>>

(* Followers of a leader that was stopped try again.                        *)
OutcomeOf(c) == IF cover[c].noticed THEN "retry" ELSE cover[c].result

(* The oldest entries go until the rest fits.                               *)
Total(s) ==
  LET Bytes(key) == IF key \in Range(s) THEN CoverBytes[key] ELSE 0
  IN Bytes("original") + Bytes("resized")
Evictions(keys, bytes) ==
  CHOOSE n \in 0 .. Len(keys) : /\ bytes - Total(SubSeq(keys, 1, n)) <= MaxCoverBytes
                                /\ \A m \in 0 .. n - 1 : bytes - Total(SubSeq(keys, 1, m)) > MaxCoverBytes
SettleCover(c) ==
  /\ Does(c, "settle")
  /\ LET key    == cover[c].at
         kept   == ~cover[c].noticed /\ cover[c].result = "ok" /\ CoverBytes[key] <= MaxCoverBytes
         all    == Append(covers, key)
         bytes  == coverBytes + CoverBytes[key]
         gone   == Evictions(all, bytes)
         ended  == IF cover[c].noticed THEN "cancelled" ELSE cover[c].result
     IN /\ IF kept
           THEN /\ covers' = SubSeq(all, gone + 1, Len(all))
                /\ expired' = IF expired > gone THEN expired - gone ELSE 0
                /\ coverBytes' = bytes - Total(SubSeq(all, 1, gone))
           ELSE UNCHANGED <<covers, expired, coverBytes>>
        /\ coverFlights' = coverFlights \ {<<c, key>>}
        /\ coverOutcome' = [coverOutcome EXCEPT ![<<c, key>>] = OutcomeOf(c)]
        /\ ReturnsCover(c, ended)

ExpireCover ==
  /\ expired < Len(covers)
  /\ expired' = expired + 1
  /\ UNCHANGED <<covers, coverBytes, coverFlights, coverOutcome, cover>>
ClearCovers ==
  /\ covers # <<>>
  /\ covers' = <<>> /\ expired' = 0 /\ coverBytes' = 0
  /\ UNCHANGED <<coverFlights, coverOutcome, cover>>

CoverStep(c) == EnterCover(c) \/ FollowCover(c) \/ FetchCover(c) \/ CheckCover(c) \/ SettleCover(c)
CoverNext ==
  \/ \E c \in CoverCallers : (\E key \in CoverKeys : StartCover(c, key)) \/ StopCover(c) \/ CoverStep(c)
  \/ ExpireCover \/ ClearCovers
CoverSpec == CoverInit /\ [][CoverNext]_coverVars
----------------------------------------------------------------------------
CoversCounted ==
  /\ coverBytes = Total(covers)
  /\ coverBytes <= MaxCoverBytes
  /\ IsInjective(covers)
CoverCancelledAlone == \A c \in CoverCallers : Does(c, "done") /\ cover[c].result = "cancelled" => cover[c].stopped
LeadsFlight(f) == /\ cover[f[1]].pc \notin {"idle", "done"}
                  /\ cover[f[1]].at = f[2] => cover[f[1]].pc \in {"fetch", "check", "settle"}
                  /\ cover[f[1]].at # f[2] => f[2] = cover[f[1]].want
CoverNotStranded ==
  /\ \A f \in coverFlights : LeadsFlight(f)
  /\ \A c \in CoverCallers : Does(c, "wait") /\ coverOutcome[cover[c].flight] = "pending" => cover[c].flight \in coverFlights
  /\ \A f, g \in coverFlights : f[2] = g[2] => f = g

(* Callers that share covers do not harm each other, and the cache counts    *)
(* right: a call fails as cancelled only when its own caller was stopped,    *)
(* whoever led the flight (the outer None of Flight::outcome); every flight   *)
(* that is waited for has one leader that is still to settle it, through      *)
(* cancellation, failure and panic, and also when that leader waits for       *)
(* another flight itself; and the bytes counted are those of the entries      *)
(* kept, within the limit, after any evictions, expiries and clear().         *)
CoversSound == CoversCounted /\ CoverCancelledAlone /\ CoverNotStranded
=============================================================================
