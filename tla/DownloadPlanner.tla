--------------------------- MODULE DownloadPlanner ---------------------------
(***************************************************************************)
(* A download as the backend plans it (extensions/src/backend/downloads.rs):*)
(* the providers are tried in order; a provider fills a staging directory   *)
(* of its own, and a file that is the right track is published at its path  *)
(* in the library (files.rs).  Requests run side by side and may want the   *)
(* same path.  What providers, checks and other programs do is left open.   *)
(***************************************************************************)
EXTENDS Naturals, FiniteSets

CONSTANTS
  Requests,      \* calls of download_request()
  Paths,         \* of the library
  MaxProviders,  \* length of the list of providers
  MaxRestarts    \* bound on the ends of the process

ASSUME PlannerAssumption == "nobody" \notin Requests /\ MaxProviders \in Nat \ {0} /\ MaxRestarts \in Nat

VARIABLES
  library,    \* path -> "none", "old", "right" (published) or "other" (another program)
  staging,    \* staging directories: the request that made it (or "gone") and its path
  locked,     \* FileRegistry: path -> the request that holds its lock, or "nobody"
  prepared,   \* prepared_downloads of the item: "none", "bare" or "ready"
  req,        \* request -> its progress
  restarts

planVars == <<library, staging, locked, prepared, req, restarts>>

Nobody == "nobody"
NoPath == "none"
Unasked == [pc |-> "idle", left |-> 0, retry |-> FALSE, stop |-> FALSE,
            out |-> NoPath, fin |-> NoPath, file |-> "none", cancelled |-> FALSE, result |-> "none"]

PlanInit ==
  /\ library \in [Paths -> {"none", "old"}]
  /\ staging = {} /\ prepared = "none" /\ restarts = 0
  /\ locked = [p \in Paths |-> Nobody]
  /\ req = [r \in Requests |-> Unasked]

To(r, x) == req' = [req EXCEPT ![r] = x]
At(r, pc) == To(r, [req[r] EXCEPT !.pc = pc])
(* The response says what came of the request, unless its lease is released.*)
ResponseOf(r, result) == IF req[r].cancelled THEN "error" ELSE result

(* What a planner leaves behind when it returns, with any result: nothing.  *)
(* Its staging directory and its lock are dropped.                          *)
Ends(r, result) ==
  /\ To(r, [Unasked EXCEPT !.pc = "end", !.result = ResponseOf(r, result), !.fin = req[r].fin])
  /\ staging' = {d \in staging : d.by # r}
  /\ locked' = [p \in Paths |-> IF locked[p] = r THEN Nobody ELSE locked[p]]
-----------------------------------------------------------------------------
(* download_request(): the lease, the progress entry and the planner thread.*)
DownloadRequest(r, p) ==
  /\ req[r].pc = "idle"
  /\ To(r, [Unasked EXCEPT !.pc = "preflight", !.out = p])
  /\ UNCHANGED <<library, staging, locked, prepared, restarts>>

(* The caller's check, polled while the planner runs, releases the lease.   *)
ReleaseLease(r) ==
  /\ req[r].pc \notin {"idle", "end", "renamed"} /\ ~req[r].cancelled
  /\ To(r, [req[r] EXCEPT !.cancelled = TRUE])
  /\ UNCHANGED <<library, staging, locked, prepared, restarts>>

(* The planner has been joined, and the caller has its answer.              *)
Respond(r) ==
  /\ req[r].pc = "end"
  /\ To(r, Unasked)
  /\ UNCHANGED <<library, staging, locked, prepared, restarts>>

(* A check of the lease fails.                                              *)
Stops(r) ==
  /\ req[r].pc \notin {"idle", "end", "renamed"} /\ req[r].cancelled
  /\ Ends(r, "error")
  /\ UNCHANGED <<library, prepared, restarts>>
-----------------------------------------------------------------------------
(* plan_download(): preflight of the session.                               *)
Preflight(r) ==
  /\ req[r].pc = "preflight"
  /\ \/ prepared' = "bare" /\ Ends(r, "verification")
     \/ Ends(r, "failed") /\ UNCHANGED prepared
     \/ At(r, "plan") /\ UNCHANGED <<staging, locked, prepared>>
  /\ UNCHANGED <<library, restarts>>

(* cache_prepared(): what is known is kept for the request that follows the *)
(* verification; a retry keeps nothing.                                     *)
CachePrepared(r) == prepared' = IF req[r].retry THEN prepared ELSE "ready"
(* take_prepared(): it is used once.                                        *)
TakePrepared == prepared' = "none"

(* What was prepared before a verification is taken; without its metadata   *)
(* the selected provider may be tried at once (download_verified_retry).    *)
Plan(r) ==
  /\ req[r].pc = "plan"
  /\ TakePrepared
  /\ \/ prepared = "bare" /\ To(r, [req[r] EXCEPT !.pc = "avail", !.retry = TRUE])
     \/ At(r, "source")
  /\ UNCHANGED <<library, staging, locked, restarts>>

(* The source catalogue may forbid a replacement; metadata is enriched      *)
(* unless it was prepared.  The source itself comes first if it is selected.*)
Source(r) ==
  /\ req[r].pc = "source"
  /\ \E direct, stop \in BOOLEAN :
       /\ stop => direct
       /\ To(r, [req[r] EXCEPT !.pc = IF direct THEN "attempt" ELSE "next",
                              !.stop = stop, !.retry = FALSE, !.left = MaxProviders])
  /\ UNCHANGED <<library, staging, locked, prepared, restarts>>

(* The next provider of the list, healthy ones first: skipped if fallback   *)
(* to it is not allowed or it is no download provider.                      *)
NextProvider(r) ==
  /\ req[r].pc = "next"
  /\ IF req[r].left = 0 THEN Ends(r, "failed")
     ELSE /\ \E pc \in {"next", "avail"} :
               To(r, [req[r] EXCEPT !.left = @ - 1, !.pc = pc, !.stop = FALSE])
          /\ UNCHANGED <<staging, locked>>
  /\ UNCHANGED <<library, prepared, restarts>>

(* An attempt failed in a way that lets others try: the next provider, or,  *)
(* after a retry, the normal path.                                          *)
Onward(r) ==
  /\ To(r, [req[r] EXCEPT !.pc = IF req[r].retry THEN "source" ELSE "next", !.file = "none", !.fin = NoPath])
  /\ staging' = {d \in staging : d.by # r}
  /\ locked' = [p \in Paths |-> IF locked[p] = r THEN Nobody ELSE locked[p]]

(* download_availability(), after the provider's own preflight.             *)
Availability(r) ==
  /\ req[r].pc = "avail"
  /\ \/ /\ Ends(r, "verification")
        /\ CachePrepared(r)
     \/ Onward(r) /\ UNCHANGED prepared                 \* error, or not available
     \/ Ends(r, "failed") /\ UNCHANGED prepared         \* not available, and no fallback
     \/ /\ \E stop \in BOOLEAN : To(r, [req[r] EXCEPT !.pc = "attempt", !.stop = stop])
        /\ UNCHANGED <<staging, locked, prepared>>
  /\ UNCHANGED <<library, restarts>>

(* What follows from an attempt that ended with an error to retry.          *)
AttemptFailed(r) ==
  \/ /\ Ends(r, "verification")
     /\ CachePrepared(r)
  \/ Ends(r, "failed") /\ UNCHANGED prepared   \* storage failure, or fallback is stopped
  \/ ~(req[r].stop /\ ~req[r].retry) /\ Onward(r) /\ UNCHANGED prepared
-----------------------------------------------------------------------------
(* download_attempt(): the quality, and the lock of the path.               *)
LockOutput(r) ==
  /\ req[r].pc = "attempt"
  /\ \/ AttemptFailed(r)
     \/ /\ locked[req[r].out] = Nobody
        /\ locked' = [locked EXCEPT ![req[r].out] = r]
        /\ At(r, "reclaim") /\ UNCHANGED <<staging, prepared>>
  /\ UNCHANGED <<library, restarts>>

(* Staging directories of the path are removed; a file that is there may    *)
(* end the download; a new staging directory is made.                       *)
Reclaim(r) ==
  LET others == {d \in staging : d.path # req[r].out} IN
  /\ req[r].pc = "reclaim"
  /\ \/ /\ library[req[r].out] # "none"
        /\ To(r, [Unasked EXCEPT !.pc = "end", !.result = "ok", !.fin = req[r].out])
        /\ staging' = others
        /\ locked' = [locked EXCEPT ![req[r].out] = Nobody]
     \/ \* nothing is there, or another quality may replace it
        /\ staging' = others \cup {[by |-> r, path |-> req[r].out]}
        /\ At(r, "provider") /\ UNCHANGED locked
     \/ Ends(r, "error")   \* a directory cannot be read, removed or made
  /\ UNCHANGED <<library, prepared, restarts>>

(* The provider's code runs and leaves a file, or none, that is the track   *)
(* or another one.                                                          *)
Provide(r) ==
  /\ req[r].pc = "provider"
  /\ \/ AttemptFailed(r)
     \/ /\ \E f \in {"right", "wrong"} : To(r, [req[r] EXCEPT !.pc = "match", !.file = f])
        /\ UNCHANGED <<staging, locked, prepared>>
  /\ UNCHANGED <<library, restarts>>

(* Mutation: the track is not compared. *)
MatchesAny(r) == TRUE
(* matches_track(): identity, duration and album; and the file is in the    *)
(* staging directory and not empty.                                         *)
MatchesTrack(r) == req[r].file = "right"

(* Mutation: the second lock is taken while the first is held. *)
KeepGuard(r, p) == locked' = locked
(* The lock is kept for the same path and dropped for another one.          *)
DropGuard(r, p) == locked' = [locked EXCEPT ![req[r].out] = IF p = req[r].out THEN r ELSE Nobody]

(* output_path(): with the tags and the real extension the path may be      *)
(* another one than it was before.                                          *)
OutputPath(r) == Paths

(* The file is probed and its metadata completed, which may fail; a track   *)
(* that the provider says exists elsewhere is not published.                *)
Finalize(r) ==
  /\ req[r].pc = "match"
  /\ \/ ~MatchesTrack(r) /\ AttemptFailed(r)
     \/ MatchesTrack(r) /\ (\E result \in {"ok", "error"} : Ends(r, result)) /\ UNCHANGED prepared
     \/ /\ MatchesTrack(r)
        /\ \E p \in OutputPath(r) :
             /\ To(r, [req[r] EXCEPT !.pc = IF p = req[r].out THEN "open" ELSE "relock", !.fin = p])
             /\ DropGuard(r, p)
        /\ UNCHANGED <<staging, prepared>>
  /\ UNCHANGED <<library, restarts>>

Relock(r) ==
  LET p == req[r].fin IN
  /\ req[r].pc = "relock" /\ locked[p] = Nobody
  /\ IF library[p] # "none" THEN Ends(r, "failed")
     ELSE /\ locked' = [locked EXCEPT ![p] = r]
          /\ At(r, "open") /\ UNCHANGED staging
  /\ UNCHANGED <<library, prepared, restarts>>

(* The provider's file is opened, then linked or copied, with its tags, to  *)
(* a partial file beside the destination.                                   *)
Open(r) ==
  /\ req[r].pc = "open"
  /\ IF \E d \in staging : d.by = r
     THEN \/ At(r, "publish") /\ UNCHANGED <<staging, locked>>
          \/ Ends(r, "error")
     ELSE Ends(r, "error")
  /\ UNCHANGED <<library, prepared, restarts>>

(* publish() renames over what is there; publish_new(), for another path    *)
(* than the first, does not.                                                *)
Replaces(r) == req[r].fin = req[r].out \/ library[req[r].fin] = "none"

Publish(r) ==
  /\ req[r].pc = "publish"
  /\ \/ /\ ~req[r].cancelled /\ Replaces(r)
        /\ library' = [library EXCEPT ![req[r].fin] = req[r].file]
        /\ At(r, "renamed") /\ UNCHANGED <<staging, locked>>
     \/ Ends(r, "failed") /\ UNCHANGED library   \* the file exists, or I/O fails
  /\ UNCHANGED <<prepared, restarts>>

(* The index of ISRCs is told.                                              *)
Published(r) ==
  /\ req[r].pc = "renamed"
  /\ \E result \in {"ok", "error"} : Ends(r, result)
  /\ UNCHANGED <<library, prepared, restarts>>
-----------------------------------------------------------------------------
(* Another program, or the app's own finalizers, create a file.             *)
OtherProgram(p) ==
  /\ library[p] = "none"
  /\ library' = [library EXCEPT ![p] = "other"]
  /\ UNCHANGED <<staging, locked, prepared, req, restarts>>

(* The process ends; the directories stay.                                  *)
EndProcess ==
  /\ restarts < MaxRestarts /\ restarts' = restarts + 1
  /\ req' = [r \in Requests |-> Unasked]
  /\ staging' = {[by |-> "gone", path |-> d.path] : d \in staging}
  /\ locked' = [p \in Paths |-> Nobody] /\ prepared' = "none"
  /\ UNCHANGED library

PlanNext ==
  \/ \E r \in Requests :
       \/ \E p \in Paths : DownloadRequest(r, p)
       \/ ReleaseLease(r) \/ Respond(r) \/ Stops(r)
       \/ Preflight(r) \/ Plan(r) \/ Source(r) \/ NextProvider(r) \/ Availability(r)
       \/ LockOutput(r) \/ Reclaim(r) \/ Provide(r) \/ Finalize(r) \/ Relock(r)
       \/ Open(r) \/ Publish(r) \/ Published(r)
  \/ \E p \in Paths : OtherProgram(p)
  \/ EndProcess
PlanSpec == PlanInit /\ [][PlanNext]_planVars
-----------------------------------------------------------------------------
(* A mismatched track, a failed provider, a cancellation or another request *)
(* never replaces a file of the library: only the holder of a path's lock   *)
(* publishes there, the right track, over another file only if that was the *)
(* path it was asked for.                                                   *)
LibrarySafe ==
  [][\A p \in Paths : library'[p] \notin {library[p], "other"} =>
       /\ library'[p] = "right"
       /\ locked[p] \in Requests
       /\ library[p] = "none" \/ req[locked[p]].out = p]_planVars

(* Requests that change their path do not wait for each other in a cycle.   *)
NoLockCycle ==
  \A r, q \in Requests :
    ~(req[r].pc = "relock" /\ req[q].pc = "relock" /\ locked[req[r].fin] = q /\ locked[req[q].fin] = r)

(* "The output lock also owns this destination's attempt directories": no   *)
(* request loses its staging directory before it has opened the file there. *)
StagingOwned ==
  \A r \in Requests : req[r].pc \in {"provider", "match", "relock", "open"} =>
    [by |-> r, path |-> req[r].out] \in staging
=============================================================================
