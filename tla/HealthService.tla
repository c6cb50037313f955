---------------------------- MODULE HealthService ----------------------------
(***************************************************************************)
(* Health of the services extensions download from (backend/health.rs): an  *)
(* explicit check waits for the answer; a download that needs another       *)
(* provider orders the providers by what is known and refreshes the rest in  *)
(* the background.  What is known belongs to a revision of the manager,     *)
(* which a change of the extensions raises when it is over, so that for a    *)
(* moment the manifests are new and the revision is old.                    *)
(*                                                                         *)
(* A manifest is its version; a snapshot is its revision, its manifest and   *)
(* its status.                                                              *)
(***************************************************************************)
EXTENDS Integers, Sequences, FiniteSets, SequencesExt

CONSTANTS HealthThreads,     \* threads that ask
          Providers,         \* a sequence: the providers in order of priority
          Answers,           \* sequences of checks: what the services of a provider may answer
          HealthWorkers,     \* names of refreshing threads
          MaxHealthChanges   \* bound on changes of the extensions

Ids == Range(Providers)
Statuses == {"online", "degraded", "unknown", "offline"}
HealthChecks == [status : Statuses, required : BOOLEAN]

ASSUME HealthAssumption == Providers \in Seq(Ids) /\ IsInjective(Providers) /\ Answers \subseteq Seq(HealthChecks) /\ MaxHealthChanges \in Nat

(* Mutation: a later check that is degraded hides one that is offline.       *)
CombinedLate(result, entry) ==
  IF entry.status = "offline" /\ entry.required THEN "offline"
  ELSE IF result # "online" /\ entry.status # "degraded" THEN result
  ELSE IF entry.status = "offline" THEN "degraded" ELSE entry.status
Combined(result, entry) ==
  IF entry.status = "offline" /\ entry.required THEN "offline"
  ELSE IF result # "online" THEN result
  ELSE IF entry.status = "offline" THEN "degraded" ELSE entry.status
StatusOf(checks) ==
  LET result[i \in 0 .. Len(checks)] == IF i = 0 THEN "online" ELSE Combined(result[i - 1], checks[i])
  IN result[Len(checks)]

VARIABLES manifest,       \* the version of the manifests
          revision,       \* the manager's revision
          changing,       \* changes made whose revision is still to come
          snapshots,      \* the snapshots cached, at most one of a provider
          refreshing,     \* <<provider, revision>> being refreshed
          healthWorker,   \* worker -> its record
          healthCaller,   \* thread -> its record
          healthClosed    \* how far shutdown() is: "no", "flag", "joins" or "done"
healthVars == <<manifest, revision, changing, snapshots, refreshing, healthWorker, healthCaller, healthClosed>>

Fetch == [pc |-> "idle", id |-> Head(Providers), revision |-> 0, manifest |-> 0, status |-> "none", down |-> FALSE]
HealthInit ==
  /\ manifest = 0 /\ revision = 0 /\ changing = 0
  /\ snapshots = {} /\ refreshing = {}
  /\ healthWorker = [w \in HealthWorkers |-> Fetch]
  /\ healthCaller \in [HealthThreads -> {[fetch |-> Fetch, seen |-> <<>>, order |-> <<>>, exempt |-> s] : s \in SUBSET Ids}]
  /\ healthClosed = "no"
Caches == <<snapshots, refreshing>>
Manager == <<manifest, revision, changing>>

ChangeExtensions ==
  /\ revision + changing < MaxHealthChanges
  /\ manifest' = manifest + 1 /\ changing' = changing + 1
  /\ UNCHANGED <<revision, Caches, healthWorker, healthCaller, healthClosed>>
(* MetadataChange is dropped when the change is over.                       *)
RaiseRevision ==
  /\ changing > 0
  /\ revision' = revision + 1 /\ changing' = changing - 1
  /\ UNCHANGED <<manifest, Caches, healthWorker, healthCaller, healthClosed>>

(* fetch() of a caller or a worker, one step after the other: the checks of  *)
(* the services, then the cache.  It ends early when its check fails.        *)
Valid(f) == healthClosed = "no" /\ revision = f.revision
Ended(f) == [Fetch EXCEPT !.pc = "ended", !.id = f.id, !.revision = f.revision]
AskService(f) ==
  IF ~Valid(f) THEN {Ended(f)}
  ELSE {[f EXCEPT !.pc = "cache", !.status = StatusOf(checks),
                  !.down = \E i \in DOMAIN checks : checks[i].required /\ checks[i].status = "offline"]
          : checks \in Answers}
Snapshot(f) == [id |-> f.id, revision |-> f.revision, manifest |-> f.manifest, status |-> f.status, down |-> f.down, fresh |-> TRUE]
Kept(rev) == {e \in snapshots : e.revision = rev}
FetchStep(f, record) ==
  \/ /\ f.pc = "ask"
     /\ record \in AskService(f)
     /\ UNCHANGED snapshots
  \/ /\ f.pc = "cache"
     /\ IF Valid(f) THEN /\ snapshots' = {e \in Kept(f.revision) : e.id # f.id} \cup {Snapshot(f)}
                         /\ record = Ended(f)
        ELSE UNCHANGED snapshots /\ record = Ended(f)
FetchRecords(f) == AskService(f) \cup {Ended(f)}

(* A thread makes one call.  It reads the revision, then the manifest, and   *)
(* then fetches or looks in the cache.                                      *)
ReadRevision(t) ==
  /\ LET c == healthCaller[t] IN
     /\ c.fetch.pc = "idle" /\ Len(c.seen) < Len(Providers)
     /\ \E goal \in {"fetch"} \cup (IF Providers[Len(c.seen) + 1] \in c.exempt THEN {} ELSE {"fallback"}) :
          healthCaller' = [healthCaller EXCEPT ![t].fetch =
            [Fetch EXCEPT !.pc = goal, !.revision = revision, !.id = Providers[Len(c.seen) + 1]]]
  /\ UNCHANGED <<Manager, Caches, healthWorker, healthClosed>>
ReadManifest(t) ==
  /\ LET f == healthCaller[t].fetch IN
     /\ f.pc \in {"fetch", "fallback"}
     /\ healthCaller' = [healthCaller EXCEPT ![t].fetch =
          [f EXCEPT !.manifest = manifest, !.pc = IF f.pc = "fetch" THEN "ask" ELSE "look"]]
  /\ UNCHANGED <<Manager, Caches, healthWorker, healthClosed>>
CheckHealth(t) ==
  /\ \E record \in FetchRecords(healthCaller[t].fetch) :
       /\ FetchStep(healthCaller[t].fetch, record)
       /\ healthCaller' = [healthCaller EXCEPT ![t].fetch = record]
  /\ UNCHANGED <<Manager, refreshing, healthWorker, healthClosed>>

(* Under the lock: what is fresh is the answer; what has expired is, unless  *)
(* it was offline, and a refresh begins when none of this revision is under  *)
(* way.  The worker is one whose thread has ended, or a new one.            *)
FreeWorkers == {w \in HealthWorkers : healthWorker[w].pc \in {"idle", "finished"}}
FallbackStatus(t) ==
  LET c     == healthCaller[t]
      f     == c.fetch
      mine  == {e \in Kept(f.revision) : e.id = f.id}
      fresh == {e \in mine : e.fresh}
      known == IF \E e \in mine : e.status # "offline" THEN (CHOOSE e \in mine : TRUE).status ELSE "unknown"
      Sees(status) == healthCaller' = [healthCaller EXCEPT ![t].seen = Append(@, status), ![t].fetch = Fetch]
  IN /\ f.pc = "look"
     /\ IF healthClosed # "no" THEN Sees("unknown") /\ UNCHANGED <<Caches, healthWorker>>
        ELSE /\ snapshots' = Kept(f.revision)
             /\ IF fresh # {} THEN Sees((CHOOSE e \in fresh : TRUE).status) /\ UNCHANGED <<refreshing, healthWorker>>
                ELSE /\ Sees(known)
                     /\ IF <<f.id, f.revision>> \in refreshing THEN UNCHANGED <<refreshing, healthWorker>>
                        ELSE \/ \E w \in FreeWorkers :
                                  /\ healthWorker' = [healthWorker EXCEPT ![w] = [f EXCEPT !.pc = "ask"]]
                                  /\ refreshing' = {r \in refreshing : r[1] # f.id} \cup {<<f.id, f.revision>>}
                             \/ \* the thread cannot be started
                                /\ refreshing' = {r \in refreshing : r[1] # f.id}
                                /\ UNCHANGED healthWorker
     /\ UNCHANGED <<Manager, healthClosed>>

(* The source of the track, and what may not be fallen back on, is not       *)
(* looked up and counts as unknown.                                         *)
SkipExempt(t) ==
  /\ LET c == healthCaller[t] IN
     /\ c.fetch.pc = "idle" /\ Len(c.seen) < Len(Providers)
     /\ Providers[Len(c.seen) + 1] \in c.exempt
     /\ healthCaller' = [healthCaller EXCEPT ![t].seen = Append(@, "unknown")]
  /\ UNCHANGED <<Manager, Caches, healthWorker, healthClosed>>

(* All providers have been looked up: the healthy ones come first, and the   *)
(* selected one before them.                                                *)
Only(s, S) ==
  LET kept[i \in 0 .. Len(s)] ==
        IF i = 0 THEN <<>> ELSE IF s[i] \in S THEN Append(kept[i - 1], s[i]) ELSE kept[i - 1]
  IN kept[Len(s)]
Rank(status) == CASE status = "online" -> 0 [] status = "degraded" -> 1 [] OTHER -> 2
Fronted(sorted, selected) ==
  Only(sorted, {i \in DOMAIN Providers : Providers[i] = selected}) \o Only(sorted, {i \in DOMAIN Providers : Providers[i] # selected})
Prioritize(t) ==
  LET c        == healthCaller[t]
      Group(n) == Only([i \in DOMAIN Providers |-> i],
                       {i \in DOMAIN Providers : c.seen[i] # "offline" /\ Rank(c.seen[i]) = n})
  IN /\ c.fetch.pc = "idle" /\ Len(c.seen) = Len(Providers)
     /\ \E selected \in Ids :
          healthCaller' = [healthCaller EXCEPT ![t].order = Fronted(Group(0) \o Group(1) \o Group(2), selected),
                                               ![t].fetch.pc = "ordered"]
     /\ UNCHANGED <<Manager, Caches, healthWorker, healthClosed>>

RefreshStep(w) ==
  /\ \E record \in FetchRecords(healthWorker[w]) :
       /\ FetchStep(healthWorker[w], record)
       /\ healthWorker' = [healthWorker EXCEPT ![w] = record]
  /\ UNCHANGED <<Manager, refreshing, healthCaller, healthClosed>>
RefreshEnds(w) ==
  /\ healthWorker[w].pc = "ended"
  /\ refreshing' = refreshing \ {<<healthWorker[w].id, healthWorker[w].revision>>}
  /\ healthWorker' = [healthWorker EXCEPT ![w] = [Fetch EXCEPT !.pc = "finished"]]
  /\ UNCHANGED <<Manager, snapshots, healthCaller, healthClosed>>

ExpireSnapshot ==
  /\ \E e \in snapshots : e.fresh /\ snapshots' = (snapshots \ {e}) \cup {[e EXCEPT !.fresh = FALSE]}
  /\ UNCHANGED <<Manager, refreshing, healthWorker, healthCaller, healthClosed>>
ClearHealth ==
  /\ snapshots # {} /\ snapshots' = {}
  /\ UNCHANGED <<Manager, refreshing, healthWorker, healthCaller, healthClosed>>

(* shutdown(): the flag, the cache under the lock, the threads.              *)
CloseHealth ==
  /\ \/ healthClosed = "no" /\ healthClosed' = "flag" /\ UNCHANGED snapshots
     \/ healthClosed = "flag" /\ healthClosed' = "joins" /\ snapshots' = {}
     \/ healthClosed = "joins" /\ FreeWorkers = HealthWorkers /\ healthClosed' = "done" /\ UNCHANGED snapshots
  /\ UNCHANGED <<Manager, refreshing, healthWorker, healthCaller>>
HealthNext ==
  \/ ChangeExtensions \/ RaiseRevision \/ ExpireSnapshot \/ ClearHealth \/ CloseHealth
  \/ \E t \in HealthThreads : ReadRevision(t) \/ ReadManifest(t) \/ CheckHealth(t)
                              \/ FallbackStatus(t) \/ SkipExempt(t) \/ Prioritize(t)
  \/ \E w \in HealthWorkers : RefreshStep(w) \/ RefreshEnds(w)
HealthSpec == HealthInit /\ [][HealthNext]_healthVars
----------------------------------------------------------------------------
(* What is known of a service is about the extension as it is: a snapshot of *)
(* the manager's revision was taken with the manifest of that revision, even *)
(* though revision and manifest are read one after the other while they       *)
(* change (fetch's check, MetadataChange).                                   *)
SnapshotsCurrent == changing = 0 => \A e \in snapshots : e.revision = revision => e.manifest = manifest
(* A required service that is offline is never masked by another check.      *)
OfflineShown == \A e \in snapshots : e.down <=> e.status = "offline"
(* Nothing is cached and nothing runs once shutdown() has returned.          *)
HealthQuiet == /\ healthClosed \in {"joins", "done"} => snapshots = {}
               /\ healthClosed = "done" => FreeWorkers = HealthWorkers
(* An order contains every provider that is not known to be offline, and     *)
(* those that are not looked up, once.                                       *)
OrdersComplete ==
  \A t \in HealthThreads : healthCaller[t].fetch.pc = "ordered" =>
    LET c == healthCaller[t] IN
    /\ IsInjective(c.order)
    /\ Range(c.order) = {i \in DOMAIN Providers : c.seen[i] # "offline" \/ Providers[i] \in c.exempt}
(* The four together: what the ordering of providers rests on.               *)
HealthSound == SnapshotsCurrent /\ OfflineShown /\ HealthQuiet /\ OrdersComplete
=============================================================================
