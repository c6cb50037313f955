------------------------- MODULE ExtensionRepository -------------------------
(***************************************************************************)
(* The repository of extensions (extensions/src/repository.rs): the         *)
(* registry of the configured URL, cached in memory and in a file, one      *)
(* refresh of it at a time, and the download of a package it lists.  A      *)
(* registry is the URL it was read from; the generation counts the changes  *)
(* of the URL and the times the cache was cleared.                          *)
(***************************************************************************)
EXTENDS Naturals, FiniteSets

CONSTANTS
  RepoThreads, RegistryUrls,
  MaxChanges    \* bound on the changes of the generation

NoUrl == "none"

(* Strings that stand for no thread and no URL are none of them.            *)
ASSUME RepositoryAssumption ==
  /\ MaxChanges \in Nat
  /\ "none" \notin RepoThreads
  /\ RegistryUrls \cap {NoUrl, "failed"} = {}

VARIABLES
  url,         \* State::url
  changes,     \* State::generation
  registry,    \* State::cache: the URL of the cached registry
  saved,       \* the URL of the registry in the file
  leader,      \* State::flights: generation -> the thread that refreshes, or "none"
  visitor,        \* thread -> where it is, and what it read under the lock
  repository   \* "open", "closing" or "closed"

repoVars == <<url, changes, registry, saved, leader, visitor, repository>>

OutOfRepository == [pc |-> "idle", gen |-> 0, url |-> NoUrl, cached |-> NoUrl, flight |-> "none",
         download |-> FALSE, began |-> 0, result |-> "none"]

(* with_network(): a valid file gives the URL and the registry.             *)
RepoInit ==
  /\ saved \in RegistryUrls \cup {NoUrl}
  /\ url = saved /\ registry = saved
  /\ changes = 0
  /\ leader = [g \in 0 .. MaxChanges |-> "none"]
  /\ visitor = [t \in RepoThreads |-> OutOfRepository]
  /\ repository = "open"

Move(t, u) == visitor' = [visitor EXCEPT ![t] = u]
CheckGeneration(g) == repository = "open" /\ changes = g

(* enter(): operations are counted while the repository is open.            *)
EnterRepository == repository = "open"

(* clear_locked(): the file is removed if it can be.                        *)
ClearLocked ==
  /\ changes < MaxChanges /\ changes' = changes + 1
  /\ registry' = NoUrl
  /\ leader' = [g \in 0 .. MaxChanges |-> "none"]
  /\ saved' \in {NoUrl, saved}

(* set_registry_url(): the default branch of a GitHub repository is asked   *)
(* for before the lock is taken.                                            *)
BeginSet(t, u) ==
  /\ visitor[t].pc = "idle" /\ EnterRepository
  /\ Move(t, [OutOfRepository EXCEPT !.pc = "set", !.url = u])
  /\ UNCHANGED <<url, changes, registry, saved, leader, repository>>

SetRegistryUrl(t) ==
  /\ visitor[t].pc = "set"
  /\ Move(t, OutOfRepository)
  /\ IF repository = "open" /\ visitor[t].url # url
     THEN url' = visitor[t].url /\ ClearLocked
     ELSE UNCHANGED <<url, changes, registry, saved, leader>>
  /\ UNCHANGED repository

(* clear_registry_url() and clear_cache().                                  *)
ClearRegistry ==
  /\ repository = "open"
  /\ url' \in {url, NoUrl}
  /\ ClearLocked
  /\ UNCHANGED <<visitor, repository>>

(* download() notes the generation before it fetches the registry.          *)
BeginDownload(t) ==
  /\ visitor[t].pc = "idle" /\ EnterRepository
  /\ Move(t, [OutOfRepository EXCEPT !.pc = "fetch", !.download = TRUE, !.began = changes])
  /\ UNCHANGED <<url, changes, registry, saved, leader, repository>>

BeginFetch(t) ==
  /\ visitor[t].pc = "idle" /\ EnterRepository
  /\ Move(t, [OutOfRepository EXCEPT !.pc = "fetch"])
  /\ UNCHANGED <<url, changes, registry, saved, leader, repository>>

(* What a fetch brings: its caller gets it, or download() goes on with it.  *)
Fetched(t, r) == Move(t, IF visitor[t].download /\ r # NoUrl
                         THEN [OutOfRepository EXCEPT !.pc = "package", !.began = visitor[t].began, !.result = r,
                                           !.download = TRUE]
                         ELSE OutOfRepository)

(* fetch(), under the lock: a fresh cache, a flight to follow, or a new one.*)
Fetch(t) ==
  /\ visitor[t].pc = "fetch"
  /\ \/ (repository # "open" \/ url = NoUrl) /\ Fetched(t, NoUrl) /\ UNCHANGED leader
     \/ registry # NoUrl /\ Fetched(t, registry) /\ UNCHANGED leader
     \/ \* nothing cached, expired or forced
        /\ repository = "open" /\ url # NoUrl
        /\ LET seen == [visitor[t] EXCEPT !.gen = changes, !.url = url, !.cached = registry] IN
           IF leader[changes] = "none"
           THEN /\ leader' = [leader EXCEPT ![changes] = t]
                /\ Move(t, [seen EXCEPT !.pc = "refresh", !.flight = t])
           ELSE /\ Move(t, [seen EXCEPT !.pc = "follow", !.flight = leader[changes],
                             !.result = IF visitor[leader[changes]].pc = "landed"
                                        THEN visitor[leader[changes]].result ELSE "none"])
                /\ UNCHANGED leader
  /\ UNCHANGED <<url, changes, registry, saved, repository>>

(* A follower checks the generation before it looks at the result.          *)
Follow(t) ==
  /\ visitor[t].pc = "follow"
  /\ \/ ~CheckGeneration(visitor[t].gen) /\ Fetched(t, NoUrl)
     \/ /\ CheckGeneration(visitor[t].gen) /\ visitor[t].result # "none"
        /\ Fetched(t, IF visitor[t].result = "failed" THEN NoUrl ELSE visitor[t].result)
  /\ UNCHANGED <<url, changes, registry, saved, leader, repository>>

(* The result is put into the flight: its followers have it.                *)
Landed(t, r) == visitor' = [u \in RepoThreads |->
  IF u = t THEN [visitor[t] EXCEPT !.pc = "landed", !.result = r]
  ELSE IF visitor[u].pc = "follow" /\ visitor[u].flight = t /\ visitor[u].result = "none"
       THEN [visitor[u] EXCEPT !.result = r] ELSE visitor[u]]

(* refresh(): an error or an answer that cannot be used falls back on what  *)
(* was cached; a new registry, or the old one confirmed (304), is saved and *)
(* cached under the lock if the generation is still the same.               *)
RefreshRegistry(t) ==
  LET u == visitor[t] IN
  /\ u.pc = "refresh"
  /\ \/ /\ \/ ~CheckGeneration(u.gen) /\ Landed(t, "failed")
           \/ CheckGeneration(u.gen) /\ Landed(t, IF u.cached = NoUrl THEN "failed" ELSE u.cached)
           \/ CheckGeneration(u.gen) /\ Landed(t, "failed")   \* reading the body failed
        /\ UNCHANGED <<registry, saved>>
     \/ /\ CheckGeneration(u.gen)
        /\ Landed(t, u.url)
        /\ registry' = u.url
        /\ saved' \in {u.url, saved}
  /\ UNCHANGED <<url, changes, leader, repository>>

(* The flight is taken off the table.                                       *)
Depart(t) ==
  /\ visitor[t].pc = "landed"
  /\ leader' = [leader EXCEPT ![visitor[t].gen] = IF @ = t THEN "none" ELSE @]
  /\ Fetched(t, IF visitor[t].result = "failed" THEN NoUrl ELSE visitor[t].result)
  /\ UNCHANGED <<url, changes, registry, saved, repository>>

(* Mutation: only the end of the repository stops a download. *)
PackageCheck(t) == repository = "open"
DownloadCheck(t) == CheckGeneration(visitor[t].began)

(* The package is read and verified; every read checks the generation that  *)
(* was noted first.                                                         *)
Package(t) ==
  /\ visitor[t].pc = "package"
  /\ \/ ~DownloadCheck(t) /\ Move(t, OutOfRepository)
     \/ DownloadCheck(t) /\ Move(t, [visitor[t] EXCEPT !.pc = "verified", !.url = url])
     \/ Move(t, OutOfRepository)   \* not listed, HTTP error, wrong digest
  /\ UNCHANGED <<url, changes, registry, saved, leader, repository>>

Publish(t) ==
  /\ visitor[t].pc = "verified" /\ Move(t, OutOfRepository)
  /\ UNCHANGED <<url, changes, registry, saved, leader, repository>>

(* shutdown(): the flag, then the operations that have entered.             *)
CloseRepository ==
  /\ \/ repository = "open" /\ repository' = "closing"
     \/ /\ repository = "closing" /\ \A t \in RepoThreads : visitor[t].pc = "idle"
        /\ repository' = "closed"
  /\ UNCHANGED <<url, changes, registry, saved, leader, visitor>>

RepoNext ==
  \/ \E t \in RepoThreads :
       \/ \E u \in RegistryUrls : BeginSet(t, u)
       \/ SetRegistryUrl(t) \/ BeginDownload(t) \/ BeginFetch(t)
       \/ Fetch(t) \/ Follow(t) \/ RefreshRegistry(t) \/ Depart(t) \/ Package(t) \/ Publish(t)
  \/ ClearRegistry \/ CloseRepository
RepoSpec == RepoInit /\ [][RepoNext]_repoVars
-----------------------------------------------------------------------------
(* A change of the URL or a cleared cache cannot be undone by a refresh     *)
(* that was running: what is cached is of the current URL, and what is put  *)
(* into the file is, too.                                                   *)
RegistryOfUrl == [][
  /\ registry' \in {NoUrl, url'}
  /\ saved' \notin {saved, NoUrl} => saved' = url']_repoVars

(* A package that is verified was listed by the registry that is configured *)
(* then, and no other was in between.                                       *)
PackageOfRegistry ==
  [][\A t \in RepoThreads : visitor[t].pc = "package" /\ visitor'[t].pc = "verified" =>
       visitor[t].result = url /\ visitor[t].began = changes]_repoVars

(* Nothing of a registry outlives a change of its URL (set_registry_url,     *)
(* clear_cache, download).                                                   *)
RegistrySound == RegistryOfUrl /\ PackageOfRegistry
=============================================================================
