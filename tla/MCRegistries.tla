---------------------------- MODULE MCRegistries ----------------------------
(* The registries of the core whose threads wake or run in the background:  *)
(* request cancellation, download progress, and the write-behind cache of   *)
(* lyrics.                                                                  *)
EXTENDS CancellationRegistry, ProgressRegistry, LyricsCache

VARIABLE part   \* the component that runs; they do not interact

registriesVars == <<cancelVars, vars, cacheVars, part>>
RegistriesInit ==
  /\ part \in {"cancellation", "progress", "lyrics"}
  /\ CancelInit /\ Init /\ CacheInit
RegistriesNext ==
  /\ UNCHANGED part
  /\ \/ part = "cancellation" /\ CancelNext /\ UNCHANGED <<vars, cacheVars>>
     \/ part = "progress" /\ Next /\ UNCHANGED <<cancelVars, cacheVars>>
     \/ part = "lyrics" /\ CacheNext /\ UNCHANGED <<cancelVars, vars>>
RegistriesSpec ==
  /\ RegistriesInit /\ [][RegistriesNext]_registriesVars
  /\ CancelFairness /\ Fairness /\ CacheFairness
=============================================================================
