------------------------------- MODULE MCStores -------------------------------
(* What extensions share: the data they keep on disk, the registry they come *)
(* from, the ISRC index of a library directory, and the graph of the calls   *)
(* they wait for.                                                            *)
EXTENDS ExtensionData, ExtensionRepository, IsrcIndex, CallGraph, TLC

VARIABLE part   \* the component that runs; they do not interact

storesVars == <<dataVars, repoVars, isrcVars, graphVars, part>>
StoresInit ==
  /\ part \in {"data", "repository", "isrc", "calls"}
  /\ DataInit /\ RepoInit /\ IsrcInit /\ GraphInit
  /\ part # "repository" => saved = NoUrl
  /\ part # "calls" => \A v, w \in Waits : caller[v] = caller[w]
StoresNext ==
  /\ UNCHANGED part
  /\ \/ part = "data" /\ DataNext /\ UNCHANGED <<repoVars, isrcVars, graphVars>>
     \/ part = "repository" /\ RepoNext /\ UNCHANGED <<dataVars, isrcVars, graphVars>>
     \/ part = "isrc" /\ IsrcNext /\ UNCHANGED <<dataVars, repoVars, graphVars>>
     \/ part = "calls" /\ GraphNext /\ UNCHANGED <<dataVars, repoVars, isrcVars>>
StoresSpec == StoresInit /\ [][StoresNext]_storesVars

(* Threads are one set in the model, and so are registries, tracks, ISRCs    *)
(* and graphs.                                                               *)
StoresSymmetry == Permutations(DataThreads) \cup Permutations(Tracks)
===============================================================================
