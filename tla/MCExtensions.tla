---------------------------- MODULE MCExtensions ----------------------------
(* Extensions as the user installs, upgrades and removes them, the calls that  *)
(* ask them for tracks, and the hooks that work on downloaded files.          *)
EXTENDS ExtensionManager, ProviderRequests, TLC

VARIABLE part   \* the component that runs; they do not interact

extensionsVars == <<mgrVars, providerVars, postVars, part>>
ExtensionsInit == part \in {"manager", "providers", "hooks"} /\ ManagerInit /\ ProviderInit /\ PostInit
ExtensionsNext ==
  /\ UNCHANGED part
  /\ \/ part = "manager" /\ ManagerNext /\ UNCHANGED <<providerVars, postVars>>
     \/ part = "providers" /\ ProviderNext /\ UNCHANGED <<mgrVars, postVars>>
     \/ part = "hooks" /\ PostNext /\ UNCHANGED <<mgrVars, providerVars>>
ExtensionsSpec == ExtensionsInit /\ [][ExtensionsNext]_extensionsVars

AskedProviders == <<"p", "q">>
Found(provider, isrc, id) == [provider |-> provider, isrc |-> isrc, id |-> id]
AskedCatalogue ==
  [p |-> {<<Found("p", 1, 1)>>}, q |-> {<<Found("q", 1, 1), Found("q", 0, 2)>>}]
(* The second extension may replace files from its second version on.         *)
DefinedHook(id, formats, enabled) == [extension |-> id, formats |-> formats, enabled |-> enabled]
DefinedHooks == <<DefinedHook("p", {}, TRUE), DefinedHook("q", {"flac"}, TRUE), DefinedHook("q", {}, FALSE)>>
FilePermissions == [p |-> {0}, q |-> {1}]
ExtensionsSymmetry == Permutations(Callers)
=============================================================================
