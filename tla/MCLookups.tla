------------------------------ MODULE MCLookups ------------------------------
(* The lookups of tracks that share requests, and the limits on them.       *)
EXTENDS ResolutionBudget, Resolver, MetadataLookup, TLC

VARIABLE part   \* the component that runs; they do not interact

lookupsVars == <<vars, lookupVars, metaVars, rateVars, part>>
LookupsInit ==
  /\ part \in {"budget", "platform", "deezer", "musicbrainz", "rate"}
  /\ Init /\ LookupInit /\ MetaInit /\ RateInit
LookupsNext ==
  /\ UNCHANGED part
  /\ \/ part = "budget" /\ Next /\ UNCHANGED <<lookupVars, metaVars, rateVars>>
     \/ part = "platform" /\ LookupNext /\ UNCHANGED <<vars, metaVars, rateVars>>
     \/ part = "deezer" /\ DeezerNext /\ UNCHANGED <<vars, lookupVars, rateVars>>
     \/ part = "musicbrainz" /\ MusicBrainzNext /\ UNCHANGED <<vars, lookupVars, rateVars>>
     \/ part = "rate" /\ RateNext /\ UNCHANGED <<vars, lookupVars, metaVars>>
LookupsSpec == LookupsInit /\ [][LookupsNext]_lookupsVars

(* The sets of threads are one set in the model, and so are those of        *)
(* flights, workers and guards.                                             *)
LookupSymmetry == Permutations(LookupCallers) \cup Permutations(Flights) \cup Permutations(Regions)

(* Answers of the platforms and of MusicBrainz are asked for once and kept   *)
(* only as long as they are current, and nobody is told that he was cancelled *)
(* because another was (PlatformResolverService, MusicBrainzClient).            *)
LookupsSound == CachedIsCurrent /\ NoSecondRequest /\ CancelsAlone
=============================================================================
