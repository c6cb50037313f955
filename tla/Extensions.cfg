SPECIFICATION ExtensionsSpec
CONSTANTS
  Callers = {c1, c2}
  MaxVersion = 2
  MaxSettings = 2
  MaxObjects = 2
  MaxCrashes = 1
  Askers = {c1, c2}
  NoCaller = none
  ProviderIds <- AskedProviders
  Catalogue <- AskedCatalogue
  SearchLimit = 2
  MaxSwitches = 1
  MaxAsks = 2
  HookList <- DefinedHooks
  FilePermission <- FilePermissions
  MaxChanges = 2
INVARIANTS
    EnginesCurrent
    PackagesWhole
    CallsSound
SYMMETRY ExtensionsSymmetry
CHECK_DEADLOCK FALSE
