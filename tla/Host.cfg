SPECIFICATION HostSpec
CONSTANTS
  Requests = {t1, t2}
  AllowedHosts = {"own", "peer"}
  MaxPermits = 1
  MaxRedirects = 3
  MaxPolicies = 1
  FileThreads = {t1, t2}
  NoThread = none
  MaxInodes = 4
  MaxFileCalls = 3
  NestedOps = {"delete", "writeBytes"}
  CookieHosts <- HostNames
  AddressHosts <- HostAddresses
  DomainAttributes <- HostDomains
  UrlPaths <- HostPaths
  PathAttributes <- HostPathAttributes
  MaxStores = 2
  MaxAge = 1
  Resolvers = {t1, t2}
  Zones <- HostZones
  Upstreams = 2
  MaxCached = 1
  MaxSeconds = 2
  MaxResolves = 3
  SearchThreads = {t1, t2}
  ProviderOrders <- HostOrders
  MaxSearches = 1
  MaxResets = 1
  Lookups = {t1, t2}
  NoLookup = none
  MaxRotations = 3
  MaxLookups = 4
  Slots = {1, 2}
  VolumeCallers = {c1}
  Nobody = none
  MaxQueue = 2
  MaxRequests = 1
  MaxWrites = 2
  MaxFlushes = 2
  Channels = 2
  Ranges <- HostRanges
  SilentValue <- HostSilent
  Startup <- HostStartup
  Values <- HostValues
  MaxSets = 1
INVARIANTS
    NetworkSound
    OutputsSound
    
    UsbSound
SYMMETRY HostSymmetry
CHECK_DEADLOCK FALSE
