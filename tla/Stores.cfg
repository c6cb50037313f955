SPECIFICATION StoresSpec
CONSTANTS
  DataThreads = {t1, t2}
  MaxHandles = 2
  MaxWrites = 2
  MaxDataCrashes = 1
  RepoThreads = {t1, t2}
  RegistryUrls = {u1, u2}
  MaxChanges = 2
  Indexers = {t1, t2}
  Tracks = {u1, u2}
  Isrcs = {i1, i2}
  MaxStamps = 2
  Graphs = {u1, u2}
  MaxNodes = 3
  Waits = {w1, w2, w3}
  Nobody = nobody
INVARIANTS
    DataSafe
    NoCyclicWait
PROPERTIES
    RegistrySound
    
SYMMETRY StoresSymmetry
CHECK_DEADLOCK FALSE
