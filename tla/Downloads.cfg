SPECIFICATION DownloadsSpec
CONSTANTS
  Ids = {p, q}
  NoItem = none
  NaN = nan
  Stages = {}
  Amounts = {}
  Percents = {}
  Speeds = {}
  UpdateBytes = 2
  MaxRemoved = 0
  MaxSeq = 2
  Readers = {r1, r2}
  NoReader = nobody
  Requests = {r1, r2}
  Paths = {p, q}
  MaxProviders = 1
  MaxRestarts = 1
  Blocks = 3
  ChunkBlocks = 2
  MaxVersion = 2
  MaxAttempts = 2
  MaxCalls = 2
  MaxLosses = 1
  Segments = 4
  Parallel = 2
  MaxSegmentCalls = 2
  MaxSegmentLosses = 1
  Clients = {r1, r2}
  DownloadItems = {i1}
  NoDownload = none
  Cancellers = {c1}
  Closers = {c1}
INVARIANTS
    BackendSound
    NoLockCycle
    SegmentsSound
    NoRemovalLost
PROPERTIES
    LibrarySafe
    PublishedWhole
SYMMETRY DownloadsSymmetry
CHECK_DEADLOCK FALSE
