SPECIFICATION RegistriesSpec
CONSTANTS
  RequestIds = {a, b}
  EmptyId = empty
  Leases = {l1, l2}
  Flags = {f1, f2, f3}
  NoFlag = nil
  Callers = {c1, c2}
  Ids = {a}
  NoItem = none
  NaN = nan
  Stages = {"s"}
  Amounts = {1, 2}
  Percents = {nan}
  Speeds = {0}
  UpdateBytes = 2
  MaxRemoved = 1
  MaxSeq = 2
  Readers = {r1}
  NoReader = nobody
  LyricKeys = {k1, k2}
  CachePaths = {pa, pb}
  MaxEntries = 1
  MaxSchedules = 3
  Flushers = {c1}
INVARIANT
    CountsHolders
PROPERTIES
    CancelIsFinal
    NoLostWakeup
    CatchesUp
    ImplementsWriteBehind
CHECK_DEADLOCK FALSE
