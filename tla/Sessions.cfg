SPECIFICATION ModelSpec
CONSTANTS
  Ids = {i1, i2}
  MaxNonce = 2
  MaxEdits = 2
  Exchangers = {x1, x2}
  Threads = {t1, t2}
  MaxSession = 2
  MaxCalls = 2
  MaxEvents = 2
  MaxClears = 1
INVARIANT
    LoginsSound
PROPERTIES
    TokenOfOwnLogin
    GrantNotLost
SYMMETRY Symmetry
CHECK_DEADLOCK FALSE
