SPECIFICATION FairSpec
CONSTANTS
  Calls = {c1, c2}
  Natives = {n1}
  Stoppers = {s1, s2}
  Nobody = nobody
  Stop = stop
  Capacity = 1
INVARIANT
    WorkerSound
PROPERTY
    CallsAnswered
CHECK_DEADLOCK FALSE
