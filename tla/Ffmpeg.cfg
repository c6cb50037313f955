CHECK_DEADLOCK FALSE
SPECIFICATION FairSpec
CONSTANTS
  Ops = {o1, o2}
  Converters = {o1}
  MaxRounds = 2
  NoJob = none
INVARIANT
    CommandsSound
PROPERTY
    ExecuteReturns
