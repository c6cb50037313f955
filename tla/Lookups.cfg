SPECIFICATION LookupsSpec
CONSTANTS
  Allowance = 3
  Guards = {f1, f2, f3}
  MaxTime = 6
  LookupCallers = {t1, t2}
  Regions = {US, DE}
  Flights = {f1, f2, f3}
  MaxActive = 1
  MaxClears = 1
  Askers = {t1, t2}
  Workers = {f1, f2, f3}
  MaxWorkers = 2
  Requesters = {t1, t2}
  Maximum = 2
  Window = 3
  MaxClock = 7
  MaxLate = 2
INVARIANTS
    BudgetExact
    
    WindowRespected
SYMMETRY LookupSymmetry
CHECK_DEADLOCK FALSE
