SPECIFICATION FairSpec
CONSTANTS
  Keys = {k}
  Callers = {c1, c2}
  Flights = {f1, f2}
  NoFlight = none
  MaxFlights = 2
  MaxNegative = 1
  MaxGeneration = 1
INVARIANTS
    FlightsSafe
    ShutdownQuiescent
PROPERTY
    FlightsEnd
