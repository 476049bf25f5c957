\* Every environment around the limits, both processes, signals, crashes, restarts.
CONSTANTS
  Process = {"api", "worker"}
  API = {"api"}
  MaxInt = 127
  Values <- SmallValues
  Unset = Unset
  Malformed = Malformed
  MaxWork = 1
SPECIFICATION FairSpec
INVARIANTS
  WithinBudget
PROPERTIES
  SignalEnds
