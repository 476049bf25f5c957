\* Two workers and two keys, every outcome of Work, signals and crashes.
CONSTANTS
  Workers = {w1, w2}
  IDs = {1, 2}
  Keys = {k1, k2}
  Outcomes = {"nil", "error", "panic", "canceled"}
  MaxFaults = 3
  Null = Null
SPECIFICATION FairSpec
INVARIANTS
  TypeOK
  OneJobPerKey
  GivenUpAfterThree
PROPERTIES
  EveryJobSettles
