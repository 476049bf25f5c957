\* Pool sizes whose sum does not fit the integer type.
CONSTANTS
  Process = {"api", "worker"}
  API = {"api"}
  MaxInt = 31
  Values <- WrappingValues
  Unset = Unset
  Malformed = Malformed
  MaxWork = 0
SPECIFICATION Spec
INVARIANTS
  WithinBudget
