\* Two requests of two principals, keys and names at the limits.
CONSTANTS
  Requests = {r1, r2}
  Principals = {alice, bob}
  Text <- MCText
  Headers <- BoundaryHeaders
  Names <- BoundaryNames
  TrimSpace <- MCTrimSpace
  Length <- MCLength
  HashRequest <- MCHashRequest
  MaxConns = 2
  Null = Null
SPECIFICATION Spec
SYMMETRY BoundarySymmetry
INVARIANTS
  AnswerFitsRequest
  OnlyValidStored
