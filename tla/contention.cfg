\* Three requests, one principal, one key, two connections, with fairness.
CONSTANTS
  Requests = {r1, r2, r3}
  Principals = {alice}
  Text <- MCText
  Headers <- OneHeader
  Names <- TwoNames
  TrimSpace <- MCTrimSpace
  Length <- MCLength
  HashRequest <- MCHashRequest
  MaxConns = 2
  Null = Null
SPECIFICATION FairSpec
INVARIANTS
  TypeOK
  KeysComplete
  ExactlyOnce
  SameAnswer
  NeverInProgress
  ConflictJustified
PROPERTIES
  ImplementsPromise
  EveryRequestEnds
