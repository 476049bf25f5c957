\* What a 204 of POST /auth/logout says, against what it does.
CONSTANTS
  Handlers = {h1, h2, h3}
  Browsers = {b1}
  Subjects = {alice}
  FlowTTL = 1
  SessionTTL = 1
  MaxTime = 0
  Null = Null
SPECIFICATION Spec
INVARIANTS
  LogoutRevokes
