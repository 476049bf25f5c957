\* Two users in two browsers: logins, repeated and crossed callbacks, requests,
\* logouts, expiry, deactivation.
CONSTANTS
  Handlers = {h1, h2, h3, h4}
  Browsers = {b1, b2}
  Subjects = {alice, bob}
  FlowTTL = 1
  SessionTTL = 1
  MaxTime = 1
  Null = Null
SPECIFICATION Spec
SYMMETRY AuthSymmetry
INVARIANTS
  TypeOK
  StaleSessionRefused
  FlowSingleUse
  SessionOfOwnLogin
  SessionOfAuthenticatedUser
