\* Two runs that meet, with failures anywhere; the role is there or comes later.
CONSTANTS
  Runs = {p1, p2}
  RiverVersions = 2
  MaxFaults = 2
SPECIFICATION FairSpec
INVARIANTS
  TypeOK
  UpMeansCurrent
  RuntimePrivileges
PROPERTIES
  UpConverges
