\* Two authorities of one person: hand-over, limits, permissions and revocation.
CONSTANTS
  o1 = o1
  o2 = o2
  s1 = s1
  pump = pump
  PUMP = PUMP
  People = {p1}
  Organizations = {o1}
  Sites = {s1}
  SiteOrg <- OneSite
  Roles = {"Senior Technician", "Maintenance Supervisor"}
  Times = {1}
  Bootstrap = {p1}
  Null = Null
  Kinds = {pump, PUMP}
  Competencies = {}
  FoldCase <- FoldPump
  ScopeIDs = {}
  Delegators = {}
  MaxRisk = 1
  MaxTime = 2
  MaxMembers = 1
  MaxRows = 2
SPECIFICATION Spec
CHECK_DEADLOCK FALSE
INVARIANTS
  HandOver
  LimitsOnlyRestrict
  BothRequired
