\* A request while memberships of two people in two organizations change.
CONSTANTS
  o1 = o1
  o2 = o2
  s1 = s1
  s2 = s2
  s3 = s3
  People = {p1, p2}
  Organizations = {o1, o2}
  Sites = {s1, s2, s3}
  SiteOrg <- SitesOfOrganizations
  Roles = {"Administrator"}
  Times = {1, 2}
  Bootstrap = {p1}
  Null = Null
  Requests = {r1}
  NoSite = NoSite
  Malformed = Malformed
  MaxChanges = 3
SPECIFICATION Spec
INVARIANTS
  TypeOK
  AccessGranted
  SiteScopeHonoured
