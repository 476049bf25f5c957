\* A member of an organization as a whole asks for one of its sites.
CONSTANTS
  o1 = o1
  o2 = o2
  s1 = s1
  s2 = s2
  s3 = s3
  People = {p1}
  Organizations = {o1, o2}
  Sites = {s1, s2, s3}
  SiteOrg <- SitesOfOrganizations
  Roles = {"Administrator"}
  Times = {1, 2}
  Bootstrap = {}
  Null = Null
  Requests = {r1}
  NoSite = NoSite
  Malformed = Malformed
  MaxChanges = 2
SPECIFICATION Spec
INVARIANT OrganizationScopeHonoured
