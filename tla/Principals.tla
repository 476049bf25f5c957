----------------------------- MODULE Principals -----------------------------
(***************************************************************************)
(* The principal a request acts as: what ResolvePrincipal makes of the rows *)
(* of memberships, and the checks of identity/domain that use it.  The      *)
(* tables are written by operators and by organization creation; the schema *)
(* does not relate a membership's organization to its site's.               *)
(***************************************************************************)
EXTENDS Naturals

CONSTANTS
  People,          \* principals
  Organizations,
  Sites,           \* rows of sites
  SiteOrg,         \* SiteOrg[s]: organization_id of site s
  Roles,           \* values of memberships.role
  Times,           \* values of created_at
  Bootstrap,       \* principals whose subject is in OIDC_BOOTSTRAP_SUBJECTS
  Null             \* no organization, no site

ASSUME RowsAssumption ==
  /\ SiteOrg \in [Sites -> Organizations]
  /\ Times \subseteq Nat
  /\ Bootstrap \subseteq People
  /\ Null \notin People \cup Organizations \cup Sites

Membership == [principal : People, organization_id : Organizations,
               site_id : Sites \cup {Null}, role : Roles, created_at : Times]

Permission == {"organization:create", "workflow:review", "workflow:publish", "report:approve"}

Principal == [ID : People, OrganizationID : Organizations \cup {Null},
              SiteIDs : SUBSET Sites, Permissions : SUBSET Permission]

-----------------------------------------------------------------------------
addRolePermissions(role) ==
  CASE role = "Administrator" -> Permission
    [] role = "Maintenance Supervisor" -> {"workflow:review", "report:approve"}
    [] role = "Senior Technician" -> {"workflow:review"}
    [] OTHER -> {}

\* Mutant: the WHERE clause is missing.
MembershipsOfAll(p, table) == table

\* WHERE principal_id = $1.
MembershipsOf(p, table) == {m \in table : m.principal = p}

\* The organizations the first row of ORDER BY created_at may name: rows with
\* the same created_at come in any order.
FirstOrganization(rows) ==
  IF rows = {} THEN {Null}
  ELSE {m.organization_id : m \in {n \in rows : \A o \in rows : n.created_at <= o.created_at}}

\* Mutant: a NULL site_id is taken for a site.
SiteSetOfNulls(rows) == {m.site_id : m \in rows}

\* Mutant: only the oldest membership's site is taken.
SiteSetOfFirst(rows) ==
  {m.site_id : m \in {n \in rows : \A o \in rows : n.created_at <= o.created_at}} \ {Null}

SiteSet(rows) == {m.site_id : m \in rows} \ {Null}

Permissions(p, rows) ==
  (UNION {addRolePermissions(m.role) : m \in rows})
    \cup (IF p \in Bootstrap THEN {"organization:create"} ELSE {})

\* The principals ResolvePrincipal may return for p.
ResolvePrincipal(p, table) ==
  LET rows == MembershipsOf(p, table)
  IN  [ID : {p}, OrganizationID : FirstOrganization(rows),
       SiteIDs : {SiteSet(rows)}, Permissions : {Permissions(p, rows)}]

-----------------------------------------------------------------------------
Has(principal, permission) == permission \in principal.Permissions

CanAccessSite(principal, organizationID, siteID) ==
  /\ principal.OrganizationID # Null /\ principal.OrganizationID = organizationID
  /\ principal.SiteIDs = {} \/ siteID \in principal.SiteIDs
=============================================================================
