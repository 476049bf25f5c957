----------------------------- MODULE SiteAccess -----------------------------
(***************************************************************************)
(* GET /api/v1/sites/{siteID} and GET /api/v1/me: the middleware resolves   *)
(* the principal from the memberships of the moment, then the handler       *)
(* answers from it and from the site query.  Memberships are granted and    *)
(* revoked between the two statements.                                      *)
(***************************************************************************)
EXTENDS Principals

CONSTANTS
  Requests,
  NoSite,       \* a UUID that is no site's
  Malformed,    \* a path parameter that is no UUID
  MaxChanges    \* bound on grants and revocations

ASSUME ParameterAssumption ==
  {NoSite, Malformed} \cap (Sites \cup {Null}) = {} /\ MaxChanges \in Nat

\* NULL is not an array.
ASSUME NullAssumption == \A array \in SUBSET Sites : array # Null

VARIABLES
  memberships,  \* rows of the table
  changes,      \* how often it has changed
  pc,           \* pc[r]: the next step of request r
  request,      \* request[r]: who asks, and for which site; Null is /me
  principal,    \* principal[r]: the principal in the request's context
  reply,        \* reply[r]: the status code
  held,         \* for the properties: held[r] is the memberships the person
                \* had at some moment of the request
  kept          \* kept[r]: those they had all along

vars == <<memberships, changes, pc, request, principal, reply, held, kept>>

SiteID == Sites \cup {NoSite, Malformed}
Request == [person : People, site : SiteID \cup {Null}]

Init ==
  /\ memberships = {} /\ changes = 0
  /\ pc = [r \in Requests |-> "idle"]
  /\ request = [r \in Requests |-> Null]
  /\ principal = [r \in Requests |-> Null]
  /\ reply = [r \in Requests |-> 0]
  /\ held = [r \in Requests |-> {}]
  /\ kept = [r \in Requests |-> {}]

-----------------------------------------------------------------------------
(* Operators and organization creation change the memberships. *)

Running(r) == pc[r] \in {"resolve", "handle"}

Grant(m) ==
  /\ changes < MaxChanges /\ m \notin memberships
  /\ memberships' = memberships \cup {m}
  /\ changes' = changes + 1
  /\ held' = [r \in Requests |-> IF Running(r) /\ request[r].person = m.principal
                                   THEN held[r] \cup {m} ELSE held[r]]
  /\ UNCHANGED <<pc, request, principal, reply, kept>>

Revoke(m) ==
  /\ changes < MaxChanges /\ m \in memberships
  /\ memberships' = memberships \ {m}
  /\ changes' = changes + 1
  /\ kept' = [r \in Requests |-> IF Running(r) THEN kept[r] \ {m} ELSE kept[r]]
  /\ UNCHANGED <<pc, request, principal, reply, held>>

-----------------------------------------------------------------------------
Answer(r, status) ==
  /\ pc' = [pc EXCEPT ![r] = "done"]
  /\ reply' = [reply EXCEPT ![r] = status]
  /\ UNCHANGED <<memberships, changes, request, principal, held, kept>>

Receive(r) ==
  /\ pc[r] = "idle"
  /\ \E q \in Request :
       /\ request' = [request EXCEPT ![r] = q]
       /\ held' = [held EXCEPT ![r] = {m \in memberships : m.principal = q.person}]
       /\ kept' = [kept EXCEPT ![r] = held'[r]]
  /\ pc' = [pc EXCEPT ![r] = "resolve"]
  /\ UNCHANGED <<memberships, changes, principal, reply>>

\* Middleware: authenticate has found out who asks and ResolvePrincipal has
\* loaded the memberships.
Authenticate(r) ==
  /\ pc[r] = "resolve"
  /\ \E p \in ResolvePrincipal(request[r].person, memberships) :
       principal' = [principal EXCEPT ![r] = p]
  /\ pc' = [pc EXCEPT ![r] = "handle"]
  /\ UNCHANGED <<memberships, changes, request, reply, held, kept>>

\* No valid session or token, or one of the statements has failed.
Unauthorized(r) == pc[r] = "resolve" /\ Answer(r, 401)

CurrentPrincipal(r) == pc[r] = "handle" /\ request[r].site = Null /\ Answer(r, 200)

\* SiteIDs is a nil slice unless a site was appended, and pgx sends a nil slice
\* as NULL, not as an empty array.
uuidArray(siteIDs) == IF siteIDs = {} THEN Null ELSE siteIDs

\* cardinality(array) = 0 OR id = ANY(array).  With NULL for the array both
\* sides are NULL, and a WHERE clause keeps a row only when it is true.
ScopeCondition(array, id) == array # Null /\ (array = {} \/ id \in array)

\* SiteReader.Get: the row the query returns, checked again.
Readable(p, id) ==
  /\ id \in Sites
  /\ SiteOrg[id] = p.OrganizationID
  /\ ScopeCondition(uuidArray(p.SiteIDs), id)
  /\ CanAccessSite(p, SiteOrg[id], id)

GetSite(r) ==
  /\ pc[r] = "handle" /\ request[r].site # Null
  /\ LET p == principal[r]
         id == request[r].site
     IN  Answer(r, IF id = Malformed THEN 400
                   ELSE IF p.OrganizationID # Null /\ Readable(p, id) THEN 200
                   ELSE 404)

QueryFails(r) ==
  /\ pc[r] = "handle" /\ request[r].site \in Sites \cup {NoSite}
  /\ principal[r].OrganizationID # Null
  /\ Answer(r, 500)

Step(r) == Receive(r) \/ Authenticate(r) \/ Unauthorized(r) \/ CurrentPrincipal(r)
           \/ GetSite(r) \/ QueryFails(r)

\* The idle server.
Idle == (\A r \in Requests : pc[r] = "done") /\ UNCHANGED vars

Next == (\E r \in Requests : Step(r)) \/ (\E m \in Membership : Grant(m) \/ Revoke(m))
        \/ Idle

Spec == Init /\ [][Next]_vars

-----------------------------------------------------------------------------
(* Properties *)

\* Every variable holds a value of its kind; in particular the site_ids of /me
\* and of the site query are sites.
TypeOK ==
  /\ memberships \subseteq Membership
  /\ changes \in 0..MaxChanges
  /\ pc \in [Requests -> {"idle", "resolve", "handle", "done"}]
  /\ request \in [Requests -> Request \cup {Null}]
  /\ principal \in [Requests -> Principal \cup {Null}]
  /\ reply \in [Requests -> {0, 200, 400, 401, 404, 500}]
  /\ held \in [Requests -> SUBSET Membership]
  /\ kept \in [Requests -> SUBSET Membership]

Covers(m, s) == m.site_id = s \/ (m.site_id = Null /\ m.organization_id = SiteOrg[s])

\* "Returns a site only when the principal's organization/site membership
\* permits it" (api/openapi.yaml): who is given a site had, while the request
\* ran, a membership that covers it and one in the site's organization.  A
\* membership revoked before the request, or somebody else's, gives nothing,
\* and neither does an inconsistent row alone.
AccessGranted ==
  \A r \in Requests :
    reply[r] = 200 /\ request[r].site \in Sites =>
      /\ \E m \in held[r] : m.principal = request[r].person /\ Covers(m, request[r].site)
      /\ \E m \in held[r] : m.organization_id = SiteOrg[request[r].site]

\* Request r for site s was refused, and no membership had changed meanwhile.
Refused(r, s) == reply[r] = 404 /\ request[r].site = s /\ held[r] = kept[r]

\* A person whose memberships all name sites of one organization is given each
\* of these sites.
SiteScopeHonoured ==
  \A r \in Requests, s \in Sites :
    Refused(r, s) =>
      \/ ~\E m \in held[r] : m.site_id = s
      \/ \E m \in held[r] : \/ m.site_id = Null
                            \/ m.organization_id # SiteOrg[s]

OrganizationWide(m, s) == m.site_id = Null /\ m.organization_id = SiteOrg[s]

\* "organization-scoped membership should access its organization sites"
\* (authorization_test.go): a person whose only membership is in an
\* organization as a whole is given the sites of that organization.
OrganizationScopeHonoured ==
  \A r \in Requests, s \in Sites :
    Refused(r, s) => ~\E m \in Membership : held[r] = {m} /\ OrganizationWide(m, s)
=============================================================================
