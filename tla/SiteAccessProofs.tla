-------------------------- MODULE SiteAccessProofs --------------------------
(***************************************************************************)
(* Who is given a site and who is refused one, for any number of requests,  *)
(* people, organizations, sites and changes of memberships.                 *)
(***************************************************************************)
EXTENDS SiteAccess, TLAPS

\* The memberships of the person who asks, at this moment.
RowsOf(r) == {m \in memberships : m.principal = request[r].person}

\* What the principal p shows of the rows it was assembled from.
AssembledFrom(p, rows) ==
  p.OrganizationID \in FirstOrganization(rows) /\ p.SiteIDs = SiteSet(rows)

\* While a request runs, the rows of its person lie between what they kept and
\* what they held; both are the person's own and stay as they are afterwards.
RequestInv ==
  \A r \in Requests :
    /\ pc[r] # "idle" => /\ request[r] \in Request
                         /\ \A m \in held[r] : m.principal = request[r].person
    /\ pc[r] # "done" => reply[r] = 0
    /\ Running(r) => kept[r] \subseteq RowsOf(r) /\ RowsOf(r) \subseteq held[r]

\* The handler works with a principal that was assembled from the rows of some
\* moment of the request, which need not be the rows of now.
ResolvedInv ==
  \A r \in Requests : pc[r] = "handle" =>
    /\ principal[r] \in Principal
    /\ \E rows \in SUBSET held[r] : kept[r] \subseteq rows /\ AssembledFrom(principal[r], rows)

AccessInv == TypeOK /\ RequestInv /\ ResolvedInv /\ AccessGranted /\ SiteScopeHonoured

-----------------------------------------------------------------------------
(* What ResolvePrincipal assembles *)

\* The first organization is one of the rows' own.
LEMMA FirstOrganizationOf ==
  ASSUME NEW rows \in SUBSET Membership, NEW o \in FirstOrganization(rows)
  PROVE  /\ o \in Organizations \cup {Null}
         /\ rows # {} => \E m \in rows : o = m.organization_id
BY DEF FirstOrganization, Membership

\* The sites are those the rows name.
LEMMA SiteSetOf ==
  ASSUME NEW rows \in SUBSET Membership
  PROVE  /\ SiteSet(rows) \in SUBSET Sites
         /\ \A s \in Sites : s \in SiteSet(rows) <=> \E m \in rows : m.site_id = s
BY RowsAssumption DEF SiteSet, Membership

\* Roles and the bootstrap list give permissions.
LEMMA PermissionsOf ==
  ASSUME NEW p, NEW rows
  PROVE  Permissions(p, rows) \in SUBSET Permission
<1>1. \A role : addRolePermissions(role) \subseteq Permission
  BY DEF addRolePermissions, Permission
<1> QED
  BY <1>1 DEF Permissions, Permission

\* The principal is well typed and assembled from the person's own rows.
LEMMA Resolved ==
  ASSUME NEW p \in People, NEW table \in SUBSET Membership,
         NEW q \in ResolvePrincipal(p, table)
  PROVE  /\ q \in Principal
         /\ AssembledFrom(q, {m \in table : m.principal = p})
<1> DEFINE rows == {m \in table : m.principal = p}
<1>1. /\ q.ID = p /\ q.OrganizationID \in FirstOrganization(rows)
      /\ q.SiteIDs = SiteSet(rows) /\ q.Permissions = Permissions(p, rows)
      /\ q = [ID |-> q.ID, OrganizationID |-> q.OrganizationID, SiteIDs |-> q.SiteIDs,
              Permissions |-> q.Permissions]
  BY DEF ResolvePrincipal, MembershipsOf
<1>2. rows \in SUBSET Membership
  OBVIOUS
<1> HIDE DEF rows
<1>3. q.OrganizationID \in Organizations \cup {Null}
  BY <1>1, <1>2, FirstOrganizationOf
<1>4. q.SiteIDs \in SUBSET Sites /\ q.Permissions \in SUBSET Permission
  BY <1>1, <1>2, SiteSetOf, PermissionsOf
<1>5. q \in Principal
  BY <1>1, <1>3, <1>4 DEF Principal
<1> QED
  BY <1>1, <1>5 DEF AssembledFrom, rows

\* The query and the check behind it, with the encoding of the empty list: a
\* site is readable exactly when it is listed and lies in the organization.
LEMMA ReadableMeans ==
  ASSUME NEW p \in Principal, NEW id
  PROVE  Readable(p, id) <=> /\ id \in Sites /\ SiteOrg[id] = p.OrganizationID
                             /\ p.OrganizationID # Null /\ id \in p.SiteIDs
<1>1. p.SiteIDs # Null
  BY NullAssumption DEF Principal
<1>2. CASE p.SiteIDs = {}
  BY <1>2 DEF Readable, ScopeCondition, uuidArray
<1>3. CASE p.SiteIDs # {}
  BY <1>1, <1>3 DEF Readable, ScopeCondition, uuidArray, CanAccessSite
<1> QED
  BY <1>2, <1>3

-----------------------------------------------------------------------------
(* Steps *)

\* Nobody asks and nobody is a member.
LEMMA AccessInit == Init => AccessInv
<1> SUFFICES ASSUME Init PROVE AccessInv
  OBVIOUS
<1>1. TypeOK
  BY ParameterAssumption DEF Init, TypeOK
<1>2. RequestInv /\ ResolvedInv
  BY DEF Init, RequestInv, ResolvedInv, Running
<1>3. AccessGranted /\ SiteScopeHonoured
  BY DEF Init, AccessGranted, SiteScopeHonoured, Refused
<1> QED
  BY <1>1, <1>2, <1>3 DEF AccessInv

\* A request that is over keeps its answer and its history.
LEMMA OthersKeep ==
  ASSUME AccessGranted, SiteScopeHonoured,
         \A r \in Requests :
           \/ reply'[r] = 0
           \/ /\ reply'[r] = reply[r] /\ request'[r] = request[r]
              /\ held'[r] = held[r] /\ kept'[r] = kept[r]
  PROVE  AccessGranted' /\ SiteScopeHonoured'
<1>1. AccessGranted'
  BY DEF AccessGranted
<1>2. SiteScopeHonoured'
  BY DEF SiteScopeHonoured, Refused
<1> QED
  BY <1>1, <1>2

\* A membership is granted: held follows.
LEMMA GrantStep ==
  ASSUME AccessInv, NEW m \in Membership, Grant(m)
  PROVE  AccessInv'
<1> USE DEF AccessInv
<1>1. /\ changes < MaxChanges /\ memberships' = memberships \cup {m} /\ changes' = changes + 1
      /\ held' = [r \in Requests |-> IF Running(r) /\ request[r].person = m.principal
                                       THEN held[r] \cup {m} ELSE held[r]]
      /\ UNCHANGED <<pc, request, principal, reply, kept>>
  BY DEF Grant
<1>2. TypeOK'
  BY <1>1, ParameterAssumption DEF TypeOK
<1>3. ASSUME NEW r \in Requests
      PROVE  /\ held[r] \subseteq held'[r]
             /\ \A n \in held'[r] : n \in held[r] \/ (n = m /\ request[r].person = m.principal)
             /\ ~Running(r) => held'[r] = held[r]
             /\ Running(r) => RowsOf(r)' \subseteq held[r]' \/ ~(RowsOf(r) \subseteq held[r])
             /\ RowsOf(r) \subseteq RowsOf(r)'
  BY <1>1 DEF RowsOf
<1>4. RequestInv'
  BY <1>1, <1>3 DEF RequestInv, Running
<1>5. ResolvedInv'
  BY <1>1, <1>3 DEF ResolvedInv
<1>6. AccessGranted' /\ SiteScopeHonoured'
  BY <1>1, <1>3, OthersKeep DEF RequestInv, Running
<1> QED
  BY <1>2, <1>4, <1>5, <1>6

\* A membership is revoked: kept follows.
LEMMA RevokeStep ==
  ASSUME AccessInv, NEW m \in Membership, Revoke(m)
  PROVE  AccessInv'
<1> USE DEF AccessInv
<1>1. /\ changes < MaxChanges /\ memberships' = memberships \ {m} /\ changes' = changes + 1
      /\ kept' = [r \in Requests |-> IF Running(r) THEN kept[r] \ {m} ELSE kept[r]]
      /\ UNCHANGED <<pc, request, principal, reply, held>>
  BY DEF Revoke
<1>2. TypeOK'
  BY <1>1, ParameterAssumption DEF TypeOK
<1>3. ASSUME NEW r \in Requests
      PROVE  /\ kept'[r] \subseteq kept[r]
             /\ ~Running(r) => kept'[r] = kept[r]
             /\ Running(r) => m \notin kept'[r]
             /\ RowsOf(r)' = RowsOf(r) \ {m}
  BY <1>1 DEF RowsOf
<1>4. RequestInv'
  BY <1>1, <1>3 DEF RequestInv, Running
<1>5. ResolvedInv'
  BY <1>1, <1>3 DEF ResolvedInv
<1>6. AccessGranted' /\ SiteScopeHonoured'
  BY <1>1, <1>3, OthersKeep DEF RequestInv, Running
<1> QED
  BY <1>2, <1>4, <1>5, <1>6

\* A request arrives: it holds and keeps what its person has now.
LEMMA ReceiveStep ==
  ASSUME AccessInv, NEW r \in Requests, Receive(r)
  PROVE  AccessInv'
<1> USE DEF AccessInv
<1>1. PICK q \in Request :
        /\ pc[r] = "idle"
        /\ request' = [request EXCEPT ![r] = q]
        /\ held' = [held EXCEPT ![r] = {m \in memberships : m.principal = q.person}]
        /\ kept' = [kept EXCEPT ![r] = held'[r]]
        /\ pc' = [pc EXCEPT ![r] = "resolve"]
        /\ UNCHANGED <<memberships, changes, principal, reply>>
  BY DEF Receive
<1>2. /\ request'[r] = q /\ pc'[r] = "resolve" /\ kept'[r] = held'[r]
      /\ held'[r] = {m \in memberships : m.principal = q.person}
      /\ \A o \in Requests \ {r} : /\ request'[o] = request[o] /\ pc'[o] = pc[o]
                                   /\ held'[o] = held[o] /\ kept'[o] = kept[o]
  BY <1>1 DEF TypeOK
<1>3. TypeOK'
  BY <1>1, <1>2 DEF TypeOK
<1>4. RowsOf(r)' = held'[r] /\ \A o \in Requests \ {r} : RowsOf(o)' = RowsOf(o)
  BY <1>1, <1>2 DEF RowsOf
<1>5. RequestInv'
  BY <1>1, <1>2, <1>4 DEF RequestInv, Running
<1>6. ResolvedInv'
  BY <1>1, <1>2 DEF ResolvedInv
<1>7. AccessGranted' /\ SiteScopeHonoured'
  BY <1>1, <1>2, OthersKeep DEF RequestInv
<1> QED
  BY <1>3, <1>5, <1>6, <1>7

\* The middleware assembles the principal from the rows of this moment.
LEMMA AuthenticateStep ==
  ASSUME AccessInv, NEW r \in Requests, Authenticate(r)
  PROVE  AccessInv'
<1> USE DEF AccessInv
<1>1. PICK p \in ResolvePrincipal(request[r].person, memberships) :
        /\ pc[r] = "resolve"
        /\ principal' = [principal EXCEPT ![r] = p]
        /\ pc' = [pc EXCEPT ![r] = "handle"]
        /\ UNCHANGED <<memberships, changes, request, reply, held, kept>>
  BY DEF Authenticate
<1>2. request[r].person \in People /\ memberships \in SUBSET Membership
  BY <1>1 DEF RequestInv, Request, TypeOK
<1>3. p \in Principal /\ AssembledFrom(p, RowsOf(r))
  BY <1>1, <1>2, Resolved DEF RowsOf
<1>4. /\ principal'[r] = p /\ pc'[r] = "handle"
      /\ \A o \in Requests \ {r} : principal'[o] = principal[o] /\ pc'[o] = pc[o]
  BY <1>1 DEF TypeOK
<1>5. TypeOK'
  BY <1>1, <1>3 DEF TypeOK
<1>6. RequestInv'
  BY <1>1, <1>4 DEF RequestInv, Running, RowsOf
<1>7. kept[r] \subseteq RowsOf(r) /\ RowsOf(r) \subseteq held[r]
  BY <1>1 DEF RequestInv, Running
<1>8. ResolvedInv'
  BY <1>1, <1>3, <1>4, <1>7 DEF ResolvedInv
<1>9. AccessGranted' /\ SiteScopeHonoured'
  BY <1>1, OthersKeep
<1> QED
  BY <1>5, <1>6, <1>8, <1>9

\* An answer is right if it is right for the request it answers.
LEMMA AnswerStep ==
  ASSUME AccessInv, NEW r \in Requests, Running(r),
         NEW status \in {200, 400, 401, 404, 500}, Answer(r, status),
         status = 200 /\ request[r].site \in Sites =>
           /\ \E m \in held[r] : Covers(m, request[r].site)
           /\ \E m \in held[r] : m.organization_id = SiteOrg[request[r].site],
         status = 404 /\ request[r].site \in Sites /\ held[r] = kept[r] =>
           \/ ~\E m \in held[r] : m.site_id = request[r].site
           \/ \E m \in held[r] : \/ m.site_id = Null
                                 \/ m.organization_id # SiteOrg[request[r].site]
  PROVE  AccessInv'
<1> USE DEF AccessInv
<1>1. /\ pc' = [pc EXCEPT ![r] = "done"]
      /\ reply' = [reply EXCEPT ![r] = status]
      /\ UNCHANGED <<memberships, changes, request, principal, held, kept>>
  BY DEF Answer
<1>2. /\ pc'[r] = "done" /\ reply'[r] = status
      /\ \A o \in Requests \ {r} : pc'[o] = pc[o] /\ reply'[o] = reply[o]
  BY <1>1 DEF TypeOK
<1>3. TypeOK'
  BY <1>1 DEF TypeOK
<1>4. RequestInv'
  BY <1>1, <1>2 DEF RequestInv, Running, RowsOf
<1>5. ResolvedInv'
  BY <1>1, <1>2 DEF ResolvedInv
<1>6. \A m \in held[r] : m.principal = request[r].person
  BY DEF RequestInv, Running
<1>7. AccessGranted'
  BY <1>1, <1>2, <1>6 DEF AccessGranted, Covers
<1>8. SiteScopeHonoured'
  BY <1>1, <1>2 DEF SiteScopeHonoured, Refused
<1> QED
  BY <1>3, <1>4, <1>5, <1>7, <1>8

\* The site handler: what the principal shows of the rows decides.
LEMMA GetSiteStep ==
  ASSUME AccessInv, NEW r \in Requests, GetSite(r)
  PROVE  AccessInv'
<1> DEFINE p == principal[r]
           id == request[r].site
           status == IF id = Malformed THEN 400
                     ELSE IF p.OrganizationID # Null /\ Readable(p, id) THEN 200
                     ELSE 404
<1>1. pc[r] = "handle" /\ Answer(r, status)
  BY DEF GetSite
<1>2. p \in Principal
  BY <1>1 DEF AccessInv, ResolvedInv
<1>3. PICK rows \in SUBSET held[r] : kept[r] \subseteq rows /\ AssembledFrom(p, rows)
  BY <1>1 DEF AccessInv, ResolvedInv
<1>4. rows \in SUBSET Membership
  BY <1>3 DEF AccessInv, TypeOK
<1>5. /\ p.OrganizationID \in FirstOrganization(rows) /\ p.SiteIDs = SiteSet(rows)
  BY <1>3 DEF AssembledFrom
<1>6. rows # {} => \E m \in rows : p.OrganizationID = m.organization_id
  BY <1>4, <1>5, FirstOrganizationOf
<1>7. \A s \in Sites : s \in p.SiteIDs <=> \E m \in rows : m.site_id = s
  BY <1>4, <1>5, SiteSetOf
<1>8. Running(r) /\ status \in {200, 400, 401, 404, 500}
  BY <1>1 DEF Running
<1>9. Readable(p, id) <=> /\ id \in Sites /\ SiteOrg[id] = p.OrganizationID
                          /\ p.OrganizationID # Null /\ id \in p.SiteIDs
  BY <1>2, ReadableMeans
<1>10. ASSUME status = 200, id \in Sites
       PROVE  /\ \E m \in held[r] : Covers(m, id)
              /\ \E m \in held[r] : m.organization_id = SiteOrg[id]
  <2>1. SiteOrg[id] = p.OrganizationID /\ id \in p.SiteIDs
    BY <1>9, <1>10
  <2> HIDE DEF p, id, status
  <2> QED
    BY <1>3, <1>6, <1>7, <1>10, <2>1 DEF Covers
<1>11. ASSUME status = 404, id \in Sites, held[r] = kept[r],
              NEW m \in held[r], m.site_id = id
       PROVE  \E n \in held[r] : n.site_id = Null \/ n.organization_id # SiteOrg[id]
  <2>1. rows = held[r]
    BY <1>3, <1>11
  <2>2. id \in p.SiteIDs /\ \E n \in rows : p.OrganizationID = n.organization_id
    BY <1>6, <1>7, <1>11, <2>1
  <2>3. ~(p.OrganizationID # Null /\ Readable(p, id))
    BY <1>11
  <2>4. SiteOrg[id] # Null
    BY <1>11, RowsAssumption
  <2> QED
    BY <1>9, <1>11, <2>1, <2>2, <2>3, <2>4
<1> HIDE DEF p, status
<1> QED
  BY <1>1, <1>8, <1>10, <1>11, AnswerStep

\* Every step keeps the invariant.
LEMMA AccessStep == AccessInv /\ [Next]_vars => AccessInv'
<1> SUFFICES ASSUME AccessInv, [Next]_vars PROVE AccessInv'
  OBVIOUS
<1>1. ASSUME NEW m \in Membership, Grant(m) \/ Revoke(m) PROVE AccessInv'
  BY <1>1, GrantStep, RevokeStep
<1>2. ASSUME NEW r \in Requests, Receive(r) \/ Authenticate(r) \/ GetSite(r) PROVE AccessInv'
  BY <1>2, ReceiveStep, AuthenticateStep, GetSiteStep
<1>3. ASSUME NEW r \in Requests, Unauthorized(r) PROVE AccessInv'
  BY <1>3, AnswerStep DEF Unauthorized, Running
<1>4. ASSUME NEW r \in Requests, CurrentPrincipal(r) PROVE AccessInv'
  BY <1>4, AnswerStep, RowsAssumption DEF CurrentPrincipal, Running
<1>5. ASSUME NEW r \in Requests, QueryFails(r) PROVE AccessInv'
  BY <1>5, AnswerStep DEF QueryFails, Running
<1>6. CASE UNCHANGED vars
  BY <1>6 DEF vars, AccessInv, TypeOK, RequestInv, ResolvedInv, AccessGranted,
     SiteScopeHonoured, Refused, Running, RowsOf
<1> QED
  BY <1>1, <1>2, <1>3, <1>4, <1>5, <1>6 DEF Next, Step, Idle

-----------------------------------------------------------------------------
\* The invariant holds in every reachable state.
THEOREM AccessInvariant == Spec => []AccessInv
<1> QED
  BY AccessInit, AccessStep, PTL DEF Spec

\* Requests, principals and replies are well typed, however memberships change.
THEOREM AccessTypes == Spec => []TypeOK
<1>1. AccessInv => TypeOK
  BY DEF AccessInv
<1> QED
  BY <1>1, AccessInvariant, PTL

\* A site is only given to somebody who held, while the request ran, a membership
\* of their own that covers it and one in its organization.
THEOREM AccessIsGranted == Spec => []AccessGranted
<1>1. AccessInv => AccessGranted
  BY DEF AccessInv
<1> QED
  BY <1>1, AccessInvariant, PTL

\* Who held nothing but memberships for sites of one organization, throughout, is
\* not refused any of these sites.
THEOREM SiteScopeIsHonoured == Spec => []SiteScopeHonoured
<1>1. AccessInv => SiteScopeHonoured
  BY DEF AccessInv
<1> QED
  BY <1>1, AccessInvariant, PTL
=============================================================================
