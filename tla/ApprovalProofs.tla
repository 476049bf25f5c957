--------------------------- MODULE ApprovalProofs ---------------------------
(***************************************************************************)
(* Who may approve, for any rows of authorities and memberships, any scopes *)
(* and any length of time.                                                  *)
(***************************************************************************)
EXTENDS Approval, TLAPS

\* A row is revoked or not, and rows and clock have their types.
ApprovalInv ==
  /\ memberships \in SUBSET Membership
  /\ authorities \in SUBSET Authority /\ revoked \in SUBSET Authority
  /\ authorities \cap revoked = {}
  /\ now \in Time

\* Rows are issued once and revoked for good.
LEMMA ApprovalStep == ApprovalInv /\ [Next]_vars => ApprovalInv'
<1> SUFFICES ASSUME ApprovalInv, [Next]_vars PROVE ApprovalInv'
  OBVIOUS
<1>1. CASE \E m \in Membership : Join(m)
  BY <1>1 DEF ApprovalInv, Join
<1>2. CASE \E a \in Authority \ (authorities \cup revoked) : Issue(a)
  BY <1>2 DEF ApprovalInv, Issue
<1>3. CASE \E a \in authorities : RevokeAuthority(a)
  BY <1>3 DEF ApprovalInv, RevokeAuthority
<1>4. CASE Tick
  BY <1>4, ScopeAssumption DEF ApprovalInv, Tick, Time
<1>5. CASE UNCHANGED vars
  BY <1>5 DEF ApprovalInv, vars
<1> QED
  BY <1>1, <1>2, <1>3, <1>4, <1>5 DEF Next

\* The invariant holds of every behaviour.
LEMMA ApprovalInvariant == Spec => []ApprovalInv
<1>1. Init => ApprovalInv
  BY ScopeAssumption DEF Init, ApprovalInv, Time
<1> QED
  BY <1>1, ApprovalStep, PTL DEF Spec

-----------------------------------------------------------------------------
(* Validity *)

\* What does not depend on the moment.
Covers(a, subjectID, q) ==
  /\ a.SubjectID = subjectID /\ a.OrganizationID = q.OrganizationID
  /\ Admits(a.SiteID, q.SiteID) /\ AdmitsFold(a.ScopeKind, q.ScopeKind)
  /\ Admits(a.ScopeID, q.ScopeID) /\ AdmitsFold(a.Competency, q.Competency)
  /\ q.Risk <= a.MaximumRisk

\* A request at another moment differs in nothing else.
LEMMA AtAnotherMoment ==
  ASSUME NEW q \in Request, NEW at \in Time, NEW a, NEW subjectID
  PROVE  WithinLimits(a, subjectID, [q EXCEPT !.At = at])
           <=> Covers(a, subjectID, q) /\ Current(a, at)
BY DEF Request, WithinLimits, Covers

\* Authorities of the same scope cover the same requests.
LEMMA SameScope ==
  ASSUME NEW a \in Authority, NEW b \in Authority, Scope(a) = Scope(b), NEW subjectID, NEW q
  PROVE  Covers(a, subjectID, q) <=> Covers(b, subjectID, q)
<1>1. \A c \in Authority :
        /\ Scope(c).SubjectID = c.SubjectID /\ Scope(c).OrganizationID = c.OrganizationID
        /\ Scope(c).SiteID = c.SiteID /\ Scope(c).ScopeKind = c.ScopeKind
        /\ Scope(c).ScopeID = c.ScopeID /\ Scope(c).Competency = c.Competency
        /\ Scope(c).MaximumRisk = c.MaximumRisk
  BY DEF Scope, Authority
<1>2. /\ a.SubjectID = b.SubjectID /\ a.OrganizationID = b.OrganizationID
      /\ a.SiteID = b.SiteID /\ a.ScopeKind = b.ScopeKind
      /\ a.ScopeID = b.ScopeID /\ a.Competency = b.Competency
      /\ a.MaximumRisk = b.MaximumRisk
  BY <1>1
<1> QED
  BY <1>2 DEF Covers

\* Validity is half open: where one authority hands over to the next, every
\* moment is covered once.
THEOREM HandOverIsExact == Spec => []HandOver
<1>1. ApprovalInv => HandOver
  <2> SUFFICES ASSUME ApprovalInv, NEW a \in authorities, NEW b \in authorities,
                      Scope(a) = Scope(b), a.ValidUntil # Null, a.ValidUntil = b.ValidFrom,
                      NEW q \in RequestNow, NEW at \in Time, at <= now,
                      Matches(a, a.SubjectID, [q EXCEPT !.At = at]),
                      b.ValidUntil = Null \/ now < b.ValidUntil
               PROVE  Matches(a, a.SubjectID, q) # Matches(b, a.SubjectID, q)
    BY DEF HandOver
  <2>1. /\ a \in Authority /\ b \in Authority /\ a \notin revoked /\ b \notin revoked
        /\ q \in Request /\ q.At = now /\ now \in Nat /\ at \in Nat /\ Null \notin Nat
    BY ScopeAssumption DEF ApprovalInv, RequestNow, Time
  <2>2. /\ a.ValidUntil \in Nat /\ a.ValidFrom \in Nat \cup {Null}
        /\ b.ValidUntil \in Nat \cup {Null}
    BY <2>1, ScopeAssumption DEF Authority, Time
  <2>3. Covers(a, a.SubjectID, q) /\ Covers(b, a.SubjectID, q) /\ Current(a, at)
    BY <2>1, AtAnotherMoment, SameScope DEF Matches
  <2>4. a.ValidFrom = Null \/ a.ValidFrom <= now
    BY <2>1, <2>2, <2>3 DEF Current
  <2>5. Matches(a, a.SubjectID, q) <=> now < a.ValidUntil
    BY <2>1, <2>2, <2>3, <2>4 DEF Matches, WithinLimits, Covers, Current
  <2>6. Matches(b, a.SubjectID, q) <=> a.ValidUntil <= now
    BY <2>1, <2>2, <2>3 DEF Matches, WithinLimits, Covers, Current
  <2> QED
    BY <2>1, <2>2, <2>5, <2>6
<1> QED
  BY <1>1, ApprovalInvariant, PTL

-----------------------------------------------------------------------------
(* Limits *)

\* An open limit admits what a set one admits.
LEMMA OpenAdmits ==
  ASSUME NEW wide, NEW narrow, wide \in {Null, narrow}, NEW value
  PROVE  /\ Admits(narrow, value) => Admits(wide, value)
         /\ AdmitsFold(narrow, value) => AdmitsFold(wide, value)
BY DEF Admits, AdmitsFold

\* An empty field means any, so that limits only restrict.
THEOREM LimitsRestrict == Spec => []LimitsOnlyRestrict
<1>1. ApprovalInv => LimitsOnlyRestrict
  <2> SUFFICES ASSUME ApprovalInv, NEW a \in authorities, NEW b \in authorities,
                      Narrower(b, a), NEW q \in RequestNow, Matches(b, b.SubjectID, q)
               PROVE  Matches(a, a.SubjectID, q)
    BY DEF LimitsOnlyRestrict
  <2>1. /\ a \in Authority /\ b \in Authority /\ a \notin revoked /\ q \in Request
        /\ WithinLimits(b, b.SubjectID, q)
    BY DEF ApprovalInv, RequestNow, Matches
  <2>2. /\ b.SubjectID = a.SubjectID /\ b.OrganizationID = a.OrganizationID
        /\ a.SiteID \in {Null, b.SiteID} /\ a.ScopeKind \in {Null, b.ScopeKind}
        /\ a.ScopeID \in {Null, b.ScopeID} /\ a.Competency \in {Null, b.Competency}
        /\ a.ValidFrom \in {Null, b.ValidFrom} /\ a.ValidUntil \in {Null, b.ValidUntil}
        /\ b.MaximumRisk <= a.MaximumRisk
    BY DEF Narrower
  <2>3. a.MaximumRisk \in Nat /\ b.MaximumRisk \in Nat /\ q.Risk \in Nat
    BY <2>1, ScopeAssumption DEF Authority, Request, Risk
  <2>4. q.Risk <= a.MaximumRisk
    BY <2>1, <2>2, <2>3 DEF WithinLimits
  <2>5. Current(a, q.At)
    BY <2>1, <2>2 DEF WithinLimits, Current
  <2>6. /\ Admits(a.SiteID, q.SiteID) /\ AdmitsFold(a.ScopeKind, q.ScopeKind)
        /\ Admits(a.ScopeID, q.ScopeID) /\ AdmitsFold(a.Competency, q.Competency)
    BY <2>1, <2>2, OpenAdmits DEF WithinLimits
  <2> QED
    BY <2>1, <2>2, <2>4, <2>5, <2>6 DEF Matches, WithinLimits
<1> QED
  BY <1>1, ApprovalInvariant, PTL

-----------------------------------------------------------------------------
(* Permission and authority *)

\* The bootstrap list gives one permission; every other comes with a role.
LEMMA PermissionByRole ==
  ASSUME NEW p, NEW rows, NEW permission \in Permissions(p, rows),
         permission # "organization:create"
  PROVE  \E m \in rows : permission \in addRolePermissions(m.role)
BY DEF Permissions

\* "An approval requires both": a role of one's own with the permission, and an
\* authority of one's own that is neither revoked nor over.
THEOREM ApprovalNeedsBoth == Spec => []BothRequired
<1>1. ApprovalInv => BothRequired
  <2> SUFFICES ASSUME ApprovalInv, NEW p \in People, NEW q \in RequestNow,
                      NEW permission \in {"workflow:publish", "report:approve"},
                      Approves(p, permission, q)
               PROVE  /\ \E m \in memberships :
                           m.principal = p /\ permission \in addRolePermissions(m.role)
                      /\ \E a \in authorities :
                           /\ a.SubjectID = p /\ q.Risk <= a.MaximumRisk
                           /\ a.ValidUntil = Null \/ a.ValidUntil > now
    BY DEF BothRequired
  <2>1. PICK principal \in ResolvePrincipal(p, memberships) :
          /\ permission \in principal.Permissions
          /\ \E a \in Rows : Matches(a, principal.ID, q)
    BY DEF Approves, CanApprove, Has
  <2>2. principal.ID = p /\ principal.Permissions = Permissions(p, MembershipsOf(p, memberships))
    BY DEF ResolvePrincipal
  <2>3. \E m \in MembershipsOf(p, memberships) : permission \in addRolePermissions(m.role)
    BY <2>1, <2>2, PermissionByRole
  <2>4. PICK a \in Rows : Matches(a, p, q)
    BY <2>1, <2>2
  <2>5. a \in authorities /\ a \in Authority /\ q.At = now /\ now \in Nat
    BY <2>4, ScopeAssumption DEF Rows, Matches, ApprovalInv, RequestNow, Time
  <2>6. a.ValidUntil \in Nat \cup {Null}
    BY <2>5, ScopeAssumption DEF Authority, Time
  <2>7. /\ a.SubjectID = p /\ q.Risk <= a.MaximumRisk
        /\ a.ValidUntil = Null \/ a.ValidUntil > now
    BY <2>4, <2>5, <2>6 DEF Matches, WithinLimits, Current
  <2> QED
    BY <2>3, <2>5, <2>7 DEF MembershipsOf
<1> QED
  BY <1>1, ApprovalInvariant, PTL
=============================================================================
