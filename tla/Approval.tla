------------------------------ MODULE Approval ------------------------------
(***************************************************************************)
(* Who may approve: CanApprove over the rows of approval_authorities, which *)
(* are issued, delegated and revoked while time passes, and over the        *)
(* principal that ResolvePrincipal assembles.  No endpoint calls CanApprove *)
(* yet; the model asks it of every request in every state.                  *)
(***************************************************************************)
EXTENDS Principals, FiniteSets

CONSTANTS
  Kinds,         \* scope kinds
  Competencies,
  FoldCase,      \* FoldCase[w]: a kind or competency without regard to case
  ScopeIDs,
  Delegators,    \* who delegates authorities
  MaxRisk,       \* 4, RiskCritical
  MaxTime,       \* bound on the clock
  MaxMembers,    \* bound on memberships
  MaxRows        \* bound on authorities

ASSUME ScopeAssumption ==
  /\ Kinds \cup Competencies \subseteq DOMAIN FoldCase
  /\ Null \notin Kinds \cup Competencies \cup ScopeIDs \cup Nat
  /\ Delegators \subseteq People
  /\ {MaxRisk, MaxTime, MaxMembers, MaxRows} \subseteq Nat

Time == 0..MaxTime
Risk == 0..MaxRisk

\* Null is the empty string, the zero time or NULL.  The schema's CHECK keeps
\* valid_until after valid_from.
Authority ==
  {a \in [SubjectID : People, OrganizationID : Organizations, SiteID : Sites \cup {Null},
          ScopeKind : Kinds \cup {Null}, ScopeID : ScopeIDs \cup {Null},
          Competency : Competencies \cup {Null}, MaximumRisk : Risk,
          ValidFrom : Time \cup {Null}, ValidUntil : Time \cup {Null},
          DelegatedBySubjectID : Delegators \cup {Null}] :
     Null \in {a.ValidFrom, a.ValidUntil} \/ a.ValidUntil > a.ValidFrom}

Request == [OrganizationID : Organizations, SiteID : Sites \cup {Null},
            ScopeKind : Kinds \cup {Null}, ScopeID : ScopeIDs \cup {Null},
            Competency : Competencies \cup {Null}, Risk : Risk, At : Time]

VARIABLES
  memberships,
  authorities,  \* rows that are not revoked
  revoked,      \* rows with a revoked_at
  now

vars == <<memberships, authorities, revoked, now>>

Init == memberships = {} /\ authorities = {} /\ revoked = {} /\ now = 0

-----------------------------------------------------------------------------
(* Operators maintain the rows. *)

Join(m) ==
  /\ Cardinality(memberships) < MaxMembers
  /\ memberships' = memberships \cup {m}
  /\ UNCHANGED <<authorities, revoked, now>>

Issue(a) ==
  /\ Cardinality(authorities \cup revoked) < MaxRows
  /\ authorities' = authorities \cup {a}
  /\ UNCHANGED <<memberships, revoked, now>>

RevokeAuthority(a) ==
  /\ authorities' = authorities \ {a}
  /\ revoked' = revoked \cup {a}
  /\ UNCHANGED <<memberships, now>>

Tick == now < MaxTime /\ now' = now + 1 /\ UNCHANGED <<memberships, authorities, revoked>>

Next ==
  \/ \E m \in Membership : Join(m)
  \/ \E a \in Authority \ (authorities \cup revoked) : Issue(a)
  \/ \E a \in authorities : RevokeAuthority(a)
  \/ Tick

Spec == Init /\ [][Next]_vars

-----------------------------------------------------------------------------
\* A limit that is not set admits everything.
Admits(limit, value) == limit = Null \/ limit = value
AdmitsFold(limit, value) ==
  limit = Null \/ (value # Null /\ FoldCase[limit] = FoldCase[value])

\* Mutant: an authority without a validity end is taken for expired.
CurrentNoEnd(a, at) ==
  /\ a.ValidFrom = Null \/ a.ValidFrom <= at
  /\ a.ValidUntil # Null /\ at < a.ValidUntil

\* Mutant: the first moment of validity is left out.
CurrentAfter(a, at) ==
  /\ a.ValidFrom = Null \/ a.ValidFrom < at
  /\ a.ValidUntil = Null \/ at < a.ValidUntil

Current(a, at) ==
  /\ a.ValidFrom = Null \/ a.ValidFrom <= at
  /\ a.ValidUntil = Null \/ at < a.ValidUntil

\* Everything Matches looks at but RevokedAt.
WithinLimits(a, subjectID, request) ==
  /\ a.SubjectID = subjectID /\ a.OrganizationID = request.OrganizationID
  /\ Admits(a.SiteID, request.SiteID)
  /\ AdmitsFold(a.ScopeKind, request.ScopeKind)
  /\ Admits(a.ScopeID, request.ScopeID)
  /\ AdmitsFold(a.Competency, request.Competency)
  /\ request.Risk <= a.MaximumRisk
  /\ Current(a, request.At)

\* Mutant: RevokedAt is not looked at.
MatchesRevoked(a, subjectID, request) == WithinLimits(a, subjectID, request)

Matches(a, subjectID, request) == a \notin revoked /\ WithinLimits(a, subjectID, request)

CanApprove(principal, permission, rows, request) ==
  /\ Has(principal, permission)
  /\ \E a \in rows : Matches(a, principal.ID, request)

-----------------------------------------------------------------------------
(* Properties *)

\* The rows as a request made now meets them.
RequestNow == {q \in Request : q.At = now}
Rows == authorities \cup revoked

\* The authority a with its validity removed.
Scope(a) == [a EXCEPT !.ValidFrom = Null, !.ValidUntil = Null]

\* Validity is half open: when one authority begins where another with the
\* same scope ends, exactly one of the two covers each moment from the first's
\* beginning to the second's end, the moment of the hand-over included.
HandOver ==
  \A a, b \in authorities :
    Scope(a) = Scope(b) /\ a.ValidUntil # Null /\ a.ValidUntil = b.ValidFrom =>
      \A q \in RequestNow :
        (\E at \in Time : at <= now /\ Matches(a, a.SubjectID, [q EXCEPT !.At = at]))
          /\ (b.ValidUntil = Null \/ now < b.ValidUntil)
        => Matches(a, a.SubjectID, q) # Matches(b, a.SubjectID, q)

\* b is a with some limit set that a leaves open, or with a lower risk ceiling.
Narrower(b, a) ==
  /\ b.SubjectID = a.SubjectID /\ b.OrganizationID = a.OrganizationID
  /\ \A f \in {"SiteID", "ScopeKind", "ScopeID", "Competency", "ValidFrom", "ValidUntil"} :
       a[f] \in {Null, b[f]}
  /\ b.MaximumRisk <= a.MaximumRisk

\* An empty field means any: an authority with further limits never approves
\* what the one without them does not.
LimitsOnlyRestrict ==
  \A a, b \in authorities :
    Narrower(b, a) =>
      \A q \in RequestNow : Matches(b, b.SubjectID, q) => Matches(a, a.SubjectID, q)

Approves(p, permission, q) ==
  \E principal \in ResolvePrincipal(p, memberships) :
    CanApprove(principal, permission, Rows, q)

\* "An approval requires both the ordinary approval permission and a current
\* matching authority grant" (docs/adr/0003-identity-and-approval.md): nobody
\* approves without a membership whose role has the permission, nor when every
\* authority they were issued has been revoked or is over.
BothRequired ==
  \A p \in People, q \in RequestNow, permission \in {"workflow:publish", "report:approve"} :
    Approves(p, permission, q) =>
      /\ \E m \in memberships : m.principal = p /\ permission \in addRolePermissions(m.role)
      /\ \E a \in authorities :
           /\ a.SubjectID = p /\ q.Risk <= a.MaximumRisk
           /\ a.ValidUntil = Null \/ a.ValidUntil > now
=============================================================================
