------------------------ MODULE OrganizationRecords ------------------------
(***************************************************************************)
(* The vocabulary of POST /api/v1/organizations: what a request carries,    *)
(* the rows it may write, the checks made before the database is touched    *)
(* and the answers it may get.  The promise (IdempotentCreate) and the      *)
(* implementation (OrganizationCreate) are both written in it.              *)
(***************************************************************************)
EXTENDS Naturals

CONSTANTS
  Requests,     \* executions of the handler
  Principals,   \* principal.ID values
  Text,         \* strings: keys and names, raw and trimmed
  Headers,      \* Idempotency-Key header values clients send
  Names,        \* organization names clients send
  TrimSpace,    \* strings.TrimSpace, a function on Text
  Length,       \* len(s), a function on Text
  HashRequest,  \* sha256 of the marshalled command, a function of the raw name
  Null          \* SQL NULL, an absent value

ASSUME TextAssumption ==
  /\ Headers \subseteq Text
  /\ Names \subseteq Text
  /\ TrimSpace \in [Text -> Text]
  /\ \A t \in Text : TrimSpace[TrimSpace[t]] = TrimSpace[t]
  /\ Length \in [Text -> Nat]
  /\ Null \notin Text

\* SHA-256 has no collisions among the commands clients send.
ASSUME HashAssumption ==
  \A m, n \in Names : HashRequest[m] = HashRequest[n] => m = n

\* UUIDs: id.Generator.New never returns the same value twice.
ID == Requests \X {"organization", "membership", "audit"}
NewID(r, use) == <<r, use>>

\* What the handler is given: the principal the middleware put in the context
\* and whether it holds organization:create, the raw header, and the decoded
\* name (Null when the body is not exactly one object of the schema).
Request == [principal : Principals, mayCreate : BOOLEAN,
            header : Headers, name : Names \cup {Null}]

Organization == [id : ID, name : Text, source : {"OWNED_BY_SKAWLD"}, version : {1}]
Membership == [id : ID, principal : Principals, organization : ID,
               role : {"Administrator"}]
AuditEvent == [id : ID, organization : ID, actor : Principals,
               action : {"organization.created"}, after : Organization]

\* Mutant: the struct literal forgets Version.
NewOrganizationUnversioned(id, name) ==
  [id |-> id, name |-> TrimSpace[name], source |-> "OWNED_BY_SKAWLD", version |-> 0]

\* domain.NewOrganization, and the result the store builds from it.
NewOrganization(id, name) ==
  [id |-> id, name |-> TrimSpace[name], source |-> "OWNED_BY_SKAWLD", version |-> 1]

\* The bootstrap membership of the creator.
NewMembership(id, principal, organization) ==
  [id |-> id, principal |-> principal, organization |-> organization.id,
   role |-> "Administrator"]

\* The audit event of a creation; After is the whole result.
NewAuditEvent(id, principal, organization) ==
  [id |-> id, organization |-> organization.id, actor |-> principal,
   action |-> "organization.created", after |-> organization]

\* The idempotency key is trimmed by the handler and again by the service.
KeyOf(q) == TrimSpace[TrimSpace[q.header]]

\* The primary key of idempotency_keys; the scope column is the constant
\* createOrganizationScope in every row this service writes.
KeyID == Principals \X Text

\* Mutant: the principal is left out of the key.
KeyIDShared(q) == <<CHOOSE p \in Principals : TRUE, KeyOf(q)>>

KeyIDOf(q) == <<q.principal, KeyOf(q)>>

\* What the service returns: a result, whether it is a replay, or an error.
Error == {"ErrMalformedBody", "ErrPermissionDenied", "ErrIdempotencyKey",
          "ErrInvalidOrganization", "ErrKeyConflict", "ErrInProgress",
          "ErrDatabase"}
Reply == [err : Error \cup {"nil"}, replay : BOOLEAN,
          body : Organization \cup {Null}]

\* An absent value is none of the values that may be absent.
ASSUME NullAssumption == Null \notin Request \cup Organization \cup Reply

Failure(e) == [err |-> e, replay |-> FALSE, body |-> Null]
Success(organization, replay) ==
  [err |-> "nil", replay |-> replay, body |-> organization]

\* Mutant: the upper bound on the key is off by one.
ValidateOffByOne(q) ==
  IF q.name = Null THEN "ErrMalformedBody"
  ELSE IF ~q.mayCreate THEN "ErrPermissionDenied"
  ELSE IF Length[KeyOf(q)] < 8 \/ Length[KeyOf(q)] > 201 THEN "ErrIdempotencyKey"
  ELSE IF Length[TrimSpace[q.name]] = 0 THEN "ErrInvalidOrganization"
  ELSE "nil"

\* The checks of the handler and then of the service, in their order.
Validate(q) ==
  IF q.name = Null THEN "ErrMalformedBody"
  ELSE IF ~q.mayCreate THEN "ErrPermissionDenied"
  ELSE IF Length[KeyOf(q)] < 8 \/ Length[KeyOf(q)] > 200 THEN "ErrIdempotencyKey"
  ELSE IF Length[TrimSpace[q.name]] = 0 THEN "ErrInvalidOrganization"
  ELSE "nil"
=============================================================================
