-------------------------- MODULE IdempotentCreate --------------------------
(***************************************************************************)
(* What POST /api/v1/organizations promises, with no transaction, lock or   *)
(* connection in sight: the first effective request of a principal with a   *)
(* key creates one organization, its administrator and its audit event in   *)
(* one step and records the result in a ledger; any other request with that *)
(* key only reads the ledger.  A caller may be told of a failure, or told   *)
(* nothing, although its request took effect or still will; it can always   *)
(* ask again.                                                               *)
(***************************************************************************)
EXTENDS OrganizationRecords

VARIABLES organizations, memberships, audit_events,
          ledger,    \* entries [id, hash, response], one per key used
          request,   \* request[r]: the input of r, Null before it arrives
          reply      \* reply[r]: the answer to r, Null while there is none

vars == <<organizations, memberships, audit_events, ledger, request, reply>>

Init ==
  /\ organizations = {} /\ memberships = {} /\ audit_events = {} /\ ledger = {}
  /\ request = [r \in Requests |-> Null]
  /\ reply = [r \in Requests |-> Null]

Answer(r, answer) == reply' = [reply EXCEPT ![r] = answer]

\* A request arrives and, when it is invalid, is refused with no other effect.
Submit(r) ==
  /\ request[r] = Null
  /\ \E q \in Request :
       /\ request' = [request EXCEPT ![r] = q]
       /\ IF Validate(q) = "nil" THEN reply' = reply
                                 ELSE Answer(r, Failure(Validate(q)))
  /\ UNCHANGED <<organizations, memberships, audit_events, ledger>>

\* r is valid and has neither succeeded nor been refused.
Open(r) ==
  /\ request[r] # Null
  /\ Validate(request[r]) = "nil"
  /\ reply[r] \in {Null, Failure("ErrDatabase")}

\* The effect of the first request with a key, at most once per key.
Create(r) ==
  LET q == request[r]
      o == NewOrganization(NewID(r, "organization"), q.name)
  IN
  /\ Open(r)
  /\ \A entry \in ledger : entry.id # KeyIDOf(q)
  /\ organizations' = organizations \cup {o}
  /\ memberships' = memberships \cup
       {NewMembership(NewID(r, "membership"), q.principal, o)}
  /\ audit_events' = audit_events \cup
       {NewAuditEvent(NewID(r, "audit"), q.principal, o)}
  /\ ledger' = ledger \cup
       {[id |-> KeyIDOf(q), hash |-> HashRequest[q.name], response |-> o]}
  /\ \/ reply' = reply
     \/ reply[r] = Null /\ Answer(r, Success(o, FALSE))
  /\ UNCHANGED request

\* A request whose key is in the ledger: replayed when it is the same command,
\* refused when it is another.
Consult(r) ==
  /\ Open(r)
  /\ reply[r] = Null
  /\ \E entry \in ledger :
       /\ entry.id = KeyIDOf(request[r])
       /\ Answer(r, IF entry.hash = HashRequest[request[r].name]
                      THEN Success(entry.response, TRUE)
                      ELSE Failure("ErrKeyConflict"))
  /\ UNCHANGED <<organizations, memberships, audit_events, ledger, request>>

\* The caller is told of an internal error; the effect is left open.
GiveUp(r) ==
  /\ Open(r)
  /\ reply[r] = Null
  /\ Answer(r, Failure("ErrDatabase"))
  /\ UNCHANGED <<organizations, memberships, audit_events, ledger, request>>

Next == \E r \in Requests : Submit(r) \/ Create(r) \/ Consult(r) \/ GiveUp(r)

Spec == Init /\ [][Next]_vars
=============================================================================
