------------------------- MODULE OrganizationCreate -------------------------
(***************************************************************************)
(* POST /api/v1/organizations: the handler, OrganizationService.Create,     *)
(* OrganizationStore.Create, idempotency.Store, audit.Sink and              *)
(* database.InTx, run by any number of concurrent requests against one      *)
(* PostgreSQL database.                                                     *)
(*                                                                          *)
(* A request is one execution of the HTTP handler; a client that retries    *)
(* issues another request with the same Idempotency-Key.  Requests share    *)
(* the database and a connection pool, and a crash of the process is the    *)
(* loss of the requests it runs.                                            *)
(*                                                                          *)
(* The unit of interleaving is the SQL statement.  Transactions run at READ *)
(* COMMITTED (pgx.TxOptions{}): every statement sees what is committed when *)
(* it starts, plus the writes of its own transaction, kept in tx[r].        *)
(***************************************************************************)
EXTENDS OrganizationRecords, FiniteSets

CONSTANT MaxConns   \* cfg.Database.APIMaxConns

ASSUME MaxConnsAssumption == MaxConns \in Nat \ {0}

\* response stands for response_status and response_body, set together.
KeyRow == [id : KeyID, hash : {HashRequest[n] : n \in Names},
           status : {"PROCESSING", "COMPLETED"},
           response : Organization \cup {Null}]

\* The uncommitted writes of one transaction and the row locks it holds.
Txn == [keys : SUBSET KeyRow, organizations : SUBSET Organization,
        memberships : SUBSET Membership, audit : SUBSET AuditEvent,
        locks : SUBSET KeyID]
EmptyTxn == [keys |-> {}, organizations |-> {}, memberships |-> {},
             audit |-> {}, locks |-> {}]

VARIABLES
  organizations,     \* committed rows of the tables
  memberships,
  audit_events,
  idempotency_keys,
  request,           \* request[r]: the input of r, Null before it arrives
  pc,                \* pc[r]: the next statement of r
  tx,                \* tx[r]: the open transaction of r
  outcome,           \* outcome[r]: what the transaction function returned
  reply              \* reply[r]: what the handler answered, Null if nothing

tables == <<organizations, memberships, audit_events, idempotency_keys>>
vars == <<organizations, memberships, audit_events, idempotency_keys,
          request, pc, tx, outcome, reply>>

\* The program counters at which a request holds a pooled connection.
InTx == {"insert", "select", "organization", "membership", "audit",
         "complete", "commit", "rollback"}

\* "orphan" and "committing": the handler has lost its connection, before or
\* after it sent COMMIT, and PostgreSQL has yet to end the transaction.
PC == InTx \cup {"idle", "begin", "orphan", "committing", "done"}

Key(r) == KeyIDOf(request[r])
Hash(r) == HashRequest[request[r].name]

Init ==
  /\ organizations = {} /\ memberships = {}
  /\ audit_events = {} /\ idempotency_keys = {}
  /\ request = [r \in Requests |-> Null]
  /\ pc = [r \in Requests |-> "idle"]
  /\ tx = [r \in Requests |-> EmptyTxn]
  /\ outcome = [r \in Requests |-> Null]
  /\ reply = [r \in Requests |-> Null]

GoTo(r, label) == pc' = [pc EXCEPT ![r] = label]
Answer(r, answer) == reply' = [reply EXCEPT ![r] = answer]

-----------------------------------------------------------------------------
(* Up to the transaction *)

\* A request arrives; one that fails a check is answered without a statement.
Receive(r) ==
  /\ pc[r] = "idle"
  /\ \E q \in Request :
       /\ request' = [request EXCEPT ![r] = q]
       /\ IF Validate(q) = "nil"
            THEN /\ GoTo(r, "begin")
                 /\ reply' = reply
            ELSE /\ GoTo(r, "done")
                 /\ Answer(r, Failure(Validate(q)))
  /\ UNCHANGED <<tables, tx, outcome>>

\* pool.BeginTx waits for one of MaxConns connections.
BeginTx(r) ==
  /\ pc[r] = "begin"
  /\ Cardinality({q \in Requests : pc[q] \in InTx}) < MaxConns
  /\ GoTo(r, "insert")
  /\ UNCHANGED <<tables, request, tx, outcome, reply>>

\* The context ends while waiting for a connection, BEGIN fails, or the
\* process dies: there is no transaction to roll back.
BeginTxFails(r) ==
  /\ pc[r] = "begin"
  /\ GoTo(r, "done")
  /\ reply' = reply \/ Answer(r, Failure("ErrDatabase"))
  /\ UNCHANGED <<tables, request, tx, outcome>>

-----------------------------------------------------------------------------
(* The transaction, one action per statement *)

\* fn returned: InTx commits when there is no error and rolls back otherwise.
Return(r, result) ==
  /\ outcome' = [outcome EXCEPT ![r] = result]
  /\ GoTo(r, IF result.err = "nil" THEN "commit" ELSE "rollback")

\* The key row as Begin inserts it.
NewKeyRow(r) == [id |-> Key(r), hash |-> Hash(r),
                 status |-> "PROCESSING", response |-> Null]

\* Mutant: idempotency_keys has no unique index.
KeyIsNeverPending(r) == FALSE

\* Another open transaction has inserted this key and has not ended: the
\* unique index makes an INSERT of the same key wait for it.
KeyIsPending(r) ==
  \E q \in Requests \ {r} : \E row \in tx[q].keys : row.id = Key(r)

\* Mutant: the key is inserted through the pool, outside the transaction.
BeginInsertAutocommit(r) ==
  /\ pc[r] = "insert"
  /\ IF \E row \in idempotency_keys : row.id = Key(r)
       THEN /\ GoTo(r, "select")
            /\ UNCHANGED idempotency_keys
       ELSE /\ GoTo(r, "organization")
            /\ idempotency_keys' = idempotency_keys \cup {NewKeyRow(r)}
  /\ UNCHANGED <<organizations, memberships, audit_events>>
  /\ UNCHANGED <<request, tx, outcome, reply>>

\* Begin: INSERT ... 'PROCESSING' ON CONFLICT DO NOTHING.
BeginInsert(r) ==
  /\ pc[r] = "insert"
  /\ ~KeyIsPending(r)
  /\ IF \E row \in idempotency_keys : row.id = Key(r)
       THEN /\ GoTo(r, "select")
            /\ tx' = tx
       ELSE /\ GoTo(r, "organization")
            /\ tx' = [tx EXCEPT ![r].keys = {NewKeyRow(r)}]
  /\ UNCHANGED <<tables, request, outcome, reply>>

\* Mutant: the comparison of the hashes is inverted.
ReplayInverted(row, hash) ==
  IF row.hash = hash THEN Failure("ErrKeyConflict")
  ELSE IF row.status # "COMPLETED" \/ row.response = Null THEN Failure("ErrInProgress")
  ELSE Success(row.response, TRUE)

\* What Begin concludes from the row it loads, and OrganizationStore.Create
\* returns at once: the recorded response or an error.
Replay(row, hash) ==
  IF row.hash # hash THEN Failure("ErrKeyConflict")
  ELSE IF row.status # "COMPLETED" \/ row.response = Null THEN Failure("ErrInProgress")
  ELSE Success(row.response, TRUE)

\* Begin: SELECT ... FOR UPDATE, which waits for other holders of the row lock.
BeginSelect(r) ==
  /\ pc[r] = "select"
  /\ \A q \in Requests \ {r} : Key(r) \notin tx[q].locks
  /\ \E row \in idempotency_keys :
       /\ row.id = Key(r)
       /\ tx' = [tx EXCEPT ![r].locks = {Key(r)}]
       /\ Return(r, Replay(row, Hash(r)))
  /\ UNCHANGED <<tables, request, reply>>

InsertOrganization(r) ==
  /\ pc[r] = "organization"
  /\ tx' = [tx EXCEPT ![r].organizations =
              {NewOrganization(NewID(r, "organization"), request[r].name)}]
  /\ GoTo(r, "membership")
  /\ UNCHANGED <<tables, request, outcome, reply>>

\* The creator becomes Administrator.  site_id is NULL, so the UNIQUE
\* constraint never conflicts and DO NOTHING never applies.
InsertMembership(r) ==
  /\ pc[r] = "membership"
  /\ tx' = [tx EXCEPT ![r].memberships =
              {NewMembership(NewID(r, "membership"), request[r].principal, o) :
                 o \in tx[r].organizations}]
  /\ GoTo(r, "audit")
  /\ UNCHANGED <<tables, request, outcome, reply>>

\* Mutant: the audit event is written through the pool, outside the transaction.
AuditAppendAutocommit(r) ==
  /\ pc[r] = "audit"
  /\ audit_events' = audit_events \cup
       {NewAuditEvent(NewID(r, "audit"), request[r].principal, o) :
          o \in tx[r].organizations}
  /\ GoTo(r, "complete")
  /\ UNCHANGED <<organizations, memberships, idempotency_keys>>
  /\ UNCHANGED <<request, tx, outcome, reply>>

AuditAppend(r) ==
  /\ pc[r] = "audit"
  /\ tx' = [tx EXCEPT ![r].audit =
              {NewAuditEvent(NewID(r, "audit"), request[r].principal, o) :
                 o \in tx[r].organizations}]
  /\ GoTo(r, "complete")
  /\ UNCHANGED <<tables, request, outcome, reply>>

\* The row as Complete leaves it.
CompletedRow(row, o) == [id |-> row.id, hash |-> row.hash,
                         status |-> "COMPLETED", response |-> o]

\* Complete: UPDATE ... WHERE status = 'PROCESSING', which must affect one row.
Complete(r) ==
  /\ pc[r] = "complete"
  /\ \E o \in tx[r].organizations :
       IF \E row \in tx[r].keys : row.status = "PROCESSING"
         THEN /\ tx' = [tx EXCEPT ![r].keys =
                          {CompletedRow(row, o) : row \in tx[r].keys}]
              /\ Return(r, Success(o, FALSE))
         ELSE /\ tx' = tx
              /\ Return(r, Failure("ErrInProgress"))
  /\ UNCHANGED <<tables, request, reply>>

-----------------------------------------------------------------------------
(* The end of the transaction *)

\* The transaction of r becomes durable and its locks are released.
Publish(r) ==
  /\ organizations' = organizations \cup tx[r].organizations
  /\ memberships' = memberships \cup tx[r].memberships
  /\ audit_events' = audit_events \cup tx[r].audit
  /\ idempotency_keys' = idempotency_keys \cup tx[r].keys
  /\ tx' = [tx EXCEPT ![r] = EmptyTxn]

\* The transaction of r is undone and its locks are released.
Discard(r) ==
  /\ tx' = [tx EXCEPT ![r] = EmptyTxn]
  /\ UNCHANGED tables

\* Mutant: the result is answered although the transaction is not committed.
CommitDropped(r) ==
  /\ pc[r] = "commit"
  /\ Discard(r)
  /\ GoTo(r, "done")
  /\ Answer(r, outcome[r])
  /\ UNCHANGED <<request, outcome>>

\* tx.Commit succeeds and the handler writes the result.
Commit(r) ==
  /\ pc[r] = "commit"
  /\ Publish(r)
  /\ GoTo(r, "done")
  /\ Answer(r, outcome[r])
  /\ UNCHANGED <<request, outcome>>

\* A statement or the COMMIT is refused: lock_timeout while waiting for a key
\* or a row, statement_timeout, a constraint.  fn or InTx returns the error.
StatementFails(r) ==
  /\ pc[r] \in InTx \ {"rollback"}
  /\ outcome' = [outcome EXCEPT ![r] = Failure("ErrDatabase")]
  /\ GoTo(r, "rollback")
  /\ UNCHANGED <<tables, request, tx, reply>>

\* Mutant: no deferred Rollback; the transaction stays open.
RollbackMissing(r) ==
  /\ pc[r] = "rollback"
  /\ GoTo(r, "done")
  /\ Answer(r, outcome[r])
  /\ UNCHANGED <<tables, request, tx, outcome>>

\* The deferred tx.Rollback, then the error response.
Rollback(r) ==
  /\ pc[r] = "rollback"
  /\ Discard(r)
  /\ GoTo(r, "done")
  /\ Answer(r, outcome[r])
  /\ UNCHANGED <<request, outcome>>

\* The connection breaks, the context is cancelled (pgx then closes the
\* connection) or the process dies, and the transaction stays open in
\* PostgreSQL.  The handler answers an error or nothing; the error of a Rollback
\* is discarded, and what fn had returned is answered.  A COMMIT already sent
\* may still be carried out.
Disconnect(r) ==
  /\ pc[r] \in InTx
  /\ \/ GoTo(r, "orphan")
     \/ pc[r] = "commit" /\ GoTo(r, "committing")
  /\ \/ reply' = reply
     \/ Answer(r, IF pc[r] = "rollback" THEN outcome[r] ELSE Failure("ErrDatabase"))
  /\ UNCHANGED <<tables, request, tx, outcome>>

\* PostgreSQL notices that the client is gone and aborts the transaction.
ServerAbort(r) ==
  /\ pc[r] = "orphan"
  /\ Discard(r)
  /\ GoTo(r, "done")
  /\ UNCHANGED <<request, outcome, reply>>

\* PostgreSQL carries out a COMMIT whose acknowledgement nobody receives.
ServerCommit(r) ==
  /\ pc[r] = "committing"
  /\ Publish(r)
  /\ GoTo(r, "done")
  /\ UNCHANGED <<request, outcome, reply>>

-----------------------------------------------------------------------------
\* The steps of r that happen unless something fails.
Proceed(r) ==
  \/ BeginTx(r) \/ BeginInsert(r) \/ BeginSelect(r)
  \/ InsertOrganization(r) \/ InsertMembership(r) \/ AuditAppend(r)
  \/ Complete(r) \/ Commit(r) \/ Rollback(r)
  \/ ServerAbort(r) \/ ServerCommit(r)

Fault(r) == BeginTxFails(r) \/ StatementFails(r) \/ Disconnect(r)

\* Every request has been served: the service is idle, not deadlocked.
AllServed == (\A r \in Requests : pc[r] = "done") /\ UNCHANGED vars

Next ==
  \/ \E r \in Requests : Receive(r) \/ Proceed(r) \/ Fault(r)
  \/ AllServed

Spec == Init /\ [][Next]_vars

\* Handlers run and PostgreSQL ends the transactions of lost connections; no
\* fault is forced, lock_timeout included.
Fairness == \A r \in Requests : WF_vars(Proceed(r))
FairSpec == Spec /\ Fairness

-----------------------------------------------------------------------------
(* Properties *)

\* Every variable holds a value of its kind.
TypeOK ==
  /\ organizations \in SUBSET Organization
  /\ memberships \in SUBSET Membership
  /\ audit_events \in SUBSET AuditEvent
  /\ idempotency_keys \in SUBSET KeyRow
  /\ request \in [Requests -> Request \cup {Null}]
  /\ pc \in [Requests -> PC]
  /\ tx \in [Requests -> Txn]
  /\ outcome \in [Requests -> Reply \cup {Null}]
  /\ reply \in [Requests -> Reply \cup {Null}]

\* No crash, lost connection or failed statement between Begin and Complete
\* leaves a key behind that can never be replayed: every committed row of
\* idempotency_keys is COMPLETED and its response is a committed organization.
KeysComplete ==
  \A row \in idempotency_keys :
    row.status = "COMPLETED" /\ row.response \in organizations

\* "Organization created atomically with membership and audit", and once per
\* key: whatever fails, the committed organizations, Administrator memberships
\* and audit events correspond one to one to the committed keys, the member
\* and the actor are the key's principal, and no key has two rows.
ExactlyOnce ==
  /\ \A row1, row2 \in idempotency_keys : row1.id = row2.id => row1 = row2
  /\ \A o \in organizations :
       \E row \in idempotency_keys :
         /\ row.response = o
         /\ \A other \in idempotency_keys : other.response = o => other = row
         /\ \E m \in memberships :
              /\ m.organization = o.id /\ m.principal = row.id[1]
              /\ \A n \in memberships : n.organization = o.id => n = m
         /\ \E e \in audit_events :
              /\ e.after = o /\ e.actor = row.id[1]
              /\ \A f \in audit_events : f.organization = o.id => f = e
  /\ \A m \in memberships : \E o \in organizations : m.organization = o.id
  /\ \A e \in audit_events : e.after \in organizations

Succeeded(r) == reply[r] # Null /\ reply[r].err = "nil"

\* All requests of one principal with one key that are answered with an
\* organization are answered with the same one, and at most one of them is told
\* that it created it (201); the others are replays (200).
SameAnswer ==
  \A q, r \in Requests :
    Succeeded(q) /\ Succeeded(r) /\ Key(q) = Key(r) =>
      /\ reply[q].body = reply[r].body
      /\ q # r => reply[q].replay \/ reply[r].replay

\* An answer with an organization is durable and is an answer to what was
\* asked: the organization is committed, carries the name of this very request
\* and has this request's principal as Administrator, replays included.
AnswerFitsRequest ==
  \A r \in Requests : Succeeded(r) =>
    /\ reply[r].body \in organizations
    /\ reply[r].body.name = TrimSpace[request[r].name]
    /\ \E m \in memberships :
         /\ m.organization = reply[r].body.id
         /\ m.principal = request[r].principal

\* ErrInProgress, which the handler does not know and answers with a 500, is
\* never returned: a concurrent request waits for the unique index instead of
\* meeting a PROCESSING row.
NeverInProgress ==
  \A r \in Requests : outcome[r] # Null => outcome[r].err # "ErrInProgress"

\* A 409 is deserved: the same principal has used the key for a command whose
\* name differs (before trimming) and that command took effect.
ConflictJustified ==
  \A r \in Requests : reply[r] = Failure("ErrKeyConflict") =>
    \E q \in Requests \ {r} :
      /\ request[q] # Null
      /\ Key(q) = Key(r)
      /\ request[q].name # request[r].name
      /\ \E o \in organizations : o.id = NewID(q, "organization")

\* What reaches the tables went through every check: a stored key has 8 to 200
\* bytes, is trimmed and belongs to a principal who may create organizations,
\* and no stored name is blank.
OnlyValidStored ==
  /\ \A row \in idempotency_keys :
       /\ Length[row.id[2]] \in 8..200
       /\ TrimSpace[row.id[2]] = row.id[2]
       /\ \E r \in Requests : /\ request[r] # Null /\ request[r].mayCreate
                              /\ Key(r) = row.id
  /\ \A o \in organizations : Length[o.name] > 0

-----------------------------------------------------------------------------
(* The inductive invariant *)

\* What r writes when it takes effect.
OrganizationOf(r) == NewOrganization(NewID(r, "organization"), request[r].name)
MembershipOf(r) ==
  NewMembership(NewID(r, "membership"), request[r].principal, OrganizationOf(r))
AuditEventOf(r) ==
  NewAuditEvent(NewID(r, "audit"), request[r].principal, OrganizationOf(r))
KeyRowOf(r) == [id |-> Key(r), hash |-> Hash(r),
                status |-> "COMPLETED", response |-> OrganizationOf(r)]

Valid(r) == request[r] # Null /\ Validate(request[r]) = "nil"

\* A request is known once it is received, and only valid ones go on.
RequestInv ==
  \A r \in Requests :
    /\ pc[r] = "idle" <=> request[r] = Null
    /\ pc[r] \notin {"idle", "done"} => Valid(r)

\* How far a creating transaction has come, by its next statement.
Writes(r, written) ==
  [keys |-> {IF "key" \in written THEN KeyRowOf(r) ELSE NewKeyRow(r)},
   organizations |-> IF "organization" \in written THEN {OrganizationOf(r)} ELSE {},
   memberships |-> IF "membership" \in written THEN {MembershipOf(r)} ELSE {},
   audit |-> IF "audit" \in written THEN {AuditEventOf(r)} ELSE {},
   locks |-> {}]
Creating(r) == tx[r] = Writes(r, {"key", "organization", "membership", "audit"})

\* answer follows from a committed row of r's key, and r has written nothing.
Consulted(r, answer) ==
  \E row \in idempotency_keys : row.id = Key(r) /\ answer = Replay(row, Hash(r))
Reading(r) == tx[r] = [EmptyTxn EXCEPT !.locks = {Key(r)}]

\* What an open transaction holds, statement by statement; a transaction that
\* is about to be undone holds at most r's own key.
TxInvOf(r) ==
  /\ pc[r] \in {"idle", "begin", "insert", "select", "done"} => tx[r] = EmptyTxn
  /\ pc[r] = "organization" => tx[r] = Writes(r, {})
  /\ pc[r] = "membership" => tx[r] = Writes(r, {"organization"})
  /\ pc[r] = "audit" => tx[r] = Writes(r, {"organization", "membership"})
  /\ pc[r] = "complete" => tx[r] = Writes(r, {"organization", "membership", "audit"})
  /\ pc[r] \in {"commit", "committing"} =>
       \/ Creating(r) /\ outcome[r] = Success(OrganizationOf(r), FALSE)
       \/ Reading(r) /\ Consulted(r, outcome[r])
  /\ pc[r] = "rollback" =>
       outcome[r] = Failure("ErrDatabase") \/ Consulted(r, outcome[r])
  /\ \A row \in tx[r].keys : row.id = Key(r)

TxInv == \A r \in Requests : TxInvOf(r)

\* At most one open transaction holds a key, and only while it is not committed.
KeyExclusion ==
  \A r \in Requests : tx[r].keys # {} =>
    /\ \A row \in idempotency_keys : row.id # Key(r)
    /\ \A q \in Requests \ {r} : tx[q].keys # {} => Key(q) # Key(r)

\* The four tables are the effects of one set of requests with distinct keys.
TablesInv ==
  \E effective \in SUBSET {r \in Requests : pc[r] = "done" /\ Valid(r)} :
    /\ idempotency_keys = {KeyRowOf(r) : r \in effective}
    /\ organizations = {OrganizationOf(r) : r \in effective}
    /\ memberships = {MembershipOf(r) : r \in effective}
    /\ audit_events = {AuditEventOf(r) : r \in effective}
    /\ \A q, r \in effective : Key(q) = Key(r) => q = r

\* Every answer is a refusal, an internal error, or follows from the key's row.
ReplyInvOf(r) ==
  /\ outcome[r] # Null => outcome[r].err # "ErrInProgress"
  /\ pc[r] \notin {"orphan", "committing", "done"} => reply[r] = Null
  /\ pc[r] = "committing" => reply[r] \in {Null, Failure("ErrDatabase")}
  /\ pc[r] = "orphan" =>
       reply[r] \in {Null, Failure("ErrDatabase")} \/ Consulted(r, reply[r])
  /\ reply[r] # Null =>
       \/ reply[r].err \notin {"nil", "ErrKeyConflict", "ErrInProgress"}
       \/ /\ Valid(r)
          /\ \/ /\ reply[r] = Success(OrganizationOf(r), FALSE)
                /\ KeyRowOf(r) \in idempotency_keys
             \/ Consulted(r, reply[r])

ReplyInv == \A r \in Requests : ReplyInvOf(r)

\* The inductive invariant behind the properties above: it follows every
\* statement of a request, so that a commit is known to publish either all of a
\* creation under a key nobody else holds, or nothing.
IInv ==
  /\ TypeOK /\ RequestInv /\ TxInv /\ KeyExclusion /\ TablesInv /\ ReplyInv

-----------------------------------------------------------------------------
\* Every request that arrives comes to an end though its transaction waits for
\* connections, for the unique index and for row locks held by others: nobody
\* waits in a circle, and no lock_timeout is needed to make progress.
EveryRequestEnds ==
  \A r \in Requests : pc[r] = "begin" ~> pc[r] = "done"

\* The handler implements the abstract service: it takes effect in one step,
\* the commit, and the committed key rows are the ledger.
Promise == INSTANCE IdempotentCreate WITH
  ledger <- {[id |-> row.id, hash |-> row.hash, response |-> row.response] :
               row \in idempotency_keys}
ImplementsPromise == Promise!Spec
=============================================================================
