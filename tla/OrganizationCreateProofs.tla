--------------------- MODULE OrganizationCreateProofs ---------------------
(* Theorems about OrganizationCreate, for any number of requests. *)
EXTENDS OrganizationCreate, TLAPS

-----------------------------------------------------------------------------
(* Requests and rows *)

\* A request that passes every check carries a name.
LEMMA ValidName ==
  ASSUME NEW q \in Request, Validate(q) = "nil"
  PROVE  q.name \in Names
BY DEF Request, Validate

\* The key of a request is a key identifier.
LEMMA KeyType ==
  ASSUME NEW q \in Request
  PROVE  KeyIDOf(q) \in KeyID
BY TextAssumption DEF Request, KeyIDOf, KeyOf, KeyID

\* Every answer Validate gives is an error of the vocabulary or "nil".
LEMMA ValidateType ==
  ASSUME NEW q \in Request
  PROVE  Validate(q) \in Error \cup {"nil"}
BY DEF Validate, Error

\* What a valid request writes has the types of the tables.
LEMMA RowTypes ==
  ASSUME NEW r \in Requests, NEW n \in Names, NEW p \in Principals
  PROVE  LET o == NewOrganization(NewID(r, "organization"), n) IN
         /\ o \in Organization
         /\ NewMembership(NewID(r, "membership"), p, o) \in Membership
         /\ NewAuditEvent(NewID(r, "audit"), p, o) \in AuditEvent
BY TextAssumption
   DEF NewOrganization, NewMembership, NewAuditEvent, NewID, ID,
       Organization, Membership, AuditEvent

\* A failure and a success are replies.
LEMMA ReplyTypes ==
  /\ \A e \in Error : Failure(e) \in Reply
  /\ \A o \in Organization \cup {Null}, b \in BOOLEAN : Success(o, b) \in Reply
BY DEF Failure, Success, Reply

\* What Begin concludes from a row is a reply.
LEMMA ReplayType ==
  ASSUME NEW row \in KeyRow, NEW h
  PROVE  Replay(row, h) \in Reply
BY ReplyTypes DEF Replay, KeyRow, Error

-----------------------------------------------------------------------------
(* Types *)

TypeInv == TypeOK /\ RequestInv

\* In a state of the invariant, a valid request and what it would write have
\* their types.
LEMMA ValidTypes ==
  ASSUME TypeInv, NEW r \in Requests, Valid(r)
  PROVE  /\ request[r] \in Request
         /\ request[r].name \in Names
         /\ request[r].principal \in Principals
         /\ Key(r) \in KeyID
         /\ Hash(r) \in {HashRequest[n] : n \in Names}
         /\ NewKeyRow(r) \in KeyRow
         /\ KeyRowOf(r) \in KeyRow
         /\ OrganizationOf(r) \in Organization
<1>1. request[r] \in Request
  BY DEF TypeInv, TypeOK, Valid
<1>2. request[r].name \in Names /\ request[r].principal \in Principals
  BY <1>1, ValidName DEF Valid, Request
<1>3. Key(r) \in KeyID
  BY <1>1, KeyType DEF Key
<1>4. OrganizationOf(r) \in Organization
  BY <1>2, RowTypes DEF OrganizationOf
<1>5. Hash(r) \in {HashRequest[n] : n \in Names}
  BY <1>2 DEF Hash
<1> QED
  BY <1>1, <1>2, <1>3, <1>4, <1>5 DEF NewKeyRow, KeyRowOf, KeyRow

\* Publishing a transaction's writes and emptying it keeps the types.
LEMMA PublishTypes ==
  ASSUME TypeOK, NEW r \in Requests, Publish(r) \/ Discard(r)
  PROVE  /\ organizations' \in SUBSET Organization
         /\ memberships' \in SUBSET Membership
         /\ audit_events' \in SUBSET AuditEvent
         /\ idempotency_keys' \in SUBSET KeyRow
         /\ tx' \in [Requests -> Txn]
BY DEF TypeOK, Publish, Discard, tables, Txn, EmptyTxn

\* Writing typed rows or locks keeps a transaction typed.
LEMMA TxnWrite ==
  ASSUME tx \in [Requests -> Txn], NEW r \in Requests
  PROVE  /\ \A S \in SUBSET KeyRow : [tx EXCEPT ![r].keys = S] \in [Requests -> Txn]
         /\ \A S \in SUBSET Organization :
              [tx EXCEPT ![r].organizations = S] \in [Requests -> Txn]
         /\ \A S \in SUBSET Membership :
              [tx EXCEPT ![r].memberships = S] \in [Requests -> Txn]
         /\ \A S \in SUBSET AuditEvent : [tx EXCEPT ![r].audit = S] \in [Requests -> Txn]
         /\ \A S \in SUBSET KeyID : [tx EXCEPT ![r].locks = S] \in [Requests -> Txn]
<1>1. tx[r] \in Txn
  OBVIOUS
<1>2. ASSUME NEW t \in Txn PROVE [tx EXCEPT ![r] = t] \in [Requests -> Txn]
  OBVIOUS
<1>3. /\ \A S \in SUBSET KeyRow : [tx[r] EXCEPT !.keys = S] \in Txn
      /\ \A S \in SUBSET Organization : [tx[r] EXCEPT !.organizations = S] \in Txn
      /\ \A S \in SUBSET Membership : [tx[r] EXCEPT !.memberships = S] \in Txn
      /\ \A S \in SUBSET AuditEvent : [tx[r] EXCEPT !.audit = S] \in Txn
      /\ \A S \in SUBSET KeyID : [tx[r] EXCEPT !.locks = S] \in Txn
  BY <1>1 DEF Txn
<1> QED
  BY <1>2, <1>3

\* Every variable starts with a value of its kind.
LEMMA TypeInit == Init => TypeInv
BY NullAssumption DEF Init, TypeInv, TypeOK, RequestInv, PC, InTx, EmptyTxn, Txn

\* No action of the handler or of PostgreSQL takes a variable out of its kind.
LEMMA TypeStep == TypeInv /\ [Next]_vars => TypeInv'
<1> SUFFICES ASSUME TypeInv, [Next]_vars PROVE TypeInv'
  OBVIOUS
<1> USE DEF TypeInv
<1>1. ASSUME NEW r \in Requests, Receive(r) PROVE TypeInv'
  <2>1. PICK q \in Request :
          /\ request' = [request EXCEPT ![r] = q]
          /\ IF Validate(q) = "nil"
               THEN GoTo(r, "begin") /\ reply' = reply
               ELSE GoTo(r, "done") /\ Answer(r, Failure(Validate(q)))
    BY <1>1 DEF Receive
  <2>2. Validate(q) # "nil" => Failure(Validate(q)) \in Reply
    BY ValidateType, ReplyTypes
  <2>3. TypeOK'
    BY <1>1, <2>1, <2>2 DEF TypeOK, Receive, tables, GoTo, Answer, PC
  <2>4. RequestInv'
    BY <1>1, <2>1, NullAssumption DEF TypeOK, Receive, GoTo, RequestInv, Valid
  <2> QED BY <2>3, <2>4
<1>2. ASSUME NEW r \in Requests, BeginTx(r) PROVE TypeInv'
  BY <1>2 DEF TypeOK, BeginTx, GoTo, tables, PC, InTx, RequestInv, Valid
<1>3. ASSUME NEW r \in Requests, BeginTxFails(r) PROVE TypeInv'
  BY <1>3, ReplyTypes
     DEF TypeOK, BeginTxFails, GoTo, Answer, Error, tables, PC, RequestInv, Valid
<1>4. ASSUME NEW r \in Requests, BeginInsert(r) PROVE TypeInv'
  <2>1. NewKeyRow(r) \in KeyRow
    BY <1>4, ValidTypes DEF BeginInsert, RequestInv
  <2>2. tx' \in [Requests -> Txn]
    <3> DEFINE S == {NewKeyRow(r)}
    <3>1. S \in SUBSET KeyRow
      BY <2>1
    <3>2. tx' = tx \/ tx' = [tx EXCEPT ![r].keys = S]
      BY <1>4 DEF BeginInsert
    <3> HIDE DEF S
    <3> QED
      BY <3>1, <3>2, TxnWrite DEF TypeOK
  <2> QED
    BY <1>4, <2>2
       DEF TypeOK, BeginInsert, GoTo, tables, PC, InTx, RequestInv, Valid
<1>5. ASSUME NEW r \in Requests, BeginSelect(r) PROVE TypeInv'
  <2>1. PICK row \in idempotency_keys :
          /\ tx' = [tx EXCEPT ![r].locks = {Key(r)}]
          /\ Return(r, Replay(row, Hash(r)))
    BY <1>5 DEF BeginSelect
  <2>2. Replay(row, Hash(r)) \in Reply /\ Key(r) \in KeyID
    BY <1>5, ReplayType, ValidTypes DEF TypeOK, BeginSelect, RequestInv
  <2>3. tx' \in [Requests -> Txn]
    BY <2>1, <2>2, TxnWrite DEF TypeOK
  <2> QED
    BY <1>5, <2>1, <2>2, <2>3
       DEF TypeOK, BeginSelect, Return, GoTo, tables, PC, InTx, RequestInv, Valid
<1>6. ASSUME NEW r \in Requests, InsertOrganization(r) PROVE TypeInv'
  <2>1. OrganizationOf(r) \in Organization
    BY <1>6, ValidTypes DEF InsertOrganization, RequestInv
  <2>2. tx' \in [Requests -> Txn]
    <3>1. {OrganizationOf(r)} \in SUBSET Organization
      BY <2>1
    <3>2. tx' = [tx EXCEPT ![r].organizations = {OrganizationOf(r)}]
      BY <1>6 DEF InsertOrganization, OrganizationOf
    <3> QED
      BY <3>1, <3>2, TxnWrite DEF TypeOK
  <2> QED
    BY <1>6, <2>2
       DEF TypeOK, InsertOrganization, GoTo, tables, PC, InTx, RequestInv, Valid
<1>7. ASSUME NEW r \in Requests, InsertMembership(r) PROVE TypeInv'
  <2>1. request[r].principal \in Principals
    BY <1>7, ValidTypes DEF InsertMembership, RequestInv
  <2>2. \A o \in tx[r].organizations :
          NewMembership(NewID(r, "membership"), request[r].principal, o) \in Membership
    BY <2>1 DEF TypeOK, Txn, NewMembership, NewID, ID, Membership, Organization
  <2>3. tx' \in [Requests -> Txn]
    <3> DEFINE S == {NewMembership(NewID(r, "membership"), request[r].principal, o) :
                    o \in tx[r].organizations}
    <3>1. S \in SUBSET Membership
      BY <2>2
    <3>2. tx' = [tx EXCEPT ![r].memberships = S]
      BY <1>7 DEF InsertMembership
    <3> QED
      BY <3>1, <3>2, TxnWrite DEF TypeOK
  <2> QED
    BY <1>7, <2>3
       DEF TypeOK, InsertMembership, GoTo, tables, PC, InTx, RequestInv, Valid
<1>8. ASSUME NEW r \in Requests, AuditAppend(r) PROVE TypeInv'
  <2>1. request[r].principal \in Principals
    BY <1>8, ValidTypes DEF AuditAppend, RequestInv
  <2>2. \A o \in tx[r].organizations :
          NewAuditEvent(NewID(r, "audit"), request[r].principal, o) \in AuditEvent
    BY <2>1 DEF TypeOK, Txn, NewAuditEvent, NewID, ID, AuditEvent, Organization
  <2>3. tx' \in [Requests -> Txn]
    <3> DEFINE S == {NewAuditEvent(NewID(r, "audit"), request[r].principal, o) :
                    o \in tx[r].organizations}
    <3>1. S \in SUBSET AuditEvent
      BY <2>2
    <3>2. tx' = [tx EXCEPT ![r].audit = S]
      BY <1>8 DEF AuditAppend
    <3> QED
      BY <3>1, <3>2, TxnWrite DEF TypeOK
  <2> QED
    BY <1>8, <2>3
       DEF TypeOK, AuditAppend, GoTo, tables, PC, InTx, RequestInv, Valid
<1>9. ASSUME NEW r \in Requests, Complete(r) PROVE TypeInv'
  <2>1. PICK o \in tx[r].organizations :
       IF \E row \in tx[r].keys : row.status = "PROCESSING"
         THEN /\ tx' = [tx EXCEPT ![r].keys =
                          {CompletedRow(row, o) : row \in tx[r].keys}]
              /\ Return(r, Success(o, FALSE))
         ELSE /\ tx' = tx
              /\ Return(r, Failure("ErrInProgress"))
    BY <1>9 DEF Complete
  <2>2. Success(o, FALSE) \in Reply /\ Failure("ErrInProgress") \in Reply
    BY ReplyTypes DEF TypeOK, Txn, Error
  <2>3. \A row \in tx[r].keys :
          CompletedRow(row, o) \in KeyRow
    <3>1. o \in Organization /\ tx[r].keys \subseteq KeyRow
      BY DEF TypeOK, Txn
    <3> QED
      BY <3>1 DEF KeyRow, CompletedRow
  <2>4. tx' \in [Requests -> Txn]
    <3> DEFINE S == {CompletedRow(row, o) : row \in tx[r].keys}
    <3>1. S \in SUBSET KeyRow
      BY <2>3
    <3>2. tx' = tx \/ tx' = [tx EXCEPT ![r].keys = S]
      BY <2>1
    <3> HIDE DEF S
    <3> QED
      BY <3>1, <3>2, TxnWrite DEF TypeOK
  <2>5. outcome' \in [Requests -> Reply \cup {Null}] /\ pc' \in [Requests -> PC]
    BY <2>1, <2>2 DEF TypeOK, Return, GoTo, PC, InTx
  <2>6. RequestInv'
    BY <1>9, <2>1 DEF TypeOK, Complete, Return, GoTo, RequestInv, Valid
  <2> QED
    BY <1>9, <2>4, <2>5, <2>6 DEF TypeOK, Complete, tables
<1>10. ASSUME NEW r \in Requests, Commit(r) PROVE TypeInv'
  BY <1>10, PublishTypes DEF TypeOK, Commit, GoTo, Answer, PC, RequestInv, Valid
<1>11. ASSUME NEW r \in Requests, StatementFails(r) PROVE TypeInv'
  BY <1>11, ReplyTypes
     DEF TypeOK, StatementFails, GoTo, Error, tables, PC, InTx, RequestInv, Valid
<1>12. ASSUME NEW r \in Requests, Rollback(r) PROVE TypeInv'
  BY <1>12, PublishTypes DEF TypeOK, Rollback, GoTo, Answer, PC, RequestInv, Valid
<1>13. ASSUME NEW r \in Requests, Disconnect(r) PROVE TypeInv'
  BY <1>13, ReplyTypes
     DEF TypeOK, Disconnect, GoTo, Answer, Error, tables, PC, InTx, RequestInv, Valid
<1>14. ASSUME NEW r \in Requests, ServerAbort(r) PROVE TypeInv'
  BY <1>14, PublishTypes DEF TypeOK, ServerAbort, GoTo, PC, RequestInv, Valid
<1>15. ASSUME NEW r \in Requests, ServerCommit(r) PROVE TypeInv'
  BY <1>15, PublishTypes DEF TypeOK, ServerCommit, GoTo, PC, RequestInv, Valid
<1>16. CASE UNCHANGED vars
  BY <1>16 DEF TypeOK, vars, RequestInv, Valid
<1> QED
  BY <1>1, <1>2, <1>3, <1>4, <1>5, <1>6, <1>7, <1>8, <1>9, <1>10, <1>11, <1>12,
     <1>13, <1>14, <1>15, <1>16 DEF Next, Proceed, Fault, AllServed

\* Every variable keeps its type, whatever the requests do and whatever fails.
THEOREM TypeCorrect == Spec => []TypeOK
<1>1. Spec => []TypeInv
  BY TypeInit, TypeStep, PTL DEF Spec
<1> QED
  BY <1>1, PTL DEF TypeInv

-----------------------------------------------------------------------------
(* The inductive invariant: frames *)

\* A step of r leaves the other requests alone, and no key row is lost.
OnlyMoves(r) ==
  /\ \A q \in Requests \ {r} :
       /\ request'[q] = request[q] /\ pc'[q] = pc[q] /\ tx'[q] = tx[q]
       /\ outcome'[q] = outcome[q] /\ reply'[q] = reply[q]
  /\ idempotency_keys \subseteq idempotency_keys'

\* What holds of a request that does not move goes on holding.
LEMMA OthersKept ==
  ASSUME NEW r \in Requests, OnlyMoves(r), NEW q \in Requests \ {r},
         TxInvOf(q), ReplyInvOf(q)
  PROVE  TxInvOf(q)' /\ ReplyInvOf(q)'
<1>1. /\ request'[q] = request[q] /\ pc'[q] = pc[q] /\ tx'[q] = tx[q]
      /\ outcome'[q] = outcome[q] /\ reply'[q] = reply[q]
      /\ idempotency_keys \subseteq idempotency_keys'
  BY DEF OnlyMoves
<1>2. /\ Key(q)' = Key(q) /\ Hash(q)' = Hash(q)
      /\ OrganizationOf(q)' = OrganizationOf(q) /\ NewKeyRow(q)' = NewKeyRow(q)
      /\ MembershipOf(q)' = MembershipOf(q) /\ AuditEventOf(q)' = AuditEventOf(q)
      /\ KeyRowOf(q)' = KeyRowOf(q) /\ (Valid(q)' <=> Valid(q))
  BY <1>1 DEF Key, Hash, OrganizationOf, NewKeyRow, MembershipOf, AuditEventOf, KeyRowOf,
     Valid
<1>3. TxInvOf(q)'
  BY <1>1, <1>2 DEF TxInvOf, Writes, Creating, Reading, Consulted
<1>4. ReplyInvOf(q)'
  BY <1>1, <1>2 DEF ReplyInvOf, Consulted
<1> QED
  BY <1>3, <1>4

\* No transaction has come to hold a key, and the keys are as they were.
LEMMA ExclusionKept ==
  ASSUME KeyExclusion, idempotency_keys' = idempotency_keys,
         \A q \in Requests : tx'[q].keys # {} =>
           tx[q].keys # {} /\ request'[q] = request[q]
  PROVE  KeyExclusion'
BY DEF KeyExclusion, Key

\* The tables are as they were, and who was done is done.
LEMMA TablesKept ==
  ASSUME TablesInv, UNCHANGED tables,
         \A q \in Requests : pc[q] = "done" =>
           pc'[q] = "done" /\ request'[q] = request[q]
  PROVE  TablesInv'
<1>1. PICK effective \in SUBSET {r \in Requests : pc[r] = "done" /\ Valid(r)} :
        /\ idempotency_keys = {KeyRowOf(r) : r \in effective}
        /\ organizations = {OrganizationOf(r) : r \in effective}
        /\ memberships = {MembershipOf(r) : r \in effective}
        /\ audit_events = {AuditEventOf(r) : r \in effective}
        /\ \A q, r \in effective : Key(q) = Key(r) => q = r
  BY DEF TablesInv
<1>2. \A q \in effective :
             /\ Key(q)' = Key(q) /\ KeyRowOf(q)' = KeyRowOf(q)
             /\ OrganizationOf(q)' = OrganizationOf(q)
             /\ MembershipOf(q)' = MembershipOf(q) /\ AuditEventOf(q)' = AuditEventOf(q)
             /\ Valid(q)' = Valid(q)
  BY DEF Key, KeyRowOf, Hash, OrganizationOf, MembershipOf, AuditEventOf, Valid
<1>3. effective \in SUBSET {r \in Requests : pc'[r] = "done" /\ Valid(r)'}
  BY <1>2
<1>4. /\ idempotency_keys' = {KeyRowOf(r)' : r \in effective}
      /\ organizations' = {OrganizationOf(r)' : r \in effective}
      /\ memberships' = {MembershipOf(r)' : r \in effective}
      /\ audit_events' = {AuditEventOf(r)' : r \in effective}
      /\ \A q, r \in effective : Key(q)' = Key(r)' => q = r
  BY <1>1, <1>2 DEF tables
<1> QED
  BY <1>3, <1>4 DEF TablesInv

\* A step of r preserves the invariant if it preserves what r can disturb.
LEMMA StepOfOne ==
  ASSUME IInv, TypeInv', NEW r \in Requests, OnlyMoves(r),
         TxInvOf(r)', ReplyInvOf(r)', KeyExclusion', TablesInv'
  PROVE  IInv'
<1>1. ASSUME NEW q \in Requests PROVE TxInvOf(q)' /\ ReplyInvOf(q)'
  BY OthersKept DEF IInv, TxInv, ReplyInv
<1> QED
  BY <1>1 DEF IInv, TypeInv, TxInv, ReplyInv

-----------------------------------------------------------------------------
(* The inductive invariant: one lemma per action *)

\* The empty database with no request satisfies the inductive invariant.
LEMMA InvInit == Init => IInv
<1> SUFFICES ASSUME Init PROVE IInv
  OBVIOUS
<1>1. TypeInv
  BY TypeInit
<1>2. TxInv /\ KeyExclusion /\ ReplyInv
  BY DEF Init, TxInv, TxInvOf, KeyExclusion, ReplyInv, ReplyInvOf, EmptyTxn
<1>3. TablesInv
  <2>1. {} \in SUBSET {r \in Requests : pc[r] = "done" /\ Valid(r)}
    OBVIOUS
  <2> QED
    BY <2>1 DEF Init, TablesInv
<1> QED
  BY <1>1, <1>2, <1>3 DEF IInv, TypeInv

\* A request that arrives leaves the other requests and the tables alone.
LEMMA ReceiveStep ==
  ASSUME IInv, TypeInv', NEW r \in Requests, Receive(r)
  PROVE  IInv'
<1>1. PICK q \in Request :
        /\ request' = [request EXCEPT ![r] = q]
        /\ IF Validate(q) = "nil"
             THEN GoTo(r, "begin") /\ reply' = reply
             ELSE GoTo(r, "done") /\ Answer(r, Failure(Validate(q)))
  BY DEF Receive
<1>2. /\ pc[r] = "idle" /\ tx[r] = EmptyTxn /\ reply[r] = Null
      /\ UNCHANGED <<tables, tx, outcome>>
  BY DEF Receive, IInv, TxInv, TxInvOf, ReplyInv, ReplyInvOf
<1>3. OnlyMoves(r)
  BY <1>1, <1>2 DEF OnlyMoves, GoTo, Answer, tables, IInv, TypeOK
<1>4. pc'[r] = "begin" \/ pc'[r] = "done"
  BY <1>1 DEF GoTo, IInv, TypeOK
<1>5. TxInvOf(r)'
  <2>1. tx'[r] = EmptyTxn /\ tx'[r].keys = {}
    BY <1>2 DEF EmptyTxn
  <2> QED
    BY <1>4, <2>1 DEF TxInvOf
<1>6. ReplyInvOf(r)'
  <2>1. outcome'[r] # Null => outcome'[r].err # "ErrInProgress"
    BY <1>2 DEF IInv, ReplyInv, ReplyInvOf
  <2>2. Validate(q) \in {"nil", "ErrMalformedBody", "ErrPermissionDenied",
                         "ErrIdempotencyKey", "ErrInvalidOrganization"}
    BY DEF Validate
  <2>3. \/ pc'[r] = "begin" /\ reply'[r] = Null
        \/ pc'[r] = "done" /\ reply'[r].err = Validate(q) /\ Validate(q) # "nil"
    BY <1>1, <1>2 DEF GoTo, Answer, Failure, IInv, TypeOK
  <2> QED
    BY <2>1, <2>2, <2>3 DEF ReplyInvOf
<1>7. KeyExclusion'
  <2>1. \A p \in Requests : tx'[p].keys # {} => tx[p].keys # {} /\ request'[p] = request[p]
    BY <1>1, <1>2 DEF EmptyTxn, IInv, TypeOK
  <2> QED
    BY <1>2, <2>1, ExclusionKept DEF IInv, tables
<1>8. TablesInv'
  <2>1. \A p \in Requests : pc[p] = "done" => pc'[p] = "done" /\ request'[p] = request[p]
    BY <1>1, <1>2 DEF GoTo, IInv, TypeOK
  <2> QED
    BY <1>2, <2>1, TablesKept DEF IInv
<1> QED
  BY <1>3, <1>5, <1>6, <1>7, <1>8, StepOfOne

\* BEGIN, granted or refused, writes nothing.
LEMMA BeginTxStep ==
  ASSUME IInv, TypeInv', NEW r \in Requests, BeginTx(r) \/ BeginTxFails(r)
  PROVE  IInv'
<1>1. /\ pc[r] = "begin" /\ tx[r] = EmptyTxn /\ reply[r] = Null
      /\ UNCHANGED <<tables, request, tx, outcome>>
      /\ \/ pc' = [pc EXCEPT ![r] = "insert"] /\ reply' = reply
         \/ /\ pc' = [pc EXCEPT ![r] = "done"]
            /\ \/ reply' = reply
               \/ reply' = [reply EXCEPT ![r] = Failure("ErrDatabase")]
  BY DEF BeginTx, BeginTxFails, GoTo, Answer, IInv, TxInv, TxInvOf, ReplyInv, ReplyInvOf
<1>2. OnlyMoves(r)
  BY <1>1 DEF OnlyMoves, tables, IInv, TypeOK
<1>3. TxInvOf(r)'
  <2>1. tx'[r] = EmptyTxn /\ tx'[r].keys = {} /\ pc'[r] \in {"insert", "done"}
    BY <1>1 DEF EmptyTxn, IInv, TypeOK
  <2> QED
    BY <2>1 DEF TxInvOf
<1>4. ReplyInvOf(r)'
  <2>1. outcome'[r] # Null => outcome'[r].err # "ErrInProgress"
    BY <1>1 DEF IInv, ReplyInv, ReplyInvOf
  <2>2. \/ pc'[r] \in {"insert", "done"} /\ reply'[r] = Null
        \/ pc'[r] = "done" /\ reply'[r].err = "ErrDatabase"
    BY <1>1 DEF Failure, IInv, TypeOK
  <2> QED
    BY <2>1, <2>2 DEF ReplyInvOf
<1>5. KeyExclusion'
  BY <1>1, ExclusionKept DEF IInv, tables
<1>6. TablesInv'
  BY <1>1, TablesKept DEF IInv, TypeOK
<1> QED
  BY <1>2, <1>3, <1>4, <1>5, <1>6, StepOfOne

\* A statement of r inside its transaction: only tx, pc and outcome of r change.
LEMMA InsideStep ==
  ASSUME IInv, TypeInv', NEW r \in Requests, OnlyMoves(r),
         UNCHANGED <<tables, request, reply>>,
         pc[r] \in InTx, pc'[r] \in InTx,
         outcome'[r] = outcome[r] \/ outcome'[r].err # "ErrInProgress",
         TxInvOf(r)', KeyExclusion'
  PROVE  IInv'
<1>1. reply'[r] = Null
  BY DEF IInv, ReplyInv, ReplyInvOf, InTx
<1>2. outcome'[r] # Null => outcome'[r].err # "ErrInProgress"
  BY DEF IInv, ReplyInv, ReplyInvOf
<1>3. ReplyInvOf(r)'
  BY <1>1, <1>2 DEF ReplyInvOf, InTx
<1>4. TablesInv'
  <2>1. \A q \in Requests : pc[q] = "done" => pc'[q] = "done" /\ request'[q] = request[q]
    BY DEF OnlyMoves, InTx
  <2> QED
    BY <2>1, TablesKept DEF IInv
<1> QED
  BY <1>3, <1>4, StepOfOne

\* Begin's INSERT takes a key only when no row and no open transaction has it.
LEMMA BeginInsertStep ==
  ASSUME IInv, TypeInv', NEW r \in Requests, BeginInsert(r)
  PROVE  IInv'
<1>1. /\ pc[r] = "insert" /\ tx[r] = EmptyTxn /\ ~KeyIsPending(r)
      /\ UNCHANGED <<tables, request, outcome, reply>>
      /\ \/ pc' = [pc EXCEPT ![r] = "select"] /\ tx' = tx
         \/ /\ \A row \in idempotency_keys : row.id # Key(r)
            /\ pc' = [pc EXCEPT ![r] = "organization"]
            /\ tx' = [tx EXCEPT ![r].keys = {NewKeyRow(r)}]
  BY DEF BeginInsert, GoTo, IInv, TxInv, TxInvOf
<1>2. OnlyMoves(r)
  BY <1>1 DEF OnlyMoves, tables, IInv, TypeOK
<1>3. pc'[r] \in InTx
  BY <1>1 DEF InTx, IInv, TypeOK
<1>4. /\ Key(r)' = Key(r) /\ NewKeyRow(r)' = NewKeyRow(r)
      /\ NewKeyRow(r).id = Key(r)
  BY <1>1 DEF Key, Hash, NewKeyRow
<1>5. CASE tx' = tx /\ pc' = [pc EXCEPT ![r] = "select"]
  <2>1. TxInvOf(r)'
    <3>1. tx'[r] = EmptyTxn /\ tx'[r].keys = {} /\ pc'[r] = "select"
      BY <1>1, <1>5 DEF EmptyTxn, IInv, TypeOK
    <3> QED
      BY <3>1 DEF TxInvOf
  <2>2. KeyExclusion'
    BY <1>1, <1>5, ExclusionKept DEF IInv, tables
  <2> QED
    BY <1>1, <1>2, <1>3, <2>1, <2>2, InsideStep DEF InTx
<1>6. CASE /\ \A row \in idempotency_keys : row.id # Key(r)
           /\ pc' = [pc EXCEPT ![r] = "organization"]
           /\ tx' = [tx EXCEPT ![r].keys = {NewKeyRow(r)}]
  <2>1. /\ pc'[r] = "organization"
        /\ tx'[r] = [EmptyTxn EXCEPT !.keys = {NewKeyRow(r)}]
    BY <1>1, <1>6 DEF IInv, TypeOK
  <2>2. tx'[r] = Writes(r, {})' /\ tx'[r].keys = {NewKeyRow(r)}
    BY <1>4, <2>1 DEF Writes, EmptyTxn
  <2>3. TxInvOf(r)'
    BY <1>4, <2>1, <2>2 DEF TxInvOf
  <2>4. \A q \in Requests \ {r} : tx[q].keys # {} => Key(q) # Key(r)
    BY <1>1 DEF KeyIsPending, IInv, TxInv, TxInvOf
  <2>5. KeyExclusion'
    BY <1>1, <1>2, <1>4, <1>6, <2>2, <2>4
       DEF KeyExclusion, OnlyMoves, Key, tables, IInv
  <2> QED
    BY <1>1, <1>2, <1>3, <2>3, <2>5, InsideStep DEF InTx
<1> QED
  BY <1>1, <1>5, <1>6

\* Begin never finds a row that is not COMPLETED, so it never returns
\* ErrInProgress.
LEMMA RowsComplete ==
  ASSUME TablesInv, TypeInv, NEW row \in idempotency_keys
  PROVE  /\ row.status = "COMPLETED"
         /\ row.response \in organizations
         /\ row.response # Null
<1>1. PICK effective \in SUBSET {r \in Requests : pc[r] = "done" /\ Valid(r)} :
        /\ idempotency_keys = {KeyRowOf(r) : r \in effective}
        /\ organizations = {OrganizationOf(r) : r \in effective}
  BY DEF TablesInv
<1>2. PICK r \in effective : row = KeyRowOf(r)
  BY <1>1
<1> QED
  BY <1>1, <1>2, NullAssumption DEF KeyRowOf, TypeInv, TypeOK

\* Begin's SELECT FOR UPDATE finds the key's committed row and concludes from it.
LEMMA BeginSelectStep ==
  ASSUME IInv, TypeInv', NEW r \in Requests, BeginSelect(r)
  PROVE  IInv'
<1>1. PICK row \in idempotency_keys :
        /\ row.id = Key(r)
        /\ tx' = [tx EXCEPT ![r].locks = {Key(r)}]
        /\ outcome' = [outcome EXCEPT ![r] = Replay(row, Hash(r))]
        /\ pc' = [pc EXCEPT ![r] = IF Replay(row, Hash(r)).err = "nil"
                                     THEN "commit" ELSE "rollback"]
  BY DEF BeginSelect, Return, GoTo
<1>2. /\ pc[r] = "select" /\ tx[r] = EmptyTxn
      /\ UNCHANGED <<tables, request, reply>>
  BY DEF BeginSelect, IInv, TxInv, TxInvOf
<1>3. OnlyMoves(r)
  BY <1>1, <1>2 DEF OnlyMoves, tables, IInv, TypeOK
<1>4. /\ pc'[r] \in {"commit", "rollback"}
      /\ outcome'[r] = Replay(row, Hash(r))
      /\ tx'[r] = [EmptyTxn EXCEPT !.locks = {Key(r)}]
  BY <1>1, <1>2 DEF IInv, TypeOK
<1>5. outcome'[r].err # "ErrInProgress"
  BY <1>4, RowsComplete DEF Replay, Failure, Success, IInv, TypeInv
<1>6. Key(r)' = Key(r) /\ Hash(r)' = Hash(r) /\ idempotency_keys' = idempotency_keys
  BY <1>2 DEF Key, Hash, tables
<1>7. Consulted(r, outcome[r])' /\ Reading(r)' /\ tx'[r].keys = {}
  BY <1>1, <1>4, <1>6 DEF Consulted, Reading, EmptyTxn
<1>8. TxInvOf(r)'
  BY <1>4, <1>7 DEF TxInvOf
<1>9. KeyExclusion'
  <2>1. \A q \in Requests : tx'[q].keys # {} => tx[q].keys # {} /\ request'[q] = request[q]
    BY <1>2, <1>3, <1>7 DEF OnlyMoves
  <2> QED
    BY <1>6, <2>1, ExclusionKept DEF IInv
<1> QED
  BY <1>2, <1>3, <1>4, <1>5, <1>8, <1>9, InsideStep DEF InTx

\* The organization row joins the open transaction of its own request.
LEMMA InsertOrganizationStep ==
  ASSUME IInv, TypeInv', NEW r \in Requests, InsertOrganization(r)
  PROVE  IInv'
<1>1. /\ pc[r] = "organization" /\ tx[r] = Writes(r, {})
      /\ UNCHANGED <<tables, request, outcome, reply>>
      /\ pc' = [pc EXCEPT ![r] = "membership"]
  BY DEF InsertOrganization, GoTo, IInv, TxInv, TxInvOf
<1>2. tx' = [tx EXCEPT ![r].organizations = {OrganizationOf(r)}]
  BY <1>1 DEF InsertOrganization, Writes, OrganizationOf
<1>3. OnlyMoves(r)
  BY <1>1, <1>2 DEF OnlyMoves, tables, IInv, TypeOK
<1>4. tx'[r] = [Writes(r, {}) EXCEPT !.organizations = {OrganizationOf(r)}] /\ pc'[r] = "membership"
  BY <1>1, <1>2 DEF IInv, TypeOK
<1>5. Writes(r, {"organization"})' = Writes(r, {"organization"}) /\ Key(r)' = Key(r)
  BY <1>1 DEF Writes, NewKeyRow, KeyRowOf, OrganizationOf, MembershipOf, AuditEventOf,
     Key, Hash
<1>6. tx'[r] = Writes(r, {"organization"}) /\ tx'[r].keys = {NewKeyRow(r)}
  BY <1>4 DEF Writes
<1>7. TxInvOf(r)'
  BY <1>4, <1>5, <1>6 DEF TxInvOf, NewKeyRow
<1>8. KeyExclusion'
  <2>1. tx[r].keys # {}
    BY <1>1 DEF Writes
  <2> QED
    BY <1>1, <1>3, <2>1, ExclusionKept DEF OnlyMoves, IInv, tables
<1> QED
  BY <1>1, <1>3, <1>4, <1>7, <1>8, InsideStep DEF InTx

\* The membership row joins it.
LEMMA InsertMembershipStep ==
  ASSUME IInv, TypeInv', NEW r \in Requests, InsertMembership(r)
  PROVE  IInv'
<1>1. /\ pc[r] = "membership" /\ tx[r] = Writes(r, {"organization"})
      /\ UNCHANGED <<tables, request, outcome, reply>>
      /\ pc' = [pc EXCEPT ![r] = "audit"]
  BY DEF InsertMembership, GoTo, IInv, TxInv, TxInvOf
<1>2. tx' = [tx EXCEPT ![r].memberships = {MembershipOf(r)}]
  <2>1. tx[r].organizations = {OrganizationOf(r)}
    BY <1>1 DEF Writes
  <2>2. {NewMembership(NewID(r, "membership"), request[r].principal, o) :
           o \in tx[r].organizations} = {MembershipOf(r)}
    BY <2>1 DEF MembershipOf
  <2> QED
    BY <2>2 DEF InsertMembership
<1>3. OnlyMoves(r)
  BY <1>1, <1>2 DEF OnlyMoves, tables, IInv, TypeOK
<1>4. tx'[r] = [Writes(r, {"organization"}) EXCEPT !.memberships = {MembershipOf(r)}] /\ pc'[r] = "audit"
  BY <1>1, <1>2 DEF IInv, TypeOK
<1>5. Writes(r, {"organization", "membership"})' = Writes(r, {"organization", "membership"}) /\ Key(r)' = Key(r)
  BY <1>1 DEF Writes, NewKeyRow, KeyRowOf, OrganizationOf, MembershipOf, AuditEventOf,
     Key, Hash
<1>6. tx'[r] = Writes(r, {"organization", "membership"}) /\ tx'[r].keys = {NewKeyRow(r)}
  BY <1>4 DEF Writes
<1>7. TxInvOf(r)'
  BY <1>4, <1>5, <1>6 DEF TxInvOf, NewKeyRow
<1>8. KeyExclusion'
  <2>1. tx[r].keys # {}
    BY <1>1 DEF Writes
  <2> QED
    BY <1>1, <1>3, <2>1, ExclusionKept DEF OnlyMoves, IInv, tables
<1> QED
  BY <1>1, <1>3, <1>4, <1>7, <1>8, InsideStep DEF InTx

\* So does the audit event.
LEMMA AuditAppendStep ==
  ASSUME IInv, TypeInv', NEW r \in Requests, AuditAppend(r)
  PROVE  IInv'
<1>1. /\ pc[r] = "audit" /\ tx[r] = Writes(r, {"organization", "membership"})
      /\ UNCHANGED <<tables, request, outcome, reply>>
      /\ pc' = [pc EXCEPT ![r] = "complete"]
  BY DEF AuditAppend, GoTo, IInv, TxInv, TxInvOf
<1>2. tx' = [tx EXCEPT ![r].audit = {AuditEventOf(r)}]
  <2>1. tx[r].organizations = {OrganizationOf(r)}
    BY <1>1 DEF Writes
  <2>2. {NewAuditEvent(NewID(r, "audit"), request[r].principal, o) :
           o \in tx[r].organizations} = {AuditEventOf(r)}
    BY <2>1 DEF AuditEventOf
  <2> QED
    BY <2>2 DEF AuditAppend
<1>3. OnlyMoves(r)
  BY <1>1, <1>2 DEF OnlyMoves, tables, IInv, TypeOK
<1>4. tx'[r] = [Writes(r, {"organization", "membership"}) EXCEPT !.audit = {AuditEventOf(r)}] /\ pc'[r] = "complete"
  BY <1>1, <1>2 DEF IInv, TypeOK
<1>5. Writes(r, {"organization", "membership", "audit"})' = Writes(r, {"organization", "membership", "audit"}) /\ Key(r)' = Key(r)
  BY <1>1 DEF Writes, NewKeyRow, KeyRowOf, OrganizationOf, MembershipOf, AuditEventOf,
     Key, Hash
<1>6. tx'[r] = Writes(r, {"organization", "membership", "audit"}) /\ tx'[r].keys = {NewKeyRow(r)}
  BY <1>4 DEF Writes
<1>7. TxInvOf(r)'
  BY <1>4, <1>5, <1>6 DEF TxInvOf, NewKeyRow
<1>8. KeyExclusion'
  <2>1. tx[r].keys # {}
    BY <1>1 DEF Writes
  <2> QED
    BY <1>1, <1>3, <2>1, ExclusionKept DEF OnlyMoves, IInv, tables
<1> QED
  BY <1>1, <1>3, <1>4, <1>7, <1>8, InsideStep DEF InTx

\* Complete always finds its own PROCESSING row.
LEMMA CompleteStep ==
  ASSUME IInv, TypeInv', NEW r \in Requests, Complete(r)
  PROVE  IInv'
<1>1. /\ pc[r] = "complete"
      /\ tx[r] = Writes(r, {"organization", "membership", "audit"})
      /\ UNCHANGED <<tables, request, reply>>
  BY DEF Complete, IInv, TxInv, TxInvOf
<1>2. tx[r].keys = {NewKeyRow(r)} /\ tx[r].organizations = {OrganizationOf(r)}
  BY <1>1 DEF Writes
<1>3. CompletedRow(NewKeyRow(r), OrganizationOf(r)) = KeyRowOf(r)
  BY DEF CompletedRow, NewKeyRow, KeyRowOf
<1>4. /\ tx' = [tx EXCEPT ![r].keys = {KeyRowOf(r)}]
      /\ outcome' = [outcome EXCEPT ![r] = Success(OrganizationOf(r), FALSE)]
      /\ pc' = [pc EXCEPT ![r] = "commit"]
  <2>1. \E row \in tx[r].keys : row.status = "PROCESSING"
    BY <1>2 DEF NewKeyRow
  <2>2. /\ tx' = [tx EXCEPT ![r].keys =
                    {CompletedRow(row, OrganizationOf(r)) : row \in tx[r].keys}]
        /\ Return(r, Success(OrganizationOf(r), FALSE))
    <3>1. PICK o \in tx[r].organizations :
            IF \E row \in tx[r].keys : row.status = "PROCESSING"
              THEN /\ tx' = [tx EXCEPT ![r].keys =
                               {CompletedRow(row, o) : row \in tx[r].keys}]
                   /\ Return(r, Success(o, FALSE))
              ELSE /\ tx' = tx
                   /\ Return(r, Failure("ErrInProgress"))
      BY DEF Complete
    <3>2. o = OrganizationOf(r)
      BY <1>2
    <3>3. /\ tx' = [tx EXCEPT ![r].keys = {CompletedRow(row, o) : row \in tx[r].keys}]
          /\ Return(r, Success(o, FALSE))
      BY <2>1, <3>1
    <3> QED
      BY <3>2, <3>3, Zenon
  <2>3. {CompletedRow(row, OrganizationOf(r)) : row \in tx[r].keys} = {KeyRowOf(r)}
    BY <1>2, <1>3
  <2> QED
    BY <2>2, <2>3 DEF Return, GoTo, Success
<1>5. OnlyMoves(r)
  BY <1>1, <1>4 DEF OnlyMoves, tables, IInv, TypeOK
<1>6. /\ tx'[r] = [Writes(r, {"organization", "membership", "audit"})
                     EXCEPT !.keys = {KeyRowOf(r)}]
      /\ pc'[r] = "commit" /\ outcome'[r] = Success(OrganizationOf(r), FALSE)
  BY <1>1, <1>4 DEF IInv, TypeOK
<1>7. /\ Key(r)' = Key(r) /\ OrganizationOf(r)' = OrganizationOf(r)
      /\ Writes(r, {"key", "organization", "membership", "audit"})' =
           Writes(r, {"key", "organization", "membership", "audit"})
  BY <1>1 DEF Writes, NewKeyRow, KeyRowOf, OrganizationOf, MembershipOf, AuditEventOf,
     Key, Hash
<1>8. /\ tx'[r] = Writes(r, {"key", "organization", "membership", "audit"})
      /\ tx'[r].keys = {KeyRowOf(r)} /\ KeyRowOf(r).id = Key(r)
  BY <1>6 DEF Writes, KeyRowOf
<1>9. TxInvOf(r)'
  <2>1. Creating(r)' /\ outcome'[r] = Success(OrganizationOf(r), FALSE)'
    BY <1>6, <1>7, <1>8 DEF Creating, Success
  <2> QED
    BY <1>6, <1>7, <1>8, <2>1 DEF TxInvOf
<1>10. KeyExclusion'
  BY <1>1, <1>2, <1>5, ExclusionKept DEF OnlyMoves, IInv, tables
<1>11. outcome'[r].err # "ErrInProgress"
  BY <1>6 DEF Success
<1> QED
  BY <1>1, <1>5, <1>6, <1>9, <1>10, <1>11, InsideStep DEF InTx

\* A refused statement or COMMIT leads to a rollback with an internal error.
LEMMA StatementFailsStep ==
  ASSUME IInv, TypeInv', NEW r \in Requests, StatementFails(r)
  PROVE  IInv'
<1>1. /\ pc[r] \in InTx
      /\ outcome' = [outcome EXCEPT ![r] = Failure("ErrDatabase")]
      /\ pc' = [pc EXCEPT ![r] = "rollback"]
      /\ UNCHANGED <<tables, request, tx, reply>>
  BY DEF StatementFails, GoTo
<1>2. OnlyMoves(r)
  BY <1>1 DEF OnlyMoves, tables, IInv, TypeOK
<1>3. /\ pc'[r] = "rollback" /\ outcome'[r] = Failure("ErrDatabase")
      /\ Key(r)' = Key(r) /\ tx'[r] = tx[r]
  BY <1>1 DEF IInv, TypeOK, Key
<1>4. outcome'[r].err # "ErrInProgress"
  BY <1>3 DEF Failure
<1>5. TxInvOf(r)'
  <2>1. \A row \in tx'[r].keys : row.id = Key(r)'
    BY <1>3 DEF IInv, TxInv, TxInvOf
  <2> QED
    BY <1>3, <2>1 DEF TxInvOf, Failure
<1>6. KeyExclusion'
  BY <1>1, ExclusionKept DEF IInv, tables
<1> QED
  BY <1>1, <1>2, <1>3, <1>4, <1>5, <1>6, InsideStep DEF InTx

\* A handler that loses its connection leaves its transaction to PostgreSQL.
LEMMA DisconnectStep ==
  ASSUME IInv, TypeInv', NEW r \in Requests, Disconnect(r)
  PROVE  IInv'
<1>1. /\ pc[r] \in InTx /\ reply[r] = Null
      /\ UNCHANGED <<tables, request, tx, outcome>>
      /\ \/ pc' = [pc EXCEPT ![r] = "orphan"]
         \/ pc[r] = "commit" /\ pc' = [pc EXCEPT ![r] = "committing"]
      /\ \/ reply' = reply
         \/ reply' = [reply EXCEPT ![r] = Failure("ErrDatabase")]
         \/ pc[r] = "rollback" /\ reply' = [reply EXCEPT ![r] = outcome[r]]
  BY DEF Disconnect, GoTo, Answer, IInv, ReplyInv, ReplyInvOf, InTx
<1>2. OnlyMoves(r)
  BY <1>1 DEF OnlyMoves, tables, IInv, TypeOK
<1>3. /\ pc'[r] = "orphan" \/ (pc[r] = "commit" /\ pc'[r] = "committing")
      /\ \/ reply'[r] \in {Null, Failure("ErrDatabase")}
         \/ pc[r] = "rollback" /\ reply'[r] = outcome[r]
      /\ tx'[r] = tx[r] /\ outcome'[r] = outcome[r]
      /\ idempotency_keys' = idempotency_keys
  BY <1>1 DEF IInv, TypeOK, tables
<1>4. /\ Key(r)' = Key(r) /\ Hash(r)' = Hash(r)
      /\ OrganizationOf(r)' = OrganizationOf(r)
      /\ Writes(r, {"key", "organization", "membership", "audit"})' =
           Writes(r, {"key", "organization", "membership", "audit"})
  BY <1>1 DEF Writes, NewKeyRow, KeyRowOf, OrganizationOf, MembershipOf, AuditEventOf,
     Key, Hash
<1>5. TxInvOf(r)'
  BY <1>3, <1>4 DEF IInv, TxInv, TxInvOf, Creating, Reading, Consulted
<1>6. ReplyInvOf(r)'
  <2>1. outcome'[r] # Null => outcome'[r].err # "ErrInProgress"
    BY <1>3 DEF IInv, ReplyInv, ReplyInvOf
  <2>2. Failure("ErrDatabase").err = "ErrDatabase"
    BY DEF Failure
  <2>3. Failure("ErrDatabase")' = Failure("ErrDatabase")
    BY DEF Failure
  <2>4. CASE reply'[r] \in {Null, Failure("ErrDatabase")}
    BY <1>3, <2>1, <2>2, <2>3, <2>4 DEF ReplyInvOf
  <2>5. CASE pc[r] = "rollback" /\ reply'[r] = outcome[r] /\ reply'[r] # Failure("ErrDatabase")
    <3>1. Consulted(r, outcome[r])
      BY <2>5 DEF IInv, TxInv, TxInvOf
    <3>2. Consulted(r, reply'[r]) /\ pc'[r] = "orphan" /\ Valid(r)'
      BY <1>1, <1>3, <2>5, <3>1 DEF IInv, TypeOK, RequestInv, Valid
    <3> QED
      BY <1>3, <1>4, <2>1, <3>2 DEF ReplyInvOf, Consulted
  <2> QED
    BY <1>3, <2>4, <2>5
<1>7. KeyExclusion'
  BY <1>1, ExclusionKept DEF IInv, tables
<1>8. TablesInv'
  <2>1. \A q \in Requests : pc[q] = "done" => pc'[q] = "done" /\ request'[q] = request[q]
    BY <1>1, <1>2 DEF OnlyMoves, InTx
  <2> QED
    BY <1>1, <2>1, TablesKept DEF IInv
<1> QED
  BY <1>2, <1>5, <1>6, <1>7, <1>8, StepOfOne

\* A transaction that ends without publishing anything.
LEMMA DiscardStep ==
  ASSUME IInv, TypeInv', NEW r \in Requests, Rollback(r) \/ ServerAbort(r)
  PROVE  IInv'
<1>1. /\ pc[r] \in {"rollback", "orphan"}
      /\ tx' = [tx EXCEPT ![r] = EmptyTxn]
      /\ pc' = [pc EXCEPT ![r] = "done"]
      /\ \/ pc[r] = "rollback" /\ reply' = [reply EXCEPT ![r] = outcome[r]]
         \/ pc[r] = "orphan" /\ reply' = reply
      /\ UNCHANGED <<tables, request, outcome>>
  BY DEF Rollback, ServerAbort, Discard, GoTo, Answer, tables
<1>2. OnlyMoves(r)
  BY <1>1 DEF OnlyMoves, tables, IInv, TypeOK
<1>3. TxInvOf(r)'
  <2>1. tx'[r] = EmptyTxn /\ tx'[r].keys = {} /\ pc'[r] = "done"
    BY <1>1 DEF EmptyTxn, IInv, TypeOK
  <2> QED
    BY <2>1 DEF TxInvOf
<1>4. ReplyInvOf(r)'
  <2>1. outcome'[r] # Null => outcome'[r].err # "ErrInProgress"
    BY <1>1 DEF IInv, ReplyInv, ReplyInvOf
  <2>2. /\ Key(r)' = Key(r) /\ Hash(r)' = Hash(r)
        /\ idempotency_keys' = idempotency_keys /\ pc'[r] = "done" /\ Valid(r)'
    BY <1>1 DEF Key, Hash, tables, IInv, TypeOK, RequestInv, Valid
  <2>3. \/ reply'[r] \in {Null, Failure("ErrDatabase")}
        \/ Consulted(r, reply'[r])
    BY <1>1 DEF IInv, TypeOK, TxInv, TxInvOf, ReplyInv, ReplyInvOf
  <2>4. CASE reply'[r] \in {Null, Failure("ErrDatabase")}
    <3>1. reply'[r] = Null \/ reply'[r].err = "ErrDatabase"
      BY <2>4 DEF Failure
    <3> QED
      BY <2>1, <2>2, <3>1 DEF ReplyInvOf
  <2>5. CASE Consulted(r, reply'[r])
    BY <2>1, <2>2, <2>5 DEF ReplyInvOf, Consulted
  <2> QED
    BY <2>3, <2>4, <2>5
<1>5. KeyExclusion'
  <2>1. \A q \in Requests : tx'[q].keys # {} => tx[q].keys # {} /\ request'[q] = request[q]
    BY <1>1 DEF IInv, TypeOK, EmptyTxn
  <2> QED
    BY <1>1, <2>1, ExclusionKept DEF IInv, tables
<1>6. TablesInv'
  <2>1. \A q \in Requests : pc[q] = "done" => pc'[q] = "done" /\ request'[q] = request[q]
    BY <1>1 DEF IInv, TypeOK
  <2> QED
    BY <1>1, <2>1, TablesKept DEF IInv
<1> QED
  BY <1>2, <1>3, <1>4, <1>5, <1>6, StepOfOne

\* A commit publishes all of a creation, or nothing.
LEMMA PublishCases ==
  ASSUME IInv, NEW r \in Requests, pc[r] \in {"commit", "committing"}, Publish(r)
  PROVE  \/ /\ Creating(r) /\ outcome[r] = Success(OrganizationOf(r), FALSE)
            /\ tx[r].keys = {KeyRowOf(r)}
            /\ organizations' = organizations \cup {OrganizationOf(r)}
            /\ memberships' = memberships \cup {MembershipOf(r)}
            /\ audit_events' = audit_events \cup {AuditEventOf(r)}
            /\ idempotency_keys' = idempotency_keys \cup {KeyRowOf(r)}
         \/ /\ Reading(r) /\ Consulted(r, outcome[r])
            /\ UNCHANGED tables
<1>1. CASE Creating(r) /\ outcome[r] = Success(OrganizationOf(r), FALSE)
  BY <1>1 DEF Creating, Writes, Publish
<1>2. CASE Reading(r) /\ Consulted(r, outcome[r])
  <2>1. /\ tx[r].keys = {} /\ tx[r].organizations = {}
        /\ tx[r].memberships = {} /\ tx[r].audit = {}
    BY <1>2 DEF Reading, EmptyTxn
  <2> QED
    BY <1>2, <2>1 DEF Publish, tables
<1> QED
  BY <1>1, <1>2 DEF IInv, TxInv, TxInvOf

\* A commit, acknowledged or not, publishes a whole creation or nothing.
LEMMA CommitStep ==
  ASSUME IInv, TypeInv', NEW r \in Requests, Commit(r) \/ ServerCommit(r)
  PROVE  IInv'
<1>1. /\ pc[r] \in {"commit", "committing"}
      /\ Publish(r)
      /\ tx' = [tx EXCEPT ![r] = EmptyTxn]
      /\ pc' = [pc EXCEPT ![r] = "done"]
      /\ \/ pc[r] = "commit" /\ reply' = [reply EXCEPT ![r] = outcome[r]]
         \/ pc[r] = "committing" /\ reply' = reply
      /\ UNCHANGED <<request, outcome>>
  BY DEF Commit, ServerCommit, Publish, GoTo, Answer
<1>2. OnlyMoves(r)
  BY <1>1 DEF OnlyMoves, Publish, IInv, TypeOK
<1>3. TxInvOf(r)'
  <2>1. tx'[r] = EmptyTxn /\ tx'[r].keys = {} /\ pc'[r] = "done"
    BY <1>1 DEF EmptyTxn, IInv, TypeOK
  <2> QED
    BY <2>1 DEF TxInvOf
<1>4. outcome'[r] # Null => outcome'[r].err # "ErrInProgress"
  BY <1>1 DEF IInv, ReplyInv, ReplyInvOf
<1>5. pc'[r] = "done" /\ (reply'[r] = outcome[r] \/ reply'[r] \in {Null, Failure("ErrDatabase")})
  BY <1>1 DEF IInv, TypeOK, ReplyInv, ReplyInvOf
<1>6. \A q : /\ Key(q)' = Key(q) /\ Hash(q)' = Hash(q)
             /\ OrganizationOf(q)' = OrganizationOf(q)
             /\ MembershipOf(q)' = MembershipOf(q) /\ AuditEventOf(q)' = AuditEventOf(q)
             /\ KeyRowOf(q)' = KeyRowOf(q) /\ (Valid(q)' <=> Valid(q))
  BY <1>1 DEF Key, KeyRowOf, Hash, OrganizationOf, MembershipOf, AuditEventOf, Valid
<1>7. /\ \A q \in Requests : tx'[q].keys # {} => tx[q].keys # {} /\ q # r
      /\ Valid(r)
  BY <1>1 DEF IInv, TypeOK, EmptyTxn, RequestInv
<1>8. CASE Reading(r) /\ Consulted(r, outcome[r]) /\ UNCHANGED tables
  <2>1. ReplyInvOf(r)'
    <3>1. CASE reply'[r] = outcome[r]
      BY <1>4, <1>5, <1>6, <1>7, <1>8, <3>1 DEF ReplyInvOf, Consulted, tables
    <3>2. CASE reply'[r] \in {Null, Failure("ErrDatabase")}
      <4>1. reply'[r] = Null \/ reply'[r].err = "ErrDatabase"
        BY <3>2 DEF Failure
      <4> QED
        BY <1>4, <1>5, <4>1 DEF ReplyInvOf
    <3> QED
      BY <1>5, <3>1, <3>2
  <2>2. KeyExclusion'
    BY <1>1, <1>7, <1>8, ExclusionKept DEF IInv, tables
  <2>3. TablesInv'
    <3>1. \A q \in Requests : pc[q] = "done" => pc'[q] = "done" /\ request'[q] = request[q]
      BY <1>1 DEF IInv, TypeOK
    <3> QED
      BY <1>8, <3>1, TablesKept DEF IInv
  <2> QED
    BY <1>2, <1>3, <2>1, <2>2, <2>3, StepOfOne
<1>9. CASE /\ Creating(r) /\ outcome[r] = Success(OrganizationOf(r), FALSE)
           /\ tx[r].keys = {KeyRowOf(r)}
           /\ organizations' = organizations \cup {OrganizationOf(r)}
           /\ memberships' = memberships \cup {MembershipOf(r)}
           /\ audit_events' = audit_events \cup {AuditEventOf(r)}
           /\ idempotency_keys' = idempotency_keys \cup {KeyRowOf(r)}
  <2>1. ReplyInvOf(r)'
    <3>1. CASE reply'[r] = outcome[r]
      BY <1>4, <1>5, <1>6, <1>7, <1>9, <3>1 DEF ReplyInvOf, Success
    <3>2. CASE reply'[r] \in {Null, Failure("ErrDatabase")}
      <4>1. reply'[r] = Null \/ reply'[r].err = "ErrDatabase"
        BY <3>2 DEF Failure
      <4> QED
        BY <1>4, <1>5, <4>1 DEF ReplyInvOf
    <3> QED
      BY <1>5, <3>1, <3>2
  <2>2. /\ \A row \in idempotency_keys : row.id # Key(r)
        /\ \A q \in Requests \ {r} : tx[q].keys # {} => Key(q) # Key(r)
    BY <1>9 DEF IInv, KeyExclusion
  <2>3. KeyRowOf(r).id = Key(r)
    BY DEF KeyRowOf
  <2>4. KeyExclusion'
    BY <1>2, <1>6, <1>7, <1>9, <2>2, <2>3 DEF IInv, KeyExclusion, OnlyMoves
  <2>5. PICK effective \in SUBSET {q \in Requests : pc[q] = "done" /\ Valid(q)} :
          /\ idempotency_keys = {KeyRowOf(q) : q \in effective}
          /\ organizations = {OrganizationOf(q) : q \in effective}
          /\ memberships = {MembershipOf(q) : q \in effective}
          /\ audit_events = {AuditEventOf(q) : q \in effective}
          /\ \A p, q \in effective : Key(p) = Key(q) => p = q
    BY DEF IInv, TablesInv
  <2> DEFINE now == effective \cup {r}
  <2>6. now \in SUBSET {q \in Requests : pc'[q] = "done" /\ Valid(q)'}
    BY <1>1, <1>6, <1>7 DEF IInv, TypeOK
  <2>7. \A q \in effective : Key(q) # Key(r)
    <3>1. \A q \in effective : KeyRowOf(q) \in idempotency_keys
      BY <2>5
    <3>2. \A q : KeyRowOf(q).id = Key(q)
      BY DEF KeyRowOf
    <3> QED
      BY <2>2, <3>1, <3>2
  <2>8. /\ idempotency_keys' = {KeyRowOf(q)' : q \in now}
        /\ organizations' = {OrganizationOf(q)' : q \in now}
        /\ memberships' = {MembershipOf(q)' : q \in now}
        /\ audit_events' = {AuditEventOf(q)' : q \in now}
    BY <1>6, <1>9, <2>5
  <2>9. \A p, q \in now : Key(p)' = Key(q)' => p = q
    BY <1>6, <2>5, <2>7
  <2>10. TablesInv'
    <3> HIDE DEF now
    <3> QED
      BY <2>6, <2>8, <2>9 DEF TablesInv
  <2> QED
    BY <1>2, <1>3, <2>1, <2>4, <2>10, StepOfOne
<1> QED
  BY <1>1, <1>8, <1>9, PublishCases

\* Every step preserves the inductive invariant, one case per action.
LEMMA InvStep == IInv /\ [Next]_vars => IInv'
<1> SUFFICES ASSUME IInv, [Next]_vars PROVE IInv'
  OBVIOUS
<1>1. TypeInv'
  BY TypeStep DEF IInv, TypeInv
<1>2. CASE UNCHANGED vars
  <2>1. TablesInv'
    BY <1>2, TablesKept DEF IInv, vars, tables
  <2>2. KeyExclusion'
    BY <1>2, ExclusionKept DEF IInv, vars
  <2>3. ASSUME NEW r \in Requests PROVE TxInvOf(r)' /\ ReplyInvOf(r)'
    <3>1. /\ Key(r)' = Key(r) /\ Hash(r)' = Hash(r)
          /\ OrganizationOf(r)' = OrganizationOf(r) /\ NewKeyRow(r)' = NewKeyRow(r)
          /\ MembershipOf(r)' = MembershipOf(r) /\ AuditEventOf(r)' = AuditEventOf(r)
          /\ KeyRowOf(r)' = KeyRowOf(r) /\ (Valid(r)' <=> Valid(r))
      BY <1>2 DEF Key, Hash, OrganizationOf, NewKeyRow, MembershipOf, AuditEventOf,
         KeyRowOf, Valid, vars
    <3>2. TxInvOf(r)'
      BY <1>2, <3>1 DEF IInv, TxInv, TxInvOf, Writes, Creating, Reading, Consulted, vars
    <3>3. ReplyInvOf(r)'
      BY <1>2, <3>1 DEF IInv, ReplyInv, ReplyInvOf, Consulted, vars
    <3> QED
      BY <3>2, <3>3
  <2> QED
    BY <1>1, <2>1, <2>2, <2>3 DEF IInv, TypeInv, TxInv, ReplyInv
<1>3. ASSUME NEW r \in Requests, Receive(r) \/ Proceed(r) \/ Fault(r) PROVE IInv'
  BY <1>1, <1>3, ReceiveStep, BeginTxStep, BeginInsertStep, BeginSelectStep,
     InsertOrganizationStep, InsertMembershipStep, AuditAppendStep, CompleteStep,
     StatementFailsStep, DisconnectStep, DiscardStep, CommitStep
     DEF Proceed, Fault
<1> QED
  BY <1>2, <1>3 DEF Next, AllServed

\* The inductive invariant holds throughout every behaviour.
THEOREM Invariance == Spec => []IInv
BY InvInit, InvStep, PTL DEF Spec

-----------------------------------------------------------------------------
(* What follows from the invariant *)

\* The tables as the effects of a set of requests, with their distinct ids.
LEMMA Effects ==
  ASSUME IInv
  PROVE  \E effective \in SUBSET {r \in Requests : pc[r] = "done" /\ Valid(r)} :
           /\ idempotency_keys = {KeyRowOf(r) : r \in effective}
           /\ organizations = {OrganizationOf(r) : r \in effective}
           /\ memberships = {MembershipOf(r) : r \in effective}
           /\ audit_events = {AuditEventOf(r) : r \in effective}
           /\ \A q, r \in effective : Key(q) = Key(r) => q = r
BY DEF IInv, TablesInv

\* The fields of what r writes, and that they tell r apart from other requests.
LEMMA Fields ==
  /\ \A r : /\ KeyRowOf(r).id = Key(r) /\ KeyRowOf(r).hash = Hash(r)
            /\ KeyRowOf(r).status = "COMPLETED" /\ KeyRowOf(r).response = OrganizationOf(r)
            /\ OrganizationOf(r).id = NewID(r, "organization")
            /\ OrganizationOf(r).name = TrimSpace[request[r].name]
            /\ MembershipOf(r).organization = OrganizationOf(r).id
            /\ MembershipOf(r).principal = request[r].principal
            /\ AuditEventOf(r).organization = OrganizationOf(r).id
            /\ AuditEventOf(r).after = OrganizationOf(r)
            /\ AuditEventOf(r).actor = request[r].principal
            /\ Key(r)[1] = request[r].principal
  /\ \A q, r : OrganizationOf(q).id = OrganizationOf(r).id => q = r
<1>1. \A r : /\ KeyRowOf(r).id = Key(r) /\ KeyRowOf(r).hash = Hash(r)
             /\ KeyRowOf(r).status = "COMPLETED"
             /\ KeyRowOf(r).response = OrganizationOf(r)
  BY DEF KeyRowOf
<1>2. \A r : /\ OrganizationOf(r).id = NewID(r, "organization")
             /\ OrganizationOf(r).name = TrimSpace[request[r].name]
  BY DEF OrganizationOf, NewOrganization
<1>3. \A r : /\ MembershipOf(r).organization = OrganizationOf(r).id
             /\ MembershipOf(r).principal = request[r].principal
  BY DEF MembershipOf, NewMembership
<1>4. \A r : /\ AuditEventOf(r).organization = OrganizationOf(r).id
             /\ AuditEventOf(r).after = OrganizationOf(r)
             /\ AuditEventOf(r).actor = request[r].principal
  BY DEF AuditEventOf, NewAuditEvent
<1>5. \A r : Key(r)[1] = request[r].principal
  BY DEF Key, KeyIDOf
<1>6. \A q, r : NewID(q, "organization") = NewID(r, "organization") => q = r
  BY DEF NewID
<1> QED
  BY <1>1, <1>2, <1>3, <1>4, <1>5, <1>6

\* Whatever crashes or is lost, no committed key is left in PROCESSING, and
\* every key's response is a committed organization.
THEOREM KeysAlwaysComplete == Spec => []KeysComplete
<1>1. IInv => KeysComplete
  BY RowsComplete DEF IInv, TypeInv, KeysComplete
<1> QED
  BY <1>1, Invariance, PTL

\* Organizations, memberships, audit events and keys correspond one to one.
THEOREM ExactlyOncePerKey == Spec => []ExactlyOnce
<1>1. ASSUME IInv PROVE ExactlyOnce
  <2>1. PICK effective \in SUBSET {r \in Requests : pc[r] = "done" /\ Valid(r)} :
          /\ idempotency_keys = {KeyRowOf(r) : r \in effective}
          /\ organizations = {OrganizationOf(r) : r \in effective}
          /\ memberships = {MembershipOf(r) : r \in effective}
          /\ audit_events = {AuditEventOf(r) : r \in effective}
          /\ \A q, r \in effective : Key(q) = Key(r) => q = r
    BY <1>1, Effects
  <2>2. \A row1, row2 \in idempotency_keys : row1.id = row2.id => row1 = row2
    BY <2>1, Fields
  <2>3. ASSUME NEW o \in organizations
        PROVE  \E row \in idempotency_keys :
                 /\ row.response = o
                 /\ \A other \in idempotency_keys : other.response = o => other = row
                 /\ \E m \in memberships :
                      /\ m.organization = o.id /\ m.principal = row.id[1]
                      /\ \A n \in memberships : n.organization = o.id => n = m
                 /\ \E e \in audit_events :
                      /\ e.after = o /\ e.actor = row.id[1]
                      /\ \A f \in audit_events : f.organization = o.id => f = e
    <3>1. PICK r \in effective : o = OrganizationOf(r)
      BY <2>1
    <3>2. /\ KeyRowOf(r) \in idempotency_keys /\ KeyRowOf(r).response = o
          /\ \A other \in idempotency_keys : other.response = o => other = KeyRowOf(r)
      BY <2>1, <3>1, Fields
    <3>3. /\ MembershipOf(r) \in memberships /\ MembershipOf(r).organization = o.id
          /\ MembershipOf(r).principal = KeyRowOf(r).id[1]
          /\ \A n \in memberships : n.organization = o.id => n = MembershipOf(r)
      BY <2>1, <3>1, Fields
    <3>4. /\ AuditEventOf(r) \in audit_events /\ AuditEventOf(r).after = o
          /\ AuditEventOf(r).actor = KeyRowOf(r).id[1]
          /\ \A f \in audit_events : f.organization = o.id => f = AuditEventOf(r)
      BY <2>1, <3>1, Fields
    <3> QED
      BY <3>2, <3>3, <3>4
  <2>4. \A m \in memberships : \E o \in organizations : m.organization = o.id
    BY <2>1, Fields
  <2>5. \A e \in audit_events : e.after \in organizations
    BY <2>1, Fields
  <2> QED
    BY <2>2, <2>3, <2>4, <2>5 DEF ExactlyOnce
<1> QED
  BY <1>1, Invariance, PTL

\* Begin's ErrInProgress is never returned to a handler that cannot name it.
THEOREM InProgressUnreachable == Spec => []NeverInProgress
<1>1. IInv => NeverInProgress
  BY DEF IInv, ReplyInv, ReplyInvOf, NeverInProgress
<1> QED
  BY <1>1, Invariance, PTL

\* A key has one row.
LEMMA UniqueRows ==
  ASSUME IInv, NEW row1 \in idempotency_keys, NEW row2 \in idempotency_keys,
         row1.id = row2.id
  PROVE  row1 = row2
BY Effects, Fields

\* A successful answer is the response of the key's row, a replay unless the
\* row is r's own.
LEMMA SuccessRow ==
  ASSUME IInv, NEW r \in Requests, Succeeded(r)
  PROVE  /\ Valid(r)
         /\ \E row \in idempotency_keys :
              /\ row.id = Key(r) /\ row.hash = Hash(r)
              /\ reply[r].body = row.response
              /\ ~reply[r].replay => row = KeyRowOf(r)
<1>1. /\ Valid(r)
      /\ \/ /\ reply[r] = Success(OrganizationOf(r), FALSE)
            /\ KeyRowOf(r) \in idempotency_keys
         \/ Consulted(r, reply[r])
  BY DEF IInv, ReplyInv, ReplyInvOf, Succeeded
<1>2. CASE reply[r] = Success(OrganizationOf(r), FALSE) /\ KeyRowOf(r) \in idempotency_keys
  BY <1>1, <1>2, Fields DEF Success
<1>3. CASE Consulted(r, reply[r])
  <2>1. PICK row \in idempotency_keys : row.id = Key(r) /\ reply[r] = Replay(row, Hash(r))
    BY <1>3 DEF Consulted
  <2>2. row.hash = Hash(r) /\ reply[r] = Success(row.response, TRUE)
    BY <2>1 DEF Replay, Failure, Success, Succeeded
  <2> QED
    BY <1>1, <2>1, <2>2 DEF Success
<1> QED
  BY <1>1, <1>2, <1>3

\* One organization and at most one 201 per key, whoever asks and how often.
THEOREM SameAnswerAlways == Spec => []SameAnswer
<1>1. ASSUME IInv, NEW q \in Requests, NEW r \in Requests,
             Succeeded(q), Succeeded(r), Key(q) = Key(r)
      PROVE  /\ reply[q].body = reply[r].body
             /\ q # r => reply[q].replay \/ reply[r].replay
  <2>1. PICK rowq \in idempotency_keys :
          /\ rowq.id = Key(q) /\ reply[q].body = rowq.response
          /\ ~reply[q].replay => rowq = KeyRowOf(q)
    BY <1>1, SuccessRow
  <2>2. PICK rowr \in idempotency_keys :
          /\ rowr.id = Key(r) /\ reply[r].body = rowr.response
          /\ ~reply[r].replay => rowr = KeyRowOf(r)
    BY <1>1, SuccessRow
  <2>3. rowq = rowr
    BY <1>1, <2>1, <2>2, UniqueRows
  <2> QED
    BY <2>1, <2>2, <2>3, Fields
<1>2. IInv => SameAnswer
  BY <1>1 DEF SameAnswer
<1> QED
  BY <1>2, Invariance, PTL

\* A successful answer names a committed organization with the name of this
\* request, whose Administrator is this request's principal.
THEOREM AnswersFit == Spec => []AnswerFitsRequest
<1>1. ASSUME IInv, NEW r \in Requests, Succeeded(r)
      PROVE  /\ reply[r].body \in organizations
             /\ reply[r].body.name = TrimSpace[request[r].name]
             /\ \E m \in memberships :
                  /\ m.organization = reply[r].body.id
                  /\ m.principal = request[r].principal
  <2>1. Valid(r)
    BY <1>1, SuccessRow
  <2>2. PICK row \in idempotency_keys :
          row.id = Key(r) /\ row.hash = Hash(r) /\ reply[r].body = row.response
    BY <1>1, SuccessRow
  <2>3. PICK effective \in SUBSET {q \in Requests : pc[q] = "done" /\ Valid(q)} :
          /\ idempotency_keys = {KeyRowOf(q) : q \in effective}
          /\ organizations = {OrganizationOf(q) : q \in effective}
          /\ memberships = {MembershipOf(q) : q \in effective}
    BY <1>1, Effects
  <2>4. PICK q \in effective : row = KeyRowOf(q)
    BY <2>3
  <2>5. /\ Key(q) = Key(r) /\ Hash(q) = Hash(r)
        /\ reply[r].body = OrganizationOf(q)
    BY <2>2, <2>4, Fields
  <2>6. request[q].name = request[r].name
    <3>1. request[q].name \in Names /\ request[r].name \in Names
      BY <1>1, <2>1, <2>3, ValidTypes DEF IInv, TypeInv
    <3> QED
      BY <2>5, <3>1, HashAssumption DEF Hash
  <2>7. request[q].principal = request[r].principal
    BY <2>5, Fields
  <2> QED
    BY <2>3, <2>5, <2>6, <2>7, Fields
<1>2. IInv => AnswerFitsRequest
  BY <1>1 DEF AnswerFitsRequest
<1> QED
  BY <1>2, Invariance, PTL

\* A 409 always has a cause: a committed creation under the same key by the
\* same principal with another name.
THEOREM ConflictsJustified == Spec => []ConflictJustified
<1>1. ASSUME IInv, NEW r \in Requests, reply[r] = Failure("ErrKeyConflict")
      PROVE  \E q \in Requests \ {r} :
               /\ request[q] # Null
               /\ Key(q) = Key(r)
               /\ request[q].name # request[r].name
               /\ \E o \in organizations : o.id = NewID(q, "organization")
  <2>1. reply[r].err = "ErrKeyConflict"
    BY <1>1 DEF Failure
  <2>2. Consulted(r, reply[r])
    <3>1. reply[r] # Success(OrganizationOf(r), FALSE)
      BY <2>1 DEF Success
    <3>2. reply[r] # Null
      BY <1>1, ReplyTypes, NullAssumption DEF Error
    <3> QED
      BY <1>1, <2>1, <3>1, <3>2 DEF IInv, ReplyInv, ReplyInvOf
  <2>3. PICK row \in idempotency_keys : row.id = Key(r) /\ row.hash # Hash(r)
    BY <2>1, <2>2 DEF Consulted, Replay, Failure, Success
  <2>4. PICK effective \in SUBSET {q \in Requests : pc[q] = "done" /\ Valid(q)} :
          /\ idempotency_keys = {KeyRowOf(q) : q \in effective}
          /\ organizations = {OrganizationOf(q) : q \in effective}
    BY <1>1, Effects
  <2>5. PICK q \in effective : row = KeyRowOf(q)
    BY <2>4
  <2>6. Key(q) = Key(r) /\ Hash(q) # Hash(r)
    BY <2>3, <2>5, Fields
  <2>7. q # r /\ request[q].name # request[r].name
    BY <2>6 DEF Hash
  <2>8. OrganizationOf(q) \in organizations /\ OrganizationOf(q).id = NewID(q, "organization")
    BY <2>4, Fields
  <2> QED
    BY <2>4, <2>6, <2>7, <2>8 DEF Valid
<1>2. IInv => ConflictJustified
  BY <1>1 DEF ConflictJustified
<1> QED
  BY <1>2, Invariance, PTL

\* Every stored key and name went through the checks of the handler and the
\* service, in the transaction of a principal who may create organizations.
THEOREM StoredIsValid == Spec => []OnlyValidStored
<1>1. ASSUME IInv PROVE OnlyValidStored
  <2>1. PICK effective \in SUBSET {r \in Requests : pc[r] = "done" /\ Valid(r)} :
          /\ idempotency_keys = {KeyRowOf(r) : r \in effective}
          /\ organizations = {OrganizationOf(r) : r \in effective}
    BY <1>1, Effects
  <2>2. ASSUME NEW r \in effective
        PROVE  /\ request[r] # Null /\ request[r].mayCreate
               /\ Length[Key(r)[2]] \in 8..200 /\ TrimSpace[Key(r)[2]] = Key(r)[2]
               /\ Length[TrimSpace[request[r].name]] > 0
    <3>1. /\ r \in Requests /\ request[r] # Null /\ request[r] \in Request
          /\ Validate(request[r]) = "nil"
      BY <1>1, <2>1 DEF IInv, TypeOK, Valid
    <3>2. request[r].name \in Text /\ request[r].header \in Text
      BY <3>1, ValidName, TextAssumption DEF Request
    <3>3. Key(r)[2] = TrimSpace[TrimSpace[request[r].header]]
      BY DEF Key, KeyIDOf, KeyOf
    <3>4. Key(r)[2] \in Text /\ TrimSpace[Key(r)[2]] = Key(r)[2]
      BY <3>2, <3>3, TextAssumption
    <3>5. Length[Key(r)[2]] \in Nat /\ Length[TrimSpace[request[r].name]] \in Nat
      BY <3>2, <3>4, TextAssumption
    <3>6. /\ request[r].mayCreate
          /\ ~(Length[Key(r)[2]] < 8 \/ Length[Key(r)[2]] > 200)
          /\ Length[TrimSpace[request[r].name]] # 0
      BY <3>1, <3>3 DEF Validate, KeyOf
    <3> QED
      BY <3>1, <3>4, <3>5, <3>6
  <2>3. \A row \in idempotency_keys :
          /\ Length[row.id[2]] \in 8..200
          /\ TrimSpace[row.id[2]] = row.id[2]
          /\ \E r \in Requests : /\ request[r] # Null /\ request[r].mayCreate
                                 /\ Key(r) = row.id
    BY <2>1, <2>2, Fields
  <2>4. \A o \in organizations : Length[o.name] > 0
    BY <2>1, <2>2, Fields
  <2> QED
    BY <2>3, <2>4 DEF OnlyValidStored
<1> QED
  BY <1>1, Invariance, PTL

-----------------------------------------------------------------------------
(* OrganizationCreate implements IdempotentCreate *)

\* The ledger the committed key rows stand for.
Ledger == {[id |-> row.id, hash |-> row.hash, response |-> row.response] :
             row \in idempotency_keys}

\* The two specifications share their vocabulary.
LEMMA SameVocabulary ==
  /\ Promise!Request = Request
  /\ \A q : Promise!Validate(q) = Validate(q) /\ Promise!KeyIDOf(q) = KeyIDOf(q)
  /\ \A e : Promise!Failure(e) = Failure(e)
  /\ \A o, b : Promise!Success(o, b) = Success(o, b)
  /\ \A i, n : Promise!NewOrganization(i, n) = NewOrganization(i, n)
  /\ \A i, p, o : Promise!NewMembership(i, p, o) = NewMembership(i, p, o)
  /\ \A i, p, o : Promise!NewAuditEvent(i, p, o) = NewAuditEvent(i, p, o)
  /\ \A r, use : Promise!NewID(r, use) = NewID(r, use)
BY DEF Promise!Request, Request, Promise!Validate, Validate, Promise!KeyIDOf, KeyIDOf,
   Promise!KeyOf, KeyOf, Promise!Failure, Failure, Promise!Success, Success,
   Promise!NewOrganization, NewOrganization, Promise!NewMembership, NewMembership,
   Promise!NewAuditEvent, NewAuditEvent, Promise!NewID, NewID

\* The empty database maps to the empty ledger.
LEMMA RefinesInit == Init => Promise!Init
BY DEF Init, Promise!Init

\* A step that changes no table, request or reply is invisible.
LEMMA Invisible ==
  ASSUME UNCHANGED <<tables, request, reply>>
  PROVE  UNCHANGED Promise!vars
BY DEF tables, Promise!vars

\* The arrival of a request is Submit.
LEMMA ReceiveRefines ==
  ASSUME IInv, NEW r \in Requests, Receive(r)
  PROVE  Promise!Submit(r)
BY SameVocabulary
   DEF Receive, Answer, tables, Promise!Submit, Promise!Answer, IInv, RequestInv

\* An internal error answered before the transaction has ended.
LEMMA GiveUpRefines ==
  ASSUME IInv, NEW r \in Requests, pc[r] \notin {"idle", "done"}, reply[r] = Null,
         UNCHANGED <<tables, request>>, Answer(r, Failure("ErrDatabase"))
  PROVE  Promise!GiveUp(r)
<1>1. Promise!Open(r)
  BY SameVocabulary DEF IInv, RequestInv, Valid, Promise!Open
<1> QED
  BY <1>1, SameVocabulary DEF Promise!GiveUp, Promise!Answer, Answer, tables

\* A replay or a conflict answered from a committed row.
LEMMA ConsultRefines ==
  ASSUME IInv, NEW r \in Requests, pc[r] \notin {"idle", "done"}, reply[r] = Null,
         UNCHANGED <<tables, request>>, Consulted(r, outcome[r]), Answer(r, outcome[r])
  PROVE  Promise!Consult(r)
<1>1. Promise!Open(r)
  BY SameVocabulary DEF IInv, RequestInv, Valid, Promise!Open
<1>2. PICK row \in idempotency_keys : row.id = Key(r) /\ outcome[r] = Replay(row, Hash(r))
  BY DEF Consulted
<1>3. row.status = "COMPLETED" /\ row.response # Null
  BY RowsComplete DEF IInv, TypeInv
<1>4. outcome[r] = IF row.hash = Hash(r) THEN Success(row.response, TRUE)
                                         ELSE Failure("ErrKeyConflict")
  BY <1>2, <1>3 DEF Replay
<1> DEFINE entry == [id |-> row.id, hash |-> row.hash, response |-> row.response]
<1>5. entry \in Ledger
  BY DEF Ledger
<1>6. /\ entry.id = Promise!KeyIDOf(request[r])
      /\ outcome[r] = IF entry.hash = HashRequest[request[r].name]
                        THEN Promise!Success(entry.response, TRUE)
                        ELSE Promise!Failure("ErrKeyConflict")
  BY <1>2, <1>4, SameVocabulary DEF Key, Hash
<1> HIDE DEF entry
<1>7. \E e \in Ledger :
        /\ e.id = Promise!KeyIDOf(request[r])
        /\ Promise!Answer(r, IF e.hash = HashRequest[request[r].name]
                               THEN Promise!Success(e.response, TRUE)
                               ELSE Promise!Failure("ErrKeyConflict"))
  BY <1>5, <1>6 DEF Answer, Promise!Answer
<1> QED
  BY <1>1, <1>7 DEF Promise!Consult, Ledger, tables

\* The commit of a creation is the abstract creation, answered or not.
LEMMA CreateRefines ==
  ASSUME IInv, NEW r \in Requests, pc[r] \in {"commit", "committing"},
         Creating(r), tx[r].keys = {KeyRowOf(r)},
         organizations' = organizations \cup {OrganizationOf(r)},
         memberships' = memberships \cup {MembershipOf(r)},
         audit_events' = audit_events \cup {AuditEventOf(r)},
         idempotency_keys' = idempotency_keys \cup {KeyRowOf(r)},
         request' = request,
         \/ pc[r] = "committing" /\ reply' = reply
         \/ pc[r] = "commit" /\ Answer(r, Success(OrganizationOf(r), FALSE))
  PROVE  Promise!Create(r)
<1>1. Promise!Open(r)
  BY SameVocabulary DEF IInv, RequestInv, Valid, ReplyInv, ReplyInvOf, Promise!Open
<1>2. \A entry \in Ledger : entry.id # Promise!KeyIDOf(request[r])
  <2>1. \A row \in idempotency_keys : row.id # Key(r)
    BY DEF IInv, KeyExclusion
  <2> QED
    BY <2>1, SameVocabulary DEF Ledger, Key
<1>3. Ledger' = Ledger \cup {[id |-> Promise!KeyIDOf(request[r]),
                              hash |-> HashRequest[request[r].name],
                              response |-> OrganizationOf(r)]}
  <2>1. Ledger' = Ledger \cup {[id |-> KeyRowOf(r).id, hash |-> KeyRowOf(r).hash,
                                response |-> KeyRowOf(r).response]}
    BY DEF Ledger
  <2> QED
    BY <2>1, Fields, SameVocabulary DEF Key, Hash
<1>4. /\ Promise!NewOrganization(Promise!NewID(r, "organization"), request[r].name)
           = OrganizationOf(r)
      /\ Promise!NewMembership(Promise!NewID(r, "membership"), request[r].principal,
                               OrganizationOf(r)) = MembershipOf(r)
      /\ Promise!NewAuditEvent(Promise!NewID(r, "audit"), request[r].principal,
                               OrganizationOf(r)) = AuditEventOf(r)
  BY SameVocabulary DEF OrganizationOf, MembershipOf, AuditEventOf
<1>5. \/ reply' = reply
      \/ /\ reply[r] = Null
         /\ Promise!Answer(r, Promise!Success(OrganizationOf(r), FALSE))
  BY SameVocabulary DEF Answer, Promise!Answer, IInv, ReplyInv, ReplyInvOf
<1> QED
  BY <1>1, <1>2, <1>3, <1>4, <1>5 DEF Promise!Create, Ledger

\* A commit is Create, or, when only a row was read, Consult or a stutter.
LEMMA CommitRefines ==
  ASSUME IInv, NEW r \in Requests, Commit(r) \/ ServerCommit(r)
  PROVE  [Promise!Next]_(Promise!vars)
<1>1. /\ pc[r] \in {"commit", "committing"} /\ Publish(r) /\ UNCHANGED request
      /\ \/ pc[r] = "committing" /\ reply' = reply
         \/ pc[r] = "commit" /\ Answer(r, outcome[r])
  BY DEF Commit, ServerCommit
<1>2. CASE /\ Creating(r) /\ outcome[r] = Success(OrganizationOf(r), FALSE)
           /\ tx[r].keys = {KeyRowOf(r)}
           /\ organizations' = organizations \cup {OrganizationOf(r)}
           /\ memberships' = memberships \cup {MembershipOf(r)}
           /\ audit_events' = audit_events \cup {AuditEventOf(r)}
           /\ idempotency_keys' = idempotency_keys \cup {KeyRowOf(r)}
  BY <1>1, <1>2, CreateRefines DEF Promise!Next
<1>3. CASE Reading(r) /\ Consulted(r, outcome[r]) /\ UNCHANGED tables
  <2>1. CASE pc[r] = "committing" /\ reply' = reply
    BY <1>1, <1>3, <2>1, Invisible
  <2>2. CASE pc[r] = "commit" /\ Answer(r, outcome[r])
    <3>1. reply[r] = Null
      BY <2>2 DEF IInv, ReplyInv, ReplyInvOf
    <3> QED
      BY <1>1, <1>3, <2>2, <3>1, ConsultRefines DEF Promise!Next
  <2> QED
    BY <1>1, <2>1, <2>2
<1> QED
  BY <1>1, <1>2, <1>3, PublishCases

\* A rollback is Consult when the key's row was read, GiveUp otherwise.
LEMMA RollbackRefines ==
  ASSUME IInv, NEW r \in Requests, Rollback(r)
  PROVE  Promise!Next
<1>1. /\ pc[r] = "rollback" /\ reply[r] = Null
      /\ UNCHANGED <<tables, request>> /\ Answer(r, outcome[r])
      /\ outcome[r] = Failure("ErrDatabase") \/ Consulted(r, outcome[r])
  BY DEF Rollback, Discard, IInv, TxInv, TxInvOf, ReplyInv, ReplyInvOf
<1>2. Promise!GiveUp(r) \/ Promise!Consult(r)
  BY <1>1, GiveUpRefines, ConsultRefines
<1> QED
  BY <1>2 DEF Promise!Next

\* Losing the connection is told to the caller as an internal error or not at all,
\* and does not change what a rollback answers.
LEMMA FaultRefines ==
  ASSUME IInv, NEW r \in Requests, Fault(r)
  PROVE  [Promise!Next]_(Promise!vars)
<1>1. CASE StatementFails(r)
  BY <1>1, Invisible DEF StatementFails
<1>2. CASE BeginTxFails(r) \/ Disconnect(r)
  <2>1. /\ pc[r] \notin {"idle", "done"} /\ reply[r] = Null
        /\ UNCHANGED <<tables, request>>
        /\ \/ reply' = reply \/ Answer(r, Failure("ErrDatabase"))
           \/ pc[r] = "rollback" /\ Answer(r, outcome[r])
    BY <1>2 DEF BeginTxFails, Disconnect, InTx, IInv, ReplyInv, ReplyInvOf
  <2>2. CASE reply' = reply \/ Answer(r, Failure("ErrDatabase"))
    BY <2>1, <2>2, Invisible, GiveUpRefines DEF Promise!Next
  <2>3. CASE pc[r] = "rollback" /\ Answer(r, outcome[r])
    <3>1. outcome[r] = Failure("ErrDatabase") \/ Consulted(r, outcome[r])
      BY <2>3 DEF IInv, TxInv, TxInvOf
    <3>2. Promise!GiveUp(r) \/ Promise!Consult(r)
      BY <2>1, <2>3, <3>1, GiveUpRefines, ConsultRefines
    <3> QED
      BY <3>2 DEF Promise!Next
  <2> QED
    BY <2>1, <2>2, <2>3
<1> QED
  BY <1>1, <1>2 DEF Fault

\* Every step of the implementation is a step of the promise or a stutter.
LEMMA RefinesStep == IInv /\ [Next]_vars => [Promise!Next]_(Promise!vars)
<1> SUFFICES ASSUME IInv, [Next]_vars PROVE [Promise!Next]_(Promise!vars)
  OBVIOUS
<1>1. CASE UNCHANGED vars
  BY <1>1, Invisible DEF vars, tables
<1>2. ASSUME NEW r \in Requests, Receive(r) PROVE [Promise!Next]_(Promise!vars)
  BY <1>2, ReceiveRefines DEF Promise!Next
<1>3. ASSUME NEW r \in Requests, Proceed(r) PROVE [Promise!Next]_(Promise!vars)
  <2>1. CASE \/ BeginTx(r) \/ BeginInsert(r) \/ BeginSelect(r) \/ InsertOrganization(r)
             \/ InsertMembership(r) \/ AuditAppend(r) \/ Complete(r) \/ ServerAbort(r)
    <3>1. UNCHANGED <<tables, request, reply>>
      BY <2>1 DEF BeginTx, BeginInsert, BeginSelect, InsertOrganization, InsertMembership,
         AuditAppend, Complete, ServerAbort, Discard
    <3> QED
      BY <3>1, Invisible
  <2>2. CASE Commit(r) \/ ServerCommit(r)
    BY <2>2, CommitRefines
  <2>3. CASE Rollback(r)
    BY <2>3, RollbackRefines
  <2> QED
    BY <1>3, <2>1, <2>2, <2>3 DEF Proceed
<1>4. ASSUME NEW r \in Requests, Fault(r) PROVE [Promise!Next]_(Promise!vars)
  BY <1>4, FaultRefines
<1> QED
  BY <1>1, <1>2, <1>3, <1>4 DEF Next, AllServed

\* The endpoint keeps its promise: every behaviour of the handlers, the
\* transactions and the faults is a behaviour of IdempotentCreate.
THEOREM Refinement == Spec => ImplementsPromise
<1>1. Spec => Promise!Spec
  BY RefinesInit, RefinesStep, Invariance, PTL DEF Spec, Promise!Spec
<1> QED
  BY <1>1 DEF ImplementsPromise
=============================================================================
