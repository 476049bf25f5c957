--------------------------- MODULE MigrationProofs ---------------------------
(***************************************************************************)
(* What a successful "migrate up" means, for any number of runs that meet,  *)
(* any number of River's migrations and any failures.                       *)
(***************************************************************************)
EXTENDS Migration, TLAPS

\* The foundation's tables and goose's version are committed together, and a
\* run that has come to River has seen them.  River's version only grows, so
\* the migration a run means to apply next is at most one ahead of it.
ProgressInv ==
  /\ tables = {} <=> version = 0
  /\ version = 0 => river = 0
  /\ \A p \in Runs :
       /\ pc[p] = "apply" => command[p] = "up"
       /\ pc[p] \in {"river", "migrate"} => version = 1
       /\ pc[p] = "migrate" => next[p] <= river + 1
       /\ Succeeded(p) => version = 1 /\ river = RiverVersions

\* A role that was there in time has what the foundation grants, and the
\* tables of every River migration so far.
PrivilegeInv ==
  /\ version = 0 => grantedRiver = {}
  /\ version = 1 => /\ defaults = early
                    /\ granted = early \X Grants
                    /\ grantedRiver = early \X (1..river)

MigrationInv == TypeOK /\ ProgressInv /\ PrivilegeInv

-----------------------------------------------------------------------------
\* Before the first run the database is empty.
LEMMA MigrationInit == Init => MigrationInv
<1> QED
  BY MigrationAssumption DEF Init, MigrationInv, TypeOK, ProgressInv, PrivilegeInv,
     Succeeded

\* A run that ends with an error, or whose "status" ends, and leaves the
\* database alone.
LEMMA ExitStep ==
  ASSUME MigrationInv, NEW p \in Runs, NEW code \in {"0", "1"}, Exit(p, code),
         code = "0" => command[p] = "status",
         UNCHANGED <<database, roles, command, next>>, faults' \in 0..MaxFaults
  PROVE  MigrationInv'
<1>1. TypeOK'
  BY DEF MigrationInv, TypeOK, Exit, database
<1>2. ProgressInv'
  <2>1. ASSUME NEW q \in Runs, q # p
        PROVE  /\ pc'[q] = pc[q] /\ exit'[q] = exit[q] /\ command'[q] = command[q]
               /\ next'[q] = next[q]
    BY <2>1 DEF MigrationInv, TypeOK, Exit
  <2>2. pc'[p] = "idle" /\ exit'[p] = code /\ command'[p] = command[p]
    BY DEF MigrationInv, TypeOK, Exit
  <2> QED
    BY <2>1, <2>2 DEF MigrationInv, ProgressInv, Succeeded, database
<1>3. PrivilegeInv'
  BY DEF MigrationInv, PrivilegeInv, database
<1> QED
  BY <1>1, <1>2, <1>3 DEF MigrationInv

\* Every step of a run keeps the invariant, one case per action.
LEMMA MigrationStep == MigrationInv /\ [Next]_vars => MigrationInv'
<1> SUFFICES ASSUME MigrationInv, [Next]_vars PROVE MigrationInv'
  OBVIOUS
<1> USE MigrationAssumption DEF MigrationInv
<1>1. CASE UNCHANGED vars
  BY <1>1 DEF vars, TypeOK, ProgressInv, PrivilegeInv, Succeeded
<1>2. CASE CreateRole
  BY <1>2 DEF CreateRole, database, TypeOK, ProgressInv, PrivilegeInv, Succeeded
<1>3. ASSUME NEW p \in Runs, NEW c \in {"up", "status"}, Invoke(p, c)
      PROVE  MigrationInv'
  <2>1. TypeOK'
    BY <1>3 DEF Invoke, database, TypeOK
  <2>2. ProgressInv'
    BY <1>3 DEF Invoke, database, TypeOK, ProgressInv, Succeeded
  <2>3. PrivilegeInv'
    BY <1>3 DEF Invoke, database, PrivilegeInv
  <2> QED
    BY <2>1, <2>2, <2>3
<1>4. ASSUME NEW p \in Runs, ReadVersion(p) PROVE MigrationInv'
  <2>1. UNCHANGED <<database, roles, command, next, faults>>
    BY <1>4 DEF ReadVersion
  <2>2. CASE Exit(p, "0") /\ command[p] # "up"
    <3>1. command[p] = "status" /\ faults' \in 0..MaxFaults
      BY <2>1, <2>2 DEF TypeOK
    <3> QED
      BY <2>1, <2>2, <3>1, ExitStep
  <2>3. CASE GoTo(p, "apply") /\ command[p] = "up"
    BY <2>1, <2>3 DEF GoTo, database, TypeOK, ProgressInv, PrivilegeInv, Succeeded
  <2>4. CASE GoTo(p, "river") /\ version = 1
    BY <2>1, <2>4 DEF GoTo, database, TypeOK, ProgressInv, PrivilegeInv, Succeeded
  <2>5. \/ Exit(p, "0") /\ command[p] # "up"
        \/ GoTo(p, "apply") /\ command[p] = "up"
        \/ GoTo(p, "river") /\ version = 1
    BY <1>4 DEF ReadVersion, AfterGoose, TypeOK
  <2> QED
    BY <2>2, <2>3, <2>4, <2>5
<1>5. ASSUME NEW p \in Runs, Apply(p) PROVE MigrationInv'
  <2>1. CASE tables # {}
    BY <1>5, <2>1, ExitStep DEF Apply, AfterGoose, database, TypeOK
  <2>2. CASE tables = {}
    <3>1. /\ tables' = Tables /\ version' = 1 /\ early' = roles /\ defaults' = roles
          /\ granted' = roles \X Grants
          /\ GoTo(p, "river")
          /\ UNCHANGED <<roles, river, grantedRiver, command, next, faults>>
      BY <1>5, <2>2 DEF Apply, AfterGoose, DefaultPrivileges, ProgressInv
    <3>2. version = 0 /\ river = 0
      BY <2>2 DEF TypeOK, ProgressInv
    <3>3. TypeOK'
      BY <3>1 DEF TypeOK, GoTo, Grants, Tables
    <3>4. ProgressInv'
      BY <3>1, <3>2 DEF TypeOK, ProgressInv, GoTo, Succeeded, Tables
    <3>5. grantedRiver = roles \X (1..river)
      BY <3>2 DEF PrivilegeInv
    <3>6. PrivilegeInv'
      BY <3>1, <3>5 DEF PrivilegeInv
    <3> QED
      BY <3>3, <3>4, <3>6
  <2> QED
    BY <2>1, <2>2
<1>6. ASSUME NEW p \in Runs, RiverRead(p) PROVE MigrationInv'
  <2>1. TypeOK'
    BY <1>6 DEF RiverRead, GoTo, database, TypeOK
  <2>2. ProgressInv'
    BY <1>6 DEF RiverRead, GoTo, database, TypeOK, ProgressInv, Succeeded
  <2>3. PrivilegeInv'
    BY <1>6 DEF RiverRead, database, PrivilegeInv
  <2> QED
    BY <2>1, <2>2, <2>3
<1>7. ASSUME NEW p \in Runs, RiverApply(p) PROVE MigrationInv'
  <2>1. CASE river >= next[p]
    BY <1>7, <2>1, ExitStep DEF RiverApply, database, TypeOK
  <2>2. CASE river = next[p] - 1
    <3>1. /\ river' = river + 1 /\ river' <= RiverVersions /\ version = 1
          /\ grantedRiver' = grantedRiver \cup (defaults \X {river + 1})
          /\ next' = [next EXCEPT ![p] = river + 2]
          /\ UNCHANGED <<pc, exit, roles, tables, version, defaults, granted, early,
                         command, faults>>
      BY <1>7, <2>2 DEF RiverApply, TypeOK, ProgressInv
    <3>2. TypeOK'
      BY <3>1 DEF TypeOK
    <3>3. ProgressInv'
      BY <3>1 DEF TypeOK, ProgressInv, Succeeded
    <3>4. PrivilegeInv'
      BY <3>1 DEF TypeOK, PrivilegeInv
    <3> QED
      BY <3>2, <3>3, <3>4
  <2> QED
    BY <1>7, <2>1, <2>2 DEF RiverApply
<1>8. ASSUME NEW p \in Runs, Finish(p) PROVE MigrationInv'
  <2>1. version = 1 /\ river = RiverVersions
    BY <1>8 DEF Finish, TypeOK, ProgressInv
  <2>2. TypeOK'
    BY <1>8 DEF Finish, Exit, database, TypeOK
  <2>3. ProgressInv'
    BY <1>8, <2>1 DEF Finish, Exit, database, TypeOK, ProgressInv, Succeeded
  <2>4. PrivilegeInv'
    BY <1>8 DEF Finish, database, PrivilegeInv
  <2> QED
    BY <2>2, <2>3, <2>4
<1>9. ASSUME NEW p \in Runs, Fail(p) PROVE MigrationInv'
  <2>1. faults' \in 0..MaxFaults
    BY <1>9 DEF Fail, TypeOK
  <2> QED
    BY <1>9, <2>1, ExitStep DEF Fail
<1> QED
  BY <1>1, <1>2, <1>3, <1>4, <1>5, <1>6, <1>7, <1>8, <1>9 DEF Next, Step

-----------------------------------------------------------------------------
\* Every variable keeps its kind; in particular skawld_app never gets more than
\* the foundation means it to have.
THEOREM MigrationTypes == Spec => []TypeOK
<1>1. MigrationInv => TypeOK
  BY DEF MigrationInv
<1> QED
  BY <1>1, MigrationInit, MigrationStep, PTL DEF Spec

\* "migrate up" reports success only when both schemas are current, however
\* many runs meet and wherever earlier ones died.
THEOREM UpIsCurrent == Spec => []UpMeansCurrent
<1>1. MigrationInv => UpMeansCurrent
  BY DEF MigrationInv, ProgressInv, UpMeansCurrent
<1> QED
  BY <1>1, MigrationInit, MigrationStep, PTL DEF Spec

\* A runtime role that existed in time has exactly its privileges after a
\* successful "up", on the tables of every River migration too.
THEOREM PrivilegesComplete == Spec => []RuntimePrivileges
<1>1. MigrationInv => RuntimePrivileges
  BY DEF MigrationInv, ProgressInv, PrivilegeInv, RuntimePrivileges, Grants
<1> QED
  BY <1>1, MigrationInit, MigrationStep, PTL DEF Spec
=============================================================================
