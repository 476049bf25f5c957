------------------------------ MODULE Migration ------------------------------
(***************************************************************************)
(* cmd/migrate: goose applies migrations/00001_foundation.sql in one        *)
(* transaction, then River's own migrations follow, each in a transaction   *)
(* of its own.  A run may fail or be killed between any two of them, is     *)
(* repeated, and may meet another run (two hosts deployed at once).         *)
(*                                                                          *)
(* The foundation grants skawld_app its privileges only if that role exists *)
(* at that moment; River's tables get theirs through default privileges.    *)
(***************************************************************************)
EXTENDS Naturals

CONSTANTS
  Runs,          \* shells migrate is run in
  RiverVersions, \* number of River's migrations
  MaxFaults      \* bound on failures and kills

ASSUME MigrationAssumption == RiverVersions \in Nat \ {0} /\ MaxFaults \in Nat

VARIABLES
  roles,       \* the database roles that exist, of those the migration knows
  tables,      \* the foundation's tables that exist
  version,     \* goose's version
  river,       \* River's version
  defaults,    \* who gets default privileges in schema river
  granted,     \* who may do what on which tables
  grantedRiver,\* who may use the tables of which River migration
  pc, command, exit,
  next,        \* next[p]: the River migration p applies next
  faults,
  early        \* for the properties: the roles that existed when the foundation
               \* was applied

database == <<tables, version, river, defaults, granted, grantedRiver, early>>
vars == <<roles, tables, version, river, defaults, granted, grantedRiver, pc, command,
          exit, next, faults, early>>

Init ==
  /\ roles \in SUBSET {"skawld_app"}
  /\ tables = {} /\ version = 0 /\ river = 0
  /\ defaults = {} /\ granted = {} /\ grantedRiver = {} /\ early = {}
  /\ pc = [p \in Runs |-> "idle"]
  /\ command = [p \in Runs |-> "up"]
  /\ exit = [p \in Runs |-> "none"]
  /\ next = [p \in Runs |-> 1]
  /\ faults = 0

\* Tables are grouped: "domain" is the eight tables the runtime may change.
Tables == {"domain", "audit_events"}

GoTo(p, label) == pc' = [pc EXCEPT ![p] = label] /\ UNCHANGED exit
Exit(p, code) ==
  /\ pc' = [pc EXCEPT ![p] = "idle"]
  /\ exit' = [exit EXCEPT ![p] = code]

-----------------------------------------------------------------------------
Invoke(p, c) ==
  /\ pc[p] = "idle"
  /\ command' = [command EXCEPT ![p] = c]
  /\ exit' = [exit EXCEPT ![p] = "none"]
  /\ pc' = [pc EXCEPT ![p] = "version"]
  /\ UNCHANGED <<database, roles, next, faults>>

\* Mutant: main calls MigrateRiver only when goose had something to apply.
AfterGooseStops(p, applied) == IF applied THEN GoTo(p, "river") ELSE Exit(p, "0")

\* Migrate returned nil: main goes on with MigrateRiver after "up".
AfterGoose(p, applied) == IF command[p] = "up" THEN GoTo(p, "river") ELSE Exit(p, "0")

\* goose reads its version table: nothing to apply, a status, or a migration.
ReadVersion(p) ==
  /\ pc[p] = "version"
  /\ IF command[p] = "up" /\ version = 0 THEN GoTo(p, "apply") ELSE AfterGoose(p, FALSE)
  /\ UNCHANGED <<database, roles, command, next, faults>>

DomainPrivileges == {"domain"} \X {"SELECT", "INSERT", "UPDATE", "DELETE"}
AuditPrivileges == {"audit_events"} \X {"SELECT", "INSERT"}

\* Mutant: audit_events is granted with the other tables.
GrantsWithAudit == DomainPrivileges \cup ({"audit_events"} \X {"SELECT", "INSERT", "UPDATE", "DELETE"})

Grants == DomainPrivileges \cup AuditPrivileges

\* Mutant: ALTER DEFAULT PRIVILEGES is missing.
DefaultPrivilegesNone == {}

\* ALTER DEFAULT PRIVILEGES IN SCHEMA river, if the role exists.
DefaultPrivileges == roles

\* Mutant: the file is marked NO TRANSACTION, and what was created stays.
ApplyWithoutTransaction(p) ==
  /\ pc[p] = "apply"
  /\ tables' = Tables
  /\ \/ tables # {} /\ Exit(p, "1") /\ UNCHANGED <<version, early, defaults, granted>>
     \/ tables = {} /\ Exit(p, "1") /\ UNCHANGED <<version, early, defaults, granted>>
     \/ tables = {} /\ version' = 1 /\ early' = roles /\ defaults' = DefaultPrivileges
          /\ granted' = roles \X Grants /\ AfterGoose(p, TRUE)
  /\ UNCHANGED <<roles, river, grantedRiver, command, next, faults>>

\* The migration's transaction.  When another run has committed it meanwhile,
\* CREATE TABLE fails.
Apply(p) ==
  /\ pc[p] = "apply"
  /\ \/ /\ tables = {}
        /\ tables' = Tables /\ version' = 1
        /\ early' = roles /\ defaults' = DefaultPrivileges
        /\ granted' = roles \X Grants
        /\ AfterGoose(p, TRUE)
     \/ tables # {} /\ Exit(p, "1") /\ UNCHANGED <<tables, version, early, defaults, granted>>
  /\ UNCHANGED <<roles, river, grantedRiver, command, next, faults>>

\* rivermigrate reads which of its migrations are applied.
RiverRead(p) ==
  /\ pc[p] = "river"
  /\ next' = [next EXCEPT ![p] = river + 1]
  /\ GoTo(p, "migrate")
  /\ UNCHANGED <<database, roles, command, faults>>

\* One of River's migrations.  Its tables get the default privileges.
RiverApply(p) ==
  /\ pc[p] = "migrate" /\ next[p] <= RiverVersions
  /\ \/ /\ river = next[p] - 1
        /\ river' = next[p]
        /\ grantedRiver' = grantedRiver \cup (defaults \X {next[p]})
        /\ next' = [next EXCEPT ![p] = @ + 1]
        /\ UNCHANGED <<pc, exit>>
     \/ river >= next[p] /\ Exit(p, "1") /\ UNCHANGED <<river, grantedRiver, next>>
  /\ UNCHANGED <<roles, tables, version, defaults, granted, early, command, faults>>

Finish(p) ==
  /\ pc[p] = "migrate" /\ next[p] > RiverVersions
  /\ Exit(p, "0")
  /\ UNCHANGED <<database, roles, command, next, faults>>

\* A connection cannot be made, a statement fails, or the run is killed; the
\* transaction under way is rolled back.
Fail(p) ==
  /\ pc[p] # "idle" /\ faults < MaxFaults
  /\ Exit(p, "1") /\ faults' = faults + 1
  /\ UNCHANGED <<database, roles, command, next>>

\* The operator creates the runtime role.
CreateRole ==
  /\ roles = {} /\ roles' = {"skawld_app"}
  /\ UNCHANGED <<database, pc, command, exit, next, faults>>

Step(p) == ReadVersion(p) \/ Apply(p) \/ RiverRead(p) \/ RiverApply(p) \/ Finish(p)

Next ==
  \/ \E p \in Runs : (\E c \in {"up", "status"} : Invoke(p, c)) \/ Step(p) \/ Fail(p)
  \/ CreateRole

Spec == Init /\ [][Next]_vars

\* A run goes on, and whoever deploys tries "up" again.
Fairness == \A p \in Runs : WF_vars(Step(p)) /\ SF_vars(Invoke(p, "up"))
FairSpec == Spec /\ Fairness

-----------------------------------------------------------------------------
(* Properties *)

\* Every variable holds a value of its kind.
TypeOK ==
  /\ {roles, defaults, early} \subseteq SUBSET {"skawld_app"}
  /\ tables \in {{}, Tables}
  /\ version \in {0, 1} /\ river \in 0..RiverVersions
  /\ granted \subseteq {"skawld_app"} \X (DomainPrivileges \cup AuditPrivileges)
  /\ grantedRiver \subseteq {"skawld_app"} \X (1..RiverVersions)
  /\ pc \in [Runs -> {"idle", "version", "apply", "river", "migrate"}]
  /\ command \in [Runs -> {"up", "status"}]
  /\ exit \in [Runs -> {"none", "0", "1"}]
  /\ next \in [Runs -> 1..(RiverVersions + 1)]
  /\ faults \in 0..MaxFaults

Succeeded(p) == exit[p] = "0" /\ command[p] = "up"

\* When "migrate up" reports success both schemas are current, also when an
\* earlier run died between goose and River.
UpMeansCurrent == \A p \in Runs : Succeeded(p) => version = 1 /\ river = RiverVersions

\* "Runtime may insert and read audit events but cannot update or delete them"
\* and skawld_app is the runtime role (docs/runbooks/local-development.md): a
\* successful "up" leaves a role that existed when the foundation was applied
\* with every privilege it needs, River's tables included, and no more.
RuntimePrivileges ==
  \A p \in Runs : Succeeded(p) =>
    /\ granted = early \X (DomainPrivileges \cup AuditPrivileges)
    /\ grantedRiver = early \X (1..RiverVersions)

\* Failures, kills and runs that meet never leave a state from which "up" does
\* not succeed.
UpConverges == <>[](version = 1 /\ river = RiverVersions) /\ (\E p \in Runs : <>Succeeded(p))
=============================================================================
