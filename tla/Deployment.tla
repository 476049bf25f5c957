----------------------------- MODULE Deployment -----------------------------
(***************************************************************************)
(* The processes of a deployment, cmd/api and cmd/worker, from their        *)
(* configuration to their exit: config.Load and Validate, database.Open and *)
(* its pool, start-up, signals and shutdown.  All read one environment and  *)
(* connect to one PostgreSQL, and each may stop, crash and be started again *)
(* at any time.  A role may have several instances.                         *)
(*                                                                          *)
(* The pool sizes and the budget are int32 in the code; the range is a      *)
(* parameter, since TLC's own integers have 32 bits.                        *)
(***************************************************************************)
EXTENDS Integers

CONSTANTS
  Process,    \* the processes, one or more of each role
  API,        \* those that run cmd/api; the others run cmd/worker
  MaxInt,     \* greatest value of the type of the pool sizes, math.MaxInt32
  Values,     \* integers the environment may hold
  Unset,      \* a variable that is not in the environment
  Malformed,  \* a variable strconv.Atoi refuses
  MaxWork     \* bound on the requests or jobs in flight

ASSUME BoundAssumption == MaxInt \in Nat /\ MaxInt >= 25 /\ MaxWork \in Nat
ASSUME ValuesAssumption == Values \subseteq Int /\ {Unset, Malformed} \cap Int = {}
ASSUME RolesAssumption == API \subseteq Process

\* The deployment the settings describe: one process per role.
OnePerRole == Process = {"api", "worker"} /\ API = {"api"}

\* The environment.  wellFormed: every other integer, duration and boolean can
\* be parsed; common: what else both roles require is valid (DATABASE_URL,
\* timeouts, SESSION_TTL, job concurrency); oidc: so is what only the API
\* requires (issuer, client, redirect URL, secure cookie).
Setting == Values \cup {Unset, Malformed}
Environment == [api : Setting, worker : Setting, budget : Setting,
                wellFormed : BOOLEAN, common : BOOLEAN, oidc : BOOLEAN]

VARIABLES
  environ,    \* the environment of all processes
  phase,      \* phase[p]: where main is
  exit,       \* exit[p]: how the last execution of p ended
  conns,      \* conns[p]: open connections of p's pool
  backends,   \* connections PostgreSQL serves, of all processes
  work,       \* work[p]: requests or jobs in flight, kept when p ends
  signalled   \* signalled[p]: ctx is done

vars == <<environ, phase, exit, conns, backends, work, signalled>>

Phase == {"down", "open", "setup", "running", "stopping"}
ExitCode == {"none", "0", "1", "2", "killed"}

Init ==
  /\ environ \in Environment
  /\ phase = [p \in Process |-> "down"]
  /\ exit = [p \in Process |-> "none"]
  /\ conns = [p \in Process |-> 0]
  /\ backends = 0
  /\ work = [p \in Process |-> 0]
  /\ signalled = [p \in Process |-> FALSE]

-----------------------------------------------------------------------------
(* Configuration *)

\* The conversion int32(n), and the sum of two such numbers: they wrap.
Int32(n) == ((n + MaxInt + 1) % (2 * MaxInt + 2)) - MaxInt - 1

\* A value that cannot be parsed becomes the fallback here and is reported by
\* validateEnvironmentValues.
envInt(setting, fallback) ==
  IF setting \in {Unset, Malformed} THEN fallback ELSE setting

APIMaxConns == Int32(envInt(environ.api, 10))
WorkerMaxConns == Int32(envInt(environ.worker, 10))
MaxBudget == Int32(envInt(environ.budget, 25))

\* Mutant: each pool is compared with the budget, not their sum.
ValidateEach(p) ==
  /\ APIMaxConns > 0 /\ WorkerMaxConns > 0
  /\ MaxBudget > 0
  /\ APIMaxConns <= MaxBudget /\ WorkerMaxConns <= MaxBudget
  /\ environ.common
  /\ p \in API => environ.oidc

Validate(p) ==
  /\ APIMaxConns > 0 /\ WorkerMaxConns > 0
  /\ MaxBudget > 0
  /\ Int32(APIMaxConns + WorkerMaxConns) <= MaxBudget
  /\ environ.common
  /\ p \in API => environ.oidc

validateEnvironmentValues ==
  Malformed \notin {environ.api, environ.worker, environ.budget} /\ environ.wellFormed

\* MaxConns of the pool Open configures for a role.
PoolSize(p) == IF p \in API THEN APIMaxConns ELSE WorkerMaxConns

-----------------------------------------------------------------------------
(* main *)

GoTo(p, label) == phase' = [phase EXCEPT ![p] = label] /\ UNCHANGED exit

\* os.Exit or the return of main: the pool is gone with the process.
Exit(p, code) ==
  /\ phase' = [phase EXCEPT ![p] = "down"]
  /\ exit' = [exit EXCEPT ![p] = code]
  /\ conns' = [conns EXCEPT ![p] = 0]
  /\ backends' = backends - conns[p]
  /\ signalled' = [signalled EXCEPT ![p] = FALSE]

\* p is started, for the first time or again, and loads its configuration.
Load(p) ==
  /\ phase[p] = "down"
  /\ work' = [work EXCEPT ![p] = 0]
  /\ IF Validate(p) /\ validateEnvironmentValues
       THEN /\ phase' = [phase EXCEPT ![p] = "open"]
            /\ exit' = [exit EXCEPT ![p] = "none"]
            /\ UNCHANGED <<conns, backends, signalled>>
       ELSE Exit(p, "2")
  /\ UNCHANGED environ

\* database.Open: the pool has connected and answered the ping.
Open(p) ==
  /\ phase[p] = "open"
  /\ GoTo(p, "setup")
  /\ conns' = [conns EXCEPT ![p] = 1]
  /\ backends' = backends + 1
  /\ UNCHANGED <<environ, work, signalled>>

\* auth.New (OIDC discovery) and the HTTP server, or jobs.New and Client.Start.
Setup(p) ==
  /\ phase[p] = "setup"
  /\ GoTo(p, "running")
  /\ UNCHANGED <<environ, conns, backends, work, signalled>>

\* Any of them fails, a done context included.
StartupFails(p) ==
  /\ phase[p] \in {"open", "setup"}
  /\ Exit(p, "1")
  /\ UNCHANGED <<environ, work>>

\* <-ctx.Done() returns: Shutdown or Stop takes no more work.
Stop(p) ==
  /\ phase[p] = "running" /\ signalled[p]
  /\ GoTo(p, "stopping")
  /\ UNCHANGED <<environ, conns, backends, work, signalled>>

\* Everything in flight has ended: Shutdown returns nil and so does main.
Drained(p) ==
  /\ phase[p] = "stopping" /\ work[p] = 0
  /\ Exit(p, "0")
  /\ UNCHANGED <<environ, work>>

\* Mutant: Shutdown is given context.Background().
DrainNeverTimesOut(p) == FALSE /\ UNCHANGED vars

\* The deadline of shutdownCtx, 15 or 30 seconds, passes first.
DrainTimeout(p) ==
  /\ phase[p] = "stopping" /\ work[p] > 0
  /\ Exit(p, "1")
  /\ UNCHANGED <<environ, work>>

-----------------------------------------------------------------------------
(* Beside main *)

\* A request is accepted or a job fetched.
Accept(p) ==
  /\ phase[p] = "running" /\ work[p] < MaxWork
  /\ work' = [work EXCEPT ![p] = @ + 1]
  /\ UNCHANGED <<environ, phase, exit, conns, backends, signalled>>

Finish(p) ==
  /\ phase[p] \in {"running", "stopping"} /\ work[p] > 0
  /\ work' = [work EXCEPT ![p] = @ - 1]
  /\ UNCHANGED <<environ, phase, exit, conns, backends, signalled>>

\* The pool opens a connection, or drops an idle one.
Connect(p) ==
  /\ phase[p] \in {"setup", "running", "stopping"} /\ conns[p] < PoolSize(p)
  /\ conns' = [conns EXCEPT ![p] = @ + 1]
  /\ backends' = backends + 1
  /\ UNCHANGED <<environ, phase, exit, work, signalled>>

Disconnect(p) ==
  /\ conns[p] > 0
  /\ conns' = [conns EXCEPT ![p] = @ - 1]
  /\ backends' = backends - 1
  /\ UNCHANGED <<environ, phase, exit, work, signalled>>

\* SIGINT or SIGTERM once NotifyContext is in place, or, in the API,
\* ListenAndServe fails and its goroutine calls stop.
Signal(p) ==
  /\ phase[p] \notin {"down", "stopping"} /\ ~signalled[p]
  /\ signalled' = [signalled EXCEPT ![p] = TRUE]
  /\ UNCHANGED <<environ, phase, exit, conns, backends, work>>

Crash(p) ==
  /\ phase[p] # "down"
  /\ Exit(p, "killed")
  /\ UNCHANGED <<environ, work>>

-----------------------------------------------------------------------------
Main(p) == Open(p) \/ Setup(p) \/ StartupFails(p) \/ Stop(p) \/ Drained(p)
           \/ DrainTimeout(p)
Beside(p) == Accept(p) \/ Finish(p) \/ Connect(p) \/ Disconnect(p) \/ Signal(p)
             \/ Crash(p)

Next == \E p \in Process : Load(p) \/ Main(p) \/ Beside(p)

Spec == Init /\ [][Next]_vars

\* main runs: every call it waits for has a deadline (the ping's, shutdownCtx)
\* or honours ctx.  Requests and jobs need not end.
Fairness == \A p \in Process : WF_vars(Main(p))
FairSpec == Spec /\ Fairness

-----------------------------------------------------------------------------
(* Properties *)

\* Every variable holds a value of its kind.
TypeOK ==
  /\ environ \in Environment
  /\ phase \in [Process -> Phase]
  /\ exit \in [Process -> ExitCode]
  /\ conns \in [Process -> Nat]
  /\ backends \in Nat
  /\ work \in [Process -> 0..MaxWork]
  /\ signalled \in [Process -> BOOLEAN]

\* "PostgreSQL connection budgets and worker concurrency are configuration
\* invariants" (docs/adr/0001-accepted-foundation.md): however the processes
\* start, crash and restart, their pools together never hold more connections
\* than the operator's DATABASE_MAX_CONNECTION_BUDGET.
WithinBudget == backends > 0 => backends <= envInt(environ.budget, 25)

\* A stop signal ends the process, also one that comes during start-up or
\* while a request hangs.
SignalEnds == \A p \in Process : signalled[p] ~> phase[p] = "down"
=============================================================================
