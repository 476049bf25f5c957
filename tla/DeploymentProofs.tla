-------------------------- MODULE DeploymentProofs --------------------------
(***************************************************************************)
(* The connection budget holds for one process per role and every           *)
(* environment whose numbers, and whose sum of pool sizes, the integer type *)
(* can represent.  The budget is that of the pools of live processes; what  *)
(* PostgreSQL keeps for a process that has died is not counted.  Further    *)
(* instances of a role are outside the hypothesis, and the wraparound of    *)
(* the overflow run shows that the other hypothesis is needed.              *)
(***************************************************************************)
EXTENDS Deployment, TLAPS

Range32 == (-MaxInt - 1) .. MaxInt

\* No conversion or sum of Load and Validate wraps in this environment.
Representable ==
  /\ envInt(environ.api, 10) \in Range32
  /\ envInt(environ.worker, 10) \in Range32
  /\ envInt(environ.budget, 25) \in Range32
  /\ envInt(environ.api, 10) + envInt(environ.worker, 10) \in Range32

\* The part of Validate about the pools, without wraparound.
Affordable ==
  envInt(environ.api, 10) + envInt(environ.worker, 10) <= envInt(environ.budget, 25)

\* Once a process is past Load, the pools fit the budget, and no pool exceeds
\* its size: the invariant that makes WithinBudget inductive.  A process with
\* no connection may have been refused, hence the sizes must be positive.
PoolsFit ==
  /\ Representable
  /\ backends = conns["api"] + conns["worker"]
  /\ \A p \in Process :
       /\ phase[p] \in {"down", "open"} => conns[p] = 0
       /\ phase[p] # "down" =>
            /\ Affordable
            /\ conns[p] <= PoolSize(p)
            /\ \A q \in Process : PoolSize(q) > 0

BudgetInv == OnePerRole /\ TypeOK /\ PoolsFit

-----------------------------------------------------------------------------
\* A representable number survives the conversion to int32 unchanged.
LEMMA Int32Identity ==
  ASSUME NEW n \in Range32
  PROVE  Int32(n) = n
<1>1. n \in Int /\ n + MaxInt + 1 \in 0 .. (2 * MaxInt + 1)
  BY BoundAssumption DEF Range32
<1>2. \A a, b \in Nat : a < b => a % b = a
  OBVIOUS
<1>3. (n + MaxInt + 1) % (2 * MaxInt + 2) = n + MaxInt + 1
  BY <1>1, <1>2, BoundAssumption
<1> QED
  BY <1>1, <1>3, BoundAssumption DEF Int32

\* In a representable environment the sizes are the numbers the operator set.
LEMMA SizesExact ==
  ASSUME OnePerRole, Representable
  PROVE  /\ APIMaxConns = envInt(environ.api, 10)
         /\ WorkerMaxConns = envInt(environ.worker, 10)
         /\ MaxBudget = envInt(environ.budget, 25)
         /\ Int32(APIMaxConns + WorkerMaxConns) = APIMaxConns + WorkerMaxConns
         /\ PoolSize("api") = envInt(environ.api, 10)
         /\ PoolSize("worker") = envInt(environ.worker, 10)
         /\ \A p \in Process : PoolSize(p) \in Int
<1>1. /\ APIMaxConns = envInt(environ.api, 10)
      /\ WorkerMaxConns = envInt(environ.worker, 10)
      /\ MaxBudget = envInt(environ.budget, 25)
  BY Int32Identity DEF Representable, APIMaxConns, WorkerMaxConns, MaxBudget
<1>2. Int32(APIMaxConns + WorkerMaxConns) = APIMaxConns + WorkerMaxConns
  BY <1>1, Int32Identity DEF Representable
<1>3. \A n \in Range32 : n \in Int
  BY BoundAssumption DEF Range32
<1> QED
  BY <1>1, <1>2, <1>3 DEF PoolSize, OnePerRole, Representable

\* What Validate accepts in a representable environment is affordable.
LEMMA ValidateAffordable ==
  ASSUME OnePerRole, Representable, NEW p \in Process, Validate(p)
  PROVE  Affordable /\ \A q \in Process : PoolSize(q) > 0
<1> QED
  BY SizesExact DEF Validate, Affordable, PoolSize, OnePerRole

\* The environment never changes, so the facts about it are stable.
LEMMA EnvironmentFixed ==
  ASSUME UNCHANGED environ
  PROVE  /\ Representable' = Representable
         /\ Affordable' = Affordable
         /\ \A p \in Process : PoolSize(p)' = PoolSize(p)
<1> QED
  BY DEF Representable, Affordable, PoolSize, APIMaxConns, WorkerMaxConns

\* Initially both processes are down.
LEMMA BudgetInit == Init /\ OnePerRole /\ Representable => BudgetInv
<1> QED
  BY BoundAssumption DEF Init, BudgetInv, TypeOK, PoolsFit, OnePerRole, Phase, ExitCode

\* The end of a process preserves the invariant, whatever its exit code.
LEMMA ExitStep ==
  ASSUME BudgetInv, NEW p \in Process, NEW code \in ExitCode, Exit(p, code),
         UNCHANGED environ, work' \in [Process -> 0..MaxWork]
  PROVE  BudgetInv'
<1>1. /\ phase' = [phase EXCEPT ![p] = "down"]
      /\ exit' = [exit EXCEPT ![p] = code]
      /\ conns' = [conns EXCEPT ![p] = 0]
      /\ backends' = backends - conns[p]
      /\ signalled' = [signalled EXCEPT ![p] = FALSE]
  BY DEF Exit
<1>2. phase' \in [Process -> Phase] /\ exit' \in [Process -> ExitCode]
  BY <1>1 DEF BudgetInv, TypeOK, Phase
<1>3. /\ conns' \in [Process -> Nat]
      /\ backends' = conns'["api"] + conns'["worker"]
      /\ backends' \in Nat
  <2>1. conns \in [Process -> Nat] /\ backends = conns["api"] + conns["worker"]
    BY DEF BudgetInv, TypeOK, PoolsFit
  <2>2. conns' \in [Process -> Nat]
    BY <1>1, <2>1
  <2>3. backends' = conns'["api"] + conns'["worker"]
    BY <1>1, <2>1 DEF BudgetInv, OnePerRole
  <2>4. conns'["api"] \in Nat /\ conns'["worker"] \in Nat
    BY <2>2 DEF BudgetInv, OnePerRole
  <2> QED
    BY <2>2, <2>3, <2>4
<1>4. signalled' \in [Process -> BOOLEAN]
  BY <1>1 DEF BudgetInv, TypeOK
<1>5. TypeOK'
  BY <1>2, <1>3, <1>4 DEF BudgetInv, TypeOK
<1>6. PoolsFit'
  <2>1. Representable'
    BY EnvironmentFixed DEF BudgetInv, PoolsFit
  <2>2. ASSUME NEW q \in Process PROVE phase'[q] \in {"down", "open"} => conns'[q] = 0
    BY <1>1, <2>2 DEF BudgetInv, TypeOK, PoolsFit
  <2>3. ASSUME NEW q \in Process, phase'[q] # "down"
        PROVE  /\ Affordable'
               /\ conns'[q] <= PoolSize(q)'
               /\ \A r \in Process : PoolSize(r)' > 0
    <3>1. phase[q] # "down" /\ conns'[q] = conns[q]
      BY <1>1, <2>3 DEF BudgetInv, TypeOK
    <3> QED
      BY <3>1, EnvironmentFixed DEF BudgetInv, PoolsFit
  <2> QED
    BY <1>3, <2>1, <2>2, <2>3 DEF PoolsFit
<1> QED
  BY <1>5, <1>6 DEF BudgetInv

\* Every step of a process preserves the invariant, one case per action.
LEMMA BudgetStep == BudgetInv /\ [Next]_vars => BudgetInv'
<1> SUFFICES ASSUME BudgetInv, [Next]_vars PROVE BudgetInv'
  OBVIOUS
<1> USE BoundAssumption DEF BudgetInv, OnePerRole
<1>1. UNCHANGED environ
  BY DEF Next, Load, Main, Beside, Open, Setup, StartupFails, Stop, Drained,
         DrainTimeout, Accept, Finish, Connect, Disconnect, Signal, Crash, vars
<1>2. /\ Representable' /\ Representable
      /\ Affordable' = Affordable
      /\ \A p \in Process : PoolSize(p)' = PoolSize(p) /\ PoolSize(p) \in Int
  BY <1>1, EnvironmentFixed, SizesExact DEF PoolsFit
<1>3. CASE UNCHANGED vars
  BY <1>2, <1>3 DEF vars, TypeOK, PoolsFit
<1>4. ASSUME NEW p \in Process, Load(p) PROVE BudgetInv'
  <2>1. CASE Validate(p) /\ validateEnvironmentValues
    <3>1. Affordable /\ \A q \in Process : PoolSize(q) > 0
      BY <1>2, <2>1, ValidateAffordable
    <3>2. TypeOK'
      BY <1>4, <2>1 DEF Load, TypeOK, Phase, ExitCode
    <3>3. conns[p] <= PoolSize(p)
      BY <1>2, <1>4, <3>1 DEF Load, PoolsFit
    <3>4. PoolsFit'
      BY <1>2, <1>4, <2>1, <3>1, <3>3 DEF Load, TypeOK, PoolsFit
    <3> QED
      BY <3>2, <3>4
  <2>2. CASE ~(Validate(p) /\ validateEnvironmentValues)
    <3>1. Exit(p, "2") /\ "2" \in ExitCode
      BY <1>4, <2>2 DEF Load, ExitCode
    <3>2. work' \in [Process -> 0..MaxWork]
      BY <1>4 DEF Load, TypeOK
    <3> QED
      BY <1>1, <3>1, <3>2, ExitStep
  <2> QED
    BY <2>1, <2>2
<1>5. ASSUME NEW p \in Process, Open(p) PROVE BudgetInv'
  <2>1. 1 <= PoolSize(p)
    BY <1>2, <1>5 DEF Open, PoolsFit
  <2>2. /\ conns' = [conns EXCEPT ![p] = 1] /\ conns[p] = 0
        /\ backends' = backends + 1
        /\ phase' = [phase EXCEPT ![p] = "setup"]
        /\ UNCHANGED <<environ, exit, work, signalled>>
    BY <1>5 DEF Open, GoTo, PoolsFit
  <2>3. TypeOK'
    BY <2>2 DEF TypeOK, Phase
  <2>4. backends' = conns'["api"] + conns'["worker"]
    BY <2>2 DEF TypeOK, PoolsFit
  <2>5. PoolsFit'
    BY <1>2, <1>5, <2>1, <2>2, <2>4 DEF Open, TypeOK, PoolsFit
  <2> QED
    BY <2>3, <2>5
<1>6. ASSUME NEW p \in Process, Setup(p) \/ Stop(p) PROVE BudgetInv'
  BY <1>2, <1>6 DEF Setup, Stop, GoTo, TypeOK, PoolsFit, Phase
<1>7. ASSUME NEW p \in Process,
             StartupFails(p) \/ Drained(p) \/ DrainTimeout(p) \/ Crash(p)
      PROVE  BudgetInv'
  <2>1. \E code \in ExitCode : Exit(p, code)
    BY <1>7 DEF StartupFails, Drained, DrainTimeout, Crash, ExitCode
  <2>2. work' \in [Process -> 0..MaxWork]
    BY <1>7 DEF StartupFails, Drained, DrainTimeout, Crash, TypeOK
  <2> QED
    BY <1>1, <2>1, <2>2, ExitStep
<1>8. ASSUME NEW p \in Process, Accept(p) \/ Finish(p) \/ Signal(p) PROVE BudgetInv'
  <2>1. TypeOK'
    <3>1. CASE Accept(p) \/ Finish(p)
      <4>1. work[p] \in 0..MaxWork /\ work'[p] \in 0..MaxWork
        BY <1>8, <3>1 DEF Accept, Finish, TypeOK
      <4>2. work' = [work EXCEPT ![p] = work'[p]]
        BY <1>8, <3>1 DEF Accept, Finish, TypeOK
      <4> QED
        BY <1>1, <3>1, <4>1, <4>2 DEF Accept, Finish, TypeOK
    <3>2. CASE Signal(p)
      BY <3>2 DEF Signal, TypeOK
    <3> QED
      BY <1>8, <3>1, <3>2
  <2>2. PoolsFit'
    BY <1>2, <1>8 DEF Accept, Finish, Signal, TypeOK, PoolsFit
  <2> QED
    BY <2>1, <2>2
<1>9. ASSUME NEW p \in Process, Connect(p) PROVE BudgetInv'
  BY <1>2, <1>9 DEF Connect, TypeOK, PoolsFit
<1>10. ASSUME NEW p \in Process, Disconnect(p) PROVE BudgetInv'
  <2>1. /\ backends' \in Nat
        /\ backends' = conns'["api"] + conns'["worker"]
    BY <1>10 DEF Disconnect, TypeOK, PoolsFit
  <2>2. TypeOK'
    BY <1>10, <2>1 DEF Disconnect, TypeOK
  <2>3. phase[p] # "down" /\ conns[p] - 1 <= PoolSize(p)
    BY <1>2, <1>10 DEF Disconnect, TypeOK, PoolsFit
  <2>4. PoolsFit'
    BY <1>2, <1>10, <2>3, <2>1 DEF Disconnect, TypeOK, PoolsFit
  <2> QED
    BY <2>2, <2>4
<1> QED
  BY <1>3, <1>4, <1>5, <1>6, <1>7, <1>8, <1>9, <1>10 DEF Next, Main, Beside

\* The invariant bounds the total by the budget.
LEMMA BudgetImplied == BudgetInv => WithinBudget
<1> SUFFICES ASSUME BudgetInv PROVE WithinBudget
  OBVIOUS
<1>1. /\ PoolSize("api") = envInt(environ.api, 10)
      /\ PoolSize("worker") = envInt(environ.worker, 10)
      /\ \A p \in Process : PoolSize(p) \in Int
      /\ envInt(environ.budget, 25) \in Int
  BY SizesExact, BoundAssumption DEF BudgetInv, PoolsFit, Representable, Range32
<1>2. conns["api"] \in Nat /\ conns["worker"] \in Nat
  BY DEF BudgetInv, TypeOK, OnePerRole
<1>3. CASE phase["api"] = "down" /\ phase["worker"] = "down"
  BY <1>2, <1>3 DEF BudgetInv, PoolsFit, OnePerRole, WithinBudget
<1>4. CASE phase["api"] # "down" \/ phase["worker"] # "down"
  <2>1. Affordable /\ PoolSize("api") > 0 /\ PoolSize("worker") > 0
    BY <1>4 DEF BudgetInv, PoolsFit, OnePerRole
  <2>2. conns["api"] <= PoolSize("api") /\ conns["worker"] <= PoolSize("worker")
    BY <1>1, <1>2, <2>1 DEF BudgetInv, PoolsFit, OnePerRole
  <2>3. backends = conns["api"] + conns["worker"]
    BY DEF BudgetInv, PoolsFit
  <2>4. PoolSize("api") \in Int /\ PoolSize("worker") \in Int
    BY <1>1 DEF BudgetInv, OnePerRole
  <2> QED
    BY <1>1, <1>2, <2>1, <2>2, <2>3, <2>4 DEF Affordable, WithinBudget
<1> QED
  BY <1>3, <1>4

\* "Connection budgets are configuration invariants", for every range of the
\* integer type, every environment whose numbers do not wrap and every order of
\* starts, crashes and restarts of an API and a worker process.
THEOREM BudgetKept == Spec /\ OnePerRole /\ Representable => []WithinBudget
<1> QED
  BY BudgetInit, BudgetStep, BudgetImplied, PTL DEF Spec
=============================================================================
