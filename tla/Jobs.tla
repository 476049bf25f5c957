-------------------------------- MODULE Jobs --------------------------------
(***************************************************************************)
(* The job queue: EnqueueFoundationHealth, the River client that jobs.New   *)
(* configures, the error handler, and the life of the worker processes that *)
(* run it (cmd/worker).  River's states, uniqueness, retries and rescuer    *)
(* are modelled from its configuration here.                                *)
(*                                                                          *)
(* Start is given the context that SIGTERM cancels.  Every job's context    *)
(* inherits from it, so a signal interrupts the jobs under way before Stop  *)
(* begins to wait for them.                                                 *)
(***************************************************************************)
EXTENDS Naturals, FiniteSets

CONSTANTS
  Workers,     \* worker processes
  IDs,         \* job rows; bounds the jobs kept at one time
  Keys,        \* idempotency keys
  Outcomes,    \* how Work may end: "nil", "error", "panic", "canceled"
  MaxFaults,   \* bound on signals and crashes
  Null

ASSUME JobsAssumption ==
  /\ Outcomes \subseteq {"nil", "error", "panic", "canceled"}
  /\ MaxFaults \in Nat

VARIABLES
  jobs,        \* jobs[i]: a row of river_job, or Null
  phase,       \* phase[w]: where main is
  executing,   \* executing[w]: the jobs w is running
  faults,      \* signals and crashes so far
  failed       \* for the properties: failed[i] counts the attempts of job i that
               \* ended in an error, a panic or with their process

vars == <<jobs, phase, executing, faults, failed>>

State == {"available", "running", "retryable", "completed", "cancelled", "discarded"}
Job == [key : Keys, state : State, attempt : Nat, max_attempts : Nat]
ASSUME NullAssumption == Null \notin Job

Settled == {"completed", "cancelled", "discarded"}

Init ==
  /\ jobs = [i \in IDs |-> Null]
  /\ phase = [w \in Workers |-> "down"]
  /\ executing = [w \in Workers |-> {}]
  /\ faults = 0
  /\ failed = [i \in IDs |-> 0]

InState(i, states) == jobs[i] # Null /\ jobs[i].state \in states
Move(i, state) == jobs' = [jobs EXCEPT ![i].state = state]

-----------------------------------------------------------------------------
(* Enqueueing *)

\* River's default states for uniqueness: everything but cancelled and discarded.
UniqueStates == State \ {"cancelled", "discarded"}

\* Mutant: InsertOpts without UniqueOpts.
DuplicateNever(key) == FALSE

\* UniqueOpts{ByArgs: true}, and IdempotencyKey is the argument marked unique.
Duplicate(key) == \E i \in IDs : InState(i, UniqueStates) /\ jobs[i].key = key

\* Mutant: MaxAttempts: 1.
NewJobOnce(key) == [key |-> key, state |-> "available", attempt |-> 0, max_attempts |-> 1]

\* Mutant: ScheduledAt is set.
NewJobScheduled(key) == [NewJobOnce(key) EXCEPT !.state = "scheduled"]

NewJob(key) == [key |-> key, state |-> "available", attempt |-> 0, max_attempts |-> 3]

\* A duplicate is skipped and an INSERT that fails leaves nothing.  One whose
\* acknowledgement is lost leaves its row although an error is returned, so what
\* the caller is told, nil or an error, is left open in either case.
EnqueueFoundationHealth(key) ==
  /\ \/ UNCHANGED jobs
     \/ ~Duplicate(key) /\ \E i \in IDs : jobs[i] = Null /\ jobs' = [jobs EXCEPT ![i] = NewJob(key)]
  /\ UNCHANGED <<phase, executing, faults, failed>>

-----------------------------------------------------------------------------
(* The client *)

\* Mutant: QueueFoundation is missing from Queues.
MaxWorkersNone == 0

\* Queues: QueueFoundation has one worker in each process.
MaxWorkers == 1

Start(w) ==
  /\ phase[w] = "down"
  /\ phase' = [phase EXCEPT ![w] = "running"]
  /\ UNCHANGED <<jobs, executing, faults, failed>>

Fetch(w, i) ==
  /\ phase[w] = "running" /\ Cardinality(executing[w]) < MaxWorkers
  /\ InState(i, {"available"})
  /\ jobs' = [jobs EXCEPT ![i].state = "running", ![i].attempt = @ + 1]
  /\ executing' = [executing EXCEPT ![w] = @ \cup {i}]
  /\ UNCHANGED <<phase, faults, failed>>

\* River without a handler's word: another attempt, or the last one is over.
Retry(i) == IF jobs[i].attempt < jobs[i].max_attempts THEN "retryable" ELSE "discarded"

\* ErrorHandler.HandleError and HandlePanic: SetCancelled, or nil.
HandleError(i, outcome) == IF outcome = "canceled" THEN "cancelled" ELSE Retry(i)
HandlePanic(i) == "cancelled"

\* Work ends.  It can only find its context cancelled when the process has been
\* told to stop; a deadline that passes (JobTimeout, Timeout) is an "error".
WorkEnds(w, i, outcome) ==
  /\ i \in executing[w]
  /\ outcome = "canceled" => phase[w] = "stopping"
  /\ Move(i, CASE outcome = "nil" -> "completed"
               [] outcome = "panic" -> HandlePanic(i)
               [] OTHER -> HandleError(i, outcome))
  /\ failed' = [failed EXCEPT ![i] = IF outcome \in {"error", "panic"} THEN @ + 1 ELSE @]
  /\ executing' = [executing EXCEPT ![w] = @ \ {i}]
  /\ UNCHANGED <<phase, faults>>

-----------------------------------------------------------------------------
(* main *)

Fault == faults < MaxFaults /\ faults' = faults + 1

\* The process is gone; its jobs stay "running" in the table.
Gone(w) ==
  /\ phase' = [phase EXCEPT ![w] = "down"]
  /\ failed' = [i \in IDs |-> IF i \in executing[w] THEN failed[i] + 1 ELSE failed[i]]
  /\ executing' = [executing EXCEPT ![w] = {}]
  /\ UNCHANGED jobs

\* SIGINT or SIGTERM: fetching ends and main calls Stop.
Signal(w) ==
  /\ phase[w] = "running" /\ Fault
  /\ phase' = [phase EXCEPT ![w] = "stopping"]
  /\ UNCHANGED <<jobs, executing, failed>>

\* Stop returns: no job is running any more.
Stopped(w) == phase[w] = "stopping" /\ executing[w] = {} /\ Gone(w) /\ UNCHANGED faults

\* Thirty seconds are over.
StopTimeout(w) == phase[w] = "stopping" /\ executing[w] # {} /\ Gone(w) /\ UNCHANGED faults

Crash(w) == phase[w] # "down" /\ Fault /\ Gone(w)

-----------------------------------------------------------------------------
(* River's maintenance, run by one of the clients *)

Schedule(i) ==
  /\ \E w \in Workers : phase[w] = "running"
  /\ InState(i, {"retryable"}) /\ Move(i, "available")
  /\ UNCHANGED <<phase, executing, faults, failed>>

\* A job that has been running for longer than any timeout allows.
Rescue(i) ==
  /\ \E w \in Workers : phase[w] = "running"
  /\ InState(i, {"running"}) /\ \A w \in Workers : i \notin executing[w]
  /\ Move(i, Retry(i))
  /\ UNCHANGED <<phase, executing, faults, failed>>

\* The row of a job that has been finalized for longer than the retention time
\* is deleted, and its key is free again.
Clean(i) ==
  /\ \E w \in Workers : phase[w] = "running"
  /\ InState(i, Settled)
  /\ jobs' = [jobs EXCEPT ![i] = Null]
  /\ failed' = [failed EXCEPT ![i] = 0]
  /\ UNCHANGED <<phase, executing, faults>>

-----------------------------------------------------------------------------
Process(w) ==
  \/ Start(w) \/ Stopped(w) \/ StopTimeout(w)
  \/ \E i \in IDs : Fetch(w, i)
  \/ \E i \in IDs, outcome \in Outcomes : WorkEnds(w, i, outcome)

Next ==
  \/ \E key \in Keys : EnqueueFoundationHealth(key)
  \/ \E w \in Workers : Process(w) \/ Signal(w) \/ Crash(w)
  \/ \E i \in IDs : Schedule(i) \/ Rescue(i) \/ Clean(i)

Spec == Init /\ [][Next]_vars

\* Whoever supervises the workers starts them again, a started client polls its
\* queues in the order of the time from which a job may run, so that none is
\* passed over for ever, every call of Work has a deadline, Stop has one too, and
\* River's maintenance runs.  Faults, new jobs and the cleaner are never forced.
Fairness ==
  /\ \A w \in Workers : WF_vars(Process(w))
  /\ \A i \in IDs : /\ SF_vars(\E w \in Workers : Fetch(w, i))
                    /\ WF_vars(Schedule(i)) /\ WF_vars(Rescue(i))
FairSpec == Spec /\ Fairness

-----------------------------------------------------------------------------
(* Properties *)

\* Every variable holds a value of its kind.
TypeOK ==
  /\ jobs \in [IDs -> Job \cup {Null}]
  /\ phase \in [Workers -> {"down", "running", "stopping"}]
  /\ executing \in [Workers -> SUBSET IDs]
  /\ faults \in 0..MaxFaults
  /\ failed \in [IDs -> Nat]

\* "idempotency key" of every job type (Spec.md): however often a job is
\* enqueued while it waits, runs, is retried or after it is done, a key has one
\* job that is not given up, until River deletes the completed one.
OneJobPerKey ==
  \A i, j \in IDs :
    InState(i, UniqueStates) /\ InState(j, UniqueStates) /\ jobs[i].key = jobs[j].key => i = j

\* A job is discarded only when three attempts of it have failed or died with
\* their process; a signal or a crash does not use up attempts otherwise.
GivenUpAfterThree == \A i \in IDs : InState(i, {"discarded"}) => failed[i] >= 3

\* Whatever happens to the workers, and however many jobs come after it, every
\* job is completed or given up.
EveryJobSettles == \A i \in IDs : jobs[i] # Null ~> InState(i, Settled)
=============================================================================
