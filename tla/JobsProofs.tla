----------------------------- MODULE JobsProofs -----------------------------
(***************************************************************************)
(* Uniqueness and attempts of jobs, for any number of workers, jobs, keys   *)
(* and faults.                                                              *)
(***************************************************************************)
EXTENDS Jobs, TLAPS

\* A job that is being executed is running in the table, and in one process.
ExecutionInv ==
  \A w \in Workers, i \in IDs :
    i \in executing[w] =>
      /\ InState(i, {"running"})
      /\ \A v \in Workers : i \in executing[v] => v = w

Executed(i) == \E w \in Workers : i \in executing[w]

\* Every attempt that has begun is under way, has ended the job, or has failed.
AttemptInv ==
  \A i \in IDs : jobs[i] # Null =>
    /\ jobs[i].max_attempts = 3
    /\ InState(i, {"available", "retryable", "discarded"}) => jobs[i].attempt <= failed[i]
    /\ InState(i, {"running"}) => /\ jobs[i].attempt <= failed[i] + 1
                                  /\ ~Executed(i) => jobs[i].attempt <= failed[i]
    /\ InState(i, {"discarded"}) => jobs[i].attempt >= 3

JobsInv == TypeOK /\ ExecutionInv /\ AttemptInv /\ OneJobPerKey

-----------------------------------------------------------------------------
\* No job, no worker.
LEMMA JobsInit == Init => JobsInv
<1> SUFFICES ASSUME Init PROVE JobsInv
  OBVIOUS
<1>1. TypeOK
  BY JobsAssumption DEF Init, TypeOK
<1>2. ExecutionInv
  BY DEF Init, ExecutionInv
<1>3. AttemptInv /\ OneJobPerKey
  BY DEF Init, AttemptInv, OneJobPerKey, InState
<1> QED
  BY <1>1, <1>2, <1>3 DEF JobsInv

\* A job in one of some states is a row, and what a row looks like.
LEMMA RowType ==
  ASSUME TypeOK, NEW i \in IDs, jobs[i] # Null
  PROVE  /\ jobs[i] \in Job /\ failed[i] \in Nat
         /\ jobs[i].attempt \in Nat /\ jobs[i].max_attempts \in Nat
         /\ jobs[i].state \in State /\ jobs[i].key \in Keys
<1> QED
  BY DEF TypeOK, Job

\* What Move does to the row and to the others.
LEMMA MoveRow ==
  ASSUME TypeOK, NEW i \in IDs, jobs[i] # Null, NEW state \in State, Move(i, state)
  PROVE  /\ jobs' \in [IDs -> Job \cup {Null}]
         /\ jobs'[i] # Null
         /\ jobs'[i].state = state /\ jobs'[i].key = jobs[i].key
         /\ jobs'[i].attempt = jobs[i].attempt
         /\ jobs'[i].max_attempts = jobs[i].max_attempts
         /\ \A j \in IDs : j # i => jobs'[j] = jobs[j]
<1>1. jobs[i] \in Job
  BY RowType
<1>2. jobs' = [jobs EXCEPT ![i] = [jobs[i] EXCEPT !.state = state]]
  BY DEF Move
<1>3. /\ [jobs[i] EXCEPT !.state = state] \in Job
      /\ [jobs[i] EXCEPT !.state = state].state = state
      /\ [jobs[i] EXCEPT !.state = state].key = jobs[i].key
      /\ [jobs[i] EXCEPT !.state = state].attempt = jobs[i].attempt
      /\ [jobs[i] EXCEPT !.state = state].max_attempts = jobs[i].max_attempts
  BY <1>1 DEF Job
<1> QED
  BY <1>2, <1>3, NullAssumption DEF TypeOK

\* A row that moves among or out of the states of uniqueness keeps keys unique.
LEMMA MoveUnique ==
  ASSUME TypeOK, OneJobPerKey, NEW i \in IDs, InState(i, UniqueStates),
         NEW state \in State, Move(i, state)
  PROVE  OneJobPerKey'
<1>1. jobs[i] # Null
  BY DEF InState
<1>2. \A j \in IDs : InState(j, UniqueStates)' =>
        InState(j, UniqueStates) /\ jobs'[j].key = jobs[j].key
  BY <1>1, MoveRow DEF InState
<1> QED
  BY <1>2 DEF OneJobPerKey

\* A new row for a key that no live job has.
LEMMA EnqueueStep ==
  ASSUME JobsInv, NEW key \in Keys, EnqueueFoundationHealth(key)
  PROVE  JobsInv'
<1> USE DEF JobsInv
<1>1. UNCHANGED <<phase, executing, faults, failed>>
  BY DEF EnqueueFoundationHealth
<1>2. CASE UNCHANGED jobs
  BY <1>1, <1>2 DEF TypeOK, ExecutionInv, AttemptInv, OneJobPerKey, InState, Executed
<1>3. ASSUME NEW i \in IDs, jobs[i] = Null, jobs' = [jobs EXCEPT ![i] = NewJob(key)],
             ~Duplicate(key)
      PROVE  JobsInv'
  <2>1. NewJob(key) \in Job
    BY DEF NewJob, Job, State
  <2>2. /\ jobs' \in [IDs -> Job \cup {Null}]
        /\ jobs'[i] = NewJob(key) /\ \A j \in IDs : j # i => jobs'[j] = jobs[j]
    BY <1>3, <2>1 DEF TypeOK
  <2>3. TypeOK'
    BY <1>1, <2>2 DEF TypeOK
  <2>4. ExecutionInv'
    BY <1>1, <1>3, <2>2 DEF ExecutionInv, InState
  <2>5. AttemptInv'
    <3>1. failed[i] \in Nat
      BY DEF TypeOK
    <3>2. \A j \in IDs : Executed(j)' <=> Executed(j)
      BY <1>1 DEF Executed
    <3> QED
      BY <1>1, <2>2, <3>1, <3>2 DEF AttemptInv, InState, NewJob
  <2>6. OneJobPerKey'
    BY <1>3, <2>2 DEF OneJobPerKey, Duplicate, InState, NewJob
  <2> QED
    BY <2>3, <2>4, <2>5, <2>6
<1> QED
  BY <1>2, <1>3 DEF EnqueueFoundationHealth

\* An available job is taken: nobody else has it, and one more attempt begins.
LEMMA FetchStep ==
  ASSUME JobsInv, NEW w \in Workers, NEW i \in IDs, Fetch(w, i)
  PROVE  JobsInv'
<1> USE DEF JobsInv
<1> DEFINE next == jobs[i].attempt + 1
           row  == [jobs[i] EXCEPT !.state = "running", !.attempt = next]
<1>1. /\ InState(i, {"available"})
      /\ jobs' = [jobs EXCEPT ![i].state = "running", ![i].attempt = @ + 1]
      /\ executing' = [executing EXCEPT ![w] = @ \cup {i}]
      /\ UNCHANGED <<phase, faults, failed>>
  BY DEF Fetch
<1>2. jobs[i] # Null /\ jobs[i].state = "available"
  BY <1>1 DEF InState
<1>3. jobs[i] \in Job /\ jobs[i].attempt \in Nat /\ failed[i] \in Nat
  BY <1>2, RowType
<1>4. jobs' = [jobs EXCEPT ![i] = row]
  BY <1>1, <1>3 DEF TypeOK, Job
<1>5. /\ row \in Job /\ row.state = "running" /\ row.attempt = jobs[i].attempt + 1
      /\ row.key = jobs[i].key /\ row.max_attempts = jobs[i].max_attempts
  <2>1. next \in Nat
    BY <1>3
  <2> HIDE DEF next
  <2>2. /\ row \in Job /\ row.state = "running" /\ row.attempt = next
        /\ row.key = jobs[i].key /\ row.max_attempts = jobs[i].max_attempts
    BY <1>3, <2>1 DEF Job, State
  <2> QED
    BY <2>2 DEF next
<1>6. /\ jobs' \in [IDs -> Job \cup {Null}]
      /\ jobs'[i] = row /\ jobs'[i] # Null
      /\ \A j \in IDs : j # i => jobs'[j] = jobs[j]
  BY <1>4, <1>5, NullAssumption DEF TypeOK
<1> HIDE DEF row, next
<1>7. executing' \in [Workers -> SUBSET IDs]
  BY <1>1 DEF TypeOK
<1>8. TypeOK'
  BY <1>1, <1>6, <1>7 DEF TypeOK
<1>9. \A v \in Workers : /\ i \notin executing[v]
                         /\ \A j \in IDs : j # i => (j \in executing'[v] <=> j \in executing[v])
                         /\ i \in executing'[v] <=> v = w
  BY <1>1, <1>2 DEF ExecutionInv, InState, TypeOK
<1>10. ExecutionInv'
  BY <1>5, <1>6, <1>9 DEF ExecutionInv, InState
<1>11. AttemptInv'
  <2>1. \A j \in IDs : j # i => (Executed(j)' <=> Executed(j))
    BY <1>9 DEF Executed
  <2>2. Executed(i)'
    BY <1>9 DEF Executed
  <2>3. jobs[i].attempt <= failed[i] /\ jobs[i].max_attempts = 3
    BY <1>1, <1>2 DEF AttemptInv, InState
  <2>4. ASSUME NEW j \in IDs, jobs'[j] # Null, j # i
        PROVE  /\ jobs'[j].max_attempts = 3
               /\ InState(j, {"available", "retryable", "discarded"})' => jobs'[j].attempt <= failed'[j]
               /\ InState(j, {"running"})' => /\ jobs'[j].attempt <= failed'[j] + 1
                                              /\ ~Executed(j)' => jobs'[j].attempt <= failed'[j]
               /\ InState(j, {"discarded"})' => jobs'[j].attempt >= 3
    BY <1>1, <1>6, <2>1, <2>4 DEF AttemptInv, InState
  <2>5. /\ jobs'[i].max_attempts = 3
        /\ ~InState(i, {"available", "retryable", "discarded"})'
        /\ jobs'[i].attempt <= failed'[i] + 1
    BY <1>1, <1>3, <1>5, <1>6, <2>3 DEF InState
  <2> QED
    BY <2>2, <2>4, <2>5 DEF AttemptInv, InState
<1>12. OneJobPerKey'
  <2>1. \A j \in IDs : InState(j, UniqueStates)' =>
          InState(j, UniqueStates) /\ jobs'[j].key = jobs[j].key
    BY <1>2, <1>5, <1>6 DEF InState, UniqueStates, State
  <2> QED
    BY <2>1 DEF OneJobPerKey
<1> QED
  BY <1>8, <1>10, <1>11, <1>12

\* A job leaves its state, and whoever executed it lets go of it.
LEMMA MoveStep ==
  ASSUME JobsInv, NEW i \in IDs, InState(i, {"running", "retryable"}),
         NEW state \in State \ {"running"}, Move(i, state),
         UNCHANGED <<phase, faults>>,
         failed' \in [IDs -> Nat],
         \A j \in IDs : j # i => failed'[j] = failed[j],
         executing' \in [Workers -> SUBSET IDs],
         \A v \in Workers, j \in IDs : j \in executing'[v] <=> j # i /\ j \in executing[v],
         state \in {"available", "retryable", "discarded"} => jobs[i].attempt <= failed'[i],
         state = "discarded" => jobs[i].attempt >= 3
  PROVE  JobsInv'
<1> USE DEF JobsInv
<1>1. jobs[i] # Null /\ jobs[i].state \in {"running", "retryable"}
  BY DEF InState
<1>2. /\ jobs' \in [IDs -> Job \cup {Null}]
      /\ jobs'[i] # Null
      /\ jobs'[i].state = state
      /\ jobs'[i].attempt = jobs[i].attempt
      /\ jobs'[i].max_attempts = jobs[i].max_attempts
      /\ \A j \in IDs : j # i => jobs'[j] = jobs[j]
  BY <1>1, MoveRow
<1>3. TypeOK'
  BY <1>2 DEF TypeOK
<1>4. ExecutionInv'
  BY <1>2 DEF ExecutionInv, InState
<1>5. AttemptInv'
  <2>1. \A j \in IDs : j # i => (Executed(j)' <=> Executed(j))
    BY DEF Executed
  <2>2. ASSUME NEW j \in IDs, jobs'[j] # Null, j # i
        PROVE  /\ jobs'[j].max_attempts = 3
               /\ InState(j, {"available", "retryable", "discarded"})' => jobs'[j].attempt <= failed'[j]
               /\ InState(j, {"running"})' => /\ jobs'[j].attempt <= failed'[j] + 1
                                              /\ ~Executed(j)' => jobs'[j].attempt <= failed'[j]
               /\ InState(j, {"discarded"})' => jobs'[j].attempt >= 3
    BY <1>2, <2>1, <2>2 DEF AttemptInv, InState
  <2>3. /\ jobs'[i].max_attempts = 3
        /\ InState(i, {"available", "retryable", "discarded"})' => jobs'[i].attempt <= failed'[i]
        /\ ~InState(i, {"running"})'
        /\ InState(i, {"discarded"})' => jobs'[i].attempt >= 3
    BY <1>1, <1>2 DEF AttemptInv, InState
  <2> QED
    BY <2>2, <2>3 DEF AttemptInv
<1>6. OneJobPerKey'
  <2>1. InState(i, UniqueStates)
    BY <1>1 DEF InState, UniqueStates, State
  <2> QED
    BY <2>1, MoveUnique
<1> QED
  BY <1>3, <1>4, <1>5, <1>6

\* River tries again while attempts are left.
LEMMA RetryBound ==
  ASSUME JobsInv, NEW i \in IDs, jobs[i] # Null
  PROVE  /\ Retry(i) \in {"retryable", "discarded"}
         /\ Retry(i) = "discarded" => jobs[i].attempt >= 3
<1>1. jobs[i].attempt \in Nat /\ jobs[i].max_attempts = 3
  BY RowType DEF JobsInv, AttemptInv
<1> QED
  BY <1>1 DEF Retry

\* An attempt ends: in a settled state, or counted as failed.
LEMMA WorkEndsStep ==
  ASSUME JobsInv, NEW w \in Workers, NEW i \in IDs, NEW outcome \in Outcomes,
         WorkEnds(w, i, outcome)
  PROVE  JobsInv'
<1> DEFINE state == CASE outcome = "nil" -> "completed"
                      [] outcome = "panic" -> HandlePanic(i)
                      [] OTHER -> HandleError(i, outcome)
<1>1. /\ i \in executing[w]
      /\ Move(i, state)
      /\ failed' = [failed EXCEPT ![i] = IF outcome \in {"error", "panic"} THEN @ + 1 ELSE @]
      /\ executing' = [executing EXCEPT ![w] = @ \ {i}]
      /\ UNCHANGED <<phase, faults>>
  BY DEF WorkEnds
<1>2. InState(i, {"running"}) /\ jobs[i] # Null
  BY <1>1 DEF JobsInv, ExecutionInv, InState
<1>3. jobs[i].attempt \in Nat /\ failed[i] \in Nat /\ jobs[i].attempt <= failed[i] + 1
  BY <1>2, RowType DEF JobsInv, AttemptInv
<1>4. /\ executing' \in [Workers -> SUBSET IDs]
      /\ \A v \in Workers, j \in IDs : j \in executing'[v] <=> j # i /\ j \in executing[v]
  BY <1>1 DEF JobsInv, TypeOK, ExecutionInv
<1>5. failed' \in [IDs -> Nat] /\ \A j \in IDs : j # i => failed'[j] = failed[j]
  <2>1. CASE outcome \in {"error", "panic"}
    BY <1>1, <1>3, <2>1 DEF JobsInv, TypeOK
  <2>2. CASE outcome \notin {"error", "panic"}
    BY <1>1, <1>3, <2>2 DEF JobsInv, TypeOK
  <2> QED
    BY <2>1, <2>2
<1>6. /\ state \in State \ {"running"}
      /\ state \in {"available", "retryable", "discarded"} => jobs[i].attempt <= failed'[i]
      /\ state = "discarded" => jobs[i].attempt >= 3
  <2>1. CASE outcome = "nil"
    <3>1. state = "completed"
      BY <2>1
    <3> QED
      BY <3>1 DEF State
  <2>2. CASE outcome = "panic"
    <3>1. state = "cancelled"
      BY <2>2 DEF HandlePanic
    <3> QED
      BY <3>1 DEF State
  <2>3. CASE outcome = "canceled"
    <3>1. state = "cancelled"
      BY <2>3 DEF HandleError
    <3> QED
      BY <3>1 DEF State
  <2>4. CASE outcome = "error"
    <3>1. state = Retry(i)
      BY <2>4 DEF HandleError
    <3>2. failed'[i] = failed[i] + 1
      BY <1>1, <2>4 DEF JobsInv, TypeOK
    <3> HIDE DEF state
    <3> QED
      BY <1>2, <1>3, <3>1, <3>2, RetryBound DEF State
  <2> QED
    BY <2>1, <2>2, <2>3, <2>4, JobsAssumption
<1> HIDE DEF state
<1>7. InState(i, {"running", "retryable"})
  BY <1>2 DEF InState
<1> QED
  BY <1>1, <1>4, <1>5, <1>6, <1>7, MoveStep

\* A retryable job becomes available again.
LEMMA ScheduleStep ==
  ASSUME JobsInv, NEW i \in IDs, Schedule(i)
  PROVE  JobsInv'
<1>1. /\ InState(i, {"retryable"}) /\ Move(i, "available")
      /\ UNCHANGED <<phase, executing, faults, failed>>
  BY DEF Schedule
<1>2. jobs[i] # Null /\ jobs[i].attempt <= failed[i]
  BY <1>1 DEF JobsInv, AttemptInv, InState
<1>3. \A v \in Workers : i \notin executing[v]
  BY <1>1 DEF JobsInv, ExecutionInv, InState
<1>4. "available" \in State \ {"running"} /\ InState(i, {"running", "retryable"})
  BY <1>1 DEF State, InState
<1>5. failed' \in [IDs -> Nat] /\ executing' \in [Workers -> SUBSET IDs]
  BY <1>1 DEF JobsInv, TypeOK
<1> QED
  BY <1>1, <1>2, <1>3, <1>4, <1>5, MoveStep

\* A job whose process is gone is tried again or given up.
LEMMA RescueStep ==
  ASSUME JobsInv, NEW i \in IDs, Rescue(i)
  PROVE  JobsInv'
<1>1. /\ InState(i, {"running"}) /\ Move(i, Retry(i))
      /\ \A v \in Workers : i \notin executing[v]
      /\ UNCHANGED <<phase, executing, faults, failed>>
  BY DEF Rescue
<1>2. jobs[i] # Null /\ jobs[i].attempt <= failed[i]
  BY <1>1 DEF JobsInv, AttemptInv, InState, Executed
<1>3. Retry(i) \in State \ {"running"} /\ (Retry(i) = "discarded" => jobs[i].attempt >= 3)
  BY <1>2, RetryBound DEF State
<1>4. InState(i, {"running", "retryable"})
  BY <1>1 DEF InState
<1>5. failed' \in [IDs -> Nat] /\ executing' \in [Workers -> SUBSET IDs]
  BY <1>1 DEF JobsInv, TypeOK
<1> QED
  BY <1>1, <1>2, <1>3, <1>4, <1>5, MoveStep

\* A process disappears: what it was executing has failed and is executed by nobody.
LEMMA GoneStep ==
  ASSUME JobsInv, NEW w \in Workers, Gone(w), faults' \in 0..MaxFaults
  PROVE  JobsInv'
<1> USE DEF JobsInv
<1>1. /\ phase' = [phase EXCEPT ![w] = "down"]
      /\ failed' = [i \in IDs |-> IF i \in executing[w] THEN failed[i] + 1 ELSE failed[i]]
      /\ executing' = [executing EXCEPT ![w] = {}]
      /\ jobs' = jobs
  BY DEF Gone
<1>2. failed' \in [IDs -> Nat]
  BY <1>1 DEF TypeOK
<1>3. TypeOK'
  BY <1>1, <1>2 DEF TypeOK
<1>4. \A v \in Workers, i \in IDs : i \in executing'[v] <=> v # w /\ i \in executing[v]
  BY <1>1 DEF TypeOK
<1>5. ExecutionInv'
  BY <1>1, <1>4 DEF ExecutionInv, InState
<1>6. AttemptInv'
  <2> SUFFICES ASSUME NEW i \in IDs, jobs[i] # Null
               PROVE  /\ jobs[i].max_attempts = 3
                      /\ InState(i, {"available", "retryable", "discarded"}) => jobs[i].attempt <= failed'[i]
                      /\ InState(i, {"running"}) => /\ jobs[i].attempt <= failed'[i] + 1
                                                    /\ ~Executed(i)' => jobs[i].attempt <= failed'[i]
                      /\ InState(i, {"discarded"}) => jobs[i].attempt >= 3
    BY <1>1 DEF AttemptInv, InState
  <2>1. jobs[i].attempt \in Nat /\ failed[i] \in Nat
    BY RowType
  <2>2. CASE i \in executing[w]
    BY <1>1, <2>1, <2>2 DEF AttemptInv, ExecutionInv, InState
  <2>3. CASE i \notin executing[w]
    <3>1. failed'[i] = failed[i] /\ (Executed(i)' <=> Executed(i))
      BY <1>1, <1>4, <2>3 DEF Executed
    <3> QED
      BY <3>1 DEF AttemptInv
  <2> QED
    BY <2>2, <2>3
<1>7. OneJobPerKey'
  BY <1>1 DEF OneJobPerKey, InState
<1> QED
  BY <1>3, <1>5, <1>6, <1>7

\* A row that is deleted was executed by nobody, and its key is free.
LEMMA CleanStep ==
  ASSUME JobsInv, NEW i \in IDs, Clean(i)
  PROVE  JobsInv'
<1> USE DEF JobsInv
<1>1. /\ InState(i, Settled)
      /\ jobs' = [jobs EXCEPT ![i] = Null] /\ failed' = [failed EXCEPT ![i] = 0]
      /\ UNCHANGED <<phase, executing, faults>>
  BY DEF Clean
<1>2. /\ jobs' \in [IDs -> Job \cup {Null}] /\ failed' \in [IDs -> Nat]
      /\ jobs'[i] = Null
      /\ \A j \in IDs : j # i => jobs'[j] = jobs[j] /\ failed'[j] = failed[j]
  BY <1>1 DEF TypeOK
<1>3. TypeOK'
  BY <1>1, <1>2 DEF TypeOK
<1>4. \A w \in Workers : i \notin executing[w]
  BY <1>1 DEF ExecutionInv, InState, Settled
<1>5. ExecutionInv'
  BY <1>1, <1>2, <1>4 DEF ExecutionInv, InState
<1>6. AttemptInv'
  <2>1. \A j \in IDs : Executed(j)' <=> Executed(j)
    BY <1>1 DEF Executed
  <2> QED
    BY <1>2, <2>1 DEF AttemptInv, InState
<1>7. OneJobPerKey'
  BY <1>2 DEF OneJobPerKey, InState
<1> QED
  BY <1>3, <1>5, <1>6, <1>7

\* Steps that leave the table and the executions alone.
LEMMA QuietStep ==
  ASSUME JobsInv, UNCHANGED <<jobs, executing, failed>>,
         phase' \in [Workers -> {"down", "running", "stopping"}], faults' \in 0..MaxFaults
  PROVE  JobsInv'
<1>1. TypeOK'
  BY DEF JobsInv, TypeOK
<1>2. ExecutionInv' /\ OneJobPerKey'
  BY DEF JobsInv, ExecutionInv, OneJobPerKey, InState
<1>3. AttemptInv'
  BY DEF JobsInv, AttemptInv, InState, Executed
<1> QED
  BY <1>1, <1>2, <1>3 DEF JobsInv

\* Every step of the workers, of River and of the callers preserves the invariant.
LEMMA JobsStep == JobsInv /\ [Next]_vars => JobsInv'
<1> SUFFICES ASSUME JobsInv, [Next]_vars PROVE JobsInv'
  OBVIOUS
<1>1. /\ phase \in [Workers -> {"down", "running", "stopping"}]
      /\ faults \in 0..MaxFaults /\ MaxFaults \in Nat
  BY JobsAssumption DEF JobsInv, TypeOK
<1>2. ASSUME NEW key \in Keys, EnqueueFoundationHealth(key) PROVE JobsInv'
  BY <1>2, EnqueueStep
<1>3. ASSUME NEW w \in Workers, Start(w) PROVE JobsInv'
  BY <1>1, <1>3, QuietStep DEF Start
<1>4. ASSUME NEW w \in Workers, Stopped(w) \/ StopTimeout(w) PROVE JobsInv'
  BY <1>1, <1>4, GoneStep DEF Stopped, StopTimeout
<1>5. ASSUME NEW w \in Workers, NEW i \in IDs, Fetch(w, i) PROVE JobsInv'
  BY <1>5, FetchStep
<1>6. ASSUME NEW w \in Workers, NEW i \in IDs, NEW outcome \in Outcomes, WorkEnds(w, i, outcome)
      PROVE  JobsInv'
  BY <1>6, WorkEndsStep
<1>7. Fault => faults' \in 0..MaxFaults
  BY <1>1 DEF Fault
<1>8. ASSUME NEW w \in Workers, Signal(w) PROVE JobsInv'
  BY <1>1, <1>7, <1>8, QuietStep DEF Signal
<1>9. ASSUME NEW w \in Workers, Crash(w) PROVE JobsInv'
  BY <1>7, <1>9, GoneStep DEF Crash
<1>10. ASSUME NEW i \in IDs, Schedule(i) \/ Rescue(i) \/ Clean(i) PROVE JobsInv'
  BY <1>10, ScheduleStep, RescueStep, CleanStep
<1>11. CASE UNCHANGED vars
  BY <1>1, <1>11, QuietStep DEF vars
<1> QED
  BY <1>2, <1>3, <1>4, <1>5, <1>6, <1>8, <1>9, <1>10, <1>11 DEF Next, Process

-----------------------------------------------------------------------------
\* The invariant holds in every reachable state.
THEOREM JobsInvariant == Spec => []JobsInv
<1> QED
  BY JobsInit, JobsStep, PTL DEF Spec

\* The state of the queue and of its workers is well typed.
THEOREM JobTypes == Spec => []TypeOK
<1>1. JobsInv => TypeOK
  BY DEF JobsInv
<1> QED
  BY <1>1, JobsInvariant, PTL

\* UniqueOpts: a key has at most one job that is not given up, with any number of
\* workers, callers, signals and crashes.
THEOREM JobsAreUnique == Spec => []OneJobPerKey
<1>1. JobsInv => OneJobPerKey
  BY DEF JobsInv
<1> QED
  BY <1>1, JobsInvariant, PTL

\* MaxAttempts: a job is discarded only after three failed attempts.
THEOREM AttemptsAreUsed == Spec => []GivenUpAfterThree
<1>1. JobsInv => GivenUpAfterThree
  <2> SUFFICES ASSUME JobsInv, NEW i \in IDs, InState(i, {"discarded"})
               PROVE  failed[i] >= 3
    BY DEF GivenUpAfterThree
  <2>1. jobs[i] # Null /\ InState(i, {"available", "retryable", "discarded"})
    BY DEF InState
  <2>2. jobs[i].attempt >= 3 /\ jobs[i].attempt <= failed[i]
    BY <2>1 DEF JobsInv, AttemptInv
  <2>3. jobs[i].attempt \in Nat /\ failed[i] \in Nat
    BY <2>1, RowType DEF JobsInv
  <2> QED
    BY <2>2, <2>3
<1> QED
  BY <1>1, JobsInvariant, PTL
=============================================================================
