-------------------------- MODULE WorkerPoolProofs --------------------------
(* Proofs about WorkerPool, for any calls, targets, limits and lanes.          *)
EXTENDS WorkerPool, TLAPS, FiniteSetTheorems

\* How the parts of the pool relate between any two steps of the event loop.

\* Before it submits, a call has left no trace.
IdleUntouched ==
    \A t \in Targets : call[Owner[t]] = "idle" => outcome[t] = Pending

\* The parent inspects only what is its own and what no worker has inspected.
TodoUninspected ==
    \A c \in Calls : \A t \in todo[c] :
        /\ Owner[t] = c
        /\ call[c] = "sequential"
        /\ result[t] = None
        /\ outcome[t] \in {Pending, Retry}

\* The entries of the result appear only after the await of the call.
ResultsAfterAwait ==
    \A t \in Targets :
        IF call[Owner[t]] \in {"idle", "waiting"}
        THEN result[t] = None
        ELSE result[t] \in Verdicts \/ t \in todo[Owner[t]]

\* A lane only ever holds a job that was taken off the waiting jobs.
HeldIsDispatched ==
    \A l \in lanes : current[l] # None => current[l] \in dispatched

\* A worker at work has a job.
WorkingHasJob == \A l \in working : current[l] # None

\* An answer under way is the only one of its lane, whose worker is at rest; if
\* the lane is still open it still holds the job that is answered.
OneAnswerPerLane ==
    /\ \A m, n \in inbox : m.lane = n.lane => m = n
    /\ \A m \in inbox : /\ m.lane \notin working
                        /\ m.lane \in lanes => current[m.lane] = m.job

IInv ==
    /\ TypeOK
    /\ PoolHoldsThePending
    /\ IdleUntouched
    /\ TodoUninspected
    /\ ResultsAfterAwait
    /\ HeldIsDispatched
    /\ JobOnOneLane
    /\ WorkingHasJob
    /\ OneAnswerPerLane

-----------------------------------------------------------------------------
(* Type correctness.                                                           *)

\* The initial state is well typed.
LEMMA InitTypeOK == Init => TypeOK
<1>1. 0 \in Editions
  BY PoolAssumption DEF PoolAssumption, Editions
<1>2. Init => /\ call \in [Calls -> {"idle", "waiting", "sequential", "done"}]
              /\ context \in [Calls -> Editions]
              /\ todo \in [Calls -> SUBSET Targets]
  BY <1>1 DEF Init
<1>3. Init => /\ outcome \in [Targets -> Outcomes]
              /\ result \in [Targets -> Verdicts \cup {None}]
              /\ id \in [Targets -> Nat]
  BY DEF Init, Outcomes
<1>4. Init => /\ current \in [Lanes -> Targets \cup {None}]
              /\ prepared \in [Lanes -> Editions \cup {Broken, None}]
  BY DEF Init
<1>5. Init => /\ limit \in Nat /\ nextId \in Nat
              /\ jobs \subseteq Targets /\ dispatched \subseteq Targets
              /\ lanes \subseteq Lanes /\ working \subseteq lanes
              /\ inbox \subseteq Messages /\ edition \in Editions
  BY <1>1 DEF Init
<1>6. Init => pumping \in BOOLEAN
  BY DEF Init
<1>7. QED
  BY <1>2, <1>3, <1>4, <1>5, <1>6 DEF TypeOK

\* Submitting numbers the jobs of the call and keeps the types.
LEMMA TypeSubmit ==
    ASSUME TypeOK, NEW c \in Calls, Submit(c)
    PROVE  TypeOK'
<1> USE PoolAssumption DEF PoolAssumption, TypeOK, Editions, TargetsOf, callVars, jobVars, laneVars,
          workerVars, Larger
<1>1. CASE SubmitSequential(c)
  BY <1>1 DEF Submit, SubmitSequential
<1>2. CASE SubmitParallel(c)
  <2>1. \A X \in SUBSET Targets : IsFiniteSet(X) /\ Cardinality(X) \in Nat
    BY FS_Subset, FS_CardinalityType
  <2>2. id' \in [Targets -> Nat] /\ nextId' \in Nat
    <3>1. Cardinality(TargetsOf(c)) \in Nat
      BY <2>1
    <3>2. \A t \in Targets : Cardinality({u \in TargetsOf(c) : u < t}) \in Nat
      BY <2>1
    <3> QED BY <1>2, <3>1, <3>2 DEF SubmitParallel
  <2>3. QED
    BY <1>2, <2>2 DEF Submit, SubmitParallel
<1>3. QED
  BY <1>1, <1>2 DEF Submit

\* A turn of the pump loop keeps the types.
LEMMA TypePump ==
    ASSUME TypeOK, Pump
    PROVE  TypeOK'
<1> USE DEF TypeOK, callVars, jobVars, laneVars, workerVars
<1>1. CASE PumpReturn
  BY <1>1 DEF PumpReturn
<1>2. CASE PumpCreateLane
  BY <1>2 DEF PumpCreateLane, FreeLanes
<1>3. CASE PumpCreateFails
  BY <1>3 DEF PumpCreateFails, GiveBack, Outcomes
<1>4. CASE PumpDispatch
  BY <1>4 DEF PumpDispatch, Idle, Waiting
<1>5. QED
  BY <1>1, <1>2, <1>3, <1>4 DEF Pump

\* An answer settles a job with a verdict or Retry; closing a lane with Retry.
LEMMA TypeEvents ==
    ASSUME TypeOK,
           \/ \E m \in inbox : HandleAnswer(m)
           \/ \E l \in Lanes : HandleError(l)
           \/ \E t \in Targets : Timeout(t)
    PROVE  TypeOK'
<1> USE DEF TypeOK, callVars, jobVars, laneVars, workerVars
<1>1. CASE \E m \in inbox : HandleAnswer(m)
  <2>1. PICK m \in inbox : HandleAnswer(m)
    BY <1>1
  <2>2. Settlement(m) \in Outcomes /\ m.lane \in Lanes /\ m.job \in Targets
    BY DEF Messages, Kinds, Settlement, Outcomes, Verdicts
  <2>3. QED
    BY <2>1, <2>2 DEF HandleAnswer
<1>2. CASE \E l \in Lanes : HandleError(l)
  BY <1>2 DEF HandleError, CloseLanes, GiveBack, Outcomes
<1>3. CASE \E t \in Targets : Timeout(t)
  BY <1>3 DEF Timeout, CloseLanes, GiveBack, Outcomes
<1>4. QED
  BY <1>1, <1>2, <1>3

\* What a call collects or inspects itself is a verdict.
LEMMA TypeContinuations ==
    ASSUME TypeOK, NEW c \in Calls, Collect(c) \/ LintNext(c) \/ Return(c)
    PROVE  TypeOK'
<1> USE DEF TypeOK, callVars, jobVars, laneVars, workerVars, TargetsOf
<1>1. CASE Collect(c)
  <2>1. \A t \in Targets : Owner[t] = c /\ outcome[t] # Retry => outcome[t] \in Verdicts
    BY <1>1 DEF Collect, Unserved, Outcomes
  <2>2. result' \in [Targets -> Verdicts \cup {None}]
    BY <1>1, <2>1 DEF Collect, Unserved
  <2>3. QED
    BY <1>1, <2>2 DEF Collect, Unserved
<1>2. CASE LintNext(c)
  <2>1. \A v \in {context[c], Uninspectable} : v \in Verdicts
    BY DEF Verdicts
  <2>2. QED
    BY <1>2, <2>1 DEF LintNext
<1>3. CASE Return(c)
  BY <1>3 DEF Return
<1>4. QED
  BY <1>1, <1>2, <1>3

\* A worker only answers for a job it was given.
LEMMA TypeWorkers ==
    ASSUME TypeOK, WorkingHasJob,
           (\E l \in Lanes : WorkerAnswers(l)) \/ EditSettings
    PROVE  TypeOK'
<1> USE PoolAssumption DEF PoolAssumption, TypeOK, callVars, jobVars, laneVars, workerVars, Editions
<1>1. CASE \E l \in Lanes : WorkerAnswers(l)
  <2>1. PICK l \in Lanes : WorkerAnswers(l)
    BY <1>1
  <2>2. PICK p \in PreparedBy(l), kind \in Kinds :
            /\ prepared' = [prepared EXCEPT ![l] = p]
            /\ inbox' = inbox \cup
                {[lane |-> l, job |-> current[l], kind |-> kind,
                  edition |-> IF p = Broken THEN 0 ELSE p]}
    BY <2>1 DEF WorkerAnswers
  <2>3. p \in Editions \cup {Broken}
    BY DEF PreparedBy
  <2>4. current[l] \in Targets
    BY <2>1 DEF WorkerAnswers, WorkingHasJob
  <2>5. inbox' \subseteq Messages
    BY <2>2, <2>3, <2>4 DEF Messages
  <2>6. prepared' \in [Lanes -> Editions \cup {Broken, None}]
    BY <2>2, <2>3
  <2>7. QED
    BY <2>1, <2>5, <2>6 DEF WorkerAnswers
<1>2. CASE EditSettings
  BY <1>2 DEF EditSettings
<1>3. QED
  BY <1>1, <1>2

\* Every step keeps the types, workers at work having a job.
LEMMA TypeStep == TypeOK /\ WorkingHasJob /\ [Next]_vars => TypeOK'
<1> SUFFICES ASSUME TypeOK, WorkingHasJob, [Next]_vars
             PROVE  TypeOK'
  OBVIOUS
<1>1. CASE UNCHANGED vars
  BY <1>1 DEF TypeOK, vars, callVars, jobVars, laneVars, workerVars
<1>2. CASE Quiescent
  BY <1>2 DEF Quiescent, TypeOK, vars, callVars, jobVars, laneVars, workerVars
<1>3. QED
  BY <1>1, <1>2, TypeSubmit, TypePump, TypeEvents, TypeContinuations, TypeWorkers
     DEF Next

-----------------------------------------------------------------------------
(* The inductive invariant.                                                    *)

\* The inductive invariant holds before any call.
LEMMA InitIInv == Init => IInv
<1> SUFFICES ASSUME Init PROVE IInv
  OBVIOUS
<1>1. TypeOK
  BY InitTypeOK
<1>2. PoolHoldsThePending /\ IdleUntouched /\ ResultsAfterAwait
  BY PoolAssumption DEF PoolAssumption, Init, PoolHoldsThePending, IdleUntouched,
     ResultsAfterAwait
<1>3. /\ TodoUninspected /\ HeldIsDispatched /\ JobOnOneLane
      /\ WorkingHasJob /\ OneAnswerPerLane
  BY DEF Init, TodoUninspected, HeldIsDispatched, JobOnOneLane, WorkingHasJob,
     OneAnswerPerLane
<1>4. QED
  BY <1>1, <1>2, <1>3 DEF IInv

\* Submitting: the targets of the call enter the pool, or its own list.
LEMMA IInvSubmit ==
    ASSUME IInv, TypeOK', NEW c \in Calls, Submit(c)
    PROVE  IInv'
<1> USE PoolAssumption DEF PoolAssumption, IInv, TypeOK, TargetsOf, laneVars, workerVars, jobVars
<1>1. PoolHoldsThePending'
  <2>1. CASE SubmitSequential(c)
    BY <2>1 DEF Submit, SubmitSequential, PoolHoldsThePending
  <2>2. CASE SubmitParallel(c)
    BY <2>2 DEF Submit, SubmitParallel, PoolHoldsThePending, IdleUntouched
  <2>3. QED
    BY <2>1, <2>2 DEF Submit
<1>2. IdleUntouched'
  BY DEF Submit, SubmitSequential, SubmitParallel, IdleUntouched
<1>3. TodoUninspected'
  <2>1. CASE SubmitSequential(c)
    BY <2>1 DEF Submit, SubmitSequential, TodoUninspected, IdleUntouched, ResultsAfterAwait
  <2>2. CASE SubmitParallel(c)
    BY <2>2 DEF Submit, SubmitParallel, TodoUninspected
  <2>3. QED
    BY <2>1, <2>2 DEF Submit
<1>4. ResultsAfterAwait'
  <2>1. CASE SubmitSequential(c)
    BY <2>1 DEF Submit, SubmitSequential, ResultsAfterAwait
  <2>2. CASE SubmitParallel(c)
    BY <2>2 DEF Submit, SubmitParallel, ResultsAfterAwait
  <2>3. QED
    BY <2>1, <2>2 DEF Submit
<1>5. HeldIsDispatched' /\ JobOnOneLane' /\ WorkingHasJob' /\ OneAnswerPerLane'
  BY DEF Submit, SubmitSequential, SubmitParallel, HeldIsDispatched, JobOnOneLane,
     WorkingHasJob, OneAnswerPerLane
<1>6. QED
  BY <1>1, <1>2, <1>3, <1>4, <1>5

\* Pumping: lanes are opened and take waiting jobs, or all jobs are given back.
LEMMA IInvPump ==
    ASSUME IInv, TypeOK', Pump
    PROVE  IInv'
<1> USE PoolAssumption DEF PoolAssumption, IInv, TypeOK, callVars, jobVars, laneVars, workerVars
<1>1. CASE PumpReturn
  BY <1>1 DEF PumpReturn, PoolHoldsThePending, IdleUntouched, TodoUninspected,
     ResultsAfterAwait, HeldIsDispatched, JobOnOneLane, WorkingHasJob, OneAnswerPerLane
<1>2. CASE PumpCreateLane
  <2>1. PICK l \in FreeLanes :
            /\ lanes' = lanes \cup {l}
            /\ current' = [current EXCEPT ![l] = None]
            /\ UNCHANGED <<callVars, jobVars, working, inbox>>
    BY <1>2 DEF PumpCreateLane
  <2>2. l \in Lanes \ lanes /\ \A m \in inbox : m.lane # l
    BY DEF FreeLanes
  <2>3. HeldIsDispatched' /\ JobOnOneLane' /\ WorkingHasJob' /\ OneAnswerPerLane'
    BY <2>1, <2>2 DEF HeldIsDispatched, JobOnOneLane, WorkingHasJob, OneAnswerPerLane
  <2>4. PoolHoldsThePending' /\ IdleUntouched' /\ TodoUninspected' /\ ResultsAfterAwait'
    BY <2>1 DEF PoolHoldsThePending, IdleUntouched, TodoUninspected, ResultsAfterAwait
  <2>5. QED
    BY <2>3, <2>4
<1>3. CASE PumpCreateFails
  <2>1. PoolHoldsThePending'
    BY <1>3 DEF PumpCreateFails, GiveBack, PoolHoldsThePending
  <2>2. IdleUntouched'
    BY <1>3 DEF PumpCreateFails, GiveBack, PoolHoldsThePending, IdleUntouched
  <2>3. TodoUninspected'
    BY <1>3 DEF PumpCreateFails, GiveBack, TodoUninspected
  <2>4. /\ ResultsAfterAwait' /\ HeldIsDispatched' /\ JobOnOneLane'
        /\ WorkingHasJob' /\ OneAnswerPerLane'
    BY <1>3 DEF PumpCreateFails, GiveBack, ResultsAfterAwait, HeldIsDispatched, JobOnOneLane,
       WorkingHasJob, OneAnswerPerLane
  <2>5. QED
    BY <2>1, <2>2, <2>3, <2>4
<1>4. CASE PumpDispatch
  <2>1. PICK l \in Idle, t \in Waiting :
            /\ dispatched' = dispatched \cup {t}
            /\ current' = [current EXCEPT ![l] = t]
            /\ working' = working \cup {l}
            /\ UNCHANGED <<callVars, jobs, lanes, inbox>>
    BY <1>4 DEF PumpDispatch
  <2>2. /\ l \in lanes /\ l \in Lanes /\ current[l] = None
        /\ t \in Targets /\ t \notin dispatched
    BY DEF Idle, Waiting
  <2>3. HeldIsDispatched' /\ WorkingHasJob'
    BY <2>1, <2>2 DEF HeldIsDispatched, WorkingHasJob
  <2>4. OneAnswerPerLane'
    <3>1. \A m \in inbox : m.job # None /\ m.lane # l
      BY <2>2 DEF OneAnswerPerLane, Messages
    <3>2. QED
      BY <2>1, <2>2, <3>1 DEF OneAnswerPerLane
  <2>5. JobOnOneLane'
    BY <2>1, <2>2 DEF HeldIsDispatched, JobOnOneLane
  <2>6. PoolHoldsThePending' /\ IdleUntouched' /\ TodoUninspected' /\ ResultsAfterAwait'
    BY <2>1 DEF PoolHoldsThePending, IdleUntouched, TodoUninspected, ResultsAfterAwait
  <2>7. QED
    BY <2>3, <2>5, <2>6, <2>4
<1>5. QED
  BY <1>1, <1>2, <1>3, <1>4 DEF Pump

\* Jobs that leave the pool with Retry, when their lanes close.
LEMMA GiveBackKeeps ==
    ASSUME IInv, NEW closing \in SUBSET lanes, NEW returning \in SUBSET jobs,
           CloseLanes(closing), GiveBack(returning),
           UNCHANGED <<call, context, todo, result, dispatched, inbox>>,
           TypeOK'
    PROVE  IInv'
<1> USE PoolAssumption DEF PoolAssumption, IInv, TypeOK, CloseLanes, GiveBack
<1>1. PoolHoldsThePending'
  BY DEF PoolHoldsThePending
<1>2. IdleUntouched'
  BY DEF PoolHoldsThePending, IdleUntouched
<1>3. TodoUninspected'
  BY DEF TodoUninspected
<1>4. ResultsAfterAwait' /\ HeldIsDispatched' /\ WorkingHasJob'
  BY DEF ResultsAfterAwait, HeldIsDispatched, WorkingHasJob
<1>5. JobOnOneLane' /\ OneAnswerPerLane'
  BY DEF JobOnOneLane, OneAnswerPerLane
<1>6. QED
  BY <1>1, <1>2, <1>3, <1>4, <1>5

\* An answer counts once: it frees the lane that holds its job, or is dropped.
LEMMA IInvAnswer ==
    ASSUME IInv, TypeOK', NEW m \in inbox, HandleAnswer(m)
    PROVE  IInv'
<1> USE PoolAssumption DEF PoolAssumption, IInv, TypeOK
<1>0. m.lane \in Lanes /\ m.job \in Targets /\ Settlement(m) \in Verdicts \cup {Retry}
  BY DEF Messages, Kinds, Settlement, Verdicts
<1>1. CASE ~(m.job \in jobs /\ current[m.lane] = m.job)
  BY <1>1 DEF HandleAnswer, PoolHoldsThePending, IdleUntouched, TodoUninspected,
     ResultsAfterAwait, HeldIsDispatched, JobOnOneLane, WorkingHasJob, OneAnswerPerLane
<1>2. CASE m.job \in jobs /\ current[m.lane] = m.job
  <2>1. /\ current' = [current EXCEPT ![m.lane] = None]
        /\ jobs' = jobs \ {m.job}
        /\ outcome' = [outcome EXCEPT ![m.job] = Settlement(m)]
        /\ inbox' = inbox \ {m}
        /\ UNCHANGED <<call, todo, result, dispatched, lanes, working>>
    BY <1>2 DEF HandleAnswer
  <2>2. call[Owner[m.job]] = "waiting" /\ outcome[m.job] = Pending
    BY <1>2 DEF PoolHoldsThePending
  <2>3. PoolHoldsThePending'
    BY <2>1, <2>2, <1>0 DEF PoolHoldsThePending
  <2>4. IdleUntouched'
    BY <2>1, <2>2, <1>0 DEF IdleUntouched
  <2>5. TodoUninspected'
    BY <2>1, <2>2, <1>0 DEF TodoUninspected
  <2>6. ResultsAfterAwait' /\ HeldIsDispatched'
    BY <2>1, <1>0 DEF ResultsAfterAwait, HeldIsDispatched
  <2>7. JobOnOneLane'
    BY <2>1, <1>0 DEF JobOnOneLane
  <2>8. WorkingHasJob' /\ OneAnswerPerLane'
    BY <2>1, <1>0 DEF WorkingHasJob, OneAnswerPerLane
  <2>9. QED
    BY <2>3, <2>4, <2>5, <2>6, <2>7, <2>8
<1>3. QED
  BY <1>1, <1>2

\* A crashed worker or a due timer gives back at most the job of its lane.
LEMMA IInvClose ==
    ASSUME IInv, TypeOK',
           (\E l \in Lanes : HandleError(l)) \/ (\E t \in Targets : Timeout(t))
    PROVE  IInv'
<1>1. CASE \E l \in Lanes : HandleError(l)
  <2>1. PICK l \in Lanes : HandleError(l)
    BY <1>1
  <2>2. QED
    BY <2>1, GiveBackKeeps DEF HandleError
<1>2. CASE \E t \in Targets : Timeout(t)
  <2>1. PICK t \in Targets : Timeout(t)
    BY <1>2
  <2>2. QED
    BY <2>1, GiveBackKeeps DEF Timeout
<1>3. QED
  BY <1>1, <1>2

\* The continuations of a call leave the pool alone.
LEMMA IInvContinuations ==
    ASSUME IInv, TypeOK', NEW c \in Calls, Collect(c) \/ LintNext(c) \/ Return(c)
    PROVE  IInv'
<1> USE PoolAssumption DEF PoolAssumption, IInv, TypeOK, TargetsOf, jobVars, laneVars, workerVars
<1>1. /\ HeldIsDispatched' /\ JobOnOneLane' /\ WorkingHasJob' /\ OneAnswerPerLane'
      /\ PoolHoldsThePending' /\ IdleUntouched'
  <2>1. UNCHANGED <<jobs, dispatched, lanes, current, working, inbox>>
    BY DEF Collect, Unserved, LintNext, Return
  <2>2. PoolHoldsThePending' /\ IdleUntouched'
    BY DEF Collect, Unserved, LintNext, Return, PoolHoldsThePending, IdleUntouched
  <2>3. QED
    BY <2>1, <2>2 DEF HeldIsDispatched, JobOnOneLane, WorkingHasJob, OneAnswerPerLane
<1>2. TodoUninspected'
  <2>1. CASE Collect(c)
    <3> SUFFICES ASSUME NEW d \in Calls, NEW t \in todo'[d]
                 PROVE  /\ Owner[t] = d
                        /\ call'[d] = "sequential"
                        /\ result'[t] = None
                        /\ outcome'[t] \in {Pending, Retry}
      BY DEF TodoUninspected
    <3>1. CASE d = c
      BY <2>1, <3>1 DEF Collect, Unserved, ResultsAfterAwait
    <3>2. CASE d # c
      <4>1. t \in todo[d] /\ t \in Targets
        BY <2>1, <3>2 DEF Collect, Unserved
      <4>2. QED
        BY <2>1, <3>2, <4>1 DEF Collect, Unserved, TodoUninspected
    <3>3. QED
      BY <3>1, <3>2
  <2>2. CASE LintNext(c)
    <3>1. PICK u \in todo[c], v \in {context[c], Uninspectable} :
              /\ todo' = [todo EXCEPT ![c] = @ \ {u}]
              /\ result' = [result EXCEPT ![u] = v]
              /\ UNCHANGED <<call, outcome>>
      BY <2>2 DEF LintNext
    <3>2. \A d \in Calls : \A t \in todo'[d] : t \in todo[d] /\ t # u
      BY <3>1 DEF TodoUninspected
    <3>3. QED
      BY <3>1, <3>2 DEF TodoUninspected
  <2>3. CASE Return(c)
    <3>1. todo' = todo /\ result' = result /\ outcome' = outcome /\ todo[c] = {}
      BY <2>3 DEF Return
    <3>2. \A d \in Calls : d # c => call'[d] = call[d]
      BY <2>3 DEF Return
    <3>3. QED
      BY <3>1, <3>2 DEF TodoUninspected
  <2>4. QED
    BY <2>1, <2>2, <2>3
<1>3. ResultsAfterAwait'
  <2>1. CASE Collect(c)
    BY <2>1 DEF Collect, Unserved, ResultsAfterAwait, Outcomes
  <2>2. CASE LintNext(c)
    <3>1. PICK t \in todo[c], v \in {context[c], Uninspectable} :
              /\ todo' = [todo EXCEPT ![c] = @ \ {t}]
              /\ result' = [result EXCEPT ![t] = v]
              /\ call' = call
      BY <2>2 DEF LintNext
    <3>2. v \in Verdicts /\ t \in Targets /\ Owner[t] = c /\ call[c] = "sequential"
      BY DEF Verdicts, TodoUninspected
    <3>3. QED
      BY <3>1, <3>2 DEF ResultsAfterAwait
  <2>3. CASE Return(c)
    BY <2>3 DEF Return, ResultsAfterAwait
  <2>4. QED
    BY <2>1, <2>2, <2>3
<1>4. QED
  BY <1>1, <1>2, <1>3

\* What happens outside the parent process leaves its state alone.
LEMMA IInvWorkers ==
    ASSUME IInv, TypeOK', (\E l \in Lanes : WorkerAnswers(l)) \/ EditSettings
    PROVE  IInv'
<1> USE DEF IInv, TypeOK, callVars, jobVars, laneVars, workerVars
<1>1. CASE \E l \in Lanes : WorkerAnswers(l)
  <2>1. PICK l \in Lanes : WorkerAnswers(l)
    BY <1>1
  <2>2. PICK a \in [lane : {l}, job : {current[l]}, kind : Kinds, edition : Editions \cup {0}] :
            inbox' = inbox \cup {a}
    BY <2>1, PoolAssumption DEF WorkerAnswers, PreparedBy, PoolAssumption
  <2>3. OneAnswerPerLane' /\ WorkingHasJob'
    BY <2>1, <2>2 DEF WorkerAnswers, OneAnswerPerLane, WorkingHasJob
  <2>4. /\ PoolHoldsThePending' /\ IdleUntouched' /\ TodoUninspected' /\ ResultsAfterAwait'
        /\ HeldIsDispatched' /\ JobOnOneLane'
    BY <2>1 DEF WorkerAnswers, PoolHoldsThePending, IdleUntouched, TodoUninspected,
       ResultsAfterAwait, HeldIsDispatched, JobOnOneLane
  <2>5. QED
    BY <2>3, <2>4
<1>2. CASE EditSettings
  BY <1>2 DEF EditSettings, PoolHoldsThePending, IdleUntouched, TodoUninspected,
     ResultsAfterAwait, HeldIsDispatched, JobOnOneLane, WorkingHasJob, OneAnswerPerLane
<1>3. QED
  BY <1>1, <1>2

\* The invariant is inductive.
LEMMA IInvStep == IInv /\ [Next]_vars => IInv'
<1> SUFFICES ASSUME IInv, [Next]_vars
             PROVE  IInv'
  OBVIOUS
<1>1. TypeOK'
  BY TypeStep DEF IInv
<1>2. CASE UNCHANGED vars \/ Quiescent
  BY <1>2 DEF Quiescent, vars, callVars, jobVars, laneVars, workerVars, IInv, TypeOK,
     PoolHoldsThePending, IdleUntouched, TodoUninspected, ResultsAfterAwait,
     HeldIsDispatched, JobOnOneLane, WorkingHasJob, OneAnswerPerLane
<1>3. QED
  BY <1>1, <1>2, IInvSubmit, IInvPump, IInvAnswer, IInvClose, IInvContinuations,
     IInvWorkers DEF Next

\* The invariant holds in every reachable state.
LEMMA Invariance == Spec => []IInv
<1>1. QED
  BY InitIInv, IInvStep, PTL DEF Spec

-----------------------------------------------------------------------------
(* The theorems.                                                               *)

\* Every variable keeps its type: in particular what a promise settles to and
\* what the returned map holds is a verdict or the retry marker.
THEOREM TypeCorrect == Spec => []TypeOK
<1>1. IInv => TypeOK
  BY DEF IInv
<1>2. QED
  BY <1>1, Invariance, PTL

\* For any number of gates, targets and workers, and whatever the workers do,
\* a job is in the pool exactly while its promise is awaited and unsettled.
THEOREM PoolHoldsThePendingAlways == Spec => []PoolHoldsThePending
<1>1. IInv => PoolHoldsThePending
  BY DEF IInv
<1>2. QED
  BY <1>1, Invariance, PTL

\* No job is ever on two lanes.
THEOREM JobOnOneLaneAlways == Spec => []JobOnOneLane
<1>1. IInv => JobOnOneLane
  BY DEF IInv
<1>2. QED
  BY <1>1, Invariance, PTL

\* A call that has returned has a verdict for every target.
THEOREM NoTargetMissingAlways == Spec => []NoTargetMissing
<1>1. IInv => NoTargetMissing
  BY PoolAssumption DEF PoolAssumption, IInv, NoTargetMissing, ResultsAfterAwait, TodoUninspected
<1>2. QED
  BY <1>1, Invariance, PTL

\* Closing lanes only makes room, opening one uses what room there is.
LEMMA BoundStep == TypeOK /\ TypeOK' /\ WorkersBounded /\ [Next]_vars => WorkersBounded'
<1> SUFFICES ASSUME TypeOK, TypeOK', WorkersBounded, [Next]_vars
             PROVE  WorkersBounded'
  OBVIOUS
<1> USE DEF TypeOK, WorkersBounded
<1>1. \A X \in SUBSET Lanes : IsFiniteSet(X) /\ Cardinality(X) \in Nat
  BY PoolAssumption, FS_Subset, FS_CardinalityType DEF PoolAssumption
<1>2. CASE lanes' \subseteq lanes /\ limit' = limit
  <2>1. Cardinality(lanes') <= Cardinality(lanes)
    BY <1>1, <1>2, FS_Subset
  <2>2. QED
    BY <1>1, <1>2, <2>1
<1>3. CASE PumpCreateLane
  <2>1. PICK l : l \notin lanes /\ lanes' = lanes \cup {l}
    BY <1>3 DEF PumpCreateLane, FreeLanes
  <2>2. Cardinality(lanes') = Cardinality(lanes) + 1
    BY <1>1, <2>1, FS_AddElement
  <2>3. limit' = limit /\ Cardinality(lanes) < limit
    BY <1>3 DEF PumpCreateLane, NeedsLane, jobVars
  <2>4. QED
    BY <1>1, <2>2, <2>3
<1>4. ASSUME NEW c \in Calls, Submit(c)
      PROVE  WorkersBounded'
  <2>1. lanes' = lanes
    BY <1>4 DEF Submit, laneVars
  <2>2. limit' >= limit
    BY <1>4, PoolAssumption DEF PoolAssumption, Submit, SubmitSequential, SubmitParallel, Larger,
       jobVars
  <2>3. QED
    BY <1>1, <2>1, <2>2
<1>5. CASE Pump /\ ~PumpCreateLane
  BY <1>5, <1>2 DEF Pump, PumpReturn, PumpCreateFails, GiveBack, PumpDispatch, jobVars, laneVars
<1>6. ASSUME NEW m \in inbox, HandleAnswer(m)
      PROVE  WorkersBounded'
  BY <1>6, <1>2 DEF HandleAnswer
<1>7. ASSUME NEW l \in Lanes, HandleError(l) \/ WorkerAnswers(l)
      PROVE  WorkersBounded'
  BY <1>7, <1>2 DEF HandleError, WorkerAnswers, CloseLanes, jobVars, laneVars
<1>8. ASSUME NEW t \in Targets, Timeout(t)
      PROVE  WorkersBounded'
  BY <1>8, <1>2 DEF Timeout, CloseLanes
<1>9. ASSUME NEW c \in Calls, Collect(c) \/ LintNext(c) \/ Return(c)
      PROVE  WorkersBounded'
  BY <1>9, <1>2 DEF Collect, Unserved, LintNext, Return, jobVars, laneVars
<1>10. CASE EditSettings \/ Quiescent \/ UNCHANGED vars
  BY <1>10, <1>2 DEF EditSettings, Quiescent, vars, jobVars, laneVars
<1>11. QED
  BY <1>3, <1>4, <1>5, <1>6, <1>7, <1>8, <1>9, <1>10 DEF Next

\* The gates of a process never have more workers than its limit.
THEOREM WorkersBoundedAlways == Spec => []WorkersBounded
<1>1. Init => WorkersBounded
  BY FS_EmptySet DEF Init, WorkersBounded
<1>2. QED
  BY <1>1, BoundStep, TypeCorrect, PTL DEF Spec

-----------------------------------------------------------------------------
(* No missed wake-up.                                                          *)

\* A job is only ever in a pool that has a limit.
JobsNeedLimit == jobs # {} => limit > 0

\* What the event loop owes the waiting jobs, with what a pump relies on.
WakeInv == NoMissedWakeup /\ JobsNeedLimit

\* Every handler that frees a lane, closes one or adds a job also pumps, and the
\* pump stops only when it can do no more.
LEMMA WakeStep == TypeOK /\ TypeOK' /\ WakeInv /\ [Next]_vars => WakeInv'
<1> SUFFICES ASSUME TypeOK, TypeOK', WakeInv, [Next]_vars
             PROVE  WakeInv'
  OBVIOUS
<1> USE DEF TypeOK, WakeInv, NoMissedWakeup, JobsNeedLimit, Waiting
<1>1. CASE UNCHANGED <<limit, jobs, dispatched, lanes, current, pumping>>
  BY <1>1 DEF Idle
<1>2. ASSUME NEW c \in Calls, Submit(c)
      PROVE  WakeInv'
  <2>1. CASE SubmitSequential(c)
    BY <1>2, <2>1, <1>1 DEF Submit, SubmitSequential, jobVars, laneVars
  <2>2. CASE SubmitParallel(c)
    <3>1. limit' = Larger(limit, Requested[c]) /\ Requested[c] > 0
      BY <2>2 DEF SubmitParallel
    <3>2. Requested[c] \in Nat /\ limit \in Nat
      BY PoolAssumption DEF PoolAssumption
    <3>3. limit' > 0
      BY <3>1, <3>2 DEF Larger
    <3>4. pumping' = TRUE
      BY <2>2, Zenon DEF SubmitParallel
    <3>5. QED
      BY <3>3, <3>4
  <2>3. QED
    BY <1>2, <2>1, <2>2 DEF Submit
<1>3. CASE PumpReturn
  <2>1. UNCHANGED <<limit, jobs, dispatched, lanes, current>>
    BY <1>3 DEF PumpReturn, jobVars, laneVars
  <2>2. Waiting # {} => Idle = {} /\ Cardinality(lanes) >= limit
    BY <1>3 DEF PumpReturn, NothingToPump
  <2>3. QED
    BY <2>1, <2>2 DEF Idle
<1>4. CASE PumpCreateLane \/ PumpDispatch
  BY <1>4 DEF PumpCreateLane, PumpDispatch, NeedsLane, jobVars
<1>5. CASE PumpCreateFails
  BY <1>5 DEF PumpCreateFails, GiveBack
<1>6. ASSUME NEW m \in inbox, HandleAnswer(m)
      PROVE  WakeInv'
  <2>1. CASE m.job \in jobs /\ current[m.lane] = m.job
    BY <1>6, <2>1 DEF HandleAnswer
  <2>2. CASE ~(m.job \in jobs /\ current[m.lane] = m.job)
    BY <1>6, <2>2, <1>1 DEF HandleAnswer
  <2>3. QED
    BY <2>1, <2>2
<1>7. ASSUME NEW l \in Lanes, HandleError(l) \/ WorkerAnswers(l)
      PROVE  WakeInv'
  <2>1. CASE HandleError(l)
    BY <2>1 DEF HandleError, GiveBack
  <2>2. CASE WorkerAnswers(l)
    BY <2>2, <1>1 DEF WorkerAnswers, jobVars, laneVars
  <2>3. QED
    BY <1>7, <2>1, <2>2
<1>8. ASSUME NEW t \in Targets, Timeout(t)
      PROVE  WakeInv'
  BY <1>8 DEF Timeout, GiveBack
<1>9. ASSUME NEW c \in Calls, Collect(c) \/ LintNext(c) \/ Return(c)
      PROVE  WakeInv'
  BY <1>9, <1>1 DEF Collect, LintNext, Return, jobVars, laneVars
<1>10. CASE EditSettings \/ Quiescent \/ UNCHANGED vars
  BY <1>10, <1>1 DEF EditSettings, Quiescent, vars, jobVars, laneVars
<1>11. QED
  BY <1>2, <1>3, <1>4, <1>5, <1>6, <1>7, <1>8, <1>9, <1>10 DEF Next, Pump

\* No job waits while a lane of the limit is free or could be opened.
THEOREM NoMissedWakeupAlways == Spec => []NoMissedWakeup
<1>1. Init => WakeInv
  BY DEF Init, WakeInv, NoMissedWakeup, JobsNeedLimit, Waiting
<1>2. WakeInv => NoMissedWakeup
  BY DEF WakeInv
<1>3. QED
  BY <1>1, <1>2, WakeStep, TypeCorrect, PTL DEF Spec

-----------------------------------------------------------------------------
(* The pool implements LintCalls.                                              *)

\* The abstract state, as KeepsPromise reads it off the pool.
Running == {c \in Calls : call[c] # "idle"}
Returned == {c \in Calls : call[c] = "done"}
Verdict == [t \in Targets |->
              IF result[t] # None THEN result[t]
              ELSE IF outcome[t] \in Verdicts THEN outcome[t] ELSE None]

\* Before any call nothing runs and nothing is inspected.
LEMMA RefinesInit == Init => Promise!Init
<1>1. Init => Running = {} /\ Returned = {} /\ Verdict = [t \in Targets |-> None]
  BY PoolAssumption DEF PoolAssumption, Init, Running, Returned, Verdict
<1>2. QED
  BY <1>1 DEF Promise!Init, Running, Returned, Verdict

\* A step that neither starts nor ends a call nor settles a verdict stutters.
LEMMA Stutters ==
    ASSUME call' = call, Verdict' = Verdict
    PROVE  UNCHANGED Promise!vars
<1>1. Running' = Running /\ Returned' = Returned
  BY DEF Running, Returned
<1>2. QED
  BY <1>1 DEF Promise!vars, Running, Returned, Verdict

\* One target of a running call gets its verdict.
LEMMA Inspects ==
    ASSUME NEW t \in Targets, NEW v \in Verdicts,
           Owner[t] \in Running \ Returned, Verdict[t] = None,
           Verdict' = [Verdict EXCEPT ![t] = v], call' = call
    PROVE  Promise!Next
<1>1. Running' = Running /\ Returned' = Returned
  BY DEF Running, Returned
<1>2. Promise!Inspect(t)
  BY <1>1 DEF Promise!Inspect, Running, Returned, Verdict
<1>3. QED
  BY <1>2 DEF Promise!Next

\* An answer that counts is a verdict, or leaves its target to the parent.
LEMMA RefinesAnswer ==
    ASSUME IInv, NEW m \in inbox, HandleAnswer(m)
    PROVE  Promise!Next \/ UNCHANGED Promise!vars
<1> USE PoolAssumption DEF PoolAssumption, IInv, TypeOK
<1>0. m.job \in Targets /\ Settlement(m) \in Verdicts \cup {Retry} /\ call' = call
  BY DEF Messages, Kinds, Settlement, Verdicts, HandleAnswer
<1>1. CASE ~(m.job \in jobs /\ current[m.lane] = m.job)
  <2>1. Verdict' = Verdict
    BY <1>1 DEF HandleAnswer, Verdict
  <2>2. QED
    BY <1>0, <2>1, Stutters
<1>2. CASE m.job \in jobs /\ current[m.lane] = m.job
  <2>1. /\ outcome' = [outcome EXCEPT ![m.job] = Settlement(m)]
        /\ result' = result
    BY <1>2 DEF HandleAnswer
  <2>2. /\ call[Owner[m.job]] = "waiting" /\ outcome[m.job] = Pending
        /\ result[m.job] = None
    BY <1>2, <1>0 DEF PoolHoldsThePending, ResultsAfterAwait
  <2>3. Owner[m.job] \in Running \ Returned /\ Verdict[m.job] = None
    BY <1>0, <2>2 DEF Running, Returned, Verdict
  <2>4. CASE Settlement(m) = Retry
    <3>1. Verdict' = Verdict
      BY <1>0, <2>1, <2>2, <2>4 DEF Verdict
    <3>2. QED
      BY <1>0, <3>1, Stutters
  <2>5. CASE Settlement(m) \in Verdicts
    <3>1. Verdict' = [Verdict EXCEPT ![m.job] = Settlement(m)]
      BY <1>0, <2>1, <2>2, <2>5 DEF Verdict
    <3>2. QED
      BY <1>0, <2>3, <2>5, <3>1, Inspects
  <2>6. QED
    BY <1>0, <2>4, <2>5
<1>3. QED
  BY <1>1, <1>2

\* Giving jobs back settles no verdict.
LEMMA RefinesGiveBack ==
    ASSUME IInv, NEW returning \in SUBSET jobs, GiveBack(returning),
           call' = call, result' = result
    PROVE  UNCHANGED Promise!vars
<1>1. \A t \in Targets : t \in returning => outcome[t] = Pending
  BY DEF IInv, PoolHoldsThePending
<1>2. Verdict' = Verdict
  BY <1>1, PoolAssumption DEF PoolAssumption, IInv, TypeOK, GiveBack, Verdict
<1>3. QED
  BY <1>2, Stutters

\* Collecting moves the verdicts of the workers into the result and changes none.
LEMMA RefinesCollect ==
    ASSUME IInv, NEW c \in Calls, Collect(c)
    PROVE  UNCHANGED Promise!vars
<1> USE PoolAssumption DEF PoolAssumption, IInv, TypeOK
<1>1. Verdict' = Verdict
  <2>1. ASSUME NEW t \in Targets, Owner[t] = c
        PROVE  /\ result[t] = None
               /\ outcome[t] \in Verdicts \cup {Retry}
               /\ result'[t] = IF outcome[t] # Retry THEN outcome[t] ELSE None
    BY <2>1 DEF Collect, ResultsAfterAwait, Outcomes, TargetsOf
  <2>2. ASSUME NEW t \in Targets, Owner[t] # c
        PROVE  result'[t] = result[t]
    BY <2>2 DEF Collect
  <2>3. outcome' = outcome
    BY DEF Collect
  <2>4. \A t \in Targets : (IF result'[t] # None THEN result'[t]
                            ELSE IF outcome'[t] \in Verdicts THEN outcome'[t] ELSE None)
                         = (IF result[t] # None THEN result[t]
                            ELSE IF outcome[t] \in Verdicts THEN outcome[t] ELSE None)
    BY <2>1, <2>2, <2>3
  <2>5. QED
    BY <2>4 DEF Verdict
<1>2. Running' = Running /\ Returned' = Returned
  BY DEF Collect, Running, Returned
<1>3. QED
  BY <1>1, <1>2 DEF Promise!vars, Running, Returned, Verdict

\* The parent inspects a target that has no verdict yet.
LEMMA RefinesLintNext ==
    ASSUME IInv, NEW c \in Calls, LintNext(c)
    PROVE  Promise!Next
<1> USE PoolAssumption DEF PoolAssumption, IInv, TypeOK
<1>1. PICK t \in todo[c], v \in {context[c], Uninspectable} :
          result' = [result EXCEPT ![t] = v]
  BY DEF LintNext
<1>2. /\ t \in Targets /\ Owner[t] = c /\ call[c] = "sequential"
      /\ result[t] = None /\ outcome[t] \in {Pending, Retry} /\ v \in Verdicts
  BY DEF TodoUninspected, Verdicts
<1>3. Owner[t] \in Running \ Returned /\ Verdict[t] = None
  BY <1>2 DEF Running, Returned, Verdict
<1>4. outcome' = outcome /\ call' = call
  BY DEF LintNext
<1>5. Verdict' = [Verdict EXCEPT ![t] = v]
  BY <1>1, <1>2, <1>4 DEF Verdict
<1>6. QED
  BY <1>2, <1>3, <1>4, <1>5, Inspects

\* A call that returns has nothing left to inspect.
LEMMA RefinesReturn ==
    ASSUME IInv, NEW c \in Calls, Return(c)
    PROVE  Promise!Next
<1> USE PoolAssumption DEF PoolAssumption, IInv, TypeOK
<1>1. call[c] = "sequential" /\ todo[c] = {} /\ call' = [call EXCEPT ![c] = "done"]
  BY DEF Return
<1>2. Verdict' = Verdict
  BY DEF Return, Verdict
<1>3. Running' = Running /\ Returned' = Returned \cup {c} /\ c \in Running \ Returned
  BY <1>1 DEF Running, Returned
<1>4. \A t \in Targets : Owner[t] = c => Verdict[t] # None
  BY <1>1 DEF ResultsAfterAwait, Verdict
<1>5. Promise!Return(c)
  BY <1>2, <1>3, <1>4 DEF Promise!Return, Promise!TargetsOf, Running, Returned, Verdict
<1>6. QED
  BY <1>5 DEF Promise!Next

\* A call that is submitted has started, and has no verdict yet.
LEMMA RefinesSubmit ==
    ASSUME IInv, NEW c \in Calls, Submit(c)
    PROVE  Promise!Next
<1> USE PoolAssumption DEF PoolAssumption, IInv, TypeOK
<1>1. call[c] = "idle" /\ outcome' = outcome /\ result' = result
  BY DEF Submit
<1>2. call' = [call EXCEPT ![c] = "sequential"] \/ call' = [call EXCEPT ![c] = "waiting"]
  BY DEF Submit, SubmitSequential, SubmitParallel
<1>3. Running' = Running \cup {c} /\ Returned' = Returned /\ c \notin Running
  BY <1>1, <1>2 DEF Running, Returned
<1>4. Verdict' = Verdict
  BY <1>1 DEF Verdict
<1>5. Promise!Start(c)
  BY <1>3, <1>4 DEF Promise!Start, Running, Returned, Verdict
<1>6. QED
  BY <1>5 DEF Promise!Next

\* Every step of the pool is a step of the promise or leaves it alone.
LEMMA RefinesStep == IInv /\ [Next]_vars => [Promise!Next]_(Promise!vars)
<1> SUFFICES ASSUME IInv, [Next]_vars
             PROVE  Promise!Next \/ UNCHANGED Promise!vars
  OBVIOUS
<1>1. CASE UNCHANGED <<call, outcome, result>>
  <2>1. Verdict' = Verdict
    BY <1>1 DEF Verdict
  <2>2. QED
    BY <1>1, <2>1, Stutters
<1>2. CASE Pump
  <2>1. CASE PumpCreateFails
    BY <2>1, RefinesGiveBack DEF PumpCreateFails
  <2>2. CASE PumpReturn \/ PumpCreateLane \/ PumpDispatch
    BY <2>2, <1>1 DEF PumpReturn, PumpCreateLane, PumpDispatch, callVars
  <2>3. QED
    BY <1>2, <2>1, <2>2 DEF Pump
<1>3. ASSUME NEW c \in Calls, Submit(c) \/ Collect(c) \/ LintNext(c) \/ Return(c)
      PROVE  Promise!Next \/ UNCHANGED Promise!vars
  BY <1>3, RefinesSubmit, RefinesCollect, RefinesLintNext, RefinesReturn
<1>4. ASSUME NEW l \in Lanes, HandleError(l) \/ WorkerAnswers(l)
      PROVE  Promise!Next \/ UNCHANGED Promise!vars
  <2>1. CASE HandleError(l)
    BY <2>1, RefinesGiveBack DEF HandleError
  <2>2. CASE WorkerAnswers(l)
    BY <2>2, <1>1 DEF WorkerAnswers, callVars
  <2>3. QED
    BY <1>4, <2>1, <2>2
<1>5. ASSUME NEW t \in Targets, Timeout(t)
      PROVE  Promise!Next \/ UNCHANGED Promise!vars
  BY <1>5, RefinesGiveBack DEF Timeout
<1>6. CASE EditSettings \/ Quiescent \/ UNCHANGED vars
  BY <1>6, <1>1 DEF EditSettings, Quiescent, vars, callVars
<1>7. QED
  BY <1>2, <1>3, <1>4, <1>5, <1>6, RefinesAnswer DEF Next

\* Whatever the workers do, the pool behaves like a parent that inspects every
\* target of a call itself and returns when all of them have their one verdict.
THEOREM PoolKeepsPromise == Spec => KeepsPromise
<1>1. QED
  BY RefinesInit, RefinesStep, Invariance, PTL DEF Spec, KeepsPromise, Promise!Spec

-----------------------------------------------------------------------------
(* First come, first served.                                                   *)

\* The ids of the jobs in the pool are those given out so far, each once.
JobsNumbered ==
    /\ \A t \in jobs : id[t] < nextId
    /\ \A t, u \in jobs : t # u => id[t] # id[u]

\* A job that was handed out had been submitted.
DispatchedWereSubmitted == \A t \in dispatched : call[Owner[t]] # "idle"

\* What makes the order of the map the order of service.
OrderInv == FirstComeFirstServed /\ JobsNumbered /\ DispatchedWereSubmitted

\* The ids of a call number its targets in their order.
LEMMA Numbering ==
    ASSUME NEW c \in Calls, NEW t \in TargetsOf(c)
    PROVE  LET before(x) == Cardinality({u \in TargetsOf(c) : u < x}) IN
           /\ before(t) \in Nat
           /\ before(t) < Cardinality(TargetsOf(c))
           /\ \A s \in TargetsOf(c) : s < t => before(s) < before(t)
<1> DEFINE Below(x) == {u \in TargetsOf(c) : u < x}
<1>1. TargetsOf(c) \subseteq Nat
  BY PoolAssumption DEF PoolAssumption, TargetsOf
<1>2. IsFiniteSet(TargetsOf(c))
  <2>1. TargetsOf(c) \in SUBSET Targets
    BY DEF TargetsOf
  <2>2. QED
    BY <2>1, PoolAssumption, FS_Subset DEF PoolAssumption
<1>3. \A x : IsFiniteSet(Below(x)) /\ Cardinality(Below(x)) \in Nat
  <2>1. \A x : Below(x) \in SUBSET TargetsOf(c)
    OBVIOUS
  <2>2. QED
    BY <2>1, <1>2, FS_Subset, FS_CardinalityType
<1>4. Cardinality(Below(t)) < Cardinality(TargetsOf(c))
  <2>1. Below(t) \in SUBSET TargetsOf(c) /\ Below(t) # TargetsOf(c)
    BY <1>1
  <2>2. /\ Cardinality(Below(t)) <= Cardinality(TargetsOf(c))
        /\ Cardinality(Below(t)) # Cardinality(TargetsOf(c))
    BY <2>1, <1>2, FS_Subset
  <2>3. Cardinality(TargetsOf(c)) \in Nat
    BY <1>2, FS_CardinalityType
  <2>4. QED
    BY <2>2, <2>3, <1>3
<1>5. ASSUME NEW s \in TargetsOf(c), s < t
      PROVE  Cardinality(Below(s)) < Cardinality(Below(t))
  <2>1. Below(s) \in SUBSET Below(t) /\ Below(s) # Below(t)
    BY <1>1, <1>5
  <2>2. /\ Cardinality(Below(s)) <= Cardinality(Below(t))
        /\ Cardinality(Below(s)) # Cardinality(Below(t))
    BY <2>1, <1>3, FS_Subset
  <2>3. QED
    BY <2>2, <1>3
<1>6. QED
  BY <1>3, <1>4, <1>5

\* The jobs that are left stay in order when none is handed out.
LEMMA OrderKept ==
    ASSUME OrderInv, TypeOK, jobs' \subseteq jobs, UNCHANGED <<id, nextId, dispatched>>,
           \A c \in Calls : call[c] # "idle" => call'[c] # "idle"
    PROVE  OrderInv'
<1>1. FirstComeFirstServed' /\ JobsNumbered'
  BY DEF OrderInv, FirstComeFirstServed, Waiting, JobsNumbered
<1>2. DispatchedWereSubmitted'
  BY PoolAssumption DEF PoolAssumption, OrderInv, DispatchedWereSubmitted, TypeOK
<1>3. QED
  BY <1>1, <1>2 DEF OrderInv

\* The jobs of a call are numbered behind all that were given out.
LEMMA OrderSubmit ==
    ASSUME OrderInv, IInv, NEW c \in Calls, Submit(c)
    PROVE  OrderInv'
<1> USE PoolAssumption DEF PoolAssumption
<1>1. CASE SubmitSequential(c)
  <2>1. UNCHANGED jobVars /\ \A d \in Calls : call[d] # "idle" => call'[d] # "idle"
    BY <1>1 DEF Submit, SubmitSequential, IInv, TypeOK
  <2>2. QED
    BY <2>1, OrderKept DEF jobVars, IInv
<1>2. CASE SubmitParallel(c)
  <2> DEFINE before(x) == Cardinality({u \in TargetsOf(c) : u < x})
  <2>1. /\ jobs' = jobs \cup TargetsOf(c) /\ dispatched' = dispatched
        /\ nextId' = nextId + Cardinality(TargetsOf(c))
        /\ \A t \in Targets \ TargetsOf(c) : id'[t] = id[t]
        /\ \A t \in TargetsOf(c) : id'[t] = nextId + before(t)
        /\ call[c] = "idle" /\ call'[c] = "waiting"
        /\ \A d \in Calls \ {c} : call'[d] = call[d]
    BY <1>2 DEF SubmitParallel, Submit, TargetsOf, IInv, TypeOK
  <2>2. /\ jobs \subseteq Targets \ TargetsOf(c)
        /\ dispatched \cap TargetsOf(c) = {}
        /\ nextId \in Nat /\ id \in [Targets -> Nat]
    <3>1. \A t \in TargetsOf(c) : t \in Targets /\ call[Owner[t]] = "idle"
      BY <2>1 DEF TargetsOf
    <3>2. jobs \cap TargetsOf(c) = {}
      BY <3>1 DEF IInv, PoolHoldsThePending
    <3>3. dispatched \cap TargetsOf(c) = {}
      BY <3>1 DEF OrderInv, DispatchedWereSubmitted
    <3>4. QED
      BY <3>2, <3>3 DEF IInv, TypeOK
  <2>3. TargetsOf(c) \subseteq Nat /\ TargetsOf(c) \subseteq Targets
    BY DEF TargetsOf
  <2>4. \A t \in TargetsOf(c) :
          /\ id'[t] \in Nat /\ nextId <= id'[t] /\ id'[t] < nextId'
          /\ \A s \in TargetsOf(c) : s < t => id'[s] < id'[t]
    <3>1. TAKE t \in TargetsOf(c)
    <3>2. /\ before(t) \in Nat /\ before(t) < Cardinality(TargetsOf(c))
          /\ \A s \in TargetsOf(c) : s < t => before(s) < before(t)
      BY Numbering
    <3>3. \A s \in TargetsOf(c) : before(s) \in Nat
      BY Numbering
    <3>4. Cardinality(TargetsOf(c)) \in Nat
      BY <2>3, FS_Subset, FS_CardinalityType
    <3> HIDE DEF before
    <3>5. id'[t] = nextId + before(t) /\ nextId' = nextId + Cardinality(TargetsOf(c))
      BY <2>1
    <3>6. id'[t] \in Nat /\ nextId <= id'[t] /\ id'[t] < nextId'
      BY <3>2, <3>4, <3>5, <2>2
    <3>7. ASSUME NEW s \in TargetsOf(c), s < t
          PROVE  id'[s] < id'[t]
      <4>1. id'[s] = nextId + before(s) /\ before(s) < before(t)
        BY <2>1, <3>2, <3>7
      <4>2. QED
        BY <4>1, <3>2, <3>3, <3>5, <2>2
    <3>8. QED
      BY <3>6, <3>7
  <2>5. \A t \in jobs : id'[t] = id[t] /\ id[t] < nextId /\ id[t] \in Nat
    BY <2>1, <2>2 DEF OrderInv, JobsNumbered
  <2>6. nextId' >= nextId
    BY <2>1, <2>2, <2>3, FS_Subset, FS_CardinalityType
  <2>7. JobsNumbered'
    <3>1. \A t \in jobs' : id'[t] < nextId'
      <4>1. nextId' \in Nat
        BY <2>1, <2>2, <2>3, FS_Subset, FS_CardinalityType
      <4>2. QED
        BY <4>1, <2>1, <2>2, <2>4, <2>5, <2>6
    <3>2. \A t, u \in TargetsOf(c) : t # u => id'[t] # id'[u]
      BY <2>3, <2>4
    <3>3. \A t \in jobs, u \in TargetsOf(c) : id'[t] # id'[u]
      BY <2>2, <2>4, <2>5
    <3>4. \A t, u \in jobs : t # u => id'[t] # id'[u]
      BY <2>5 DEF OrderInv, JobsNumbered
    <3>5. QED
      BY <3>1, <3>2, <3>3, <3>4, <2>1 DEF JobsNumbered
  <2>8. FirstComeFirstServed'
    <3>1. ASSUME NEW t \in Waiting', NEW u \in (jobs \cap dispatched)'
          PROVE  id'[u] < id'[t]
      <4>1. u \in jobs \cap dispatched
        BY <3>1, <2>1, <2>2
      <4>2. CASE t \in jobs
        BY <4>1, <4>2, <3>1, <2>1, <2>5 DEF OrderInv, FirstComeFirstServed, Waiting
      <4>3. CASE t \in TargetsOf(c)
        BY <4>1, <4>3, <2>2, <2>4, <2>5
      <4>4. QED
        BY <4>2, <4>3, <3>1, <2>1 DEF Waiting
    <3>2. QED
      BY <3>1 DEF FirstComeFirstServed
  <2>9. DispatchedWereSubmitted'
    BY <2>1, <2>2 DEF OrderInv, DispatchedWereSubmitted, IInv, TypeOK, TargetsOf
  <2>10. QED
    BY <2>7, <2>8, <2>9 DEF OrderInv
<1>3. QED
  BY <1>1, <1>2 DEF Submit

\* The job handed out is the first of the waiting ones.
LEMMA OrderDispatch ==
    ASSUME OrderInv, IInv, PumpDispatch
    PROVE  OrderInv'
<1> USE PoolAssumption DEF PoolAssumption
<1>1. PICK t \in Waiting : /\ \A u \in Waiting : id[t] <= id[u]
                           /\ dispatched' = dispatched \cup {t}
  BY DEF PumpDispatch, IsFirstWaiting
<1>2. id' = id /\ nextId' = nextId /\ jobs' = jobs /\ call' = call
  BY DEF PumpDispatch, callVars
<1>3. t \in jobs /\ jobs \subseteq Targets /\ id \in [Targets -> Nat]
  BY <1>1 DEF Waiting, IInv, TypeOK
<1>4. FirstComeFirstServed'
  <2>1. ASSUME NEW u \in jobs \ (dispatched \cup {t}), NEW s \in jobs \cap (dispatched \cup {t})
        PROVE  id[s] < id[u]
    <3>1. CASE s = t
      <4>1. id[t] <= id[u] /\ id[t] # id[u]
        BY <1>1, <1>3, <2>1 DEF Waiting, OrderInv, JobsNumbered
      <4>2. QED
        BY <4>1, <3>1, <1>3
    <3>2. CASE s \in dispatched
      BY <3>2, <2>1 DEF OrderInv, FirstComeFirstServed, Waiting
    <3>3. QED
      BY <2>1, <3>1, <3>2
  <2>2. QED
    BY <2>1, <1>1, <1>2 DEF FirstComeFirstServed, Waiting
<1>5. JobsNumbered'
  BY <1>2 DEF OrderInv, JobsNumbered
<1>6. DispatchedWereSubmitted'
  BY <1>1, <1>2, <1>3 DEF OrderInv, DispatchedWereSubmitted, IInv, PoolHoldsThePending
<1>7. QED
  BY <1>4, <1>5, <1>6 DEF OrderInv

\* Every step keeps the order.
LEMMA OrderStep == IInv /\ OrderInv /\ [Next]_vars => OrderInv'
<1> SUFFICES ASSUME IInv, OrderInv, [Next]_vars
             PROVE  OrderInv'
  OBVIOUS
<1>1. TypeOK
  BY DEF IInv
<1>2. CASE UNCHANGED <<call, nextId, id, jobs, dispatched>>
  BY <1>1, <1>2, OrderKept
<1>3. CASE Pump
  <2>1. CASE PumpReturn \/ PumpCreateLane
    BY <1>2, <2>1 DEF PumpReturn, PumpCreateLane, jobVars, callVars
  <2>2. CASE PumpCreateFails
    <3>1. jobs' \subseteq jobs /\ UNCHANGED <<call, id, nextId, dispatched>>
      BY <2>2 DEF PumpCreateFails, GiveBack
    <3>2. QED
      BY <3>1, <1>1, OrderKept
  <2>3. QED
    BY <1>3, <2>1, <2>2, OrderDispatch DEF Pump
<1>4. ASSUME NEW m \in inbox, HandleAnswer(m)
      PROVE  OrderInv'
  <2>1. jobs' \subseteq jobs /\ UNCHANGED <<call, id, nextId, dispatched>>
    BY <1>4 DEF HandleAnswer
  <2>2. QED
    BY <2>1, <1>1, OrderKept
<1>5. ASSUME NEW l \in Lanes, HandleError(l) \/ WorkerAnswers(l)
      PROVE  OrderInv'
  <2>1. jobs' \subseteq jobs /\ UNCHANGED <<call, id, nextId, dispatched>>
    BY <1>5 DEF HandleError, GiveBack, WorkerAnswers, jobVars, callVars
  <2>2. QED
    BY <2>1, <1>1, OrderKept
<1>6. ASSUME NEW t \in Targets, Timeout(t)
      PROVE  OrderInv'
  <2>1. jobs' \subseteq jobs /\ UNCHANGED <<call, id, nextId, dispatched>>
    BY <1>6 DEF Timeout, GiveBack
  <2>2. QED
    BY <2>1, <1>1, OrderKept
<1>7. ASSUME NEW c \in Calls, Collect(c) \/ LintNext(c) \/ Return(c)
      PROVE  OrderInv'
  <2>1. UNCHANGED jobVars /\ \A d \in Calls : call[d] # "idle" => call'[d] # "idle"
    BY <1>1, <1>7 DEF Collect, LintNext, Return, TypeOK
  <2>2. QED
    BY <2>1, <1>1, OrderKept DEF jobVars
<1>8. CASE EditSettings \/ Quiescent \/ UNCHANGED vars
  BY <1>2, <1>8 DEF EditSettings, Quiescent, vars, callVars, jobVars
<1>9. QED
  BY <1>3, <1>4, <1>5, <1>6, <1>7, <1>8, OrderSubmit DEF Next

\* No job is ever overtaken by a later one, of its own gate or another's.
THEOREM FirstComeFirstServedAlways == Spec => []FirstComeFirstServed
<1>1. Init => OrderInv
  BY DEF Init, OrderInv, FirstComeFirstServed, JobsNumbered, DispatchedWereSubmitted
<1>2. OrderInv => FirstComeFirstServed
  BY DEF OrderInv
<1>3. QED
  BY <1>1, <1>2, OrderStep, Invariance, PTL DEF Spec
=============================================================================
