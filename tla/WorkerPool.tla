----------------------------- MODULE WorkerPool -----------------------------
(* The bounded worker pool of agentdev-textlint-guard (lib/workers/pool.ts)    *)
(* and the worker it drives (lib/workers/lint-worker.ts).                      *)
(*                                                                             *)
(* The parent process is a JavaScript event loop: Submit, HandleAnswer,        *)
(* HandleError, Timeout and the continuations of a call each run to completion *)
(* before another starts.  All but the continuations end by calling pump(),    *)
(* whose loop is the steps Pump...; while `pumping' holds nothing else of the  *)
(* parent may run, so a handler and its pump are one uninterruptible unit.     *)
(* The workers are separate threads: they answer, hang or crash at any time.   *)
EXTENDS Naturals, FiniteSets

CONSTANTS
    Calls,          \* invocations of lintTargetsInParallel (one per gate run)
    Targets,        \* the files to inspect, numbered in submission order per call
    Owner,          \* [Targets -> Calls]
    Requested,      \* [Calls -> Nat]: maxWorkers, or the resolved default limit
    Lanes,          \* identities of worker lanes
    CreateMayFail,  \* whether `new Worker' can throw
    LintMayCrash,   \* whether the inspection of a text can itself fail
    MaxEdits,       \* bound: changes of the project's inspection settings
    Pending,        \* the promise of a job is not settled
    Retry,          \* SEQUENTIAL_RETRY
    Uninspectable,  \* {ok: false}: the inspection of the text failed
    Broken,         \* a worker whose prepareInspection failed
    None            \* no job, no context, no verdict

Editions == 0..MaxEdits     \* versions of the settings a context is prepared from

TargetsOf(c) == {t \in Targets : Owner[t] = c}

\* What inspectText returns: a verdict is told apart by the settings it is from.
Verdicts == Editions \cup {Uninspectable}
Outcomes == Verdicts \cup {Pending, Retry}

Kinds == {"ok", "context", "lint"}
Messages == [lane : Lanes, job : Targets, kind : Kinds, edition : Editions]

ASSUME PoolAssumption ==
    /\ Targets \subseteq Nat /\ IsFiniteSet(Targets)
    /\ Lanes \subseteq Nat /\ IsFiniteSet(Lanes)
    /\ Owner \in [Targets -> Calls]
    /\ Requested \in [Calls -> Nat]
    /\ {CreateMayFail, LintMayCrash} \subseteq BOOLEAN
    /\ MaxEdits \in Nat
    /\ None \notin Targets \cup Verdicts \cup {Broken}
    /\ Broken \notin Editions
    /\ {Pending, Retry} \cap Verdicts = {}
    /\ Pending # Retry

VARIABLES
    \* the calls
    call,       \* [Calls -> {"idle", "waiting", "sequential", "done"}]
    context,    \* [Calls -> Editions]: the prepared context a call holds
    todo,       \* [Calls -> SUBSET Targets]: left to inspect in the parent
    outcome,    \* [Targets -> what the job's promise settled to]
    result,     \* [Targets -> the entry of the map the call returns]
    \* the pool
    limit,      \* pool.limit
    nextId,     \* pool.nextId
    id,         \* [Targets -> Nat]: job id, the insertion order of pool.jobs
    jobs,       \* the keys of pool.jobs
    dispatched, \* jobs with the dispatched flag set
    lanes,      \* pool.lanes
    current,    \* [Lanes -> Targets \cup {None}]: currentJobId (busy iff not None)
    pumping,    \* the parent is inside pump()
    \* the workers
    working,    \* lanes whose worker has a job to answer
    prepared,   \* [Lanes -> preparedCache of the worker, None before first use]
    inbox,      \* answers posted to the parent and not handled yet
    \* the project
    edition     \* version of the settings a preparation fixes: the configuration, the
                \* engine, whether the project has a dictionary

callVars == <<call, context, todo, outcome, result>>
jobVars == <<limit, nextId, id, jobs, dispatched>>
laneVars == <<lanes, current>>
workerVars == <<working, prepared, inbox>>
vars == <<callVars, jobVars, laneVars, pumping, workerVars, edition>>

Idle == {l \in lanes : current[l] = None}

\* Mutant of Waiting: the dispatched flag is not looked at.
WaitingAll == jobs
Waiting == jobs \ dispatched

Init ==
    /\ call = [c \in Calls |-> "idle"]
    /\ context = [c \in Calls |-> 0]
    /\ todo = [c \in Calls |-> {}]
    /\ outcome = [t \in Targets |-> Pending]
    /\ result = [t \in Targets |-> None]
    /\ limit = 0
    /\ nextId = 1
    /\ id = [t \in Targets |-> 0]
    /\ jobs = {}
    /\ dispatched = {}
    /\ lanes = {}
    /\ current = [l \in Lanes |-> None]
    /\ pumping = FALSE
    /\ working = {}
    /\ prepared = [l \in Lanes |-> None]
    /\ inbox = {}
    /\ edition = 0

-----------------------------------------------------------------------------
(* The call: lintTargetsInParallel up to its await.                            *)

Larger(a, b) == IF a >= b THEN a ELSE b

\* No worker is wanted, or there is at most one target: lint in the parent.
SubmitSequential(c) ==
    /\ Requested[c] = 0 \/ Cardinality(TargetsOf(c)) <= 1
    /\ call' = [call EXCEPT ![c] = "sequential"]
    /\ todo' = [todo EXCEPT ![c] = TargetsOf(c)]
    /\ UNCHANGED <<jobVars, pumping>>

\* Enqueue one job per target, each with its timer running, then pump.
SubmitParallel(c) ==
    /\ Requested[c] > 0
    /\ Cardinality(TargetsOf(c)) > 1
    /\ call' = [call EXCEPT ![c] = "waiting"]
    /\ limit' = Larger(limit, Requested[c])
    /\ id' = [t \in Targets |->
                IF t \in TargetsOf(c)
                THEN nextId + Cardinality({u \in TargetsOf(c) : u < t})
                ELSE id[t]]
    /\ nextId' = nextId + Cardinality(TargetsOf(c))
    /\ jobs' = jobs \cup TargetsOf(c)
    /\ pumping' = TRUE
    /\ UNCHANGED <<todo, dispatched>>

Submit(c) ==
    /\ ~pumping
    /\ call[c] = "idle"
    /\ context' = [context EXCEPT ![c] = edition]
    /\ SubmitSequential(c) \/ SubmitParallel(c)
    /\ UNCHANGED <<outcome, result, laneVars, workerVars, edition>>

-----------------------------------------------------------------------------
(* pump(): one step per turn of its while loop.                                *)

\* Mutant of NothingToPump: the pool never grows beyond its first lane.
NothingToPumpOneLane ==
    \/ limit = 0
    \/ jobs = {}
    \/ Idle = {} /\ lanes # {}
    \/ Idle # {} /\ Waiting = {}

\* Nothing to do, or no lane to do it with.
NothingToPump ==
    \/ limit = 0
    \/ jobs = {}
    \/ Idle = {} /\ Cardinality(lanes) >= limit
    \/ Idle # {} /\ Waiting = {}

PumpReturn ==
    /\ pumping
    /\ NothingToPump
    /\ pumping' = FALSE
    /\ UNCHANGED <<callVars, jobVars, laneVars, workerVars, edition>>

\* Mutant of NeedsLane: the limit is off by one.
NeedsLaneOffByOne ==
    /\ pumping
    /\ jobs # {}
    /\ Idle = {}
    /\ Cardinality(lanes) <= limit

NeedsLane ==
    /\ pumping
    /\ jobs # {}
    /\ Idle = {}
    /\ Cardinality(lanes) < limit

\* An identity no open lane bears, and no answer that is still under way.
FreeLanes == Lanes \ (lanes \cup {m.lane : m \in inbox})

\* createLane(): a new worker.  Identities are interchangeable: the least is taken.
PumpCreateLane ==
    /\ NeedsLane
    /\ \E l \in FreeLanes :
          /\ \A k \in FreeLanes : l <= k
          /\ lanes' = lanes \cup {l}
          /\ current' = [current EXCEPT ![l] = None]
          /\ prepared' = [prepared EXCEPT ![l] = None]
    /\ UNCHANGED <<callVars, jobVars, pumping, working, inbox, edition>>

\* Mutant of GiveBack: the jobs are deleted and their promises forgotten.
GiveBackUnsettled(returning) ==
    /\ jobs' = jobs \ returning
    /\ outcome' = outcome

\* Jobs leave the pool with the settlement "run it sequentially".
GiveBack(returning) ==
    /\ jobs' = jobs \ returning
    /\ outcome' = [t \in Targets |-> IF t \in returning THEN Retry ELSE outcome[t]]

\* createLane() returned null: every job of the pool, dispatched or not, goes
\* back to its call for the sequential path.  The lanes are left as they are.
PumpCreateFails ==
    /\ NeedsLane
    /\ CreateMayFail
    /\ GiveBack(jobs)
    /\ pumping' = FALSE
    /\ UNCHANGED <<call, context, todo, result, limit, nextId, id, dispatched,
                   laneVars, workerVars, edition>>

\* Mutant of IsFirstWaiting: insertion order is not kept.
IsSomeWaiting(t) == t \in Waiting

\* The first job in insertion order that no lane has taken.
IsFirstWaiting(t) == t \in Waiting /\ \A u \in Waiting : id[t] <= id[u]

PumpDispatch ==
    /\ pumping
    /\ limit > 0
    /\ \E l \in Idle, t \in Waiting :
          /\ IsFirstWaiting(t)
          /\ dispatched' = dispatched \cup {t}
          /\ current' = [current EXCEPT ![l] = t]
          /\ working' = working \cup {l}
    /\ UNCHANGED <<callVars, limit, nextId, id, jobs, lanes, pumping, prepared,
                   inbox, edition>>

Pump == PumpReturn \/ PumpCreateLane \/ PumpCreateFails \/ PumpDispatch

-----------------------------------------------------------------------------
(* Events of the pool: an answer, a worker error, a timer.                     *)

\* The settlement a worker's answer stands for.
Settlement(m) ==
    CASE m.kind = "ok" -> m.edition
      [] m.kind = "context" -> Retry
      [] m.kind = "lint" -> Uninspectable

\* onmessage: an answer counts only when its job is unsettled and held by the
\* lane that answers; otherwise it is dropped and nothing is pumped.
HandleAnswer(m) ==
    /\ ~pumping
    /\ m \in inbox
    /\ inbox' = inbox \ {m}
    /\ IF m.job \in jobs /\ current[m.lane] = m.job
       THEN /\ current' = [current EXCEPT ![m.lane] = None]
            /\ jobs' = jobs \ {m.job}
            /\ outcome' = [outcome EXCEPT ![m.job] = Settlement(m)]
            /\ pumping' = TRUE
       ELSE UNCHANGED <<current, jobs, outcome, pumping>>
    /\ UNCHANGED <<call, context, todo, result, limit, nextId, id, dispatched,
                   lanes, working, prepared, edition>>

\* Mutant of CloseLanes: the worker is not terminated.
CloseLanesOnly(closing) ==
    /\ lanes' = lanes \ closing
    /\ current' = [l \in Lanes |-> IF l \in closing THEN None ELSE current[l]]
    /\ working' = working

\* closeLane(): the worker is terminated, and the lane forgets its job.
CloseLanes(closing) ==
    /\ lanes' = lanes \ closing
    /\ current' = [l \in Lanes |-> IF l \in closing THEN None ELSE current[l]]
    /\ working' = working \ closing

\* onerror: the lane is closed and the job it held goes back.
HandleError(l) ==
    /\ ~pumping
    /\ l \in lanes
    /\ CloseLanes({l})
    /\ GiveBack(jobs \cap {current[l]})
    /\ pumping' = TRUE
    /\ UNCHANGED <<call, context, todo, result, limit, nextId, id, dispatched,
                   prepared, inbox, edition>>

\* The timer of a job, started when the job was enqueued: the lane that holds
\* the job, if any, is closed, and the job goes back.
Timeout(t) ==
    /\ ~pumping
    /\ t \in jobs
    /\ CloseLanes({l \in lanes : current[l] = t})
    /\ GiveBack({t})
    /\ pumping' = TRUE
    /\ UNCHANGED <<call, context, todo, result, limit, nextId, id, dispatched,
                   prepared, inbox, edition>>

-----------------------------------------------------------------------------
(* The call: after its await, and lintTargetsSequentially.                     *)

\* Mutants of Unserved: a failed inspection is retried; nothing is.
UnservedOrFailed(c) == {t \in TargetsOf(c) : outcome[t] \in {Retry, Uninspectable}}
UnservedNone(c) == {t \in TargetsOf(c) : outcome[t] = Pending}

\* The targets of a call that no worker inspected.
Unserved(c) == {t \in TargetsOf(c) : outcome[t] = Retry}

\* Promise.all is settled: keep the workers' verdicts, collect the rest.
Collect(c) ==
    /\ ~pumping
    /\ call[c] = "waiting"
    /\ \A t \in TargetsOf(c) : outcome[t] # Pending
    /\ call' = [call EXCEPT ![c] = "sequential"]
    /\ todo' = [todo EXCEPT ![c] = Unserved(c)]
    /\ result' = [t \in Targets |->
                    IF Owner[t] = c /\ outcome[t] # Retry
                    THEN outcome[t] ELSE result[t]]
    /\ UNCHANGED <<context, outcome, jobVars, laneVars, pumping, workerVars, edition>>

\* One inspectText in the parent, with the context the call was given.
LintNext(c) ==
    /\ ~pumping
    /\ call[c] = "sequential"
    /\ \E t \in todo[c] :
          /\ \A u \in todo[c] : t <= u
          /\ todo' = [todo EXCEPT ![c] = @ \ {t}]
          /\ \E v \in {context[c], Uninspectable} :
                /\ v = Uninspectable => LintMayCrash
                /\ result' = [result EXCEPT ![t] = v]
    /\ UNCHANGED <<call, context, outcome, jobVars, laneVars, pumping, workerVars,
                   edition>>

Return(c) ==
    /\ ~pumping
    /\ call[c] = "sequential"
    /\ todo[c] = {}
    /\ call' = [call EXCEPT ![c] = "done"]
    /\ UNCHANGED <<context, todo, outcome, result, jobVars, laneVars, pumping,
                   workerVars, edition>>

-----------------------------------------------------------------------------
(* The workers and the project.                                                *)

\* The cache a worker has after prepareFor: filled once, failures included.
PreparedBy(l) == IF prepared[l] = None THEN {edition, Broken} ELSE {prepared[l]}

\* The worker of lane l posts its answer.
WorkerAnswers(l) ==
    /\ l \in working
    /\ working' = working \ {l}
    /\ \E p \in PreparedBy(l), kind \in Kinds :
          /\ kind = "context" <=> p = Broken
          /\ kind = "lint" => LintMayCrash
          /\ prepared' = [prepared EXCEPT ![l] = p]
          /\ inbox' = inbox \cup
                {[lane |-> l, job |-> current[l], kind |-> kind,
                  edition |-> IF p = Broken THEN 0 ELSE p]}
    /\ UNCHANGED <<callVars, jobVars, laneVars, pumping, edition>>

\* The settings that a preparation fixes change on disk, e.g. a dictionary is added.
EditSettings ==
    /\ edition < MaxEdits
    /\ edition' = edition + 1
    /\ UNCHANGED <<callVars, jobVars, laneVars, pumping, workerVars>>

\* Every call has returned and the process has nothing left to handle.
Quiescent ==
    /\ ~pumping
    /\ \A c \in Calls : call[c] = "done"
    /\ UNCHANGED vars

Next ==
    \/ \E c \in Calls : Submit(c) \/ Collect(c) \/ LintNext(c) \/ Return(c)
    \/ Pump
    \/ \E m \in inbox : HandleAnswer(m)
    \/ \E l \in Lanes : HandleError(l) \/ WorkerAnswers(l)
    \/ \E t \in Targets : Timeout(t)
    \/ EditSettings
    \/ Quiescent

Spec == Init /\ [][Next]_vars

\* The event loop serves every due timer and every settled promise, and a pump
\* it has begun it finishes.  Workers owe nothing: they may hang for ever.
Fairness ==
    /\ WF_vars(Pump)
    /\ \A t \in Targets : SF_vars(Timeout(t))
    /\ \A c \in Calls : SF_vars(Collect(c)) /\ SF_vars(LintNext(c)) /\ SF_vars(Return(c))

FairSpec == Spec /\ Fairness

-----------------------------------------------------------------------------
(* Properties.                                                                 *)

TypeOK ==
    /\ call \in [Calls -> {"idle", "waiting", "sequential", "done"}]
    /\ context \in [Calls -> Editions]
    /\ todo \in [Calls -> SUBSET Targets]
    /\ outcome \in [Targets -> Outcomes]
    /\ result \in [Targets -> Verdicts \cup {None}]
    /\ limit \in Nat
    /\ nextId \in Nat
    /\ id \in [Targets -> Nat]
    /\ jobs \subseteq Targets
    /\ dispatched \subseteq Targets
    /\ lanes \subseteq Lanes
    /\ current \in [Lanes -> Targets \cup {None}]
    /\ pumping \in BOOLEAN
    /\ working \subseteq lanes
    /\ prepared \in [Lanes -> Editions \cup {Broken, None}]
    /\ inbox \subseteq Messages
    /\ edition \in Editions

\* A job is in the pool exactly while a call waits for it and its promise is
\* unsettled: answers, crashes, timers and a failing `new Worker' racing for the
\* same job neither lose it (a call that waits for ever) nor settle it twice.
PoolHoldsThePending ==
    \A t \in Targets : t \in jobs <=> call[Owner[t]] = "waiting" /\ outcome[t] = Pending

\* pump() never hands a job to two lanes, whatever closes, answers or is created
\* between two pumps, so no text is inspected by two workers.
JobOnOneLane ==
    \A k, l \in lanes : k # l /\ current[k] = current[l] => current[k] = None

\* All gates together never have more workers than the limit the process owns
\* (pool.ts:6-7), however often lanes are closed and created again.
WorkersBounded == Cardinality(lanes) <= limit

\* A call returns with a verdict for each of its targets, from a worker or from
\* the sequential path: none is missing from the map, whatever happened to the
\* worker that had it (pool.ts:8-9).
NoTargetMissing ==
    \A t \in Targets : call[Owner[t]] = "done" => result[t] \in Verdicts

\* Nothing overtakes in the pool: a job is never on a lane while an earlier one,
\* even of another gate, still waits for its first.
FirstComeFirstServed ==
    \A t \in Waiting, u \in jobs \cap dispatched : id[u] < id[t]

\* Outside pump() a lane is free for the next job or holds a job of the pool:
\* workers persist and are shared by later runs and gates (pool.ts:5-6).
LanesServeThePool ==
    ~pumping => \A l \in lanes : current[l] # None => current[l] \in jobs

\* pump() leaves no job waiting while a lane of the limit is free or could be
\* opened: no wake-up is missed by any handler.
NoMissedWakeup ==
    ~pumping /\ Waiting # {} => Idle = {} /\ Cardinality(lanes) >= limit

\* Every call that waits for its jobs returns, even when every worker hangs.
CallsReturn == \A c \in Calls : call[c] = "waiting" ~> call[c] = "done"

\* The pool implements the promise of LintCalls: each target gets one verdict
\* that never changes, and a call returns only when all of its targets have one.
Promise == INSTANCE LintCalls WITH
    running <- {c \in Calls : call[c] # "idle"},
    returned <- {c \in Calls : call[c] = "done"},
    verdict <- [t \in Targets |->
                  IF result[t] # None THEN result[t]
                  ELSE IF outcome[t] \in Verdicts THEN outcome[t] ELSE None]

KeepsPromise == Promise!Spec
=============================================================================
