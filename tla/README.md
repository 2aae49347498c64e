# Formal models of agent-dev-flow

TLA+ modules that model parts of this repository, TLC configurations that check them on small
instances, and theorems about them that TLAPS proves for every instance. `PROJECT.json` maps each
definition to the lines it stands for, and lists runs, hazards, findings and theorems.

All paths below are relative to the repository. `textlint-guard/` stands for
`src/opencode/plugins/agentdev-textlint-guard/`, `skills/` for `src/common/skills/`, `gh/` for
`src/common/tools/agentdev-gh/`, and `close/` for
`skills/agentdev-workflow-case-close/scripts/src/`.

## 1. The system

agent-dev-flow lets coding agents run a development workflow: cases are Issues, large ones Epics
with child Issues that are worked on in parallel, and each case is closed by a mechanical
procedure. Most of the repository is documents for agents. The program consists of

- a plugin of the agent host (textlint guard) that inspects texts before a tool writes them, and all
  texts at a final gate;
- command line scripts of the skills, each a process of its own, that compute the next step of a
  workflow, check it, and keep records in files of the project;
- tools that read and write Issues and pull requests, at GitHub or in files (local issues).

There is no server and no database. The parts meet in files: the result store of the guard, the
ledger of a case, the acceptance record, the transition records, the files of local issues, and the
bodies of Issues. Nearly all of those files are read, changed and written whole, most of them in place.

### 1.1 Components

| Component | State | Operations | Meets | Hard behaviour | Correct when |
|---|---|---|---|---|---|
| Worker pool, `textlint-guard/lib/workers/` | pool (limit, jobs, lanes), one worker thread per lane with a cache of prepared rules, one promise and timer per job | `lintTargetsInParallel`, `pump`, `createLane`, `closeLane`, `onmessage`, `onerror`, timers, `lintTargetsSequentially`; in the worker `prepareFor`, `inspectText` | called by inspections; messages to and from workers | five handlers enter `pump`; answers, crashes and timers race for a job; a worker cannot be created | no job lost, settled twice or on two lanes; limit kept; every call returns with a verdict per target |
| Inspections and result store, `textlint-guard/lib/{runs,inspect,identity,result-store}.ts`, `plugin.ts` | result store (files, capped), last run; per run: prepared rules, hashed conditions, snapshot of the texts | `runInspection`, `acceptForProgress`, `guardOperation`, `storeFileResult`, `loadStoredFileResult` | worker pool; store shared by processes; files edited meanwhile | minutes between reading and judging; results stored before the end check; reuse | what is accepted is the project as it is, and clean under the rules in force |
| Configuration, targets, rules, engine bundle, `textlint-guard/lib/` | none | parse, enumerate, load | inspections | none | pure |
| Ledger of verification resources, `close/verification-resource*.ts` | one file per case | `registerResource`, `recordOccurrenceFact`, `recordDeletionConfirmation`, `markEntryCollected`, `recordEntryCollected`, `reclaimLedger` | processes of the case, close | whole-file read-change-write with no lock, truncation in place, kill at any point, retries | what was reported stays recorded; damage is not taken for absence; only what was reviewed is reclaimed |
| Close: mechanical steps, deletion confirmation, `close/close_mechanical_steps.ts`, `close/deletion-confirmation.ts` | acceptance record (file), ledger, worktree, branch | `runCloseMechanicalSteps` (pre- and post-merge), `writeCloseAcceptanceRecord`, `executeVerificationResourceReconciliation`, `runReclamation` | ledger, gh tool, processes of the machine | refusing record first, accepting record last; crash or edit of the Issue in between; a server restarted under a new pid | an Issue is only closed as it was accepted, and only when nothing of the case is left on the machine |
| gh tool, `gh/engine.ts`, `gh/close-acceptance.ts` | none of its own | operations with permission check and read-back, `verifyCloseAcceptanceForClose` | acceptance record, GitHub or local issues | a record written by another process, earlier | as above |
| Local issues, `gh/local/runner-local.ts` | a file per Issue, pull request, list of comments | create, edit, close, comment | gh tool, processes in parallel | number = largest + 1; temporary name by number; comments appended by rewriting | an issue is never half written; comments stay, under ids of their own |
| gh command line runner, `gh/runner-cli.ts` | none | calls `gh` | GitHub | precondition and request are apart | as above |
| Case auto, `skills/agentdev-workflow-case-auto/scripts/src/` | records of the children, slots, waves, questions | `planSlotAdmissions`, wave gate, queue of questions, reports | tasks, case-close, Epic table | tasks that fall silent, coordinators started anew | never more than the slots; no child worked on twice; none before its providers |
| Epic tracker, `skills/agentdev-epic-tracker/scripts/` | table in the body of the Epic; a write gate in the memory of a process, which nothing but its tests creates | `applyClosingStatus`, `resetChildToPending`, write gate | case auto, close | stale body, whole-body writes of two processes | only what was accepted is completed, and it stays so |
| Reflection, `skills/agentdev-issue-management/scripts/lib/` | none; pending targets of a call | `reflectWithRecovery`, `reconcile` | gh tool | lost replies, late visibility | written exactly as wanted, comments once |
| Phase transition store, `skills/agentdev-workflow-phase-transition/scripts/lib/store.ts` | one file of records | `applyRecord` | processes of a case | check, then write | one target per key |
| Third-party acquisition, `src/common/tools/agentdev-third-party/` | directories of third-party code | fetch, classify, replace | network, files | replacement not atomic | a whole copy or none |
| Case open and ready, `skills/agentdev-workflow-case-{open,ready}/` | worktree, branch and commit of a Definition | mechanical steps like those of close | git, gates | a step fails half-way, the script is run again | nothing committed that the gates refused |
| jev observation tool, write guards, distribution guard, traceability and document checks, final acceptance, phase themes, file managers, host adapters, integrity checks, installation scripts | none between calls | read, judge and report | documents | none | pure |

### 1.2 Where the weight lies

Four of these parts have more than one actor on state that matters, and they are the ones modelled:
the guard, which is the only concurrent program in the strict sense (threads, timers, promises) and
stands before every write of an agent; the ledger, the file with most writers and strictest promises;
the close of a case, where a machine, a workflow and other sessions meet on one Issue and its acceptance
record; and the orchestration of an Epic, where tasks, coordinator and closing agree through records
and a table in a text. Most of the other scripts are computations on texts.

## 2. Modules

| Module | Models |
|---|---|
| `LintCalls` | what the pool promises its callers: one verdict per target that never changes, and a call that returns only with all of them |
| `WorkerPool` | the pool and its workers |
| `WorkerPoolProofs` | theorems about `WorkerPool` |
| `InspectionRun` | gates, guarded tools, the result store, and editors |
| `InspectionRunProofs` | theorems about `InspectionRun` |
| `LedgerContract` | what the ledger promises: each operation happens at one point or not at all, and entries are lost in two known ways only |
| `VerificationLedger` | the operations on the ledger of a case |
| `VerificationLedgerProofs` | theorems about `VerificationLedger`, its refinement of `LedgerContract` included |
| `IssueTool` | the issue operations of the gh tool, on GitHub and on local files |
| `CaseContract` | what the close of a case promises: nothing is closed or removed but after a decision on an accepted version |
| `CaseClose` | how a case is closed: machine, workflow, other sessions; composes with `IssueTool` |
| `CaseCloseProofs` | theorems about `CaseClose` and, with it, `IssueTool` |
| `CaseContractProofs` | that `CaseClose` implements `CaseContract` |
| `EpicContract` | what the orchestration of an Epic promises of its children |
| `EpicRun` | case auto, the closing of children and the Epic's table |
| `EpicRunProofs` | theorems about `EpicRun` |
| `ResourceReconciliation` | the comparison of the ledger with what is observed on the machine, as operators |
| `ResourceReconciliationProofs` | theorems about the comparison, for every observation |
| `CaseResources` | what happens to the resources of a case until that comparison; composes with it |
| `CaseResourcesProofs` | theorems about `CaseResources` and the comparison |
| `MC...` | instances for TLC; `MCx_run.cfg` configures the run of that name |

### 2.1 WorkerPool

The parent is a JavaScript event loop, so a handler runs to its end. A handler and the `pump()` it
ends with are one uninterruptible unit: the handler is one action that sets `pumping`, the turns of
the loop in `pump()` are the actions `PumpCreateLane`, `PumpCreateFails`, `PumpDispatch` and
`PumpReturn`, and while `pumping` holds no other action of the parent is enabled. Worker threads are
not so bound: `WorkerAnswers` may happen at any time, a worker may never answer, and `HandleError`
may happen to any open lane, at work or idle.

`jobs` and `id` are the keys of the map `pool.jobs` and their insertion order, `dispatched` and
`current` the flags of a job and the `currentJobId` of a lane; `busy` is `current[l] # None`, since
the code sets and clears them together. Lanes have identities so that a late answer can be told from
one of a new worker; a lane closed is an identity free again once no answer of it is under way
(`FreeLanes`), which keeps the set finite. A worker that is terminated does not post any more, but what
it had posted before may still arrive: such an answer is in `inbox`, and `HandleAnswer` drops it.

The verdict on a text is represented by the `edition` of the settings it was reached under. An
edition stands for what `prepareInspection` fixes: configuration, engine, and whether the project has
a dictionary. The dictionary's content is read at each inspection and is not part of it (it is in
`InspectionRun`).

`disposeWorkerPool` (used by tests) and the exact time of the timers are left out: `Timeout(t)` is
enabled while the job is in the pool, which is when its timer is running.

### 2.2 InspectionRun

A run of the gate is a process whose steps are its reads and writes: `Prepare` looks for the dictionary and composes
the rules, `Start` hashes the conditions, `List` enumerates the targets and `Read` reads them one after the other,
`LookUp` looks each up in the store, `Inspect` inspects one text under the rules composed and the dictionary as it is
then. To store a result takes three kinds of steps, `Store` (the store is listed), `Prune` (one old result is
removed) and `Put` (the new one is renamed into place). The end check is as long as its reads: `Recheck` hashes the conditions
again, `Relist` enumerates, `Reread` reads one file after the other, and `Finish` decides. `AllRead`, `LookedUp` and `Inspected` only
lead from one loop to the next. A guarded tool takes the same
steps for the one text it is to write, and its `Decide` does not look again; `Write` is the tool.
`EditText` and `EditDictionary` interleave with everything, and so do the inspections.

Of the inspection conditions only the dictionary is kept, because it is the one the code reads three
times: existence when the rules are composed, hash when the conditions are computed, content when a
text is inspected. `Untracked` is the hash when a part could not be read. When a gate inspects more
than one text it uses workers, which compose their own rules later than the gate: `seen` collects
what they may have found (`Composes`). A process that is killed takes no further step, which every
behaviour of `Spec` may do at any point; nothing else depends on it.

`store` is a function from keys to the rules each result was reached under. The code makes room by
removing the oldest results by modification time; the model removes any (`Excess` says which sets may go),
so nothing rests on which ones the clock of the file system calls old. Each process removes what it listed (`doomed`)
while others list, remove and write. `disturbed`, `calm`, `during` and `most` are history: whom an edit of the dictionary
met, whether any did, the texts each file has had since an end check began, and the most processes that stored at
the same time.

Left out: the display of the last run (it is never accepted, `runs.ts:364`), the reconstruction of
the text that an edit would lead to, and a removal from the store that fails (the code ignores it until the next one).

### 2.3 VerificationLedger

Every operation is read and plan (`Register`, `Confirm`, `MarkCollected`, `RecordCollected`,
`Reclaim`), `Truncate`, `Fill` (or `Delete`), `Report`, and `Crash` may come between any two. With
several processes they interleave freely, as nothing in the code keeps them from it. `told` is
the history of what was reported as recorded; `review` is what the last confirmation was given for; `final` are the entries that reached the Issue or pull request
as the final record. A resource may be registered again as long as its registration was not reported.

The confirmation of a reclamation is a list of ids in the hands of the caller (`targetIds`). It can be used more than once, also when the ledger it was
given for is deleted and another begun whose ids start at one again. `outdated` records that a ledger was deleted since; from
then on equal ids mean nothing, and the only thing that holds back the reclamation is that every entry must be collected.

Validation of inputs is left out (a refused input changes nothing), and so are the evaluations of
completion, which only read. `Delete` is the `deleteFile` that the caller of `reclaimLedger` injects.
The command line of close gives its runner none (`close_mechanical_steps.ts:3984`), so there the
reclamation is refused; the module models the function with a caller that deletes, as its tests do.

`Contract` maps the module to `LedgerContract`. Its `entries` are those of the file, and while the file is
being filled or is deleted those in the hands of the process (`InFile`, `InWriting`, `InReport`). So an
operation takes effect with `Truncate`, or for a reclamation with `Report`: a process killed before has changed
nothing, one killed while it fills the file leaves it `damaged`, and a reclamation that is killed unreported
sets `lost`. `told`, `final` and `lost` are the history variables of the module.

### 2.4 IssueTool and CaseClose

`IssueTool` has the calls of the gh tool as sessions make them. On GitHub a request changes the issue
at once (`Change`) and only `issue_close` has two halves, the decision (`CheckClose`, `Decide`) and the
request (`Patch`). On the local backend a call reads the file, computes the next content, and writes it in
three steps: the temporary file is emptied (`Truncate`), filled (`Fill`) and renamed (`Rename`); a process may be killed
between any two (`Crash`) or the rename may give up (`RenameFails`). `Confirm` is the read-back, which is when a
comment is reported to its caller. The backend is a choice of the initial state.

`issue_update` is whatever its caller says. `Reworded` is a new text alone. `Reset` says something else of the state or the role: on the local
backend the caller's text is the whole file, `status` included (`runner-local.ts:714-724`), on GitHub labels can turn a case into
a tracking issue, which is closed without an acceptance (`runner-cli.ts:438-445`, `470`). `Retitled` is a new title or new labels, which on the
local backend makes the front matter anew and drops `comment_seq` (`runner-local.ts:727-736`). `reset` is the history of the Issues whose
state or role was set in this way.

A time stands for a revision (`updated_at`) and for what was written then, so that "the text is the one
that was judged" is an equation between times. `named` is the history of the comments reported,
`closings` of what `issue_close` has decided to close, as it was read.

`CaseClose` joins the machine (`close_mechanical_steps.ts`), the workflow that runs it, and everything else.
`flow.at` is the place in the machine or in the workflow; `RefuseFirst`, `Check...`, `Poll`, `Assemble`, `Accept` and
`Unaccept` are the pre-merge steps in the order of the code, `Reclaim`, `RemoveWorktree` and `RemoveBranch` the post-merge ones.
A check is its outcome: `trouble` names the one check that would presently find something, and `World` lets
it come and go while the checks run. `WriteOutcomes` is `writeCloseAcceptanceRecord` with its failures: the file is as
it was, torn, or removed when the new record would have refused. `MachineStops` is a kill anywhere.
The listing of branches may fail unnoticed, since its exit code is not looked at (`close_mechanical_steps.ts:3901-3909`): a branch that is not `seen` counts
as gone, so a report of success says little about the branch, and no property claims that it does.

`Contract` maps `CaseClose` to `CaseContract`: `accepted` are the versions that runs of the machine accepted (`judged`),
`decided` those that an `issue_close` of the case's Issue decided on (`closings`), and `issue` and `work` what there is. Everything else
(sessions, files, records, polls, faults) is a stutter. `CaseContract` says in a few lines what the machine, the tool and the workflow achieve
together and none of them checks alone. Its `Update` is the way around them, an update that sets state or role: it needs no acceptance, although
`docs/requirements/REQ-032.md:64` wants no such path. After one the contract still says that only an accepted version is decided on.

Left out: pull requests, labels, search and listing; validation of requests; an edit of a comment's
text (it renews the revision and that is all that is told apart). On the local backend, the operations on a pull request write
into the file of the case's Issue without renewing `updated_at` (`runner-local.ts:1205-1393`): what they
change is, as on GitHub, not part of what the acceptance is about, and `text` stands for the rest.
`Reclaim` has every outcome, since what the reclamation does to the ledger is in `VerificationLedger`. Through `main()`
of the machine it always fails, as the runner has no `deleteFile` (`close_mechanical_steps.ts:3984-4032`); this is one of the outcomes.

### 2.5 EpicRun

The coordinator is an agent that follows the references of case-auto and calls the code for every decision:
`Admissible`, `Admitted` are `planSlotAdmissions`, `CanComplete` and `CanClose` are `wave-gate.ts`, `ApplyClosing` and `ResetToPending`
the merge of a row in `epic-reflect.ts`. What the agent does between these calls (collecting, losing sight of a task,
repairing) is modelled from how the code uses its results, and marked external in `PROJECT.json`.

`task` is the truth about the executions, `records` what the coordinator knows of it. `alive` counts executions, since the
property that matters is that it never exceeds one. A child whose task does not answer is `unknown` and keeps its slot until
it is known to have ended. `Restart` rebuilds the records from what is on the Issues: reports, acceptances and rows; a
delegated child without a report is unknown again.

Two writers write the table, each in three steps: `Fetch` reads the body and merges its row, `Send` writes the
whole body or fails, `Verify` reads back. `Due` is what each has to write: the closing completions and the ends that are none (`blocked`, `failed`),
the coordination the same ends and the rows it gives back. They are processes of their own, and nothing keeps one from reading while
the other is about to write: `createEpicWriteGate` would be in the memory of one, and only tests create it. So an old body may undo a
row of the other writer. What is still due is written again, with one exception: a child that has ended with success whose row says `blocked` or `failed`
again (`Misread`) is nobody's to mend, since the closing only fills rows that are pending and the coordination only gives back those of children
that failed.

Children of `Merging` are not admitted while a dependent Definition merge is in flight (`inFlight`, `BeginMerge`, `EndMerge`).

Left out: the queue of questions, the overall evaluation, reports and `isWaveConverged`, which only compute for display.

### 2.6 ResourceReconciliation and CaseResources

`ResourceReconciliation` has no state: its operators are the functions of `close_mechanical_steps.ts` that compare a ledger with an
observation, from `deriveLedgerProcessAttribution` to `executeVerificationResourceReconciliation`. A name of an operator is
that of the function or of what it decides; the comments give both. Paths, urls and command lines are values
which are equal when their normalised forms are.

`CaseResources` is what happens before: servers start, are restarted under another pid or stop, of the
child, of its unit and of others; directories and remotes are made and removed; things are registered,
confirmed and collected in any order, as nothing in the code keeps an agent from it. `Observed` is what the machine then sees:
every live process, of which some attributes may be unreadable, and the recorded pids if it looks for them. A process that starts
takes any pid that is free at the time, recorded ones included (`MayTake`); the time is the number of starts (`clock`). `incarnations`
is the history that ties an entry to the processes it stands for, by when each started; no part of the code knows it. The entry of the unit's server may
name a directory of its own or the place of a known residue, and a residue whose path an entry has is skipped by the comparison, as in the code.

One process escapes the comparison, and the properties name it (`Mistaken`): with a declared population, a process whose pid is a
number that an entry of the unit records counts as that entry's (`close_mechanical_steps.ts:2013`), whosever it is. In TLC's scenario the
server of the unit is gone, that of the child comes up again under its pid, nothing that is recorded of it but its working directory can be
read, and the step passes while it runs. Without a declared population it does not, as the port the server listens on gives it away.

Left out: two different programs with one command line on the child's and the unit's side. There a restarted process can be
attributed to the wrong entry, and the code has no means to tell; the model keeps the commands of child and unit distinct, while the others run the
same command as the child. `evaluateDeletionConfirmation`, the comparison at the moment of a deletion, is represented by
the confirmations it lets through.

## 3. What is checked

| Run | Instance | Shows |
|---|---|---|
| `pool_safety` | gates of limits 2 and 1 with two targets each, 6 lane identities, workers may fail to start | type, `PoolHoldsThePending`, `JobOnOneLane`, `WorkersBounded`, `NoTargetMissing`, `FirstComeFirstServed`, `NoMissedWakeup` |
| `pool_live` | one gate, three targets, one worker at a time, inspections may crash, one edit of the settings | `KeepsPromise` (the pool implements `LintCalls`) and `CallsReturn` |
| `pool_leak` | as `pool_safety` | violation, finding 1 |
| `inspection_safety` | a final gate, an independent one and a tool, two of which inspect; two files, two texts, one dictionary, which forbids a word of one of them; room for one result; one edit | type, `StoredUnderItsRules`, `StoreBounded`, `AcceptedForCurrentFiles`, `AcceptedIsClean`, `IndependentIsClean` |
| `inspection_reuse` | a final gate with two files, and a tool; two edits | violation, finding 2 |
| `ledger_safety` | one process at a time, two resources, two crashes | type, `ReportsKept`, `DamageStays`, `ReclaimedAsReviewed`, `KeepsLedgerContract` (the ledger implements `LedgerContract`) |
| `close_safety` | the closer and one other session, both backends, two issues, one fault, one trouble out of three | type, `IssueWhole`, `CommentsKept`, `CommentIdsDistinct`, `ClosedAsAccepted`, `LatestDecides`, `PermittedIsOnRecord`, `KeepsCaseContract` (closing implements `CaseContract`), and `ClosesInTheEnd` |
| `close_records` | the closer alone, no fault | violation, finding 3 |
| `close_ids` | the closer and one other session, the local backend, one issue, no fault | violation, finding 4 |
| `epic_safety` | three children, two of Wave 1 that need nothing and one of Wave 2 that needs the first of them and whose start needs a merge; one slot; two things go wrong | type, `OneExecution`, `CompletedIsAccepted`, `KeepsContract` (the orchestration implements `EpicContract`), `EpicClosesInTheEnd` |
| `epic_overlap` | as `epic_safety` | violation, finding 5 |
| `resources_safety` | three pids and three starts, two of them before the machine's; a server recorded by its port or by its process, a remote, a residue, a unit's server, other programs | type, `PermittedMeansGone`, `NothingUnrecorded`, `CleanPasses` |

Bounds, and why they are enough:

- **Lanes, targets, gates** (`WorkerPool`). Two gates with different limits are needed for a job to
  wait behind another gate's and for the limit to grow while lanes exist; four jobs on two lanes
  leave jobs waiting, dispatched and settled at once. Six identities are more than two open lanes
  and all the answers of closed ones that four jobs allow: `PumpCreateLane` never lacks one. What
  does not depend on numbers is proved for all of them (section 4).
- **MaxEdits**. `inspection_reuse` needs two edits, the dictionary away and back. In `inspection_safety` there is one: a
  file or the dictionary is changed, made or deleted between any two of the reads and writes of two inspections. A second
  change of a file is what the tool writes.
- **MaxRuns** = 2: two inspections, of any two of the three actors, one after another or at the same time. What two leave for a third
  differs from what one leaves only in how much of it there is.
- **MaxEntries** = 1 in `inspection_safety`, where two inspections store up to three results: a result
  makes room by removing another, and two processes that store at the same time exceed the limit by one, which is what
  `StoreBounded` allows for.
- **Files** = 2: an end check that reads them one after the other can be passed by an edit, and a gate with two targets to
  inspect has workers.
- **MaxCrashes** = 2: a second process can be killed while it repeats the operation of the first.
  Two resources: one registered before the other and one after a review or a crash. The number of entries is
  bounded without a constant: a resource is registered again only after a crash, or after the ledger was reclaimed
  unreported.
- **Sessions, issues** in `close_safety`: one other session is every other one, since no property compares
  two of them; a second issue is needed for a number to be given and for a case Issue that is not the one
  being closed. **MaxTime** = 6, **QuietTime** = 2: the others make two changes, at any time, and the workflow still has its
  two writes, the close, and one repetition of each of the writes. **MaxFaults** = 1: one kill or failed write, at every place.
  **MaxTroubles** = 1 with three kinds: a check that is repeated, one that says nothing either way and is no
  step of the report, and one that ends the run; the other checks differ from these only in name. **MaxAttempts** = 2: a
  poll can be the last or not.
- **Overlap** = FALSE, **Careful** = TRUE in `close_safety`: one local call after another, and callers that renew `updated_at` when they
  replace a local issue, as `gh/local/README.md:26` demands of them. Without the first TLC finds `IssueWhole` violated
  (a shared temporary name), without the second `ClosedAsAccepted`; both are listed as hazards.
- **Children** = 3 with one slot: one runs while a second that needs nothing waits for the slot and a third for its
  provider and the merge. Four children with two slots are too many states; what more of them could do is proved (4.4). **MaxTroubles** = 2: a task can
  fail or fall silent and a second thing (a restart, a lost write, a refusal, a merge) happen to the same child.
- **Pids** = 3, symmetric, **MaxStarts** = 3: one process for the unit's server and two for the child's, which is enough for a restart; or for the
  child's and one of others with the same command line, before or after a restart; or the child's server comes up under the pid that the unit's had.
  **SelfStart** = 2: a process may have started before the machine or after it. The properties quantify over what was
  readable and looked for, so every state stands for all its observations.
- `CHECK_DEADLOCK FALSE` for the ledger, whose operations come from outside: when everything is
  collected there may be none left to call; and for `CaseClose` and `EpicRun`, where a closed case or Epic
  is the end. The other modules have a step for having finished (`Quiescent`, `AllEnded`) or never finish.

Fairness (`pool_live`). Weak fairness of `Pump`: a synchronous loop goes on. Strong fairness of each
`Timeout`, `Collect`, `LintNext` and `Return`: the event loop serves a due timer and a settled promise, even though
each is disabled again and again while a `pump()` runs. Nothing is assumed of workers: they
may never answer, never fail, never start. Nor must anyone call, or edit. The result is that a
waiting call returns by its timers alone.

Fairness (`close_safety`). Weak fairness of the machine's steps as one, of the workflow's, and of each other session's call that is under way:
a process that is not killed goes on. Nobody must call, no fault or trouble must occur or end: `ClosesInTheEnd` has as its
hypothesis that the checks find nothing from some time on. Fairness (`epic_safety`). Weak fairness of `Work` as a whole: as long as coordinator, tasks, closing or
writers can do anything, something is done. No single action is favoured, so the result rests on there being
no cycle of useless work. `EpicClosesInTheEnd` excepts what no step mends: a child that has ended with success under a row that an old body has given
back (`Misread`).

### 3.1 Findings

1. `pool_leak`, `textlint-guard/lib/workers/pool.ts:172`. When a worker cannot be created, all jobs
   are given back, those on lanes too, and their timers cleared, but the lanes stay busy. The answers
   find no job and are dropped before the lane is freed. Such lanes count against the limit until
   their worker crashes; with all of them taken, every later job waits out its timer. Verdicts stay
   right (`NoTargetMissing` holds), the pool is lost.
2. `inspection_reuse`, `runs.ts:267`. A run stores its results before the end check that may find it
   void, and keeps them when it is. A worker that prepared its rules while the dictionary was absent
   leaves a verdict under the key that names the dictionary; a later run, which nothing disturbs,
   reuses it. `IndependentIsClean` shows that the independent gate is not affected.
3. `close_records`, `gh/close-acceptance.ts:229`. The acceptance is bound to the revision of the Issue the pre-merge steps were
   given. The workflow is then told to update the Issue and to comment on it, and after that to call
   `issue_close` if the acceptance permits it. Its own writes have renewed the revision, so the call is
   refused. `ClosesInTheEnd` holds nevertheless: the case is judged again, and closed if nothing has to be recorded any more.
4. `close_ids`, `gh/local/runner-local.ts:727`. A title or labels given to a local issue make its front matter anew, without
   `comment_seq`. After the last comment was deleted its id is given again, which `comment_seq` is there to prevent
   (`case-schema/case-file.md:33`). Comments that exist together keep ids of their own (`CommentIdsDistinct`).
5. `epic_overlap`, `epic-reflect.ts:215`. Closing and coordination are said to exclude each other, also between processes
   (`epic-reflect-coordination.md:53`). The code has no such exclusion: a completion that the closing has read back is undone by the
   body that the coordination had read before. `EpicClosesInTheEnd` holds nevertheless, as the row is written again.

Not findings, but noted while modelling:

- A worker keeps the rules it prepared for all later gates (`lint-worker.ts:41`), and prepares them later than the gate that uses it first.
- Two operations on the ledger of one case at the same time can lose what one of them reported (`verification-resources-ledger.ts:557`; with two processes TLC finds
  `ReportsKept` violated). The documents promise that parallel Cases do not meet, not the operations of one.
- A confirmed reclamation can be repeated when ids have started anew (2.3), and `issue_update` can close a local Issue (2.4).
- The listing of branches is believed when it failed (2.4).
- The write gate's `void next.finally(...)` leaves an unhandled rejection although its comment says otherwise (`epic-reflect.ts:232`).
- Reflection rewrites the whole body of the Epic without reading it again (`issue-management/scripts/lib/runner.ts:97-126`).
- `git worktree remove` runs also when the input says not to (`close_mechanical_steps.ts:3888`), and an empty `autogenDerivedPaths` makes the
  check act on the whole tree (`close_mechanical_steps.ts:3768`).

## 4. What is proved

Every safety property that a passing run checks, the refinements included, is a theorem. Each proof module extends the module it is about,
and proves its safety properties for all values of the constants that satisfy the named assumption. A theorem that needs a hypothesis on the callers (`OneProcess`, `Careful`,
`Serialized`) states it; nothing else is assumed. The assumptions say that the
sets whose elements are counted are finite, that bounds are natural numbers, and that the constants standing
for "none", "absent", "broken" and the like differ from the values they are told from.

### 4.1 WorkerPoolProofs

All invariants of `pool_safety` (`TypeCorrect`, `PoolHoldsThePendingAlways`, `JobOnOneLaneAlways`,
`NoTargetMissingAlways`, `WorkersBoundedAlways`, `NoMissedWakeupAlways`, `FirstComeFirstServedAlways`),
and `PoolKeepsPromise`, `Spec => KeepsPromise`, the refinement of `pool_live`.

The inductive invariant `IInv` joins to the properties what the code keeps without saying so.
`PoolHoldsThePending` needs that an idle call left no trace (`IdleUntouched`): otherwise its
submission could enqueue a job already settled. `JobOnOneLane` needs that a lane only holds a job
that was dispatched (`HeldIsDispatched`): the next dispatch takes a job that was not. A type-correct
answer needs that a worker at work has a job (`WorkingHasJob`). `NoTargetMissing` needs to know
where a missing result may still come from (`ResultsAfterAwait`, `TodoUninspected`).
`OneAnswerPerLane` says that an answer under way is its lane's only one. It is the reason why
`current[m.lane] = m.job` identifies the lane, and it makes the verdict of a job change once in the refinement.

`WorkersBounded` and `NoMissedWakeup` do not depend on the rest and have inductive arguments of their
own over `TypeOK`. For the second, `pumping` is the point: every action that frees a lane, closes one
or adds a job leaves `pumping` true, and the only steps that reset it leave nothing to pump, or no
job at all. `FirstComeFirstServed` rests on `OrderInv`: the ids of the jobs in the pool are different
and below the next one. That a submission keeps it is a fact about numbering (`Numbering`): a target's
place among those of its call, counted by the smaller ones, is different for different targets and never
beyond their number.

### 4.2 InspectionRunProofs

All properties of `inspection_safety`: `TypeCorrect`, `StoredUnderItsRulesAlways`, `StoreBoundedAlways`,
`AcceptedForCurrentFilesAlways`, `AcceptedIsCleanAlways`, `IndependentIsCleanAlways`.

The invariant `IInv` follows a run that is not disturbed from step to step: the rules it composed are
those in force (`ComposedInForce`), so are the conditions it computed (`ConditionsInForce`) and the rules
each of its own verdicts was reached under (`InspectedInForce`); `TodoUnreused` and `TodoStorable` say
that what it is about to inspect or store was not taken from the store and is a verdict. From these,
`IndependentIsClean` follows without a word about the store. While the dictionary is edited only between
inspections (`calm`) nothing is disturbed (`CalmUndisturbed`), which carries `StoredUnderItsRules` through each `Put`,
and with it `ReusedInForce`: what was found in the store is in force too. `AcceptedIsClean` joins the two.

`AcceptedForCurrentFiles` has an invariant of its own, `EndInv`: while a gate reads everything again, `during` has every text
each file had meanwhile, among them the one it has now; each file that is read again and hashes as before had that text then, and one that the second
enumeration does not name was missing at that moment. Nothing makes these moments the same one.

`StoreBounded` counts. `StoreInv` says of any set of the processes that are storing: what of the store none of them is about to remove, and one result for
each of them, are together no more than `MaxEntries - 1 + most`. It holds for every such set, since any of them may write first. A process that lists the store joins
with what it leaves, a removal leaves no more than was to be left, and a process that writes gives up its place for its result.

### 4.3 VerificationLedgerProofs

`TypeCorrect` holds for any number of processes. Its invariant `NumInv` says that an entry's id is its
place in the file, in every content that is written, planned or reviewed; `NextIsFree` shows that the id
the code searches for is then the number of entries plus one.

`ReportsKeptAlone`, `DamageStaysAlone` and `ReclaimedAsReviewedAlone` are the properties of
`ledger_safety`, for any resources and any number of kills, under the hypothesis `OneProcess` that one operation runs
after another. Without it TLC finds `ReportsKept` violated. The invariant relates the file to
the plan of the process in each of its steps (`Alone`): a content that is planned extends what the file
says, the file is damaged exactly while it is filled or after a kill in that step, and what is about to be
reported is in the file or, for a deleted ledger, in the hands of the process. `Extends` (every entry is still there, with
the same resource and no fact less) is what makes facts survive. `ReviewCurrent` says the same of the review:
unless a ledger was deleted since (`outdated`) it still has every entry reviewed, so that equal ids mean equal entries. A confirmation may be used
again, and afterwards the property promises no more than `collected`.

`LedgerContractAlone` is the refinement of `LedgerContract`, under the same hypothesis. `OnRecordNow` computes from the one process's place
what the mapping gives, so that each step is compared with the contract in its own few lines. The point is `PlanIsOneChange`: what is
planned is one change of the ledger as it still is, a new entry under a free id or one fact of one entry (`AppendedExactly`,
`ReplacedExactly`), and what is to be deleted is collected. It is stable since nobody else writes between planning and
`Truncate`. This is what `OneProcess` is needed for: with two processes the second plans a change of a ledger that is no longer there.
`FinalIsCollectedAlone` follows from the contract alone: whatever reached the final records was collected.

### 4.4 EpicRunProofs

All invariants of `epic_safety` and its refinement, for any children, dependencies, Waves and slots: `TypeCorrect`, `OneExecutionAlways`,
`CompletedIsAcceptedAlways` and `ContractKept` (`Spec => KeepsContract`), without any hypothesis about the two writers.

The invariant ties what the coordinator knows to what is so. A child at work is active or unknown and holds a slot,
which is why the count of slots bounds the executions; a child that is neither is not at work, so an admission never
starts a second execution. A record that says accepted is right, so that `CanComplete` means accepted and `Admissible`
means that the providers are. What a writer holds in its hands is bounded by it, too: a row completed in a body that was
read is one that was accepted. `CompletionsKept`, which would
need that nobody writes between a read and a write, is what `epic_overlap` refutes.

### 4.5 CaseCloseProofs

All invariants of `close_safety`, for any sessions, issues, changes, kills and troubles and for both backends. Four theorems need no
hypothesis: `TypeCorrect`, `CommentIdsDistinctAlways`, `LatestDecidesAlways` and `PermittedIsOnRecordAlways`. Type correctness needs that the
numbers of the comments of a file are bounded and different (`Numbered`), so that a highest one exists also where `comment_seq` was dropped; the next number is
above it, which is `CommentIdsDistinct`. It needs, too, that a
request decided on GitHub finds its issue (`Backed`). The other two follow the record through every failed write (`RecordInv`).

`ClosedAsAcceptedCareful` has the hypothesis `Careful`, that callers renew `updated_at` with the text, and needs nothing about overlapping
calls. The code compares revisions and means texts; `VersionInv` is what makes the one stand for the other: over everything that is held
anywhere (in the file, in the temporary file, in a write under way, in the hands of the machine, among what was judged) equal revisions
have equal texts, and none is later than now. A step of the tool makes one new version at most, and that at a new time (`NewVersion`).
`AcceptedInv` says that a record that accepts names a revision that was judged, whatever write of it failed.

`IssueWholeSerialized` and `CommentsKeptSerialized` have the hypothesis `Serialized`, that calls of the local
backend do not overlap, or there is no local backend. Then the temporary file is, when it is renamed, what the one call under way has written
(`FilledIsNext`), however a killed call left it before. `Fits` relates a content to what was reported from
earlier ones: every comment that was confirmed and not deleted is there. It holds of each file and
of what is about to replace it. That a new issue replaces none needs `Segment`: the numbers in use are those up to some number, so that the largest plus
one is free.

### 4.6 CaseContractProofs

`CaseContractCareful` is the refinement of `CaseContract`, for any sessions, issues, backends, kills and troubles, with the hypothesis `Careful` of
`ClosedAsAccepted` and none about overlapping calls. Two things are new in it. `ToolClosed`: wherever a file of the case's Issue says
closed, or says that it is no case (the file itself, a temporary one left by a killed writer, a content about to be written), a close was decided or an update has set state or role
(`Justified`), since no other operation changes an open case into anything else. `CleansUpAfter`: the cleanup begins
only when the Issue was found closed, hence for the same reasons, and a repeated cleanup is one that began. Each step is then one of the
contract or changes nothing of it (`StepKinds`).

That a new issue never replaces the case's, also when calls overlap, needs that the number computed for it is not taken: it is one more
than the largest. That a bounded set of numbers has a largest one is an induction, which the provers do not do with an
operator for its hypothesis; `MaxExists` takes it from the library's fact that `<` on the naturals is well-founded: the distance to the
bound has a smallest value. `ClosedMeansAccepted` follows from the contract alone: if the Issue is closed, or worktree or branch is gone, then a close
was decided on an accepted text and revision, or an update has set the state or the role of the Issue.

### 4.7 CaseResourcesProofs

All invariants of `resources_safety`: `TypeCorrect`, `PermittedMeansGoneAlways`, `NothingUnrecordedAlways` and `CleanPassesAlways`, for any
pids, any choices of attributes recorded of a server, and any number of starts and restarts.

The invariant ties the ledger to the machine. `EntriesInv`: an entry of each kind says of its resource what it was
registered with, and ids are used once. `ProcessInv`: no two live processes started at the same time, a live process that stands for an entry (the recorded one or a restart of
it, told by its start and not by its pid) is a process of the entry's owner, and one that names the machine as its parent was started before it.

The rest is about the decision, `Passes`, in every state of the invariant. What is left of the child is a place or a process.
A place is seen, and then its entry is present, or it is a residue, or unregistered: each blocks (`PlaceLeft`, `ResidueLeft`,
`DirLeft`, `RemoteLeft`). A process that an entry names by its pid, or that is attributed to an entry, keeps this entry from being settled, and the
entry is the child's, since the unit's command line differs and the pid is not in its entry (`KnownLeft`). Any other is found as unregistered (`UnknownLeft`): it is not one of the
machine's own (`OwnAreInspections`, as a parent that started later is not believed), no ground names it, and it is
connected with the case, if a population is declared, by its working directory.

The exception is `Mistaken`: with a declared population a process under a pid that an entry of the unit names is not seen. Without one it is found by
the port the child's server listens on, which is the child's or unregistered (`PortLeft`).

`CleanPasses`, that close is not kept back for nothing, needs an invariant of its own: no process but the child's started when the recorded one
did (`StartsInv`). Hence only the machine and its inspection can look like a server of which just the
start is recorded; they look alike, so there are two candidates or none, and nothing is attributed (`NothingAttributed`).

### 4.8 ResourceReconciliationProofs

`CaseResources` gives the comparison the observations that its machine yields. These theorems are about every observation and every check,
so also those with parents, branches, worktrees, failed inspections and grounds that no run has.

`AttributedToOneEntry` and `AttributedOnce`: a restarted process is attributed to one entry at most, and an entry to one live process at
most, for which its command line or its start speaks. `OwnHasOwnParent` and `OwnStartedLater` are about the processes that are excused as the
machine's own. They are the least set with the machine that is closed under `ChildOf`, so a process without a parent among them is not one
(the set without it would do), and neither is one that started before the machine (those that started later are closed, too). The second has the hypothesis that
starting times are numbers and that the machine is in the listing. `PermittedMeansInspected`: what was not looked at never counts as gone, and
the confirmation covers every identifier. `PermittedAccountsForAll`: without a declared population nothing that was seen is left without a record or a ground; a known residue is no
such record, since finding it blocks. `DeclaringExcuses`: a declaration only excuses.

### 4.9 Only model-checked

`CallsReturn`, `ClosesInTheEnd` and `EpicClosesInTheEnd`: liveness under fairness is not in the prover's reach, nor is ENABLED.
No module has a recursive operator, so none is out of reach for that reason. The violations are found by TLC and need no proof.

## 5. Plan

Done: the guard, the ledger, the close of a case, the orchestration of an Epic and the reconciliation of resources, as
in section 2, with all their safety properties proved. What is left, most important first:

1. Reflection with recovery: writes whose replies are lost, read-back, rounds of retries, with the abstract specification
   "each write takes effect once".
2. The phase transition store, a second instance of the ledger's read-change-write, and third-party acquisition, where a
   directory is removed before it is copied anew.
3. The remaining evaluations of close as operators: `evaluateDeletionConfirmation` and the evaluation of the final acceptance.

## 6. Not modelled

- Parsing, formatting and pure analysis (configuration, rules, traceability, document checks, write guards, the files of
  requirements, designs and decisions, final acceptance): each is one computation on texts without state that another part
  changes. What a modelled part sees of them is a choice in the model: an inspection may fail, conditions may be unreadable, a
  check may find something.
- Reflection, the phase transition store and third-party acquisition have state and hazards, which are listed; they are next in
  the plan.
- Case open and case ready repeat the patterns of close (worktree, gates, commit) without a record another process acts on.
- The `gh` program, the network, git and the agent host: external, modelled from how the code uses them where it does.
- Scripts for installation and for the integrity of this repository, a third of its lines: not part of the program its users run.

## 7. Running

In this directory, with TLC, the community modules and TLAPS 1.4.5:

    tlc -workers 2 -config MCWorkerPool_safety.cfg MCWorkerPool
    tlapm WorkerPoolProofs.tla
    tlapm InspectionRunProofs.tla
    tlapm VerificationLedgerProofs.tla
    tlapm EpicRunProofs.tla
    tlapm CaseCloseProofs.tla
    tlapm CaseContractProofs.tla
    tlapm CaseResourcesProofs.tla
    tlapm ResourceReconciliationProofs.tla

`pool_safety` visits 1.9 million states, `pool_live` 73 thousand, `inspection_safety` 2.6 million,
`ledger_safety` 0.9 million, `close_safety` 1.7 million, `epic_safety` 180 thousand and `resources_safety`
1.1 million, each in at most three minutes.
