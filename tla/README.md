# Learning-BOT: a TLA+ verification development

Learning-BOT is a Python assistant: a Streamlit application (`app.py`) over a planner with an
executor and human approval, a LangGraph variant of that planner, a bounded agent loop, a
multi-agent workflow, a long-term memory, a RAG index and a FastAPI platform with a background
worker. This directory
holds TLA+ models of the parts that keep state and decide what happens next, the TLC
configurations that check them and the TLAPS proofs about them. `PROJECT.json` lists, for
machines, what this file says in prose; its `map` names the source lines behind every definition.

Run TLC with `tlc -config <X>.cfg <Module>.tla`, the proofs with `tlapm <Module>Proofs.tla`.

## 1. Inventory

State in brackets; **H** marks what is hard to test; *P* what makes the part correct.

| Part | State and operations | Interaction | H and P |
|---|---|---|---|
| `approval/` | [actions, approvals, receipts, workflows, audit: one SQLite file] propose, approve, deny, cancel, edit, expire on read, verify, start, record | called by the task runner and by every browser tab; one commit per statement | H: two tabs, read-then-write, multi-commit operations, crash between commits, expiry. P: nothing runs without, against or after the user's decision; at most once |
| `executor/` | [attempts, steps, process-wide execution gate] run a ready task, retry, stop at the gate, step limit | called by the planner runtimes; calls approval, tools, LLM | H: ambiguous failures, retry against limits. P: consequential tasks are never retried blindly, limits hold |
| `planner/` | [PlanState: tasks, statuses, revision, answer; persisted as JSON] validate, schedule, run, evaluate, replan, pause, resume | LLM plans and evaluates; executor runs tasks; repository persists | H: statuses of a graph of tasks over several revisions, crash, stale state in handlers. P: tasks run after their dependencies, at most once, a finished plan accounts for every task |
| `graph/` | [LangGraph checkpoint: plan and loop counters] the planner as nodes, routed by predicates, interrupted for approval | shares executor, scheduler, approval with `planner/` | H: crash between nodes, checkpoints lost, stale keys of the state, three cycles. P: the final status matches the final answer; a thread at rest is found again; an approval is used once |
| `multi_agent/` | [delegations, attempts, revision count, research, draft, review] manager decides, specialists work, finalize | LLM calls; used by the platform worker | H: loops of three counters. P: terminates within limits; never publishes a draft it knows to be stale |
| `platform_api/` | [runs, events, usage, documents in SQL] submit, claim, execute, cancel, index, approve, rate limit | HTTP handlers and workers share the database | H: claim races, stale cancel, dying worker, timeouts, idempotency. P: one worker per run, terminal statuses are final, one run per key |
| `memory/` | [memory records and events in SQLite] remember, supersede, expire, search, forget, clear | used by every session of the app | H: check-then-insert between sessions, partial supersede. P: one active record per key unless calls overlapped, the newest fact stands |
| `rag/` | [JSON index file, temporary file, stored originals] index, search, reindex, delete | called by every session of the app | H: unlocked read-modify-write, a shared temporary file, failures between the writes. P: chunks have a document; what the user is told holds |
| `tools/` | registry, validation, execution | called by task runner and agent loop | mocks and pure functions |
| `agent/`, `llm/`, `latency/` | [request gate, iterations, retries, time waited] bounded decision loop; serialized rate-limited requests | LLM | H: retry count against wait budget, the gate on every way out. P: the budget holds, every prompt is answered |
| `app.py` | session state; panels; one script run per session at a time | everything above | its approval panel and resume are part of the approval and graph models, its prompts and commands of the session model |
| `frontend/`, `prompts/`, `scripts/`, `migrations/`, `config.py` | none or declarations | | not modelled |

## 2. Plan

Order of importance; no module uses a RECURSIVE operator, so each can be proved about.

1. `ActionContract`, `ApprovalService`, `ApprovalServiceProofs`, `ApprovalSingleTabProofs`:
   **done**. `ActionContract` is the abstract specification, `ApprovalService` the detailed one
   that implements it; the second module of proofs is about a single tab with crashes and
   failing writes.
2. `TaskGraph`, `PlanRuntime`, `TaskGraphProofs`, `PlanRuntimeProofs`: what both planners share
   (plan, validator, replanner, scheduler, executor rules), and the planner under
   `planner/runtime.py`: **done**.
3. `GraphRuntime`, `GraphRuntimeProofs`: the LangGraph nodes over the same `TaskGraph`: **done**.
4. `RunQueue`, `RunQueueProofs`: submit, claim, execute, cancel, finish with several workers:
   **done**.
5. `ManagerAgent`, `ManagerAgentProofs`: termination and limits of the delegation loop: **done**.
6. `Sessions`, `MemoryStore`, `KnowledgeIndex`, `AgentLoop`, composed in `AssistantSession`, and
   `AssistantSessionProofs`: the app's sessions over memory, index and LLM gate: **done**.
7. Not begun: a sliding-window rate limiter with a clock; chunking and ranking, which are pure
   functions the repository's unit tests exercise well.

`MC<Module>` modules define what a configuration cannot write (records); each configuration gives
the bounds. There are twelve runs, four of which reproduce a finding. Every invariant, every action
property and the refinement that a passing run checks is also a theorem. What only TLC checks is
liveness (`DecisionTakesEffect`, `RunEnds` of three modules, `EveryRunEnds`, `PromptAnswered`),
which is out of the prover's reach.

## 3. The approval layer (`ApprovalService.tla`, `ActionContract.tla`)

### What is modelled

One consequential action is followed through all its versions: the rows of `actions` (one per
version), `approvals` (one per request), `receipts` (one per idempotency key, that is per
version), the workflow row `plan` that names the current version and request, the process-wide
execution gate and, per browser tab, where its script stands (`pc`) and what it holds in local
variables (`tab`).

| Model | Code |
|---|---|
| `OpenWorkflow`, `NothingWaits` | a script run of `app.py`: find the waiting workflow, show the panel or resume |
| `Decide`, `SaveDecision`, `SaveDecidedAction` | `approve`, `deny`, `cancel` |
| `Edit`, `SaveEdited...`, `SaveNew...` | `edit` and the workflow save of the editor |
| `Expires`, `ExpireRequest`, `ExpireAction` | `_expire_if_needed`, entered from any read |
| `Propose`, `ProposeRequest`, `Pause` | `request_approval` and parking the plan |
| `PersistRunning` | `PlanningRuntime.resume` |
| `CheckApproval`, `VerifyApproved` | `TaskRunner.check_approval` with `verify_approved` |
| `AcquireGate` ... `CloseAction` | `_run_tool` and `_run_tool_once` under the gate |
| `FinishPlan`, `Recover` | the persisted end of the run, and the handler of `resume` |
| `Lapse` | the clock passes the oldest open `expires_at` |
| `Crash`, `WriteFails` | the process dies; a statement raises |

Every committed write is a step of its own. What is merged: the SELECTs an operation issues one
after the other before its first write are one step; an audit insert belongs to the row write
next to it (its failure is still possible where it ends an operation in another state); the row
`_run_state` persists as running just before it parks or ends the plan is read by nobody, and is
part of `Pause` and `FinishPlan`. A payload stands for the validated arguments. Rows are written
whole and the digest is a function of the row, so the digest comparison compares a row with
itself and needs no variable. `updated_at` orders the requests of a version by the write that
stamped them (`newest`). Requests expire in the order they were created, since all get the same
timeout.

`effects`, `sent`, `consent` and `barred` are history variables: how often the tool acted per
version, on which payloads, which payloads were on the screen of a user who clicked Approve, and
which versions were rejected (or had lapsed when the plan was resumed). Operators whose comment
starts with "Mutant:" are deliberately wrong variants of the definition after them; nothing uses
them unless a mutation run substitutes them.

### Specifications and fairness

`Spec` is fault-free; `FaultySpec` adds `Crash`, `WriteFails` and `Recover`. `FairSpec` adds weak
fairness on `Proceed(t)` for each tab: a Streamlit script run that started executes to its end,
and `st.rerun()` starts the next. No user is ever obliged to click, and no request to expire.
A tab waiting for the gate is not enabled to proceed; weak fairness is enough because whoever
holds the gate leaves it and there are finitely many versions to take it for.

### Runs

| Run | Bounds | What it shows |
|---|---|---|
| `approval_single` | 1 tab, 2 payloads, 3 versions, 3 requests, 1 crash, 2 failed writes | with one tab, whatever fails: at most one effect per version, the effect is on the payload the user saw, one open request, a rejected or lapsed version never runs, what runs is the newest and stands approved, executed statuses stay |
| `approval_concurrent` | 2 tabs, 1 payload, 2 versions, 3 requests, `FairSpec` | with two tabs in any order: receipts tell the truth; the layer implements `ActionContract`, hence at most one effect and only after a grant; a decided workflow does not stay parked and nobody starves at the gate (`DecisionTakesEffect`, so no symmetry is used) |
| `approval_double_edit` (violated) | 2 tabs, 2 payloads, 2 versions | see findings |
| `approval_receipt_lost` (violated) | 2 tabs, 1 version, 1 failed write | see findings |

Why the bounds suffice: an operation touches one version and its successor, so three versions
show an edit of an edited version; requests are as many as versions since each version gets one
(a third in the two-tab run lets two edits of one version both create theirs); two payloads
distinguish "the payload shown" from any other; two tabs give every pairwise race. The safety
results are proved without these bounds, so that the bounds matter for liveness, for the two
violated runs and for the mutants.

### Findings

- `approval_double_edit`: both tabs show version 1. Tab A edits it to version 2 and looks at its
  preview; tab B, whose `edit` had read version 1 before, writes *its* version 2 over A's with
  `INSERT OR REPLACE`. A's approval of version 2 then runs B's arguments.
  `docs/STAGE8_HUMAN_APPROVAL.md:129-139` says approval binds to the canonical arguments and that
  this closes the time-of-check/time-of-use gap; the code binds it to the version only.
- `approval_receipt_lost`: the tool acted, the receipt's write fails, the exception becomes a
  failed task and the gate is released; a second tab that had verified the same approval finds no
  receipt and calls the tool again. `docs/STAGE8_HUMAN_APPROVAL.md:209-211` promises that a
  repeated execution returns the receipt instead.

### Observations that are no separate run

With two tabs, `BarredNeverRuns`, `RunsUnderLiveApproval`, `OneLiveRequest` and
`ExecutedStatusStays` do not hold (each tab writes back what it read: a denial confirmed in one
tab loses to an execution the other had verified; a late decision overwrites `completed`), which
is why they are checked with one tab.

Two tabs that read one pending request may deny and approve it: the approval saved last replaces a
denial the user has seen confirmed (`service.py:120-131`, `371-382`), and the tool may run,
whereas `docs/STAGE8_HUMAN_APPROVAL.md:159` calls denial and cancellation terminal. `Contract`
allows it, since a tab did approve. An approval can also expire between `verify_approved`, the last
look at the clock, and the call, for instance while the run waits for the gate; it is still
executed, whereas lines 156-157 say that an approval which expired before execution began fails
closed. Asked whether a denied request ever changes, or whether an execution ever begins under
an expired approval, TLC answers with these two traces within seconds.

A tab that resumes between the two writes of an approval
sees the request approved and the action not yet, and ends the plan as failed. A process that
dies after `PersistRunning` leaves the plan running, and `find_waiting_workflow` never offers it
again (`planner/runtime.py:94-95` wants to avoid exactly that for exceptions). A request stays
approved after its action was executed, and any later read of it past its time would mark the
action as expired (`service.py:399-402`); `ExecutedStatusStays` says that no read comes.

### What is proved

Everything here is from `ApprovalAssumption` only (the two null constants differ from the values,
the bounds are naturals).

**Any number of tabs** (`ApprovalServiceProofs.tla`), payloads, versions and requests. Whatever
fails, that is for `FaultySpec`:

- `TypeCorrectUnderFaults`, `ActsOnlyIfGrantedUnderFaults`: `TypeOK` and `EffectNeedsGrant`.

For the fault-free `Spec`:

- `TypeCorrect`: `Spec => []TypeOK`.
- `Invariance`: `Spec => []IInv`.
- `ActsAtMostOnce`, `ActsOnlyIfGranted`, `ReceiptsTellTheTruth`: `AtMostOnce`,
  `EffectNeedsGrant`, `ReceiptTruth`.
- `ImplementsContract`: `Spec => Contract`, the refinement of `ActionContract` under
  `granted <- {v : consent[v] # {}}`.

The properties are not inductive. `Frame` adds what every step keeps, with or without faults: the
gate is held by whoever stands in the critical section (`GateExcludes`), status "approved" in any
request goes back to a click (`GrantsAreReal`), and, for that to survive the writes of another
tab, a stored request never changes its version (`RequestsKeepVersion`) because nobody else holds
a fresh request id (`FreshRequests`) and every reference a tab or the plan holds was created
(`ReferencesHold`). `IInv` is `Frame` and `EffectsAreRecorded`: inside the gate no receipt exists
for the version before the call and no effect before it. That is what a receipt that could not be
written breaks, and why `AtMostOnce` and `ReceiptTruth` are for `Spec` only. One lemma per action
shows that it keeps its invariant; the refinement maps `CallTool` that acted to `Perform`,
`SaveReceipt` to `Settle` or a stutter, an approving `Decide` to `Grant`, and everything else to a
stutter.

**One tab, whatever fails** (`ApprovalSingleTabProofs.tla`): under `OneTab` (`Tabs` is a
singleton) and for `FaultySpec`, with any number of crashes, failing writes, versions and
requests:

- `SingleActsOnce`, `SingleConsents`, `SingleAsksOnce`: `AtMostOnce`, `ConsentBeforeEffect`,
  `OneLiveRequest`.
- `SingleBarredNeverRuns`, `SingleRunsUnderLiveApproval`, `SingleExecutedStatusStays`: the action
  properties of those names.

The inductive invariant, beside `Frame`, is `SingleInv`. With one tab, what the script read cannot
change under it, and the invariant says so label by label: it works on the references of the
plan (`TabRefers`), the request still has the status that brought it there (`RequestAsRead`), and
the arguments are those it read (`PayloadAsShown`), so that what a request approves was on the
screen (`ApprovedIsShown`). An edit interrupted between two writes must not leave two requests
that could both run: a version has one request and at most one stands (`OneRequestEach`), and
while the plan's stands no later version was begun (`Frontier`). A rejected or lapsed version
cannot pass the check before the gate (`BarredStays`). Last, nothing has acted until the one call
of the one plan, and after it the plan never waits again, whatever happens to the receipt
(`ActsLast`); so the lost receipt of the finding needs a second tab.

The hypothesis `OneTab` is needed: `approval_double_edit` violates `ConsentBeforeEffect` with two
tabs, `approval_receipt_lost` violates `AtMostOnce` with two tabs and one failing write.

Only model-checked: the liveness property `DecisionTakesEffect`.

### Not modelled here

Risk levels and policies (only actions that need approval are followed), the audit table's
content, several actions of one plan (each has its own rows, gate order is free), the arguments'
canonical form. The LangGraph approval path is in `GraphRuntime` (section 7).

## 4. The plan (`TaskGraph.tla`, `PlanRuntime.tla`)

### What is modelled

One plan from its creation to its end, under `planner/runtime.py` with the validator, the
scheduler, the executor's retry loop, the goal evaluator and the replanner. A task is its
position in the list. The LLM's answer is any set of `Drafts` the validator accepts. The state is
the plan in memory (`plan`), the object `resume()` holds when the replanner has swapped in a copy
(`held`), the durable workflow row (`saved`), what the approval layer answers per task
(`verdict`), the tools switched on (`enabled`, chosen anew by each script run) and where the
script stands.

| Model | Code |
|---|---|
| `CreatePlan`, `Resume` | `run`, `resume`; `Valid` is `PlanValidator.validate` |
| `ContinueWaiting` | the waiting task at the top of `_run_state`, `GateAnswer` is `check_approval` for a task proposed before |
| `BeginPass`, `RefreshTask` | `scheduler.refresh`, one step per task of its single pass |
| `StartTask`, `AskApproval`, `Pause` | the executor's start of a ready task, its gate, the parked plan |
| `Attempt`, `Act`, `StepLimit` | the attempts of `run_task`: retried, never retried, limit reached |
| `Evaluate`, `Replan`, `ReplanFails` | `evaluate` with the objective gaps, `replan` with `Retire` and `Acceptable` |
| `CancelPlan` | the cancellation check at the top of the loop |
| `Raise` | the LLM client raises in the evaluator or the replanner |
| `Crash` | the process dies |

Left open or abstracted: priorities (any ready task may be first); a task's inputs, since the
validator ties every input to an output of a dependency; the ambiguity of receipts and several
tabs, which are the approval model's (`Decide`, `Expire` and `GateAnswer` are what of that layer
reaches the plan); retrieval is always available; the repair attempts of the LLM planner are a
repeated choice of the same answer. Calls of the user interface's progress callback have no effect.
`Raise` is an exception of the LLM only: a failing write of the workflow row, which enters the same
handler of `resume()`, is the approval model's (`WriteFails`, `Recover`), and `EndAccountsForAll`
is not claimed for it.

### Run `plan_runtime`

Three list positions, at most two required tasks at once, one revision, one retry, three steps,
one consequential tool. The drafts: a plain task that needs nothing, the second, or (optional)
the third; a task of the tool; document retrieval after the first task. So the list can be out of
dependency order, a revision's task can depend on a task of the first plan, tools can be
proposed in the first plan and again in the revision, and both the step limit and the retry limit
are reached. The properties: the tool acts at most once per task and only approved; a denied or
completed tool is not proposed again; one question at a time; a plan that ended leaves nothing
under way and, if completed, no required gap; tasks run after their dependencies; every script
run ends.

`FairSpec` is weak fairness of the script's own steps: calls of tools and of the LLM return
(each has a timeout in its client). The user, expiry, crashes and cancellation are free. Deadlock
is checked; `Over` stands for a plan that ended, or that a dead script left running.

### Finding

`plan_history` (violated): `resume()` keeps the plan object it read. When the plan is replanned
the replanner works on a copy; if the evaluator or the replanner then raises, the handler at
`planner/runtime.py:96` persists the object from before the revision: completed tasks of the
revision, the side effects among them, vanish from the durable plan. `README.md:717-718` of the
repository says completed tasks and outputs are immutable and failed work remains visible.

### Observations

- `refresh` makes one pass, in list order. With three required tasks listed against their
  dependencies, the end of the chain is still pending when its dependency has become blocked in
  the same pass; if nothing else is ready the plan ends so. `docs/STAGE7_PLANNER.md:135` says
  downstream tasks become blocked.
- `_retire_unfinished` cancels what a revision supersedes, and a cancelled task of a tool bars
  that tool: a tool that was only superseded counts as refused.
- A tool task that fails at the gate (tool off, approval not storable) is failed, not denied, and
  the revision may propose its tool again.
- A retrieval task completed without evidence is an objective gap that no revision can retire,
  for completed tasks stay as they are: such a plan never ends as completed.
- An exception of the evaluator inside `run()`, or a crash, leaves the row running; it is never
  offered again.

### What is proved

`TaskGraphProofs.tla` holds the lemmas about the shared operators, cited by both planners: what
the steps of scheduler, executor, validator and replanner leave of a plan (`WithStatusMoves`,
`SettledMoves`, `RefreshedAtMoves`, `ExtendFacts`, `RetireFacts`, `PlannedFacts`, `RevisedFacts`)
and that each keeps the plan `Sound`: the list has no gaps, a task that was let start has its
dependencies completed, and one task at most waits.

`PlanRuntimeProofs.tla`, for all drafts, tools, list lengths and limits, from `PlanAssumption`
(three kinds of tasks, drafts are drafts, limits are naturals) and for `Spec`, with crashes and
failing LLM calls:

- `Invariance`: `Spec => []IInv`, and `TypeCorrect`.
- `ActsOnce`, `StaysRefused`, `OneQuestion`, `EndAccounts`: `ConsequentialOnce`,
  `RefusedStaysRefused`, `OneQuestionAtATime`, `EndAccountsForAll`.
- `RunsDependenciesFirst`: the action property `DependenciesFirst`.

The difficulty is that three objects may be persisted: the plan in memory, the durable row, and
the object `resume()` holds. So each conjunct of `IInv` speaks of all three. `ScriptInv` says
how they agree by label; `ObjectInv` that all are `Sound`; `AttemptInv` that only the task in the
executor is under way, and only in memory, so that no handler persists a task half run;
`WaitingInv` that a request is pending only while its task waits in the durable row; `ActedInv`
that a task that acted was granted and is over in memory and in the row, as long as the plan goes
on. `RevisionInv` says that a tool proposed again in a later revision had come to nothing, and
`EndInv` that a pass leaves pending only what cannot run, and that the object the handler may
persist after a replan accounts for its tasks too, though it is the older one.

Only model-checked: `RunEnds`, that every script run ends.

## 5. The run queue (`RunQueue.tla`)

### What is modelled

HTTP handlers and workers of `platform_api` that share nothing but the database. The state is
the table of runs (status, idempotency key, cancellation flag, result, and the last lifecycle
event of `run_events` as `told`), the status of each document, what each worker holds (`pc`, the
run or document, the trace events still ahead, the flag as it read it) and what each request in
progress holds (the key it looked up, or the run and the status it read). A step is a committed
transaction, or a read that a later statement acts upon. A run's number is its place in the order
of `created_at`.

| Model | Code |
|---|---|
| `Submit`, `Insert` | `create_run`: look the key up; commit run and first event, or meet the unique constraint |
| `ReadRun`, `Cancel` | `stop_run` reads the run, `cancel_run` writes by that reading |
| `Upload` | the row of `upload_document` |
| `LookForDocument`, `TakeDocument`, `IndexDocument` | `_claim_document` (select, conditional update), `_index_document` |
| `LookForRun`, `TakeRun` | `claim_next_run` (select, conditional update) |
| `Start`, `Boundary`, `Raise`, `Return` | `_execute_run`: first event; each trace event looks at the flag; the agents raise or return |
| `Save`, `Stop`, `Fail` | the last transaction, the handler of a cancellation, the handler of everything else |
| `TransactionFails`, `Die`, `Restart` | a commit that raises inside `try`; a process that dies; the container's restart |

What the agents do between two trace events is not visible to the queue, so a run is a number of
boundaries that ends in an answer or an exception. Timeout and budget are raised at a boundary or
after the answer, as exceptions like the others. `WAITING_FOR_APPROVAL` is declared in
`models.py` and set by no code; it is left out. Indexing always fails: `runtime_adapter.py:163`
builds `JsonVectorStore` without the embedding model it requires, so `_index_document` ends in
its handler.

`started`, `lost` and `early` are history: how often a run was started, the runs whose worker
died, the runs cancelled while a look at the flag was still to come.

`FairSpec` is weak fairness of each worker's own steps: `worker.py` polls in a loop, calls of the
agents return (their clients have timeouts), and the compose file restarts a worker's container.
Clients owe nothing, and failures are never obliged to happen. The embedded worker thread of a
development server is not restarted when it dies, which `FairSpec` does not cover.

### Runs

| Run | Bounds | What it shows |
|---|---|---|
| `run_queue` | 2 workers, 2 requests, 2 runs, 1 key, 1 boundary, 1 failure | one execution per run, one run per key, early cancellations honoured, the stream ends with the status, ended runs stay ended |
| `run_queue_liveness` | 2 workers, 1 request, 1 run, 1 document, 2 failures, `FairSpec` | every accepted run ends unless its worker died with it; one worker per document |
| `run_queue_stale` (violated) | 1 worker, 1 request, 1 run | see the finding |

Claims, keys and cancellations are races of two; the second run lets a worker be busy while
another is queued, and the key be taken or free. One boundary gives the three positions a
cancellation can have: before it, after it, after the flag was read. The invariants are proved
for any number, so the bounds matter for the mutants and the liveness only.

### Finding

`run_queue_stale` (violated): a request reads a queued run; the worker claims and completes it;
the request sets it to cancelled all the same, by id. So a completed run, with its result, turns
cancelled. `docs/STAGE11_PRODUCTION_PLATFORM.md:82-90` draws no arrow out of a terminal status.

### Observations

- A run whose worker died stays `running` for ever: nothing looks for it, and its idempotency key
  returns it to every later submission.
- A run that was cancelled between claim and start is executed up to its first boundary, and a
  run cancelled after the flag was read is overwritten as completed; its stream then holds
  `run.cancelled` before `run.completed`. `StreamEndsRight` holds since the status follows.
- Usage is recorded for completed runs only, so failed and cancelled ones cost nothing.
- `docs/STAGE11_PRODUCTION_PLATFORM.md:131` walks through an upload that becomes indexed.

### What is proved

`RunQueueProofs.tla`, for every number of workers, requests, keys, runs, documents, boundaries
and failures, from `QueueAssumption` and for `Spec`, which includes the failures:

- `Invariance`: `Spec => []IInv`.
- `RunsExecuteOnce`, `KeysAreUnique`, `EarlyCancelHonoured`, `RunningRunsHaveWorkers`,
  `StreamsEndRight`: what the runs check, and that a running run has a worker unless its worker
  died.
- `EndedRunsStayEnded`: the action property `StaysTerminal`, from `IInv`.

What makes them inductive: what workers and requests point at exists (`PointersHold`); whoever
holds a run holds one that is running or was cancelled under it, and nothing was started before
its claim (`HoldersRun`), so that the conditional update excludes a second holder; an early
cancelled run carries its flag and nobody about to save it has missed it (`EarlyFlagged`). The
proof splits `IInv` into a part about runs and a part about items, and has one lemma per kind of
step (a worker that holds nothing before and after, one that goes on with its run, one that
claims, starts, finishes or dies; a request that inserts or cancels), from which the lemma of
each action follows.

Only model-checked: `EveryRunEnds`, for liveness is out of the prover's reach.

## 6. The team (`ManagerAgent.tla`)

### What is modelled

One run of the multi-agent graph: a manager node that decides, three specialist nodes that each
leave an artifact and return to it, and the final node. The state is what the graph's state holds
for control: which specialists the goal asks for (`needs`, any subset, since `classify_goal`
looks for three independent sets of words), the status of the three artifacts (with the verdict
of a review), attempts per specialist, delegations, revisions, the last decision, and the node
that runs next. `steps` is LangGraph's count of nodes, `basis` a history variable that remembers
which attempts the draft and the review are about.

| Model | Code |
|---|---|
| `Decision`, `Open`, `NeedsWork`, `SentBack` | `ManagerAgent.decide`, `_needs_retry_or_work` |
| `Manager`, `NextNode` | the manager node, `route_after_manager` |
| `Researcher`, `Writer`, `Reviewer`, `Return` | the specialist nodes with `_specialist_update`; which older artifacts each clears |
| `Finalize` | the final node |
| `Abort` | a cancelled run (the trace callback raises) or an exception no node handles |
| `Goto`, `RecursionLimit` | LangGraph's limit as `_graph_config` sets it; meeting it is the node `exceeded` |

What a specialist does inside (retrieval, search, the request to the model and its repairs) is its
outcome: an artifact, or a failure. All of these fit the run queue: each node is one trace event,
so the boundaries of a run there are at most the `2 * MaxDelegations + 2` nodes proved here.

### Run `manager_agent`

Eight delegations and one retry, as configured by default, and two revisions (one more than the
default, so that a second revision of a draft occurs). Every goal and every sequence of outcomes
is covered, and nothing else is bounded. `NothingStale`: the draft is about the newest evidence
and the review about that draft. `RecursionLimitUnmet`: LangGraph never cuts a run off.
`FinishJustified`: a run with delegations left finishes only when all asked-for work is done or
has failed on its last retry. `RunEnds`, under weak fairness of the nodes (model calls have a
timeout): every run ends by its own limits.

### What is proved

`ManagerAgentProofs.tla`, for every value of the three limits, from `TeamAssumption` (they are
naturals): `Invariance` (`IInv`), `DecisionsAreCurrent`, `LimitsHold` (the counters add up and
keep their limits), `NeverCutOff`,
`FinishesForAReason`. `RoutesHold` makes the properties inductive: a specialist runs only where
the last decision sent it, with a delegation left, the reviewer only with a draft, and at the
manager the nodes are at most twice the delegations. `RunEnds` is only model-checked.

### Observations

- Attempts count successes too: after a completed first draft, a revision that fails is not
  retried with the default of one retry, and the run finishes without any draft, for the failed
  artifact replaced the completed one. `docs/STAGE10_MULTI_AGENT.md:100` says failures get a
  limited retry.
- A verdict `research_required` never counts as a revision: a reviewer that keeps asking for
  research uses all delegations, whatever `max_review_revisions` says. The run may then end just
  after new research, when the draft has been cleared.
- `needs_review` without `needs_writing` reviews nothing.
- The branch of the reviewer node for a missing draft is unreachable (`RoutesHold`).
- The platform caps delegations by the limit of model calls, but a delegation can take two calls
  and the answer one more: a run can fail on its budget after all its work is done
  (`worker_service.py:79-81`).

## 7. The graph (`GraphRuntime.tla` over `TaskGraph.tla`)

### What is modelled

One LangGraph thread, from `start()` to its end. `thread` is the latest checkpoint: the channels
of `GraphAgentState` that control anything (plan, current task, evaluation, answer) and the node
that comes next. One action is one node with its outgoing edge. `verdict` and `receipt` are what
the approval layer answers for each task, `enabled` the tools switched on, `live` whether an
invocation is under way.

| Model | Code |
|---|---|
| `Start`, `Resume`, `Decide`, `Expire` | `start()`, the script run that finds the decided thread, the approval panel, the clock |
| `Plan`, `PlanFails` | node `planner` |
| `RouteTask` | node `task_router`: the whole pass of `scheduler.refresh` (`Pass`), first ready task, else evaluate |
| `AskApproval`, `FailClosed`, `Refused`, `StepLimit`, `Attempt`, `Replay`, `Act` | node `execute_task`: the gate, the step limit, one attempt, the receipt that stands for a call, the call |
| `RetryTask` | node `retry_task`, which goes straight back to `execute_task` |
| `Interrupt`, `ApprovalResumed` | node `approval`: `interrupt()` returns, or the request is decided |
| `Evaluate`, `EvaluateFails`, `Replan`, `ReplanFails`, `ReplanRaises`, `Finalize` | nodes `evaluate`, `replan`, `finalize` |
| `Crash`, `CrashAsking`, `CrashActing` | the process dies between two nodes, or in the executor after a request or a call went out |

The library writes checkpoints in the background (durability "async"), so a dying process may
leave an older one. Of those only a checkpoint whose next node is `approval` matters, for
`find_waiting_run` looks for no other: `parked` is the one that may be left. `credit` counts the
approvals of a task's actions that its tool has not used up; a second call is not charged when
the first left no receipt, which is the gap the finding `approval_receipt_lost` is about.

Left out: the error branch of the approval node (request rows are never deleted, and an error of
the repository leaves the node as an exception, which is a crash here); edits of a waiting action
(they keep a request pending, and are `ApprovalService`'s); the library's recursion limit
`max(100, 8 * steps)`, which the bounds stay far below; two tabs that resume one thread at the
same time (two tabs that act are `ApprovalService`'s).

### Run `graph_runtime`

Plans of at most three tasks (a plain one, one of the consequential tool, optional retrieval),
two revisions, one retry, three steps, one death of the process. Two revisions are needed because
an evaluation outlives the revision it was about. `OncePerGrant`: an approval is used once,
whatever checkpoint is found again. `EndJustified`: "completed" exactly with the answer to the
goal, and without gaps. `StoppedIsFound`: a thread at rest has ended or waits where it is found,
unless the process died or the replanner raised. `RunEnds`: every invocation returns, under
`FairSpec`: weak fairness of the nodes, since the library goes on by itself and clients have
timeouts; user, clock and crashes owe nothing.

### What is proved

`GraphRuntimeProofs.tla`, for any drafts, limits, tools and number of crashes, from
`PlanAssumption` and `GraphAssumption`, and over the lemmas of `TaskGraphProofs`:

- `ActsOncePerGrant`: `OncePerGrant`, from `GrantInv`, which adds that an approved action without
  a receipt has an unused approval (`ApprovedIsGranted`). It speaks of approvals only, so it holds
  whatever checkpoint a crash leaves.
- `Invariance`: `Spec => []IInv`, and `TypeCorrect`.
- `EndsJustified`, `StoppedFound`: `EndJustified` and `StoppedIsFound`.

`IInv` says the same of the latest checkpoint and of the one a crash may leave, since the next
invocation starts from either: `Checked(c)`. Its parts relate the node that comes next to the
channels: to the task it works on (`AtTask`), the plan's status (`StatusOK`), the evaluation and
the answer, which keep what earlier revisions left there (`EvaluationOK`, `AnswerOK`), and the
tasks, none of which can still run once the plan goes to its evaluation (`AccountOK`). `EndOK` is
`EndJustified` for a checkpoint, `RestsOK` is where an invocation may return.

`AccountOK` rests on `PassRefreshes`: the whole pass of the scheduler leaves pending only what
cannot run. `Pass` is a recursive function over the task list. The library's induction theorem
takes a predicate, which the provers cannot instantiate; `SetInduction` states induction for a
set of numbers instead (from the well-foundedness of `<`), and `UpToExists` shows with it that
the recursive function exists, `PassRefreshes` what it computes.

Only model-checked: `RunEnds`.

### Observations

- When the evaluator's LLM fails, `route_after_evaluation` still reads the evaluation of an
  earlier revision: if that said "replan" and a revision is left, a plan just marked failed is
  revised and goes on.
- `finalize` marks an unsatisfied plan as failed only if it has no answer yet
  (`graph/nodes.py:339`), and the text of a pause stays in the answer: a run whose action was
  refused can end as "evaluating" while it tells the user that it waits, whereas
  `docs/STAGE9_LANGGRAPH.md:76` says the node produces the terminal result. `EndJustified` admits
  this for threads that asked the user or were revised twice, and for no other.
- A failure of the LLM in the node `replan` is not caught; the thread is never found again.
- A thread whose process died anywhere but at the approval node is never opened again.

## 8. The sessions (`AssistantSession.tla`)

### What is modelled

Several browser sessions of one Streamlit process, each running one script at a time, over three
shared things. `AssistantSession` composes their modules: a step of a session is a step of one of
them and leaves the others alone; `script` says what the run does and which candidates are still
to be remembered.

| Module | State | Actions and code |
|---|---|---|
| `MemoryStore` | `rows`, in the order stored; `memory`, the call each session is in | `Remember`, `Match`, `Store` are the three transactions of `MemoryService.remember`; `Select`, `Delete` those of forget and clear; `MemoryFails` a failing one |
| `KnowledgeIndex` | `file`, `temporary`, `originals`, `job` per session | `Look` ... `Purge` are the steps of `index_pdf`, `reindex_document`, `delete_document`; `Read`, `Spool`, `Replace` the read-modify-write of every store operation; `CallFails` an exception and the handler it meets |
| `AgentLoop` | `gate`, `loop` per session | `Iterate`, `Route` are `run_agent_loop`; `Acquire` ... `StreamEnds` the serialized request with its retries |
| `AssistantSession` | `script` | `Prompt`, `RememberCommand`, `ForgetCommand`, `IndexCommand`, `RememberNext`, `AnswerPrompt`, `EndScript` of `app.py`; `Abandon` is a rerun that stops the script, or the death of the process |

A memory candidate is one the policy let through, with its normalized key and content; deleted
rows are gaps. No caller gives a memory an end of validity, so expiry is left out. The index file
is read and written whole; its text is written at once, so nobody reads half a file, but the
temporary file is shared: another session may take it, and its owner then fails. `told` and
`contested` are history: what the page last said of a document, and the documents two calls
worked on at once; `checked` and `matched` in a row are the number of rows its writer saw.

### Run `assistant_session`

Two sessions, two script runs (each may be a prompt, a memory command or an index call), one key
with four contents, one of them an inference, a text that states a fact and its correction, two
documents of which one may be indexed before, two iterations, two retries, a waiting budget of
three and delays of two. Races are between two sessions, and two script runs are two sessions at
once or one after the other; the text with two candidates is what three calls would show.

- `TwinsOverlapped`: two active memories of one key or one content come from overlapping calls.
- `LastFactStands`: a superseded fact has a successor that is not superseded.
- `ChunksAreListed`: no chunk without a listed document, no indexed document without chunks.
- `ReportsHold`: what the user was told of a document holds unless calls overlapped.
- `WaitWithinBudget`: waits and retries keep their bounds, and only the gate's holder requests.
- `PromptAnswered`, under `FairSpec`: every script run ends.

The delays use up the budget before the retries, so of the two bounds in `WaitWithinBudget` this
run reaches the budget only; `BudgetHolds` proves both for all values.

`FairSpec` is weak fairness of each session's script: its thread is scheduled, and calls of the
provider, the embedder and the database end. The gate is a plain lock and not fair; a script
waits only for finitely many others. Users owe nothing.

### What is proved

`AssistantSessionProofs.tla`, for any number of sessions, keys, documents, script runs and any
configuration, from the assumptions of the four modules: `TypeCorrect`, `TwinsNeedOverlap`,
`SupersededHasSuccessor`, `NoOrphanChunks`, `BudgetHolds`, `ReportsAreTrue`. Three lemmas
(`LoopView`, `IndexView`, `MemoryView`) say what a step of the composition is for each component;
each then has its own inductive invariant:

- `LoopInv`: the types and the budget are inductive as they stand.
- `IndexInv`: the index is `Sound`, and so are the temporary file and every version a call still
  holds in its hands, for any of them may become the index (`IndexSound`).
- `MemoryInv`: between its calls a session still `Knows` something: all memories of its content,
  and all of its key but the conflicts it found, are newer than its look (`NoTwinSeen`,
  `ConflictsKnown`), and the conflicts have its key.
- `UncontestedFit`, for `ReportsAreTrue` (`ReportsHold`): a document that no two calls worked on
  at once `Fits`: its record knows a stored original, what the page said of it is so, at most one
  call works on it, and what that call found when it looked still holds at each of its later
  steps (`CallFits`), although calls for other documents write the whole index in between.

Only model-checked: `PromptAnswered`.

### Observations

- `README.md:544` of the repository says exact duplicates never make another active row. That
  holds of calls one after the other; two that overlap leave two rows (`TwinsOverlapped` says no
  more than that).
- Deleting a document whose record has no path of an original keeps the original, and the page
  says that it was deleted (`pipeline.py:207-211`, `app.py:1828`).
- A failed re-index leaves the old chunks, which are still retrieved, under a failed document.
- `chat_memory.py:57` writes the chat history whole: of two sessions the last writer wins.
- `observability.py:78` takes the time before the limiter's lock, so times may enter the window
  out of order, by the time between two statements.

## Not modelled

- `frontend/`, `prompts/`, `config.py`, `migrations/`, `scripts/`: declarations, presentation and
  text.
- Ranking, chunking, text cleaning, embedding and similarity: pure functions of real-valued or
  textual data; their results are left open in the models that use them.
- The tools themselves, which the models call for their outcome, and the platform's HTTP layer
  but for the submission and cancellation of runs and the upload of documents.
- The rate limiter and all time limits: no module has a clock. Timeouts are exceptions that may
  come at any time, expiry an event that may happen or not.
- The chat history and the planned agent's choice of when to plan: a single write, and a
  predicate on words.
- Recovery of plans, threads and runs whose process died: the code has none.
