------------------------------- MODULE TaskGraph -------------------------------
(***************************************************************************)
(* The task graph both plan runtimes work on: the plan and its tasks, what *)
(* the validator and the replanner accept, what the scheduler and the goal *)
(* evaluator make of it, and the rules of the executor.                    *)
(*                                                                         *)
(* A task is its position in the list; what the LLM proposes is any set of *)
(* drafts the validator accepts.  Priorities are left open: any ready task *)
(* may be first.  The inputs of a validated task are outputs of its        *)
(* dependencies, so they are there when the dependencies are complete.     *)
(* Kind "plain" stands for LLM, memory and harmless tool tasks; the other  *)
(* kinds are document retrieval and the consequential tools, which always  *)
(* ask for approval.                                                       *)
(***************************************************************************)
EXTENDS Naturals, FiniteSets

CONSTANTS
  Tools,          \* consequential tools
  Drafts,         \* task drafts the LLM may write
  MaxListed,      \* bound on the length of the task list
  MaxTasks,       \* PLANNER_MAX_TASKS
  MaxRevisions,   \* PLANNER_MAX_REVISIONS
  MaxRetries,     \* PLANNER_MAX_TASK_RETRIES
  MaxSteps        \* PLANNER_MAX_EXECUTION_STEPS

Slots == 1 .. MaxListed
Kinds == {"plain", "rag"} \union Tools

Draft ==
  [kind : Kinds, deps : SUBSET Slots, retries : Nat, required : BOOLEAN]

ASSUME PlanAssumption ==
  /\ Tools \intersect {"plain", "rag"} = {}
  /\ Drafts \subseteq Draft
  /\ MaxListed \in Nat \ {0}
  /\ MaxTasks \in Nat \ {0}
  /\ MaxRevisions \in Nat
  /\ MaxRetries \in Nat
  /\ MaxSteps \in Nat \ {0}

TaskStatus ==
  {"absent", "pending", "ready", "running", "waiting", "approved", "completed",
   "failed", "blocked", "denied", "expired", "cancelled"}

Task ==
  [kind : Kinds, deps : SUBSET Slots, retries : Nat, required : BOOLEAN,
   status : TaskStatus, attempts : Nat, evidence : BOOLEAN]

PlanStatus ==
  {"none", "running", "evaluating", "waiting", "completed", "failed", "cancelled"}

PlanState ==
  [status : PlanStatus, listed : 0 .. MaxListed, tasks : [Slots -> Task],
   revision : Nat, steps : Nat]

AbsentTask ==
  [kind |-> "plain", deps |-> {}, retries |-> 0, required |-> FALSE,
   status |-> "absent", attempts |-> 0, evidence |-> TRUE]

NoPlan ==
  [status |-> "none", listed |-> 0, tasks |-> [i \in Slots |-> AbsentTask],
   revision |-> 0, steps |-> 0]

Listed(p) == 1 .. p.listed
Status(p, i) == p.tasks[i].status
WithStatus(p, i, status) == [p EXCEPT !.tasks[i].status = status]

--------------------------------------------------------------------------------
(* The validator and the replanner *)

Supports(tools, kind) == kind \in {"plain", "rag"} \union tools

\* find_cycle finds none: every set of tasks has one that needs no other of it.
Acyclic(p) ==
  \A S \in SUBSET Listed(p) \ {{}} : \E i \in S : p.tasks[i].deps \intersect S = {}

\* PlanValidator.validate
Valid(p, tools) ==
  LET required == {i \in Listed(p) : p.tasks[i].required}
  IN /\ Cardinality(required) \in 1 .. MaxTasks
     /\ \A i \in Listed(p) :
          /\ p.tasks[i].retries <= MaxRetries
          /\ p.tasks[i].deps \subseteq Listed(p) \ {i}
     /\ \A i \in required :
          /\ Supports(tools, p.tasks[i].kind)
          /\ \A d \in p.tasks[i].deps \ required : Status(p, d) = "completed"
     /\ Acyclic(p)

\* An answer of k drafts, at the list positions they would get.
Additions(p, k) == [p.listed + 1 .. p.listed + k -> Drafts]

NewTask(draft) ==
  [kind |-> draft.kind, deps |-> draft.deps, retries |-> draft.retries,
   required |-> draft.required, status |-> "pending", attempts |-> 0,
   evidence |-> TRUE]

Extend(p, k, additions) ==
  [p EXCEPT !.listed = @ + k,
            !.tasks = [i \in Slots |-> IF i \in DOMAIN additions
                                       THEN NewTask(additions[i]) ELSE @[i]]]

\* The first plan of k drafts, under way.
Planned(k, additions) == [Extend(NoPlan, k, additions) EXCEPT !.status = "running"]

\* Mutant: a superseded task gets a status of its own.
RetireSuperseded(p) ==
  LET retired(task) ==
        IF task.status = "completed" THEN task
        ELSE [task EXCEPT !.required = FALSE,
                          !.status = IF @ \in {"pending", "ready"}
                                     THEN "superseded" ELSE @]
  IN [p EXCEPT !.tasks = [i \in Slots |-> IF i \in Listed(p) THEN retired(@[i])
                                          ELSE @[i]]]

\* _retire_unfinished
Retire(p) ==
  LET retired(task) ==
        IF task.status = "completed" THEN task
        ELSE [task EXCEPT !.required = FALSE,
                          !.status = IF @ \in {"pending", "ready"}
                                     THEN "cancelled" ELSE @]
  IN [p EXCEPT !.tasks = [i \in Slots |-> IF i \in Listed(p) THEN retired(@[i])
                                          ELSE @[i]]]

\* Mutant: a denied tool may be proposed again.
CompletedTools(p) ==
  {p.tasks[i].kind : i \in {j \in Listed(p) : Status(p, j) = "completed"}}
    \intersect Tools

\* denied_tools and completed_action_tools: tools a revision may not name.
BarredTools(p) ==
  {p.tasks[i].kind : i \in {j \in Listed(p) :
                      Status(p, j) \in {"denied", "cancelled", "completed"}}}
    \intersect Tools

\* The candidate plan of a revision.
Revised(p, k, additions) ==
  [Extend(Retire(p), k, additions) EXCEPT !.revision = @ + 1, !.status = "running"]

\* The revisions the replanner accepts.
Acceptable(p, k, additions, tools) ==
  /\ \A i \in DOMAIN additions : additions[i].kind \notin BarredTools(p)
  /\ Valid(Revised(p, k, additions), tools)

--------------------------------------------------------------------------------
(* The scheduler *)

\* Mutant: pending tasks are taken for ready ones.
Unstarted(p) == {i \in Listed(p) : Status(p, i) \in {"pending", "ready"}}

\* ready_tasks
Ready(p) == {i \in Listed(p) : Status(p, i) = "ready"}

Failing == {"failed", "blocked", "denied", "expired", "cancelled"}

DepsComplete(p, i) == \A d \in p.tasks[i].deps : Status(p, d) = "completed"

\* A dependency did not complete and never will.
Doomed(p, i) == \E d \in p.tasks[i].deps : Status(p, d) \in Failing

\* The status the pass gives a task that has not started.
Refreshed(p, i, tools) ==
  IF Doomed(p, i) THEN "blocked"
  ELSE IF DepsComplete(p, i) /\ Supports(tools, p.tasks[i].kind) THEN "ready"
  ELSE "pending"

\* The pass at one task; the tasks before it in the list have been refreshed.
RefreshedAt(p, i, tools) ==
  IF Status(p, i) \in {"pending", "ready"}
  THEN WithStatus(p, i, Refreshed(p, i, tools)) ELSE p

--------------------------------------------------------------------------------
(* The executor and the goal evaluator *)

\* The plan after one more attempt at a task.
Attempted(p, i) == [p EXCEPT !.tasks[i].attempts = @ + 1, !.steps = @ + 1]

\* RetryPolicy.should_retry, after a failed attempt that may be repeated.
MayRetry(p, i) ==
  p.tasks[i].attempts <= p.tasks[i].retries /\ p.tasks[i].attempts <= MaxRetries

\* Required tasks that are incomplete or found no evidence.
Gaps(p) ==
  {i \in Listed(p) : p.tasks[i].required /\
                     (Status(p, i) # "completed" \/ ~p.tasks[i].evidence)}

\* Mutant: the evaluator is taken at its word.
Believed(p, satisfied) == satisfied

\* The goal counts as reached only without an objective gap.
Reached(p, satisfied) == satisfied /\ Gaps(p) = {}

================================================================================
