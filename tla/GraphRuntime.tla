----------------------------- MODULE GraphRuntime ------------------------------
(***************************************************************************)
(* One thread of the LangGraph workflow under graph/: the nodes, the edges *)
(* between them, the checkpoint each node leaves, the pause for approval   *)
(* and the resume of a thread that is found waiting.                       *)
(*                                                                         *)
(* The library runs one node at a time and hands its checkpoint to a       *)
(* background writer, so a dying process may lose the latest ones.  Of an  *)
(* older checkpoint only one matters: find_waiting_run looks for a thread  *)
(* whose next node is approval, and no other is ever opened again.         *)
(***************************************************************************)
EXTENDS TaskGraph, Integers

CONSTANT
  MaxCrashes      \* bound on the deaths of the process

ASSUME GraphAssumption == MaxCrashes \in Nat

Nodes ==
  {"planner", "task_router", "execute_task", "retry_task", "approval", "evaluate",
   "replan", "finalize"}

Evaluation == {"none", "satisfied", "replan", "stop"}

\* What final_answer says: the pause, a node that failed, the answer to the goal
\* or that the goal was not reached.
Answer == {"none", "paused", "error", "answer", "unmet"}

\* A checkpoint: the channels of GraphAgentState and the node that comes next.
Checkpoint ==
  [plan : PlanState, next : Nodes \union {"none", "end"}, task : 0 .. MaxListed,
   evaluation : Evaluation, answer : Answer]

\* The approval request of a task: "closed" once the action is recorded as done
\* or failed.
Verdict == {"none", "pending", "approved", "denied", "cancelled", "expired", "closed"}

VARIABLES
  thread,    \* the latest checkpoint
  parked,    \* the checkpoint before the approval node a dead process may leave
  live,      \* an invoke or a resume is under way
  verdict,   \* the approval request of each task
  receipt,   \* the execution receipt of each task
  enabled,   \* tools switched on in this session
  credit,    \* history: approvals of a task's actions its tool has not used up
  died,      \* history: the process died since the last resume
  crashes    \* history: how often the process died

approvals == <<verdict, receipt>>
history == <<credit, died, crashes>>
vars == <<thread, parked, live, approvals, enabled, history>>

NoThread ==
  [plan |-> NoPlan, next |-> "none", task |-> 0, evaluation |-> "none",
   answer |-> "none"]

Init ==
  /\ thread = NoThread /\ parked = NoThread /\ live = FALSE
  /\ verdict = [i \in Slots |-> "none"]
  /\ receipt = [i \in Slots |-> "none"]
  /\ enabled = {}
  /\ credit = [i \in Slots |-> 0]
  /\ died = FALSE /\ crashes = 0

--------------------------------------------------------------------------------
(* Invocations of the graph *)

\* start(): a new thread.
Start(tools) ==
  /\ thread = NoThread /\ ~live
  /\ thread' = [NoThread EXCEPT !.next = "planner"]
  /\ live' = TRUE
  /\ enabled' = tools
  /\ UNCHANGED <<parked, approvals, history>>

\* A script run finds the waiting thread, sees its request decided, and resumes.
Resume(tools) ==
  /\ ~live
  /\ thread.next = "approval"
  /\ verdict[thread.task] # "pending"
  /\ live' = TRUE
  /\ enabled' = tools
  /\ died' = FALSE
  /\ UNCHANGED <<thread, parked, approvals, credit, crashes>>

\* The user decides about the action the thread waits for.
Decide(i, decision) ==
  /\ thread.next = "approval" /\ thread.task = i
  /\ verdict[i] = "pending"
  /\ verdict' = [verdict EXCEPT ![i] = decision]
  /\ credit' = [credit EXCEPT ![i] = IF decision = "approved" THEN @ + 1 ELSE @]
  /\ UNCHANGED <<thread, parked, live, receipt, enabled, died, crashes>>

\* The request lapses, decided or not, and even after the action was recorded.
Expire(i) ==
  /\ thread.task = i /\ Status(thread.plan, i) = "waiting"
  /\ verdict[i] \in {"pending", "approved", "closed"}
  /\ verdict' = [verdict EXCEPT ![i] = "expired"]
  /\ UNCHANGED <<thread, parked, live, receipt, enabled, history>>

\* A node ends, and its checkpoint is on the way to the disk.
Leave(checkpoint) ==
  /\ thread' = checkpoint
  /\ parked' \in IF checkpoint.next = "approval" THEN {parked, checkpoint} ELSE {parked}

At(node) == live /\ thread.next = node

To(next, p) == [thread EXCEPT !.plan = p, !.next = next]

\* _workflow_error; the edge decides where it leads.
Error(next, p) ==
  [To(next, [p EXCEPT !.status = "failed"]) EXCEPT !.answer = "error"]

--------------------------------------------------------------------------------
(* planner and task_router *)

Plan(k, additions) ==
  /\ At("planner")
  /\ Valid(Planned(k, additions), enabled)
  /\ Leave(To("task_router", Planned(k, additions)))
  /\ UNCHANGED <<live, approvals, enabled, history>>

PlanFails ==
  /\ At("planner")
  /\ Leave(Error("task_router", thread.plan))
  /\ UNCHANGED <<live, approvals, enabled, history>>

\* The whole pass of scheduler.refresh.
Pass(p) ==
  LET upTo[i \in 0 .. p.listed] ==
        IF i = 0 THEN p ELSE RefreshedAt(upTo[i - 1], i, enabled)
  IN upTo[p.listed]

\* A plan that has stopped is finalized, a ready task is executed, and with none
\* the results are evaluated.
RouteTask ==
  /\ At("task_router")
  /\ IF thread.plan.status = "failed"
     THEN Leave([thread EXCEPT !.next = "finalize", !.task = 0])
     ELSE LET p == Pass(thread.plan)
          IN \/ \E i \in Ready(p) : Leave([To("execute_task", p) EXCEPT !.task = i])
             \/ /\ Ready(p) = {}
                /\ Leave([To("evaluate", p) EXCEPT !.task = 0])
  /\ UNCHANGED <<live, approvals, enabled, history>>

--------------------------------------------------------------------------------
(* execute_task, retry_task and approval *)

\* The executor leaves the task with this status; no retry, no pause.
Settled(p, i, status) == To("task_router", WithStatus(p, i, status))

\* The gate keeps the task waiting; the answer says so.
Parked(i) ==
  [To("approval", [WithStatus(thread.plan, i, "waiting") EXCEPT !.status = "waiting"])
     EXCEPT !.answer = "paused"]

\* The executor is called for a task.  It takes tasks that are ready or waiting,
\* and refuses any other: none gets here.
AtGate(i, status) ==
  /\ At("execute_task") /\ thread.task = i
  /\ Status(thread.plan, i) = status

\* A ready consequential task: request_approval stores a new action, which has
\* no receipt, and its request.
Ask(i) ==
  /\ AtGate(i, "ready")
  /\ thread.plan.tasks[i].kind \in enabled
  /\ verdict' = [verdict EXCEPT ![i] = "pending"]
  /\ receipt' = [receipt EXCEPT ![i] = "none"]

AskApproval(i) ==
  /\ Ask(i)
  /\ Leave(Parked(i))
  /\ UNCHANGED <<live, enabled, history>>

\* The gate fails closed: the tool is off, or the approval cannot be stored or
\* verified.
FailClosed(i) ==
  /\ \/ AtGate(i, "ready") /\ thread.plan.tasks[i].kind \in Tools
     \/ AtGate(i, "waiting")
  /\ Leave(Settled(thread.plan, i, "failed"))
  /\ UNCHANGED <<live, approvals, enabled, history>>

\* Mutant: whatever is not an approval is taken for a refusal.
RefusedUnlessApproved(i) ==
  /\ AtGate(i, "waiting")
  /\ thread.plan.tasks[i].kind \in enabled
  /\ verdict[i] # "approved"
  /\ Leave(Settled(thread.plan, i, verdict[i]))
  /\ UNCHANGED <<live, approvals, enabled, history>>

\* The user did not approve, or not in time.
Refused(i) ==
  /\ AtGate(i, "waiting")
  /\ thread.plan.tasks[i].kind \in enabled
  /\ verdict[i] \in {"denied", "cancelled", "expired"}
  /\ Leave(Settled(thread.plan, i, verdict[i]))
  /\ UNCHANGED <<live, approvals, enabled, history>>

\* The gate lets the task through.
Proceeds(i) ==
  \/ AtGate(i, "ready") /\ thread.plan.tasks[i].kind \notin Tools
  \/ /\ AtGate(i, "waiting")
     /\ thread.plan.tasks[i].kind \in enabled
     /\ verdict[i] = "approved"

\* Mutant: at the step limit the task goes back to the scheduler.
StepLimitRequeues(i) ==
  /\ Proceeds(i)
  /\ thread.plan.steps >= MaxSteps
  /\ Leave(Settled(thread.plan, i, "ready"))
  /\ UNCHANGED <<live, approvals, enabled, history>>

\* The step limit fails the task without another attempt.
StepLimit(i) ==
  /\ Proceeds(i)
  /\ thread.plan.steps >= MaxSteps
  /\ Leave(Settled(thread.plan, i, "failed"))
  /\ UNCHANGED <<live, approvals, enabled, history>>

\* One attempt at a task without approval.  The executor of the graph does not
\* repeat it; route_after_execution may.
Attempt(i, outcome) ==
  LET p == Attempted(thread.plan, i)
      failed == Settled(p, i, "failed")
  IN /\ AtGate(i, "ready") /\ Proceeds(i)
     /\ thread.plan.steps < MaxSteps
     /\ \/ outcome = "completed" /\ Leave(Settled(p, i, "completed"))
        \/ /\ outcome = "empty" /\ p.tasks[i].kind = "rag"
           /\ Leave(Settled([p EXCEPT !.tasks[i].evidence = FALSE], i, "completed"))
        \/ outcome = "permanent" /\ Leave(failed)
        \/ /\ outcome = "transient"
           /\ p.tasks[i].attempts <= p.tasks[i].retries
           /\ Leave([failed EXCEPT !.next = "retry_task"])
     /\ UNCHANGED <<live, approvals, enabled, history>>

\* Mutant: only a failed call is looked up.
FailedBefore(i) == receipt[i] = "failed"

\* The receipt of an earlier attempt, of either kind, stands for the call.
Receipted(i) == receipt[i] # "none"

Replay(i) ==
  /\ AtGate(i, "waiting") /\ Proceeds(i)
  /\ thread.plan.steps < MaxSteps
  /\ Receipted(i)
  /\ Leave(Settled(Attempted(thread.plan, i), i, receipt[i]))
  /\ UNCHANGED <<live, approvals, enabled, history>>

\* The call of an approved tool: whether it acted, what it said, and how far the
\* record of it got: no receipt, a receipt, or the action closed as well.
Call(i, did, outcome, record) ==
  /\ AtGate(i, "waiting") /\ Proceeds(i)
  /\ thread.plan.steps < MaxSteps
  /\ ~Receipted(i)
  /\ outcome = "completed" => did
  /\ credit' = [credit EXCEPT ![i] = IF did /\ (record # "none" \/ @ = 0)
                                     THEN @ - 1 ELSE @]
  /\ receipt' = [receipt EXCEPT ![i] = IF record = "none" THEN @ ELSE outcome]
  /\ verdict' = [verdict EXCEPT ![i] = IF record = "closed" THEN "closed" ELSE @]

\* The approved action.  A record that cannot be written fails the task, and no
\* failure of a consequential tool is retried.
Act(i, did, outcome, record) ==
  /\ Call(i, did, outcome, record)
  /\ Leave(Settled(Attempted(thread.plan, i), i,
                   IF record = "closed" THEN outcome ELSE "failed"))
  /\ UNCHANGED <<live, enabled, died, crashes>>

\* A transient failure within the task's budget goes straight back to the executor.
RetryTask ==
  /\ At("retry_task")
  /\ MayRetry(thread.plan, thread.task)
  /\ Leave(To("execute_task", WithStatus(thread.plan, thread.task, "ready")))
  /\ UNCHANGED <<live, approvals, enabled, history>>

\* interrupt(): the invocation returns, with every checkpoint on the disk.
Interrupt ==
  /\ At("approval")
  /\ verdict[thread.task] = "pending"
  /\ live' = FALSE
  /\ parked' = thread
  /\ UNCHANGED <<thread, approvals, enabled, history>>

\* A decided request: the task goes to the gate of the executor again.
ApprovalResumed ==
  /\ At("approval")
  /\ verdict[thread.task] # "pending"
  /\ Leave(To("execute_task", [thread.plan EXCEPT !.status = "running"]))
  /\ UNCHANGED <<live, approvals, enabled, history>>

--------------------------------------------------------------------------------
(* evaluate, replan and finalize *)

\* route_after_evaluation
AfterEvaluation(evaluation, p) ==
  IF evaluation = "replan" /\ p.revision < MaxRevisions THEN "replan" ELSE "finalize"

\* An answer that overlooks a gap, or that is malformed, asks for a replan.
Evaluate(satisfied, again) ==
  LET p == [thread.plan EXCEPT !.status = "evaluating"]
      evaluation == IF Reached(p, satisfied) THEN "satisfied"
                    ELSE IF satisfied \/ again THEN "replan" ELSE "stop"
  IN /\ At("evaluate")
     /\ Leave([To(AfterEvaluation(evaluation, p), p) EXCEPT !.evaluation = evaluation])
     /\ UNCHANGED <<live, approvals, enabled, history>>

\* Mutant: the failure of the LLM leaves the node.
EvaluateRaises ==
  /\ At("evaluate")
  /\ live' = FALSE
  /\ UNCHANGED <<thread, parked, approvals, enabled, history>>

\* The LLM fails: the plan is failed, but the route still reads the evaluation
\* of an earlier revision.
EvaluateFails ==
  /\ At("evaluate")
  /\ Leave(Error(AfterEvaluation(thread.evaluation, thread.plan), thread.plan))
  /\ UNCHANGED <<live, approvals, enabled, history>>

Replan(k, additions) ==
  /\ At("replan")
  /\ Acceptable(thread.plan, k, additions, enabled)
  /\ Leave(To("task_router", Revised(thread.plan, k, additions)))
  /\ UNCHANGED <<live, approvals, enabled, history>>

\* No acceptable revision within the repair attempts.
ReplanFails ==
  /\ At("replan")
  /\ Leave(Error("task_router", thread.plan))
  /\ UNCHANGED <<live, approvals, enabled, history>>

\* The node does not catch a failure of the LLM: the invocation raises.
ReplanRaises ==
  /\ At("replan")
  /\ live' = FALSE
  /\ UNCHANGED <<thread, parked, approvals, enabled, history>>

\* Without a satisfied evaluation, an answer that is there already is kept, and
\* so is the status.
Finalized ==
  LET p == thread.plan
      ends(status, answer) ==
        [To("end", [p EXCEPT !.status = status]) EXCEPT !.answer = answer, !.task = 0]
  IN IF p.status = "failed" \/ (thread.evaluation # "satisfied" /\ thread.answer # "none")
     THEN ends(p.status, thread.answer)
     ELSE IF thread.evaluation = "satisfied" THEN ends("completed", "answer")
     ELSE ends("failed", "unmet")

Finalize ==
  /\ At("finalize")
  /\ thread' = Finalized
  /\ parked' = NoThread
  /\ live' = FALSE
  /\ UNCHANGED <<approvals, enabled, history>>

--------------------------------------------------------------------------------
(* Death of the process *)

\* The thread is what reached the disk.
Die ==
  /\ live /\ crashes < MaxCrashes
  /\ thread' \in IF parked = NoThread THEN {thread} ELSE {thread, parked}
  /\ live' = FALSE
  /\ died' = TRUE /\ crashes' = crashes + 1
  /\ UNCHANGED <<parked, enabled>>

Crash == Die /\ UNCHANGED <<approvals, credit>>

\* In the executor, after the request or the call went out.
CrashAsking(i) == Die /\ Ask(i) /\ UNCHANGED credit

CrashActing(i, did, outcome, record) == Die /\ Call(i, did, outcome, record)

--------------------------------------------------------------------------------

Run ==
  \/ PlanFails \/ RouteTask \/ RetryTask \/ Interrupt \/ ApprovalResumed
  \/ \E k \in Slots : \E additions \in Additions(NoPlan, k) : Plan(k, additions)
  \/ \E i \in Slots :
       \/ AskApproval(i) \/ FailClosed(i) \/ Refused(i) \/ StepLimit(i) \/ Replay(i)
       \/ \E outcome \in {"completed", "empty", "transient", "permanent"} :
            Attempt(i, outcome)
       \/ \E did \in BOOLEAN, outcome \in {"completed", "failed"},
             record \in {"none", "receipt", "closed"} : Act(i, did, outcome, record)
  \/ \E satisfied, again \in BOOLEAN : Evaluate(satisfied, again)
  \/ EvaluateFails
  \/ \E k \in 1 .. MaxListed - thread.plan.listed :
       \E additions \in Additions(thread.plan, k) : Replan(k, additions)
  \/ ReplanFails \/ ReplanRaises \/ Finalize

User ==
  \/ \E tools \in SUBSET Tools : Start(tools) \/ Resume(tools)
  \/ \E i \in Slots, decision \in {"approved", "denied", "cancelled"} :
       Decide(i, decision)

Faults ==
  \/ Crash
  \/ \E i \in Slots :
       \/ Expire(i) \/ CrashAsking(i)
       \/ \E did \in BOOLEAN, outcome \in {"completed", "failed"},
             record \in {"none", "receipt", "closed"} :
            CrashActing(i, did, outcome, record)

\* The thread has ended, or nobody will open it again.
Over ==
  /\ ~live
  /\ thread.next \notin {"none", "approval"}
  /\ UNCHANGED vars

Next == Run \/ User \/ Faults \/ Over

Spec == Init /\ [][Next]_vars

\* A node returns, and the library goes on to the next: calls of tools and of
\* the LLM end.
FairSpec == Spec /\ WF_vars(Run)

--------------------------------------------------------------------------------
(* Properties *)

\* Type correctness of the checkpoints and of the approval state.
TypeOK ==
  /\ thread \in Checkpoint /\ parked \in Checkpoint
  /\ live \in BOOLEAN
  /\ verdict \in [Slots -> Verdict]
  /\ receipt \in [Slots -> {"none", "completed", "failed"}]
  /\ enabled \in SUBSET Tools
  /\ credit \in [Slots -> Int]
  /\ died \in BOOLEAN /\ crashes \in 0 .. MaxCrashes

\* The tool of a task acts once for each approval of the user, whatever
\* checkpoint a dead process leaves behind and however often the thread is
\* resumed from it; once more is possible only after a call that left no receipt
\* (nodes.py:101-161, task_runner.py:231-326).
OncePerGrant == \A i \in Slots : credit[i] >= 0

\* A thread that ended is "completed" exactly when it shows the answer to the
\* goal, and then no required task is open or without evidence; no task is left
\* that could still run; and it ends "completed" or "failed" unless it asked the
\* user on the way or was revised twice (nodes.py:330-361, routing.py:32-45).
EndJustified ==
  LET p == thread.plan
  IN thread.next = "end" =>
       /\ p.status = "completed" <=> thread.answer = "answer"
       /\ p.status = "completed" => Gaps(p) = {}
       /\ \A i \in Listed(p) :
            /\ Status(p, i) \notin {"ready", "waiting"}
            /\ Status(p, i) = "pending" =>
                 \/ ~Supports(enabled, p.tasks[i].kind)
                 \/ \E d \in p.tasks[i].deps : Status(p, d) # "completed"
       /\ \/ p.status \in {"completed", "failed"}
          \/ p.status = "evaluating" /\ \E i \in Listed(p) : verdict[i] # "none"
          \/ p.status = "evaluating" /\ p.revision >= 2

\* A thread at rest has ended or waits where find_waiting_run finds it, with one
\* waiting task whose request exists; unless the process died in it or the
\* replanner's LLM call failed (runtime.py:150-174, nodes.py:202-262).
StoppedIsFound ==
  ~live /\ thread.next # "none" =>
    \/ thread.next = "end"
    \/ /\ thread.next = "approval"
       /\ {i \in Listed(thread.plan) : Status(thread.plan, i) = "waiting"} = {thread.task}
       /\ verdict[thread.task] # "none"
    \/ died
    \/ thread.next = "replan"

\* Every invocation of the graph returns: the cycles through retry_task, approval
\* and replan are bounded (routing.py:19-57, executor.py:57-68).
RunEnds == live ~> ~live

================================================================================
