------------------------------ MODULE PlanRuntime ------------------------------
(***************************************************************************)
(* One plan under planner/runtime.py: the loop of _run_state, with the     *)
(* scheduler's pass, the executor, the approval gate, the evaluator and    *)
(* the replanner, what they keep in memory and what they persist.          *)
(*                                                                         *)
(* One script run at a time works on the plan.                             *)
(***************************************************************************)
EXTENDS TaskGraph

\* What the approval layer answers about the action of a task.
Verdict == {"none", "pending", "approved", "denied", "cancelled", "expired"}

VARIABLES
  plan,      \* the PlanState object the script works on
  held,      \* the object resume() holds
  saved,     \* the durable workflow row
  verdict,   \* state of the approval request of each task
  enabled,   \* tools switched on in this session
  pc,        \* where the script run stands
  active,    \* task in the executor
  cursor,    \* next task of the scheduler's pass
  resumed,   \* inside resume(), not run()
  acted,     \* history: how often the tool of a task acted
  born       \* history: revision that added a task

script == <<pc, active, cursor, resumed>>
history == <<acted, born>>
vars == <<plan, held, saved, verdict, enabled, script, history>>

Init ==
  /\ plan = NoPlan /\ held = NoPlan /\ saved = NoPlan
  /\ verdict = [i \in Slots |-> "none"]
  /\ enabled = {}
  /\ pc = "idle" /\ active = 0 /\ cursor = 1 /\ resumed = FALSE
  /\ acted = [i \in Slots |-> 0]
  /\ born = [i \in Slots |-> 0]

--------------------------------------------------------------------------------
(* Script runs *)

\* The script run ends with this plan in the durable row.
EndWith(p) ==
  /\ plan' = p /\ saved' = p
  /\ held' = NoPlan
  /\ pc' = "idle" /\ active' = 0 /\ cursor' = 1 /\ resumed' = FALSE

\* The script run is gone; the durable row is what is left.
Abandon ==
  /\ plan' = saved
  /\ held' = NoPlan
  /\ pc' = "idle" /\ active' = 0 /\ cursor' = 1 /\ resumed' = FALSE
  /\ UNCHANGED saved

\* Back to the top of the loop of _run_state, with the plan persisted.
LoopWith(p) ==
  /\ plan' = p /\ saved' = p
  /\ pc' = "loop" /\ active' = 0 /\ cursor' = 1

\* run(): create_plan and the first persist.
CreatePlan(tools, k, additions) ==
  LET p == Planned(k, additions)
  IN /\ pc = "idle"
     /\ saved.status = "none"
     /\ Valid(p, tools)
     /\ LoopWith(p)
     /\ enabled' = tools
     /\ UNCHANGED <<held, verdict, resumed, history>>

\* The script run that finds the waiting workflow decided resumes it.
Resume(tools) ==
  /\ pc = "idle"
  /\ saved.status = "waiting"
  /\ \A i \in Listed(saved) : Status(saved, i) = "waiting" => verdict[i] # "pending"
  /\ LoopWith([saved EXCEPT !.status = "running"])
  /\ enabled' = tools
  /\ resumed' = TRUE
  /\ UNCHANGED <<held, verdict, history>>

\* The user decides about the action of the waiting task.
Decide(i, decision) ==
  /\ saved.status = "waiting"
  /\ verdict[i] = "pending"
  /\ verdict' = [verdict EXCEPT ![i] = decision]
  /\ UNCHANGED <<plan, held, saved, enabled, script, history>>

\* Nobody decided in time, or nobody resumed in time.
Expire(i) ==
  /\ verdict[i] \in {"pending", "approved"}
  /\ Status(saved, i) = "waiting"
  /\ verdict' = [verdict EXCEPT ![i] = "expired"]
  /\ UNCHANGED <<plan, held, saved, enabled, script, history>>

--------------------------------------------------------------------------------
(* The loop of _run_state *)

\* A cancellation check that answers yes.
CancelPlan ==
  LET cancelled(task) == IF task.status \in {"pending", "ready"}
                         THEN [task EXCEPT !.status = "cancelled"] ELSE task
  IN /\ pc = "loop"
     /\ EndWith([plan EXCEPT !.status = "cancelled",
                             !.tasks = [i \in Slots |-> cancelled(@[i])]])
     /\ UNCHANGED <<verdict, enabled, history>>

Waiting == {i \in Listed(plan) : Status(plan, i) = "waiting"}

\* The executor starts on a task that may proceed.
Begin(i, status) ==
  /\ plan' = WithStatus(plan, i, status)
  /\ pc' = "attempt" /\ active' = i /\ cursor' = 1
  /\ UNCHANGED <<held, saved, resumed>>

\* _handle_gate_stop, and the persist after it.
GateStop(i, status) ==
  /\ LoopWith(WithStatus(plan, i, status))
  /\ UNCHANGED <<held, resumed>>

\* The executor keeps a task waiting: the plan is about to be parked.
GateWait(i) ==
  /\ plan' = WithStatus(plan, i, "waiting")
  /\ saved' = plan'
  /\ pc' = "pause" /\ active' = i /\ cursor' = 1
  /\ UNCHANGED <<held, resumed>>

\* check_approval of a task that was proposed before: it fails closed when the
\* tool is switched off or the approval cannot be verified.
GateAnswer(i) ==
  IF plan.tasks[i].kind \in enabled THEN {verdict[i], "failed"} ELSE {"failed"}

\* The waiting task goes to the executor before anything else is scheduled.
ContinueWaiting(i) ==
  /\ pc = "loop"
  /\ i \in Waiting
  /\ \E answer \in GateAnswer(i) :
       \/ answer = "approved" /\ Begin(i, "approved")
       \/ answer = "pending" /\ GateWait(i)
       \/ answer \in {"denied", "cancelled", "expired", "failed"} /\ GateStop(i, answer)
  /\ UNCHANGED <<verdict, enabled, history>>

\* Mutant: a waiting task is left where it is.
BeginPassAnyway ==
  /\ pc = "loop"
  /\ pc' = "refresh"
  /\ UNCHANGED <<plan, held, saved, verdict, enabled, active, cursor, resumed, history>>

\* scheduler.refresh starts its one pass over the list.
BeginPass ==
  /\ pc = "loop"
  /\ Waiting = {}
  /\ pc' = "refresh"
  /\ UNCHANGED <<plan, held, saved, verdict, enabled, active, cursor, resumed, history>>

\* One task of the pass; the tasks before it in the list have been refreshed.
RefreshTask ==
  /\ pc = "refresh"
  /\ cursor <= plan.listed
  /\ plan' = RefreshedAt(plan, cursor, enabled)
  /\ cursor' = cursor + 1
  /\ UNCHANGED <<held, saved, verdict, enabled, pc, active, resumed, history>>

PassDone == pc = "refresh" /\ cursor > plan.listed

\* A ready task that needs no approval starts.
StartTask(i) ==
  /\ PassDone
  /\ i \in Ready(plan)
  /\ plan.tasks[i].kind \notin Tools
  /\ Begin(i, "running")
  /\ UNCHANGED <<verdict, enabled, history>>

\* A ready consequential task is proposed to the user, or its tool is off or
\* the proposal cannot be stored.
AskApproval(i) ==
  /\ PassDone
  /\ i \in Ready(plan)
  /\ plan.tasks[i].kind \in Tools
  /\ \/ /\ plan.tasks[i].kind \in enabled
        /\ GateWait(i)
        /\ verdict' = [verdict EXCEPT ![i] = "pending"]
     \/ /\ GateStop(i, "failed")
        /\ UNCHANGED verdict
  /\ UNCHANGED <<enabled, history>>

\* The plan is parked.
Pause ==
  /\ pc = "pause"
  /\ EndWith([plan EXCEPT !.status = "waiting"])
  /\ UNCHANGED <<verdict, enabled, history>>

\* A finished task: its status, and the persist of the loop.
Settle(p, i, status) == LoopWith(WithStatus(p, i, status))

\* Mutant: at the step limit the task goes back to the scheduler.
StepLimitRequeues(i) ==
  /\ pc = "attempt" /\ active = i
  /\ plan.steps >= MaxSteps
  /\ Settle(plan, i, "ready")
  /\ UNCHANGED <<held, verdict, enabled, resumed, history>>

\* The step limit fails the task without another attempt.
StepLimit(i) ==
  /\ pc = "attempt" /\ active = i
  /\ plan.steps >= MaxSteps
  /\ Settle(plan, i, "failed")
  /\ UNCHANGED <<held, verdict, enabled, resumed, history>>

\* One attempt at a task without approval.  Document retrieval may complete
\* without evidence.
Attempt(i, outcome) ==
  /\ pc = "attempt" /\ active = i
  /\ Status(plan, i) = "running"
  /\ plan.steps < MaxSteps
  /\ \/ outcome = "completed" /\ Settle(Attempted(plan, i), i, "completed")
     \/ /\ outcome = "empty" /\ plan.tasks[i].kind = "rag"
        /\ Settle([Attempted(plan, i) EXCEPT !.tasks[i].evidence = FALSE], i, "completed")
     \/ /\ outcome = "transient" /\ MayRetry(Attempted(plan, i), i)
        /\ plan' = Attempted(plan, i)
        /\ UNCHANGED <<saved, pc, active, cursor>>
     \/ /\ outcome = "transient" /\ ~MayRetry(Attempted(plan, i), i)
        /\ Settle(Attempted(plan, i), i, "failed")
     \/ outcome = "permanent" /\ Settle(Attempted(plan, i), i, "failed")
  /\ UNCHANGED <<held, verdict, enabled, resumed, history>>

\* Mutant: a failed call of an approved tool is retried like any other.
RetryAct(i, did, outcome) ==
  /\ pc = "attempt" /\ active = i
  /\ Status(plan, i) = "approved"
  /\ plan.steps < MaxSteps
  /\ acted' = [acted EXCEPT ![i] = IF did THEN @ + 1 ELSE @]
  /\ IF outcome = "failed" /\ MayRetry(Attempted(plan, i), i)
     THEN plan' = Attempted(plan, i) /\ UNCHANGED <<saved, pc, active, cursor>>
     ELSE Settle(Attempted(plan, i), i, outcome)
  /\ UNCHANGED <<held, verdict, enabled, resumed, born>>

\* The attempt at an approved action: whatever comes of it is never retried.
Act(i, did, outcome) ==
  /\ pc = "attempt" /\ active = i
  /\ Status(plan, i) = "approved"
  /\ plan.steps < MaxSteps
  /\ outcome = "completed" => did
  /\ acted' = [acted EXCEPT ![i] = IF did THEN @ + 1 ELSE @]
  /\ Settle(Attempted(plan, i), i, outcome)
  /\ UNCHANGED <<held, verdict, enabled, resumed, born>>

\* Nothing is ready: the evaluator looks at the results.  An answer that
\* overlooks a gap, or that is malformed, asks for a replan.
Evaluate(satisfied, again) ==
  LET replan == (again \/ satisfied) /\ plan.revision < MaxRevisions
  IN /\ PassDone
     /\ Ready(plan) = {}
     /\ \/ Reached(plan, satisfied) /\ EndWith([plan EXCEPT !.status = "completed"])
        \/ /\ ~Reached(plan, satisfied) /\ replan
           /\ plan' = [plan EXCEPT !.status = "evaluating"]
           /\ pc' = "replan"
           /\ UNCHANGED <<held, saved, active, cursor, resumed>>
        \/ /\ ~Reached(plan, satisfied) /\ ~replan
           /\ EndWith([plan EXCEPT !.status = "failed"])
     /\ UNCHANGED <<verdict, enabled, history>>

\* replan(): the revised plan is a copy; resume() still holds the old object.
Replan(k, additions) ==
  /\ pc = "replan"
  /\ Acceptable(plan, k, additions, enabled)
  /\ LoopWith(Revised(plan, k, additions))
  /\ held' = IF resumed /\ held = NoPlan THEN plan ELSE held
  /\ born' = [i \in Slots |-> IF i \in DOMAIN additions THEN plan.revision + 1
                              ELSE born[i]]
  /\ UNCHANGED <<verdict, enabled, resumed, acted>>

\* No acceptable revision within the repair attempts.
ReplanFails ==
  /\ pc = "replan"
  /\ EndWith([plan EXCEPT !.status = "failed"])
  /\ UNCHANGED <<verdict, enabled, history>>

--------------------------------------------------------------------------------
(* Failures *)

\* What the handler of resume() persists: the object resume() holds.
Handled == [IF held = NoPlan THEN plan ELSE held EXCEPT !.status = "failed"]

\* The LLM client raises in the evaluator or in the replanner.  run() has no
\* handler and leaves the durable row running.
Raise ==
  /\ pc = "replan" \/ (PassDone /\ Ready(plan) = {})
  /\ IF resumed THEN EndWith(Handled) ELSE Abandon
  /\ UNCHANGED <<verdict, enabled, history>>

\* The process dies.
Crash ==
  /\ pc # "idle"
  /\ Abandon
  /\ UNCHANGED <<verdict, enabled, history>>

--------------------------------------------------------------------------------

Run ==
  \/ BeginPass \/ RefreshTask \/ Pause
  \/ \E i \in Slots :
       \/ ContinueWaiting(i) \/ StartTask(i) \/ AskApproval(i) \/ StepLimit(i)
       \/ \E outcome \in {"completed", "empty", "transient", "permanent"} :
            Attempt(i, outcome)
       \/ \E did \in BOOLEAN, outcome \in {"completed", "failed"} :
            Act(i, did, outcome)
  \/ \E satisfied, again \in BOOLEAN : Evaluate(satisfied, again)
  \/ \E k \in 1 .. MaxListed - plan.listed :
       \E additions \in Additions(plan, k) : Replan(k, additions)
  \/ ReplanFails

\* The user: a prompt, a decision, a page that is opened again.
User ==
  \/ \E tools \in SUBSET Tools, k \in Slots :
       \E additions \in Additions(NoPlan, k) : CreatePlan(tools, k, additions)
  \/ \E tools \in SUBSET Tools : Resume(tools)
  \/ \E i \in Slots, decision \in {"approved", "denied", "cancelled"} :
       Decide(i, decision)
  \/ CancelPlan

\* The plan has ended, or a dead script run left it running.
Over ==
  /\ pc = "idle"
  /\ saved.status \notin {"none", "waiting"}
  /\ UNCHANGED vars

Next ==
  Run \/ User \/ (\E i \in Slots : Expire(i)) \/ Raise \/ Crash \/ Over

Spec == Init /\ [][Next]_vars

\* A script run goes on until it ends: calls of tools and of the LLM return.
FairSpec == Spec /\ WF_vars(Run)

--------------------------------------------------------------------------------
(* Properties *)

\* Type correctness of the plan in memory, the durable row and the script.
TypeOK ==
  /\ plan \in PlanState /\ held \in PlanState /\ saved \in PlanState
  /\ verdict \in [Slots -> Verdict]
  /\ enabled \in SUBSET Tools
  /\ pc \in {"idle", "loop", "refresh", "attempt", "pause", "replan"}
  /\ active \in 0 .. MaxListed
  /\ cursor \in 1 .. MaxListed + 1
  /\ resumed \in BOOLEAN
  /\ acted \in [Slots -> Nat]
  /\ born \in [Slots -> Nat]

\* A task is only ever attempted when everything it depends on is complete, in
\* the first plan, in every revision and after every pause (scheduler.py:14-45,
\* runtime.py:123-170).
DependenciesFirst ==
  [][\A i \in Slots : plan'.tasks[i].attempts > plan.tasks[i].attempts =>
       \A d \in plan.tasks[i].deps : Status(plan, d) = "completed"]_vars

\* A consequential tool acts at most once for a task, and only if the user
\* approved: no retry, resume or revision repeats it (task_runner.py:305-316).
ConsequentialOnce ==
  \A i \in Slots :
    /\ acted[i] <= 1
    /\ acted[i] = 1 => verdict[i] \in {"approved", "expired"}

\* A revision never names a tool whose action was denied or completed in an
\* earlier revision (replanner.py:54-91).
RefusedStaysRefused ==
  \A i, j \in Listed(plan) :
    /\ plan.tasks[i].kind \in Tools
    /\ plan.tasks[i].kind = plan.tasks[j].kind
    /\ born[i] < born[j]
    => Status(plan, i) \notin {"denied", "completed"}

\* At most one action of the plan is put to the user at a time, and a parked
\* plan has exactly one waiting task, with a request (runtime.py:123-145).
OneQuestionAtATime ==
  /\ Cardinality({i \in Slots : verdict[i] = "pending"}) <= 1
  /\ saved.status = "waiting" =>
       \E i \in Listed(saved) :
         /\ {j \in Listed(saved) : Status(saved, j) = "waiting"} = {i}
         /\ verdict[i] # "none"

\* A plan that ended accounts for its tasks: none is under way or could still
\* run, and a completed plan has every required task complete with evidence
\* (runtime.py:147-225, goal_evaluator.py:103-114).
EndAccountsForAll ==
  saved.status \in {"completed", "failed"} =>
    /\ \A i \in Listed(saved) :
         /\ Status(saved, i) \notin {"ready", "running", "waiting", "approved"}
         /\ Status(saved, i) = "pending" =>
              \/ ~Supports(enabled, saved.tasks[i].kind)
              \/ \E d \in saved.tasks[i].deps : Status(saved, d) # "completed"
    /\ saved.status = "completed" => Gaps(saved) = {}

\* Every script run ends: the plan is finished or parked, whatever tasks fail,
\* retry and get replanned.
RunEnds == (pc # "idle") ~> (pc = "idle")

\* Completed work stays in the durable plan as it is, and no task disappears
\* from it (README.md:717-718: "Completed tasks and outputs are immutable during
\* replanning. Failed and blocked work remains visible as history").
HistoryKept ==
  [][\A i \in Listed(saved) :
       /\ i \in Listed(saved')
       /\ Status(saved, i) = "completed" => saved'.tasks[i] = [saved.tasks[i]
            EXCEPT !.required = saved'.tasks[i].required]]_vars

================================================================================
