---------------------------- MODULE ApprovalService ----------------------------
(***************************************************************************)
(* The human approval gate of the planner: approval/service.py over        *)
(* approval/repository.py, the gate and the side-effect execution of       *)
(* executor/task_runner.py, the pause and resume of planner/runtime.py and *)
(* the approval panel of app.py.                                           *)
(*                                                                         *)
(* One action of one task is followed through all its versions, the        *)
(* requests made for them and the durable workflow row that names the      *)
(* current version and request.  Every browser tab runs the Streamlit      *)
(* script in a thread of its own against the same SQLite file.  The        *)
(* repository commits one statement per connection, so each statement that *)
(* writes is a step of its own; the SELECTs an operation issues one after  *)
(* the other, before its first write, are one step.                        *)
(*                                                                         *)
(* A payload stands for the validated arguments; the digest of a row is a  *)
(* function of tool, version and payload, and rows are written whole, so   *)
(* comparing digests compares a payload with itself.  updated_at orders    *)
(* requests of one version by the write that stamped them.                 *)
(***************************************************************************)
EXTENDS Naturals

CONSTANTS
  Tabs,         \* browser tabs (Streamlit sessions) of the one local user
  NoTab,        \* nobody holds the execution gate
  Payloads,     \* argument payloads of the tool call
  NoPayload,    \* no payload
  MaxVersion,   \* bound on the versions of the action
  MaxRequest,   \* bound on the approval requests ever created
  MaxCrashes,   \* bound on process crashes
  MaxFailures   \* bound on failing database writes

ASSUME ApprovalAssumption ==
  /\ NoTab \notin Tabs
  /\ NoPayload \notin Payloads
  /\ MaxVersion \in Nat \ {0}
  /\ MaxRequest \in Nat \ {0}
  /\ MaxCrashes \in Nat
  /\ MaxFailures \in Nat

Versions == 1 .. MaxVersion
Requests == 1 .. MaxRequest

ActionStatus ==
  {"absent", "pending_approval", "approved", "denied", "expired", "cancelled",
   "edited", "executing", "completed", "failed"}

ApprovalStatus ==
  {"absent", "pending", "approved", "denied", "expired", "cancelled", "edited"}

ReceiptStatus == {"none", "completed", "failed"}

ActionRow == [status : ActionStatus, payload : Payloads \union {NoPayload}]
ApprovalRow == [status : ApprovalStatus, version : 0 .. MaxVersion]

\* The workflow row: PlanState.status and the references of its waiting task.
PlanRow ==
  [status : {"running", "waiting", "ended"},
   version : 0 .. MaxVersion, request : 0 .. MaxRequest]

\* Where the script of a tab stands, named for what it does next.
Labels ==
  {"idle", "panel", "rerun",
   "save_decision", "save_decided_action",
   "save_edited_request", "save_edited_action", "save_new_action",
   "save_new_request", "save_edited_workflow",
   "expire_request", "expire_action",
   "persist_running", "propose", "propose_request", "check", "pause",
   "verify", "acquire", "lookup", "start", "call", "record", "close",
   "finish", "recover"}

Decisions == {"approved", "denied", "cancelled"}

\* What a tab holds in its local variables.
TabState ==
  [version : 0 .. MaxVersion,               \* task.action_version
   request : 0 .. MaxRequest,               \* task.approval_id
   payload : Payloads \union {NoPayload},   \* arguments of the proposal it read
   shown : Payloads \union {NoPayload},     \* preview the user looked at
   decision : Decisions,                    \* status _reject or approve writes
   draft : Payloads \union {NoPayload},     \* arguments typed in the editor
   fresh : 0 .. MaxRequest,                 \* request an edit is creating
   expiring : 0 .. MaxRequest,              \* request _expire_if_needed closes
   return : {"idle", "persist_running", "finish"},  \* where it returns to
   resumed : BOOLEAN,                       \* inside resume(), not run()
   outcome : {"completed", "failed"}]       \* what the tool reported

VARIABLES
  actions,    \* table actions: the row of each version
  approvals,  \* table approvals: the row of each request
  newest,     \* request of a version with the latest updated_at
  issued,     \* number of requests created
  lapsed,     \* requests 1 .. lapsed have passed their expires_at
  receipts,   \* table receipts, by idempotency key (one per version)
  plan,       \* table workflows: the row of the plan
  gate,       \* _SIDE_EFFECT_EXECUTION_GATE: the tab that holds it
  pc,         \* label of each tab
  tab,        \* local variables of each tab
  crashes,    \* process crashes so far
  failures,   \* failed writes so far
  effects,    \* history: how often the tool acted, per version
  sent,       \* history: payloads the tool acted on, per version
  consent,    \* history: payloads shown to a user who approved, per version
  barred      \* history: versions rejected, or expired when a run of them began

store == <<actions, approvals, newest, issued, receipts>>
history == <<effects, sent, consent, barred>>
faults == <<crashes, failures>>
vars == <<store, plan, lapsed, gate, pc, tab, faults, history>>

Blank ==
  [version |-> 0, request |-> 0, payload |-> NoPayload, shown |-> NoPayload,
   decision |-> "approved", draft |-> NoPayload, fresh |-> 0, expiring |-> 0,
   return |-> "idle", resumed |-> FALSE, outcome |-> "failed"]

\* The planner runtime of one tab reached the consequential task: no proposal
\* exists yet and run() has persisted the plan as running.
Init ==
  /\ actions = [v \in Versions |-> [status |-> "absent", payload |-> NoPayload]]
  /\ approvals = [q \in Requests |-> [status |-> "absent", version |-> 0]]
  /\ newest = [v \in Versions |-> 0]
  /\ issued = 0
  /\ lapsed = 0
  /\ receipts = [v \in Versions |-> "none"]
  /\ plan = [status |-> "running", version |-> 0, request |-> 0]
  /\ gate = NoTab
  /\ \E t \in Tabs : pc = [u \in Tabs |-> IF u = t THEN "propose" ELSE "idle"]
  /\ tab = [t \in Tabs |-> Blank]
  /\ crashes = 0
  /\ failures = 0
  /\ effects = [v \in Versions |-> 0]
  /\ sent = [v \in Versions |-> {}]
  /\ consent = [v \in Versions |-> {}]
  /\ barred = {}

--------------------------------------------------------------------------------
(* Helpers *)

Goto(t, label) == pc' = [pc EXCEPT ![t] = label]
Keep(t, state) == tab' = [tab EXCEPT ![t] = state]

\* The script run of the tab is over; its locals are gone.
Leave(t) == Goto(t, "idle") /\ Keep(t, Blank)

\* INSERT OR REPLACE of one actions row.
SaveAction(v, status, payload) ==
  actions' = [actions EXCEPT ![v] = [status |-> status, payload |-> payload]]

\* INSERT OR REPLACE of one approvals row, stamped now.
SaveRequest(q, status, v) ==
  /\ approvals' = [approvals EXCEPT ![q] = [status |-> status, version |-> v]]
  /\ newest' = [newest EXCEPT ![v] = q]

\* INSERT OR REPLACE of the workflow row from the state this tab holds.
SaveWorkflow(t, status) ==
  plan' = [status |-> status, version |-> tab[t].version,
           request |-> tab[t].request]

\* Mutant: the expiry of an approved request is not looked at again.
ExpiresWhilePending(q) == approvals[q].status = "pending" /\ q <= lapsed

\* _expire_if_needed closes the request when a read meets it past its time.
Expires(q) ==
  /\ q \in Requests
  /\ approvals[q].status \in {"pending", "approved"}
  /\ q <= lapsed

\* The read enters _expire_if_needed; the caller goes on at `return`.
EnterExpiry(t, q, state, return) ==
  /\ Goto(t, "expire_request")
  /\ Keep(t, [state EXCEPT !.expiring = q, !.return = return,
                           !.payload = actions[approvals[q].version].payload])

\* _decision_context accepts a decision about the expected version only, and
\* only while its request is pending.
Decidable(q, v) == approvals[q] = [status |-> "pending", version |-> v]

\* verify_approved: the newest request of the version is approved and the
\* proposal is approved or already executing.
Executable(v, q) ==
  /\ q # 0 /\ approvals[q].status = "approved"
  /\ actions[v].status \in {"approved", "executing"}

\* An edit creates the next version of the action.
NextVersion(v) == v + 1

\* Mutant: the preview is not rebuilt for an edited version.
FirstPreview(v) == actions[1].payload

\* The preview of a version is built from its own arguments.
PreviewOf(v) == actions[v].payload

\* _SIDE_EFFECT_EXECUTION_GATE can be acquired.
GateFree == gate = NoTab

\* Mutant: the gate is kept when the critical section is left.
KeepGate(t) == gate' = t

\* Leaving the `with` block of the gate.
ReleaseGate(t) == gate' = NoTab

\* Mutant: every receipt is written as completed.
AlwaysCompleted(v, outcome) == "completed"

\* save_receipt keeps the receipt it finds.
FirstOutcome(v, outcome) ==
  IF receipts[v] = "none" THEN outcome ELSE receipts[v]

--------------------------------------------------------------------------------
(* The script run of a tab: render the waiting workflow, or resume it *)

\* find_waiting_workflow and _handle_waiting_workflow: a pending request shows
\* the approval panel, any other one resumes the plan.
OpenWorkflow(t) ==
  LET q == plan.request
      state == [Blank EXCEPT !.version = plan.version, !.request = q,
                             !.resumed = TRUE]
  IN /\ pc[t] \in {"idle", "panel", "rerun"}
     /\ plan.status = "waiting"
     /\ \/ /\ Expires(q)
           /\ EnterExpiry(t, q, state, "persist_running")
        \/ /\ ~Expires(q)
           /\ approvals[q].status = "pending"
           /\ Goto(t, "panel")
           /\ Keep(t, [Blank EXCEPT !.version = plan.version, !.request = q,
                                    !.shown = PreviewOf(plan.version)])
        \/ /\ ~Expires(q)
           /\ approvals[q].status # "pending"
           /\ Goto(t, "persist_running")
           /\ Keep(t, state)
     /\ UNCHANGED <<store, plan, lapsed, gate, faults, history>>

\* The script run finds no waiting workflow.
NothingWaits(t) ==
  /\ pc[t] \in {"panel", "rerun"}
  /\ plan.status # "waiting"
  /\ Leave(t)
  /\ UNCHANGED <<store, plan, lapsed, gate, faults, history>>

\* The script run of a click renders the buttons again, keyed by the request,
\* before it calls the service: a click on a panel that is gone is lost.
Clicked(t) ==
  /\ pc[t] = "panel"
  /\ plan.status = "waiting"
  /\ plan.request = tab[t].request
  /\ plan.version = tab[t].version

\* The clock passes expires_at between the rendering and the decision.
ClickTooLate(t) ==
  /\ Clicked(t)
  /\ Expires(tab[t].request)
  /\ EnterExpiry(t, tab[t].request, tab[t], "idle")
  /\ UNCHANGED <<store, plan, lapsed, gate, faults, history>>

\* approve, deny or cancel, up to their first write: the request and the
\* proposal are read, and written back whole by the next two steps.
Decide(t, decision) ==
  LET v == tab[t].version
      q == tab[t].request
  IN /\ Clicked(t)
     /\ ~Expires(q)
     /\ Decidable(q, v)
     /\ Goto(t, "save_decision")
     /\ Keep(t, [tab[t] EXCEPT !.decision = decision,
                               !.payload = actions[v].payload])
     /\ consent' = IF decision = "approved"
                   THEN [consent EXCEPT ![v] = @ \union {tab[t].shown}]
                   ELSE consent
     /\ UNCHANGED <<store, plan, lapsed, gate, faults, effects, sent, barred>>

SaveDecision(t) ==
  /\ pc[t] = "save_decision"
  /\ SaveRequest(tab[t].request, tab[t].decision, tab[t].version)
  /\ Goto(t, "save_decided_action")
  /\ UNCHANGED <<actions, issued, receipts, plan, lapsed, gate, tab, faults, history>>

\* The second write of a decision; the script then calls st.rerun().
SaveDecidedAction(t) ==
  LET v == tab[t].version
  IN /\ pc[t] = "save_decided_action"
     /\ SaveAction(v, tab[t].decision, tab[t].payload)
     /\ barred' = IF tab[t].decision = "approved" THEN barred ELSE barred \union {v}
     /\ Goto(t, "rerun") /\ Keep(t, Blank)
     /\ UNCHANGED <<approvals, newest, issued, receipts, plan, lapsed, gate, faults,
                    effects, sent, consent>>

\* edit, up to its first write.
Edit(t, arguments) ==
  LET v == tab[t].version
      q == tab[t].request
  IN /\ Clicked(t)
     /\ ~Expires(q)
     /\ Decidable(q, v)
     /\ v < MaxVersion          \* bound
     /\ issued < MaxRequest     \* bound
     /\ issued' = issued + 1
     /\ Goto(t, "save_edited_request")
     /\ Keep(t, [tab[t] EXCEPT !.draft = arguments, !.fresh = issued + 1,
                               !.payload = actions[v].payload])
     /\ UNCHANGED <<actions, approvals, newest, receipts, plan, lapsed, gate,
                    faults, history>>

\* Mutant: the edited request is left as it is.
SkipEditedRequest(t) ==
  /\ pc[t] = "save_edited_request"
  /\ Goto(t, "save_edited_action")
  /\ UNCHANGED <<store, plan, lapsed, gate, tab, faults, history>>

SaveEditedRequest(t) ==
  /\ pc[t] = "save_edited_request"
  /\ SaveRequest(tab[t].request, "edited", tab[t].version)
  /\ Goto(t, "save_edited_action")
  /\ UNCHANGED <<actions, issued, receipts, plan, lapsed, gate, tab, faults, history>>

SaveEditedAction(t) ==
  /\ pc[t] = "save_edited_action"
  /\ SaveAction(tab[t].version, "edited", tab[t].payload)
  /\ Goto(t, "save_new_action")
  /\ UNCHANGED <<approvals, newest, issued, receipts, plan, lapsed, gate, tab,
                 faults, history>>

\* Mutant: the status of the request is written into the action.
SaveNewActionPending(t) ==
  /\ pc[t] = "save_new_action"
  /\ SaveAction(NextVersion(tab[t].version), "pending", tab[t].draft)
  /\ Goto(t, "save_new_request")
  /\ UNCHANGED <<approvals, newest, issued, receipts, plan, lapsed, gate, tab,
                 faults, history>>

SaveNewAction(t) ==
  /\ pc[t] = "save_new_action"
  /\ SaveAction(NextVersion(tab[t].version), "pending_approval", tab[t].draft)
  /\ Goto(t, "save_new_request")
  /\ UNCHANGED <<approvals, newest, issued, receipts, plan, lapsed, gate, tab,
                 faults, history>>

\* The task of the state this tab read is pointed at the new version only
\* when edit has returned.
SaveNewRequest(t) ==
  LET v == NextVersion(tab[t].version)
  IN /\ pc[t] = "save_new_request"
     /\ SaveRequest(tab[t].fresh, "pending", v)
     /\ Goto(t, "save_edited_workflow")
     /\ Keep(t, [tab[t] EXCEPT !.version = v, !.request = tab[t].fresh])
     /\ UNCHANGED <<actions, issued, receipts, plan, lapsed, gate, faults, history>>

SaveEditedWorkflow(t) ==
  /\ pc[t] = "save_edited_workflow"
  /\ SaveWorkflow(t, "waiting")
  /\ Goto(t, "rerun") /\ Keep(t, Blank)
  /\ UNCHANGED <<store, lapsed, gate, faults, history>>

--------------------------------------------------------------------------------
(* _expire_if_needed *)

ExpireRequest(t) ==
  LET q == tab[t].expiring
  IN /\ pc[t] = "expire_request"
     /\ SaveRequest(q, "expired", approvals[q].version)
     /\ Goto(t, "expire_action")
     /\ UNCHANGED <<actions, issued, receipts, plan, lapsed, gate, tab, faults, history>>

ExpireAction(t) ==
  /\ pc[t] = "expire_action"
  /\ SaveAction(approvals[tab[t].expiring].version, "expired", tab[t].payload)
  /\ Goto(t, tab[t].return)
  /\ Keep(t, IF tab[t].return = "idle" THEN Blank ELSE tab[t])
  /\ UNCHANGED <<approvals, newest, issued, receipts, plan, lapsed, gate, faults, history>>

--------------------------------------------------------------------------------
(* PlanningRuntime.resume and the approval gate of the executor *)

\* Mutant: resume() keeps the running status to itself.
RunUnpersisted(t) ==
  /\ pc[t] = "persist_running"
  /\ Goto(t, "check")
  /\ UNCHANGED <<store, plan, lapsed, gate, tab, faults, history>>

\* resume() persists the plan as running before it works on it.
PersistRunning(t) ==
  /\ pc[t] = "persist_running"
  /\ SaveWorkflow(t, "running")
  /\ Goto(t, "check")
  /\ barred' = IF tab[t].request <= lapsed THEN barred \union {tab[t].version}
               ELSE barred
  /\ UNCHANGED <<store, lapsed, gate, tab, faults, effects, sent, consent>>

\* request_approval: the task has no action yet.
Propose(t, arguments) ==
  /\ pc[t] = "propose"
  /\ issued < MaxRequest     \* bound
  /\ SaveAction(1, "pending_approval", arguments)
  /\ issued' = issued + 1
  /\ Goto(t, "propose_request")
  /\ Keep(t, [tab[t] EXCEPT !.fresh = issued + 1])
  /\ UNCHANGED <<approvals, newest, receipts, plan, lapsed, gate, faults, history>>

ProposeRequest(t) ==
  LET q == tab[t].fresh
  IN /\ pc[t] = "propose_request"
     /\ SaveRequest(q, "pending", 1)
     /\ Goto(t, "pause")
     /\ Keep(t, [tab[t] EXCEPT !.version = 1, !.request = q])
     /\ UNCHANGED <<actions, issued, receipts, plan, lapsed, gate, faults, history>>

\* The executor returned WAITING_FOR_APPROVAL: the plan is parked.  The row it
\* persists as running just before is read by nobody.
Pause(t) ==
  /\ pc[t] = "pause"
  /\ SaveWorkflow(t, "waiting")
  /\ Leave(t)
  /\ UNCHANGED <<store, lapsed, gate, faults, history>>

\* Mutant: a resumed plan is taken to be an approved one.
TrustResume(t) ==
  /\ pc[t] = "check"
  /\ Goto(t, "acquire")
  /\ Keep(t, [tab[t] EXCEPT !.payload = actions[tab[t].version].payload])
  /\ UNCHANGED <<store, plan, lapsed, gate, faults, history>>

\* check_approval of a task that has an action.
CheckApproval(t) ==
  LET q == tab[t].request
  IN /\ pc[t] = "check"
     /\ \/ /\ Expires(q)
           /\ EnterExpiry(t, q, tab[t], "finish")
        \/ /\ ~Expires(q)
           /\ approvals[q].status = "approved"
           /\ Goto(t, "verify") /\ UNCHANGED tab
        \/ /\ ~Expires(q)
           /\ approvals[q].status # "approved"
           /\ Goto(t, "finish") /\ UNCHANGED tab
     /\ UNCHANGED <<store, plan, lapsed, gate, faults, history>>

\* verify_approved, and the frozen proposal it returns.
VerifyApproved(t) ==
  LET v == tab[t].version
      q == newest[v]
  IN /\ pc[t] = "verify"
     /\ \/ /\ Expires(q)
           /\ EnterExpiry(t, q, tab[t], "finish")
        \/ /\ ~Expires(q)
           /\ Executable(v, q)
           /\ Goto(t, "acquire")
           /\ Keep(t, [tab[t] EXCEPT !.payload = actions[v].payload])
        \/ /\ ~Expires(q)
           /\ ~Executable(v, q)
           /\ Goto(t, "finish") /\ UNCHANGED tab
     /\ UNCHANGED <<store, plan, lapsed, gate, faults, history>>

AcquireGate(t) ==
  /\ pc[t] = "acquire"
  /\ GateFree
  /\ gate' = t
  /\ Goto(t, "lookup")
  /\ UNCHANGED <<store, plan, lapsed, tab, faults, history>>

\* Mutant: only a successful receipt ends the task.
RetryFailedReceipt(t) ==
  /\ pc[t] = "lookup"
  /\ \/ /\ receipts[tab[t].version] # "completed"
        /\ Goto(t, "start")
        /\ UNCHANGED gate
     \/ /\ receipts[tab[t].version] = "completed"
        /\ Goto(t, "finish")
        /\ ReleaseGate(t)
  /\ UNCHANGED <<store, plan, lapsed, tab, faults, history>>

\* A receipt of either kind ends the task without a call.
LookupReceipt(t) ==
  /\ pc[t] = "lookup"
  /\ \/ /\ receipts[tab[t].version] = "none"
        /\ Goto(t, "start")
        /\ UNCHANGED gate
     \/ /\ receipts[tab[t].version] # "none"
        /\ Goto(t, "finish")
        /\ ReleaseGate(t)
  /\ UNCHANGED <<store, plan, lapsed, tab, faults, history>>

\* mark_execution_started writes the proposal verify_approved returned.
MarkExecutionStarted(t) ==
  /\ pc[t] = "start"
  /\ SaveAction(tab[t].version, "executing", tab[t].payload)
  /\ Goto(t, "call")
  /\ UNCHANGED <<approvals, newest, issued, receipts, plan, lapsed, gate, tab,
                 faults, history>>

\* execute_tool: it succeeds, fails after it acted, or fails or is refused
\* without having acted.
CallTool(t, acted, outcome) ==
  LET v == tab[t].version
  IN /\ pc[t] = "call"
     /\ outcome = "completed" => acted
     /\ effects' = [effects EXCEPT ![v] = IF acted THEN @ + 1 ELSE @]
     /\ sent' = [sent EXCEPT ![v] = IF acted THEN @ \union {tab[t].payload} ELSE @]
     /\ Goto(t, "record")
     /\ Keep(t, [tab[t] EXCEPT !.outcome = outcome])
     /\ UNCHANGED <<store, plan, lapsed, gate, faults, consent, barred>>

\* record_execution: the receipt, then the final status of the action.
SaveReceipt(t) ==
  LET v == tab[t].version
  IN /\ pc[t] = "record"
     /\ receipts' = [receipts EXCEPT ![v] = FirstOutcome(v, tab[t].outcome)]
     /\ Goto(t, "close")
     /\ UNCHANGED <<actions, approvals, newest, issued, plan, lapsed, gate, tab,
                    faults, history>>

CloseAction(t) ==
  /\ pc[t] = "close"
  /\ SaveAction(tab[t].version, tab[t].outcome, tab[t].payload)
  /\ ReleaseGate(t)
  /\ Goto(t, "finish")
  /\ UNCHANGED <<approvals, newest, issued, receipts, plan, lapsed, tab, faults, history>>

\* The rest of the run: the plan is evaluated and persisted in a final status.
FinishPlan(t) ==
  /\ pc[t] = "finish"
  /\ SaveWorkflow(t, "ended")
  /\ Leave(t)
  /\ UNCHANGED <<store, lapsed, gate, faults, history>>

--------------------------------------------------------------------------------
(* The clock, and failures *)

\* The oldest request that has not yet expired passes its expires_at.
Lapse ==
  /\ lapsed < issued
  /\ lapsed' = lapsed + 1
  /\ UNCHANGED <<store, plan, gate, pc, tab, faults, history>>

\* The process dies: the threads of all tabs and the gate are gone.
Crash ==
  /\ crashes < MaxCrashes     \* bound
  /\ crashes' = crashes + 1
  /\ pc' = [t \in Tabs |-> "idle"]
  /\ tab' = [t \in Tabs |-> Blank]
  /\ gate' = NoTab
  /\ UNCHANGED <<store, plan, lapsed, failures, history>>

\* Where the exception of a failed write ends the script run ...
Unhandled(t) ==
  \/ pc[t] \in {"save_decision", "save_decided_action", "save_edited_request",
                "save_edited_action", "save_new_action", "save_new_request",
                "save_edited_workflow", "persist_running", "recover"}
  \/ pc[t] \in {"expire_request", "expire_action"} /\ tab[t].return # "finish"
  \/ pc[t] \in {"pause", "finish"} /\ ~tab[t].resumed

\* ... where check_approval or run turns it into a failed task ...
FailsTask(t) ==
  \/ pc[t] \in {"propose", "propose_request", "start", "call", "record", "close"}
  \/ pc[t] \in {"expire_request", "expire_action"} /\ tab[t].return = "finish"

\* ... and where the handler of resume() tries to persist a failed plan.
FailsResume(t) == pc[t] \in {"pause", "finish"} /\ tab[t].resumed

\* A write to the database raises; the audit record that follows a write of
\* the gate (label "call") is a write too.
WriteFails(t) ==
  /\ failures < MaxFailures     \* bound
  /\ failures' = failures + 1
  /\ \/ Unhandled(t) /\ Leave(t) /\ UNCHANGED gate
     \/ /\ FailsTask(t)
        /\ Goto(t, "finish") /\ UNCHANGED tab
        /\ IF gate = t THEN ReleaseGate(t) ELSE UNCHANGED gate
     \/ FailsResume(t) /\ Goto(t, "recover") /\ UNCHANGED <<tab, gate>>
  /\ UNCHANGED <<store, plan, lapsed, crashes, history>>

\* The except clause of resume().
Recover(t) ==
  /\ pc[t] = "recover"
  /\ SaveWorkflow(t, "ended")
  /\ Leave(t)
  /\ UNCHANGED <<store, lapsed, gate, faults, history>>

--------------------------------------------------------------------------------

\* A step of the script of a tab that no user has to trigger.
Proceed(t) ==
  \/ pc[t] = "rerun" /\ (OpenWorkflow(t) \/ NothingWaits(t))
  \/ SaveDecision(t) \/ SaveDecidedAction(t)
  \/ SaveEditedRequest(t) \/ SaveEditedAction(t) \/ SaveNewAction(t)
  \/ SaveNewRequest(t) \/ SaveEditedWorkflow(t)
  \/ ExpireRequest(t) \/ ExpireAction(t)
  \/ PersistRunning(t)
  \/ \E p \in Payloads : Propose(t, p)
  \/ ProposeRequest(t) \/ Pause(t)
  \/ CheckApproval(t) \/ VerifyApproved(t)
  \/ AcquireGate(t) \/ LookupReceipt(t) \/ MarkExecutionStarted(t)
  \/ \E acted \in BOOLEAN, outcome \in {"completed", "failed"} :
       CallTool(t, acted, outcome)
  \/ SaveReceipt(t) \/ CloseAction(t) \/ FinishPlan(t)

\* A user loads the page or uses the approval panel.
UserActs(t) ==
  \/ OpenWorkflow(t) \/ NothingWaits(t)
  \/ ClickTooLate(t)
  \/ \E d \in Decisions : Decide(t, d)
  \/ \E p \in Payloads : Edit(t, p)

\* Everything is over, or only a restarted run could go on.
Settled ==
  /\ plan.status # "waiting"
  /\ \A t \in Tabs : pc[t] = "idle"
  /\ UNCHANGED vars

Next == (\E t \in Tabs : Proceed(t) \/ UserActs(t)) \/ Lapse \/ Settled

Spec == Init /\ [][Next]_vars

\* A script run that has started goes on, and st.rerun() starts another one.
\* No user is bound to act, and no request is bound to expire.
FairSpec == Spec /\ \A t \in Tabs : WF_vars(Proceed(t))

\* The same system with failing writes and a dying process.
FaultyNext == Next \/ Crash \/ (\E t \in Tabs : WriteFails(t) \/ Recover(t))

FaultySpec == Init /\ [][FaultyNext]_vars

--------------------------------------------------------------------------------
(* Properties *)

\* Type correctness of the tables, the plan row and the script runs.
TypeOK ==
  /\ actions \in [Versions -> ActionRow]
  /\ approvals \in [Requests -> ApprovalRow]
  /\ newest \in [Versions -> 0 .. MaxRequest]
  /\ issued \in 0 .. MaxRequest
  /\ lapsed \in 0 .. MaxRequest
  /\ receipts \in [Versions -> ReceiptStatus]
  /\ plan \in PlanRow
  /\ gate \in Tabs \union {NoTab}
  /\ pc \in [Tabs -> Labels]
  /\ tab \in [Tabs -> TabState]
  /\ crashes \in 0 .. MaxCrashes
  /\ failures \in 0 .. MaxFailures
  /\ effects \in [Versions -> Nat]
  /\ sent \in [Versions -> SUBSET (Payloads \union {NoPayload})]
  /\ consent \in [Versions -> SUBSET (Payloads \union {NoPayload})]
  /\ barred \in SUBSET Versions

\* The tool acts at most once for each version of the action, whatever tabs,
\* resumed runs and failed outcomes there are: the receipt lookup, the call and
\* the receipt write are one critical section (task_runner.py:219-300).
AtMostOnce == \A v \in Versions : effects[v] <= 1

\* The tool acts on a payload only if a user approved exactly that payload for
\* that version: editing, expiry and repeated requests never swap the arguments
\* under an approval (docs/STAGE8_HUMAN_APPROVAL.md:124-139).
ConsentBeforeEffect == \A v \in Versions : sent[v] \subseteq consent[v]

\* No version is executed that nobody ever approved, even when two tabs decide
\* and edit at the same time with what they read before.
EffectNeedsGrant == \A v \in Versions : effects[v] > 0 => consent[v] # {}

\* A receipt tells the truth about the outside world: "completed" only if the
\* tool acted, and, unless a run still has to write it, a receipt for whatever
\* acted (task_runner.py:282-300, service.py:289-323).
ReceiptTruth ==
  \A v \in Versions :
    /\ receipts[v] = "completed" => effects[v] > 0
    /\ effects[v] > 0 =>
         \/ receipts[v] # "none"
         \/ \E t \in Tabs : pc[t] = "record" /\ tab[t].version = v

\* A denial or cancellation the user saw confirmed is final for that version,
\* and so is an approval that had expired when the plan was resumed
\* (docs/STAGE8_HUMAN_APPROVAL.md:156-160).
BarredNeverRuns ==
  [][\A v \in barred : effects'[v] = effects[v]]_vars

\* When the tool acts, the newest request of that version stands approved, and
\* no later version of the action has been proposed: what was denied, edited or
\* expired since the click does not run.
RunsUnderLiveApproval ==
  [][\A v \in Versions : effects'[v] # effects[v] =>
       /\ newest[v] # 0 /\ approvals[newest[v]].status = "approved"
       /\ \A w \in Versions : w > v => actions[w].status = "absent"]_vars

\* At most one request of the action is open at any time, and none is open
\* once a receipt exists, so a user is never asked about a superseded or an
\* executed action (service.py:182-215).
OneLiveRequest ==
  LET open == {q \in Requests : approvals[q].status = "pending"}
  IN /\ \A q, r \in open : q = r
     /\ open # {} => \A v \in Versions : receipts[v] = "none"

\* The status of an executed action is final: no expiry and no late decision
\* overwrites completed or failed (docs/STAGE8_HUMAN_APPROVAL.md:147-155).
ExecutedStatusStays ==
  [][\A v \in Versions : actions[v].status \in {"completed", "failed"} =>
       actions'[v].status = actions[v].status]_vars

\* A decision takes effect: a workflow parked at a decided request does not stay
\* parked and its run does not get stuck at the gate, but ends, unless an edit
\* in another tab parks it at a new request (app.py:1019-1039, runtime.py:74-102,
\* task_runner.py:219-228).
DecisionTakesEffect ==
  LET decided == {q \in Requests : approvals[q].status \notin {"pending", "expired"}}
  IN (plan.status = "waiting" /\ plan.request \in decided)
       ~> \/ plan.status = "ended"
          \/ plan.status = "waiting" /\ plan.request \notin decided

--------------------------------------------------------------------------------
(* The inductive invariant behind the safety of Spec *)

Critical == {"lookup", "start", "call", "record", "close"}

Editing ==
  {"save_edited_request", "save_edited_action", "save_new_action", "save_new_request"}

Expiring == {"expire_request", "expire_action"}

Creating == Editing \union {"propose_request"}

Pointing ==
  {"panel", "save_decision", "save_decided_action", "save_edited_workflow",
   "persist_running", "check", "pause", "verify", "acquire"}
    \union Critical \union Editing \union Expiring

\* A pair of references, of the plan or of a tab, that belong together.
Points(refs) ==
  /\ refs.version \in Versions
  /\ refs.request \in Requests
  /\ approvals[refs.request].version = refs.version

\* A stored request keeps its version.
RequestsKeepVersion ==
  /\ \A q \in Requests : approvals[q].status = "absent" <=> approvals[q].version = 0
  /\ \A q \in Requests : q > issued => approvals[q].status = "absent"
  /\ \A v \in Versions : newest[v] # 0 => approvals[newest[v]].version = v

\* Whoever creates a request has its id for itself.
FreshRequests ==
  \A t \in Tabs : pc[t] \in Creating =>
    /\ tab[t].fresh \in 1 .. issued
    /\ approvals[tab[t].fresh].status = "absent"
    /\ \A u \in Tabs : pc[u] \in Creating /\ u # t => tab[u].fresh # tab[t].fresh

ReferencesHold ==
  /\ plan.status = "waiting" => Points(plan)
  /\ \A t \in Tabs :
       /\ pc[t] \in Pointing => Points(tab[t])
       /\ pc[t] \in Editing => tab[t].version < MaxVersion
       /\ pc[t] \in Expiring =>
            /\ tab[t].expiring \in Requests
            /\ approvals[tab[t].expiring].version \in Versions

\* Mutual exclusion of the calls.
GateExcludes == \A t \in Tabs : pc[t] \in Critical => gate = t

\* Approval status anywhere goes back to a click.
GrantsAreReal ==
  /\ \A q \in Requests :
       approvals[q].status = "approved" => consent[approvals[q].version] # {}
  /\ \A t \in Tabs :
       \/ pc[t] = "save_decision" /\ tab[t].decision = "approved"
       \/ pc[t] \in Critical \union {"acquire"}
       => consent[tab[t].version] # {}

\* What is known of the outside world on the way through the gate.
EffectsAreRecorded ==
  /\ AtMostOnce
  /\ EffectNeedsGrant
  /\ ReceiptTruth
  /\ \A t \in Tabs :
       LET v == tab[t].version
       IN /\ pc[t] \in {"start", "call", "record"} => receipts[v] = "none"
          /\ pc[t] \in {"start", "call"} => effects[v] = 0
          /\ pc[t] = "record" /\ tab[t].outcome = "completed" => effects[v] = 1

IInv ==
  /\ TypeOK
  /\ RequestsKeepVersion
  /\ FreshRequests
  /\ ReferencesHold
  /\ GateExcludes
  /\ GrantsAreReal
  /\ EffectsAreRecorded

\* What the layer promises about one action (module ActionContract).
C == INSTANCE ActionContract
       WITH granted <- {v \in Versions : consent[v] # {}}
Contract == C!Spec

================================================================================
