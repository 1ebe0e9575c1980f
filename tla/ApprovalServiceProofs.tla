------------------------ MODULE ApprovalServiceProofs ------------------------
(***************************************************************************)
(* TLAPS proofs about ApprovalService: for any number of tabs, payloads,   *)
(* versions and requests, and in the absence of faults, IInv is inductive; *)
(* type correctness, at-most-once execution and the implementation of      *)
(* ActionContract follow from it.                                          *)
(***************************************************************************)
EXTENDS ApprovalService, TLAPS

USE DEF Versions, Requests

\* What holds whatever fails: the part of IInv that does not speak of the
\* receipts.
Frame ==
  /\ TypeOK
  /\ RequestsKeepVersion
  /\ FreshRequests
  /\ ReferencesHold
  /\ GateExcludes
  /\ GrantsAreReal

\* The locals of a tab that does nothing are well typed.
LEMMA BlankType == Blank \in TabState
  BY ApprovalAssumption DEF Blank, TabState, Decisions

\* The inductive invariant holds when the consequential task is reached.
LEMMA InitIInv == Init => IInv
<1> SUFFICES ASSUME Init PROVE IInv
  OBVIOUS
<1> USE ApprovalAssumption DEF Init
<1>1. TypeOK
  BY BlankType DEF TypeOK, ActionRow, ActionStatus, ApprovalRow, ApprovalStatus,
     ReceiptStatus, PlanRow, Labels
<1>2. RequestsKeepVersion
  BY DEF RequestsKeepVersion
<1>3. FreshRequests /\ ReferencesHold /\ GateExcludes /\ GrantsAreReal
  BY DEF FreshRequests, ReferencesHold, GateExcludes, GrantsAreReal, Creating,
     Pointing, Editing, Expiring, Critical
<1>4. EffectsAreRecorded
  BY DEF EffectsAreRecorded, AtMostOnce, EffectNeedsGrant, ReceiptTruth
<1>. QED
  BY <1>1, <1>2, <1>3, <1>4 DEF IInv


--------------------------------------------------------------------------------
(* Type correctness *)

AnyPayload == Payloads \union {NoPayload}

\* Moving a tab to a label keeps the labels typed.
LEMMA GotoType ==
  ASSUME TypeOK, NEW t \in Tabs, NEW label \in Labels, Goto(t, label)
  PROVE  pc' \in [Tabs -> Labels]
BY DEF TypeOK, Goto

\* Assigning the locals of a tab keeps their type.
LEMMA KeepType ==
  ASSUME TypeOK, NEW t \in Tabs, NEW state \in TabState, Keep(t, state)
  PROVE  tab' \in [Tabs -> TabState]
BY DEF TypeOK, Keep

\* A script run that is over leaves a typed label and typed locals.
LEMMA LeaveType ==
  ASSUME TypeOK, NEW t \in Tabs, Leave(t)
  PROVE  pc' \in [Tabs -> Labels] /\ tab' \in [Tabs -> TabState]
BY GotoType, KeepType, BlankType DEF Leave, Labels

\* Writing an action row keeps the type of the table.
LEMMA SaveActionType ==
  ASSUME TypeOK, NEW v, NEW status \in ActionStatus, NEW payload \in AnyPayload,
         SaveAction(v, status, payload)
  PROVE  actions' \in [Versions -> ActionRow]
BY DEF TypeOK, SaveAction, ActionRow, AnyPayload

\* Writing a request keeps the type of the table and of the order by time.
LEMMA SaveRequestType ==
  ASSUME TypeOK, NEW q \in Requests, NEW status \in ApprovalStatus,
         NEW v \in 0 .. MaxVersion, SaveRequest(q, status, v)
  PROVE  /\ approvals' \in [Requests -> ApprovalRow]
         /\ newest' \in [Versions -> 0 .. MaxRequest]
<1>1. [status |-> status, version |-> v] \in ApprovalRow
  BY DEF ApprovalRow
<1>2. q \in 0 .. MaxRequest
  BY ApprovalAssumption
<1>. QED
  BY <1>1, <1>2 DEF TypeOK, SaveRequest

\* Writing the workflow row from the locals of a tab keeps its type.
LEMMA SaveWorkflowType ==
  ASSUME TypeOK, NEW t \in Tabs, NEW status \in {"running", "waiting", "ended"},
         SaveWorkflow(t, status)
  PROVE  plan' \in PlanRow
BY DEF TypeOK, SaveWorkflow, PlanRow, TabState

\* What a tab reads from its own variables and from the rows it points at.
LEMMA TabFields ==
  ASSUME TypeOK, NEW t \in Tabs
  PROVE  /\ tab[t] \in TabState
         /\ tab[t].version \in 0 .. MaxVersion
         /\ tab[t].request \in 0 .. MaxRequest
         /\ tab[t].payload \in AnyPayload
         /\ tab[t].shown \in AnyPayload
         /\ tab[t].draft \in AnyPayload
         /\ tab[t].decision \in Decisions
         /\ tab[t].fresh \in 0 .. MaxRequest
         /\ tab[t].expiring \in 0 .. MaxRequest
         /\ tab[t].return \in {"idle", "persist_running", "finish"}
         /\ tab[t].outcome \in {"completed", "failed"}
BY DEF TypeOK, TabState, AnyPayload

\* Reading an action yields a payload.
LEMMA PayloadRead ==
  ASSUME TypeOK, NEW v \in Versions PROVE actions[v].payload \in AnyPayload
BY DEF TypeOK, ActionRow, AnyPayload

\* What _expire_if_needed closes is a stored request with a version.
LEMMA ExpiringRead ==
  ASSUME TypeOK, RequestsKeepVersion, NEW q, Expires(q)
  PROVE  q \in Requests /\ approvals[q].version \in Versions
BY ApprovalAssumption DEF TypeOK, RequestsKeepVersion, Expires, ApprovalRow

\* Entering _expire_if_needed from any script run keeps labels and locals typed.
LEMMA EnterExpiryType ==
  ASSUME TypeOK, RequestsKeepVersion, NEW t \in Tabs, NEW q, Expires(q),
         NEW state \in TabState, NEW return \in {"idle", "persist_running", "finish"},
         EnterExpiry(t, q, state, return)
  PROVE  pc' \in [Tabs -> Labels] /\ tab' \in [Tabs -> TabState]
<1>1. /\ q \in 0 .. MaxRequest
      /\ actions[approvals[q].version].payload \in AnyPayload
  BY ExpiringRead, PayloadRead, ApprovalAssumption
<1>2. [state EXCEPT !.expiring = q, !.return = return,
                    !.payload = actions[approvals[q].version].payload] \in TabState
  BY <1>1 DEF TabState, AnyPayload
<1>. QED
  BY <1>2, GotoType, KeepType DEF EnterExpiry, Labels

\* Every action of a tab keeps every variable in its type.
LEMMA TypeStep ==
  ASSUME Frame, NEW t \in Tabs, Proceed(t) \/ UserActs(t)
  PROVE  TypeOK'
<1> USE ApprovalAssumption, TabFields DEF Frame, store, faults, history
<1>1. CASE OpenWorkflow(t)
  <2>. DEFINE state == [Blank EXCEPT !.version = plan.version, !.request = plan.request,
                                     !.resumed = TRUE]
              shown == [Blank EXCEPT !.version = plan.version, !.request = plan.request,
                                     !.shown = PreviewOf(plan.version)]
  <2>1. plan.version \in Versions /\ plan.request \in Requests
    BY <1>1 DEF OpenWorkflow, ReferencesHold, Points
  <2>2. state \in TabState /\ shown \in TabState
    <3>1. plan.version \in 0 .. MaxVersion /\ plan.request \in 0 .. MaxRequest
      BY <2>1
    <3>2. PreviewOf(plan.version) \in Payloads \union {NoPayload}
      BY <2>1, PayloadRead DEF PreviewOf, AnyPayload
    <3>3. state \in TabState
      BY <3>1, BlankType DEF TabState
    <3>4. shown \in TabState
      BY <3>1, <3>2, BlankType DEF TabState
    <3>. QED
      BY <3>3, <3>4
  <2>3. pc' \in [Tabs -> Labels] /\ tab' \in [Tabs -> TabState]
    <3>1. CASE Expires(plan.request) /\ EnterExpiry(t, plan.request, state, "persist_running")
      BY <3>1, <2>2, EnterExpiryType
    <3>2. CASE Goto(t, "panel") /\ Keep(t, shown)
      BY <3>2, <2>2, GotoType, KeepType DEF Labels
    <3>3. CASE Goto(t, "persist_running") /\ Keep(t, state)
      BY <3>3, <2>2, GotoType, KeepType DEF Labels
    <3>. QED
      BY <3>1, <3>2, <3>3, <1>1 DEF OpenWorkflow
  <2>. QED
    BY <2>3, <1>1 DEF OpenWorkflow, TypeOK
<1>2. CASE NothingWaits(t)
  BY <1>2, LeaveType DEF NothingWaits, TypeOK
<1>3. CASE ClickTooLate(t)
  <2>1. pc' \in [Tabs -> Labels] /\ tab' \in [Tabs -> TabState]
    BY <1>3, EnterExpiryType DEF ClickTooLate
  <2>. QED
    BY <2>1, <1>3 DEF ClickTooLate, TypeOK
<1>4. ASSUME NEW d \in Decisions, Decide(t, d) PROVE TypeOK'
  <2>1. tab[t].version \in Versions
    BY <1>4 DEF Decide, Clicked, ReferencesHold, Points
  <2>2. [tab[t] EXCEPT !.decision = d, !.payload = actions[tab[t].version].payload] \in TabState
    BY <2>1, PayloadRead DEF TabState, AnyPayload
  <2>3. pc' \in [Tabs -> Labels] /\ tab' \in [Tabs -> TabState]
    BY <1>4, <2>2, GotoType, KeepType DEF Decide, Labels
  <2>4. consent' \in [Versions -> SUBSET (Payloads \union {NoPayload})]
    BY <1>4 DEF Decide, TypeOK, AnyPayload
  <2>. QED
    BY <2>3, <2>4, <1>4 DEF Decide, TypeOK
<1>5. ASSUME NEW p \in Payloads, Edit(t, p) PROVE TypeOK'
  <2>1. tab[t].version \in Versions
    BY <1>5 DEF Edit, Clicked, ReferencesHold, Points
  <2>2. issued + 1 \in 0 .. MaxRequest
    BY <1>5 DEF Edit, TypeOK
  <2>3. [tab[t] EXCEPT !.draft = p, !.fresh = issued + 1,
                       !.payload = actions[tab[t].version].payload] \in TabState
    BY <2>1, <2>2, PayloadRead DEF TabState, AnyPayload
  <2>4. pc' \in [Tabs -> Labels] /\ tab' \in [Tabs -> TabState]
    BY <1>5, <2>3, GotoType, KeepType DEF Edit, Labels
  <2>. QED
    BY <2>2, <2>4, <1>5 DEF Edit, TypeOK
<1>6. CASE SaveDecision(t)
  <2>1. tab[t].request \in Requests /\ tab[t].decision \in ApprovalStatus
    BY <1>6 DEF SaveDecision, ReferencesHold, Points, Pointing, Decisions, ApprovalStatus
  <2>2. /\ approvals' \in [Requests -> ApprovalRow]
        /\ newest' \in [Versions -> 0 .. MaxRequest]
    BY <2>1, <1>6, SaveRequestType DEF SaveDecision
  <2>3. pc' \in [Tabs -> Labels]
    BY <1>6, GotoType DEF SaveDecision, Labels
  <2>. QED
    BY <2>2, <2>3, <1>6 DEF SaveDecision, TypeOK
<1>7. CASE SaveDecidedAction(t)
  <2>1. tab[t].version \in Versions /\ tab[t].decision \in ActionStatus
    BY <1>7 DEF SaveDecidedAction, ReferencesHold, Points, Pointing, Decisions, ActionStatus
  <2>2. actions' \in [Versions -> ActionRow]
    BY <2>1, <1>7, SaveActionType DEF SaveDecidedAction
  <2>3. pc' \in [Tabs -> Labels] /\ tab' \in [Tabs -> TabState]
    BY <1>7, GotoType, KeepType, BlankType DEF SaveDecidedAction, Labels
  <2>4. barred' \in SUBSET Versions
    BY <1>7, <2>1 DEF SaveDecidedAction, TypeOK
  <2>. QED
    BY <2>2, <2>3, <2>4, <1>7 DEF SaveDecidedAction, TypeOK
<1>8. CASE SaveEditedRequest(t)
  <2>1. tab[t].request \in Requests
    BY <1>8 DEF SaveEditedRequest, ReferencesHold, Points, Pointing, Editing
  <2>2. /\ approvals' \in [Requests -> ApprovalRow]
        /\ newest' \in [Versions -> 0 .. MaxRequest]
    BY <2>1, <1>8, SaveRequestType DEF SaveEditedRequest, ApprovalStatus
  <2>3. pc' \in [Tabs -> Labels]
    BY <1>8, GotoType DEF SaveEditedRequest, Labels
  <2>. QED
    BY <2>2, <2>3, <1>8 DEF SaveEditedRequest, TypeOK
<1>9. CASE SaveEditedAction(t)
  <2>1. actions' \in [Versions -> ActionRow]
    BY <1>9, SaveActionType DEF SaveEditedAction, ActionStatus
  <2>2. pc' \in [Tabs -> Labels]
    BY <1>9, GotoType DEF SaveEditedAction, Labels
  <2>. QED
    BY <2>1, <2>2, <1>9 DEF SaveEditedAction, TypeOK
<1>10. CASE SaveNewAction(t)
  <2>1. actions' \in [Versions -> ActionRow]
    BY <1>10, SaveActionType DEF SaveNewAction, ActionStatus
  <2>2. pc' \in [Tabs -> Labels]
    BY <1>10, GotoType DEF SaveNewAction, Labels
  <2>. QED
    BY <2>1, <2>2, <1>10 DEF SaveNewAction, TypeOK
<1>11. CASE SaveNewRequest(t)
  <2>. DEFINE v == NextVersion(tab[t].version)
  <2>1. v \in 0 .. MaxVersion /\ tab[t].fresh \in Requests
    <3>1. pc[t] \in Editing /\ pc[t] \in Creating
      BY <1>11 DEF SaveNewRequest, Editing, Creating
    <3>2. tab[t].version < MaxVersion /\ tab[t].fresh \in 1 .. issued
      BY <3>1 DEF ReferencesHold, FreshRequests
    <3>3. issued \in 0 .. MaxRequest
      BY DEF TypeOK
    <3>. QED
      BY <3>2, <3>3 DEF NextVersion
  <2>2. [tab[t] EXCEPT !.version = v, !.request = tab[t].fresh] \in TabState
    BY <2>1 DEF TabState
  <2>3. /\ approvals' \in [Requests -> ApprovalRow]
        /\ newest' \in [Versions -> 0 .. MaxRequest]
    BY <2>1, <1>11, SaveRequestType DEF SaveNewRequest, ApprovalStatus
  <2>4. pc' \in [Tabs -> Labels] /\ tab' \in [Tabs -> TabState]
    BY <1>11, <2>2, GotoType, KeepType DEF SaveNewRequest, Labels
  <2>. QED
    BY <2>3, <2>4, <1>11 DEF SaveNewRequest, TypeOK
<1>12. CASE SaveEditedWorkflow(t)
  <2>1. plan' \in PlanRow
    BY <1>12, SaveWorkflowType DEF SaveEditedWorkflow
  <2>2. pc' \in [Tabs -> Labels] /\ tab' \in [Tabs -> TabState]
    BY <1>12, GotoType, KeepType, BlankType DEF SaveEditedWorkflow, Labels
  <2>. QED
    BY <2>1, <2>2, <1>12 DEF SaveEditedWorkflow, TypeOK
<1>13. CASE ExpireRequest(t)
  <2>1. tab[t].expiring \in Requests /\ approvals[tab[t].expiring].version \in 0 .. MaxVersion
    BY <1>13 DEF ExpireRequest, ReferencesHold, Expiring
  <2>2. /\ approvals' \in [Requests -> ApprovalRow]
        /\ newest' \in [Versions -> 0 .. MaxRequest]
    BY <2>1, <1>13, SaveRequestType DEF ExpireRequest, ApprovalStatus
  <2>3. pc' \in [Tabs -> Labels]
    BY <1>13, GotoType DEF ExpireRequest, Labels
  <2>. QED
    BY <2>2, <2>3, <1>13 DEF ExpireRequest, TypeOK
<1>14. CASE ExpireAction(t)
  <2>1. actions' \in [Versions -> ActionRow]
    BY <1>14, SaveActionType DEF ExpireAction, ActionStatus
  <2>2. pc' \in [Tabs -> Labels] /\ tab' \in [Tabs -> TabState]
    BY <1>14, GotoType, KeepType, BlankType DEF ExpireAction, Labels
  <2>. QED
    BY <2>1, <2>2, <1>14 DEF ExpireAction, TypeOK
<1>15. CASE PersistRunning(t)
  <2>1. plan' \in PlanRow
    BY <1>15, SaveWorkflowType DEF PersistRunning
  <2>2. pc' \in [Tabs -> Labels]
    BY <1>15, GotoType DEF PersistRunning, Labels
  <2>3. tab[t].version \in Versions
    BY <1>15 DEF PersistRunning, ReferencesHold, Points, Pointing
  <2>4. barred' \in SUBSET Versions
    BY <1>15, <2>3 DEF PersistRunning, TypeOK
  <2>. QED
    BY <2>1, <2>2, <2>4, <1>15 DEF PersistRunning, TypeOK
<1>16. ASSUME NEW p \in Payloads, Propose(t, p) PROVE TypeOK'
  <2>1. issued + 1 \in 0 .. MaxRequest
    BY <1>16 DEF Propose, TypeOK
  <2>2. [tab[t] EXCEPT !.fresh = issued + 1] \in TabState
    BY <2>1 DEF TabState
  <2>3. actions' \in [Versions -> ActionRow]
    BY <1>16, SaveActionType DEF Propose, ActionStatus, AnyPayload
  <2>4. pc' \in [Tabs -> Labels] /\ tab' \in [Tabs -> TabState]
    BY <1>16, <2>2, GotoType, KeepType DEF Propose, Labels
  <2>. QED
    BY <2>1, <2>3, <2>4, <1>16 DEF Propose, TypeOK
<1>17. CASE ProposeRequest(t)
  <2>1. tab[t].fresh \in Requests
    BY <1>17 DEF ProposeRequest, FreshRequests, Creating, TypeOK
  <2>2. [tab[t] EXCEPT !.version = 1, !.request = tab[t].fresh] \in TabState
    <3>1. 1 \in 0 .. MaxVersion /\ tab[t].fresh \in 0 .. MaxRequest
      BY <2>1
    <3>. QED
      BY <3>1 DEF TabState
  <2>3. /\ approvals' \in [Requests -> ApprovalRow]
        /\ newest' \in [Versions -> 0 .. MaxRequest]
    BY <2>1, <1>17, SaveRequestType DEF ProposeRequest, ApprovalStatus
  <2>4. pc' \in [Tabs -> Labels] /\ tab' \in [Tabs -> TabState]
    BY <1>17, <2>2, GotoType, KeepType DEF ProposeRequest, Labels
  <2>. QED
    BY <2>3, <2>4, <1>17 DEF ProposeRequest, TypeOK
<1>18. CASE Pause(t)
  BY <1>18, SaveWorkflowType, LeaveType DEF Pause, TypeOK
<1>19. CASE CheckApproval(t)
  <2>1. pc' \in [Tabs -> Labels] /\ tab' \in [Tabs -> TabState]
    BY <1>19, EnterExpiryType, GotoType DEF CheckApproval, Labels, TypeOK
  <2>. QED
    BY <2>1, <1>19 DEF CheckApproval, TypeOK
<1>20. CASE VerifyApproved(t)
  <2>1. tab[t].version \in Versions
    BY <1>20 DEF VerifyApproved, ReferencesHold, Points, Pointing
  <2>2. [tab[t] EXCEPT !.payload = actions[tab[t].version].payload] \in TabState
    BY <2>1, PayloadRead DEF TabState, AnyPayload
  <2>3. CASE Expires(newest[tab[t].version]) /\
             EnterExpiry(t, newest[tab[t].version], tab[t], "finish")
    BY <2>3, <1>20, EnterExpiryType DEF VerifyApproved, TypeOK
  <2>4. CASE Goto(t, "acquire") /\
             Keep(t, [tab[t] EXCEPT !.payload = actions[tab[t].version].payload])
    BY <2>4, <2>2, <1>20, GotoType, KeepType DEF VerifyApproved, Labels, TypeOK
  <2>5. CASE Goto(t, "finish") /\ UNCHANGED tab
    BY <2>5, <1>20, GotoType DEF VerifyApproved, Labels, TypeOK
  <2>. QED
    BY <2>3, <2>4, <2>5, <1>20 DEF VerifyApproved
<1>21. CASE AcquireGate(t)
  BY <1>21, GotoType DEF AcquireGate, Labels, TypeOK
<1>22. CASE LookupReceipt(t)
  <2>1. pc' \in [Tabs -> Labels]
    BY <1>22, GotoType DEF LookupReceipt, Labels
  <2>. QED
    BY <2>1, <1>22 DEF LookupReceipt, ReleaseGate, TypeOK
<1>23. CASE MarkExecutionStarted(t)
  <2>1. actions' \in [Versions -> ActionRow]
    BY <1>23, SaveActionType DEF MarkExecutionStarted, ActionStatus
  <2>2. pc' \in [Tabs -> Labels]
    BY <1>23, GotoType DEF MarkExecutionStarted, Labels
  <2>. QED
    BY <2>1, <2>2, <1>23 DEF MarkExecutionStarted, TypeOK
<1>24. ASSUME NEW acted \in BOOLEAN, NEW outcome \in {"completed", "failed"},
              CallTool(t, acted, outcome)
       PROVE  TypeOK'
  <2>1. [tab[t] EXCEPT !.outcome = outcome] \in TabState
    BY DEF TabState
  <2>2. pc' \in [Tabs -> Labels] /\ tab' \in [Tabs -> TabState]
    BY <1>24, <2>1, GotoType, KeepType DEF CallTool, Labels
  <2>3. effects' \in [Versions -> Nat]
    <3>1. tab[t].version \in Versions
      BY <1>24 DEF CallTool, ReferencesHold, Points, Pointing, Critical
    <3>2. CASE acted
      BY <3>1, <3>2, <1>24 DEF CallTool, TypeOK
    <3>3. CASE ~acted
      BY <3>1, <3>3, <1>24 DEF CallTool, TypeOK
    <3>. QED
      BY <3>2, <3>3
  <2>4. sent' \in [Versions -> SUBSET (Payloads \union {NoPayload})]
    BY <1>24 DEF CallTool, TypeOK, AnyPayload
  <2>. QED
    BY <2>2, <2>3, <2>4, <1>24 DEF CallTool, TypeOK
<1>25. CASE SaveReceipt(t)
  <2>1. pc' \in [Tabs -> Labels]
    BY <1>25, GotoType DEF SaveReceipt, Labels
  <2>2. receipts' \in [Versions -> ReceiptStatus]
    BY <1>25 DEF SaveReceipt, FirstOutcome, ReceiptStatus, TypeOK
  <2>. QED
    BY <2>1, <2>2, <1>25 DEF SaveReceipt, TypeOK
<1>26. CASE CloseAction(t)
  <2>1. actions' \in [Versions -> ActionRow]
    BY <1>26, SaveActionType DEF CloseAction, ActionStatus
  <2>2. pc' \in [Tabs -> Labels]
    BY <1>26, GotoType DEF CloseAction, Labels
  <2>. QED
    BY <2>1, <2>2, <1>26 DEF CloseAction, ReleaseGate, TypeOK
<1>27. CASE FinishPlan(t)
  BY <1>27, SaveWorkflowType, LeaveType DEF FinishPlan, TypeOK
<1>. QED
  BY <1>1, <1>2, <1>3, <1>4, <1>5, <1>6, <1>7, <1>8, <1>9, <1>10, <1>11, <1>12, <1>13,
     <1>14, <1>15, <1>16, <1>17, <1>18, <1>19, <1>20, <1>21, <1>22, <1>23, <1>24,
     <1>25, <1>26, <1>27 DEF Proceed, UserActs

--------------------------------------------------------------------------------
(* Requests keep the version they were created for *)

\* Writing a stored request again, under the version it has.
LEMMA RewriteRequest ==
  ASSUME TypeOK, RequestsKeepVersion, NEW q \in Requests, NEW v \in Versions,
         NEW status \in ApprovalStatus, status # "absent",
         approvals[q].version = v, SaveRequest(q, status, v), UNCHANGED issued
  PROVE  /\ RequestsKeepVersion'
         /\ \A r \in Requests : approvals'[r].version = approvals[r].version
         /\ \A r \in Requests : approvals[r].status = "absent" => approvals'[r] = approvals[r]
<1>1. approvals' = [approvals EXCEPT ![q] = [status |-> status, version |-> v]]
      /\ newest' = [newest EXCEPT ![v] = q]
  BY DEF SaveRequest
<1>2. approvals'[q].status = status /\ approvals'[q].version = v
  BY <1>1 DEF TypeOK
<1>3. \A r \in Requests : r # q => approvals'[r] = approvals[r]
  BY <1>1 DEF TypeOK
<1>4. approvals[q].status # "absent" /\ v # 0
  BY ApprovalAssumption DEF RequestsKeepVersion
<1>5. \A w \in Versions : newest'[w] # 0 => approvals'[newest'[w]].version = w
  <2>. SUFFICES ASSUME NEW w \in Versions, newest'[w] # 0
                PROVE  approvals'[newest'[w]].version = w
    OBVIOUS
  <2>1. CASE w = v
    BY <2>1, <1>1, <1>2 DEF TypeOK
  <2>2. CASE w # v
    <3>1. newest'[w] = newest[w] /\ newest[w] \in Requests
      BY <2>2, <1>1, ApprovalAssumption DEF TypeOK
    <3>. QED
      BY <3>1, <1>2, <1>3 DEF RequestsKeepVersion
  <2>. QED
    BY <2>1, <2>2
<1>. QED
  BY <1>2, <1>3, <1>4, <1>5 DEF RequestsKeepVersion

\* Writing a request for the first time.
LEMMA WriteFreshRequest ==
  ASSUME TypeOK, RequestsKeepVersion, NEW q \in Requests, NEW v \in Versions,
         q \in 1 .. issued, approvals[q].status = "absent",
         SaveRequest(q, "pending", v), UNCHANGED issued
  PROVE  /\ RequestsKeepVersion'
         /\ approvals'[q].version = v /\ approvals'[q].status = "pending"
         /\ \A r \in Requests : r # q => approvals'[r] = approvals[r]
<1>1. approvals' = [approvals EXCEPT ![q] = [status |-> "pending", version |-> v]]
      /\ newest' = [newest EXCEPT ![v] = q]
  BY DEF SaveRequest
<1>2. approvals'[q].status = "pending" /\ approvals'[q].version = v
  BY <1>1 DEF TypeOK
<1>3. \A r \in Requests : r # q => approvals'[r] = approvals[r]
  BY <1>1 DEF TypeOK
<1>4. \A w \in Versions : newest[w] # q
  <2>1. approvals[q].version = 0 /\ q # 0
    BY ApprovalAssumption DEF RequestsKeepVersion
  <2>. QED
    BY <2>1, ApprovalAssumption DEF RequestsKeepVersion
<1>5. \A w \in Versions : newest'[w] # 0 => approvals'[newest'[w]].version = w
  <2>. SUFFICES ASSUME NEW w \in Versions, newest'[w] # 0
                PROVE  approvals'[newest'[w]].version = w
    OBVIOUS
  <2>1. CASE w = v
    BY <2>1, <1>1, <1>2 DEF TypeOK
  <2>2. CASE w # v
    <3>1. newest'[w] = newest[w] /\ newest[w] \in Requests
      BY <2>2, <1>1, ApprovalAssumption DEF TypeOK
    <3>. QED
      BY <3>1, <1>3, <1>4 DEF RequestsKeepVersion
  <2>. QED
    BY <2>1, <2>2
<1>6. issued \in 0 .. MaxRequest
  BY DEF TypeOK
<1>. QED
  BY <1>2, <1>3, <1>5, <1>6, ApprovalAssumption DEF RequestsKeepVersion

\* What a step can do to the requests: some are rewritten under their version,
\* or a fresh one is written by the tab that created it.
RequestsGrow(t) ==
  /\ RequestsKeepVersion'
  /\ issued <= issued'
  /\ \A r \in Requests :
       \/ /\ approvals'[r].version = approvals[r].version
          /\ approvals[r].status = "absent" => approvals'[r] = approvals[r]
       \/ /\ pc[t] \in Creating /\ pc'[t] \notin Creating /\ r = tab[t].fresh
          /\ approvals[r].status = "absent"
  /\ \A r \in Requests :
       approvals[r].version # 0 => approvals'[r].version = approvals[r].version

\* No step takes a stored request away or moves it to another version.
LEMMA RequestStep ==
  ASSUME Frame, NEW t \in Tabs, Proceed(t) \/ UserActs(t)
  PROVE  RequestsGrow(t)
<1> USE ApprovalAssumption DEF Frame, store, RequestsGrow
<1>1. issued \in 0 .. MaxRequest
  BY DEF TypeOK
<1>2. CASE UNCHANGED <<approvals, newest>> /\ issued' \in {issued, issued + 1}
  BY <1>1, <1>2 DEF RequestsKeepVersion
<1>3. ASSUME NEW q \in Requests, NEW v \in Versions, NEW status \in ApprovalStatus,
             status # "absent", approvals[q].version = v,
             SaveRequest(q, status, v), UNCHANGED issued
      PROVE  RequestsGrow(t)
  BY <1>1, <1>3, RewriteRequest
<1>4. ASSUME NEW q \in Requests, NEW v \in Versions, q = tab[t].fresh,
             pc[t] \in Creating, pc'[t] \notin Creating,
             SaveRequest(q, "pending", v), UNCHANGED issued
      PROVE  RequestsGrow(t)
  <2>1. q \in 1 .. issued /\ approvals[q].status = "absent"
    BY <1>4 DEF FreshRequests
  <2>2. approvals[q].version = 0
    BY <2>1 DEF RequestsKeepVersion
  <2>3. /\ RequestsKeepVersion'
        /\ \A r \in Requests : r # q => approvals'[r] = approvals[r]
    BY <2>1, <1>4, WriteFreshRequest
  <2>. QED
    BY <2>1, <2>2, <2>3, <1>1, <1>4
<1>5. CASE SaveDecision(t)
  <2>1. Points(tab[t])
    BY <1>5 DEF SaveDecision, ReferencesHold, Pointing
  <2>2. tab[t].decision \in ApprovalStatus /\ tab[t].decision # "absent"
    BY TabFields DEF Decisions, ApprovalStatus
  <2>. QED
    BY <1>5, <2>1, <2>2, <1>3 DEF SaveDecision, Points
<1>6. CASE SaveEditedRequest(t)
  <2>1. Points(tab[t])
    BY <1>6 DEF SaveEditedRequest, ReferencesHold, Pointing, Editing
  <2>. QED
    BY <1>6, <2>1, <1>3 DEF SaveEditedRequest, Points, ApprovalStatus
<1>7. CASE SaveNewRequest(t)
  <2>1. pc[t] \in Creating /\ pc[t] \in Editing /\ pc'[t] \notin Creating
    BY <1>7 DEF SaveNewRequest, Goto, Creating, Editing, TypeOK
  <2>2. tab[t].version \in 0 .. MaxVersion /\ tab[t].version < MaxVersion
    BY <2>1, TabFields DEF ReferencesHold
  <2>3. tab[t].fresh \in Requests /\ NextVersion(tab[t].version) \in Versions
    BY <2>1, <2>2, <1>1 DEF FreshRequests, NextVersion
  <2>. QED
    BY <1>7, <2>1, <2>3, <1>4 DEF SaveNewRequest
<1>8. CASE ProposeRequest(t)
  <2>1. pc[t] \in Creating /\ pc'[t] \notin Creating
    BY <1>8 DEF ProposeRequest, Goto, Creating, Editing, TypeOK
  <2>2. tab[t].fresh \in Requests /\ 1 \in Versions
    BY <2>1, <1>1 DEF FreshRequests
  <2>. QED
    BY <1>8, <2>1, <2>2, <1>4 DEF ProposeRequest
<1>9. CASE ExpireRequest(t)
  <2>1. /\ tab[t].expiring \in Requests
        /\ approvals[tab[t].expiring].version \in Versions
    BY <1>9 DEF ExpireRequest, ReferencesHold, Expiring
  <2>. QED
    BY <1>9, <2>1, <1>3 DEF ExpireRequest, ApprovalStatus
<1>10. CASE ~ \/ SaveDecision(t) \/ SaveEditedRequest(t) \/ SaveNewRequest(t)
              \/ ProposeRequest(t) \/ ExpireRequest(t)
  <2>1. UNCHANGED <<approvals, newest>> /\ issued' \in {issued, issued + 1}
    BY <1>10 DEF Proceed, UserActs, OpenWorkflow, NothingWaits, ClickTooLate, Decide, Edit,
       SaveDecidedAction, SaveEditedAction, SaveNewAction, SaveEditedWorkflow,
       ExpireAction, PersistRunning, Propose, Pause, CheckApproval, VerifyApproved,
       AcquireGate, LookupReceipt, MarkExecutionStarted, CallTool, SaveReceipt,
       CloseAction, FinishPlan
  <2>. QED
    BY <2>1, <1>2
<1>. QED
  BY <1>5, <1>6, <1>7, <1>8, <1>9, <1>10

--------------------------------------------------------------------------------
(* A step of one tab leaves the script runs of the others alone *)

OthersStay(t) == \A u \in Tabs : u # t => pc'[u] = pc[u] /\ tab'[u] = tab[u]

\* Every action writes the label and the locals of one tab only.
LEMMA OneTabMoves ==
  ASSUME TypeOK, NEW t \in Tabs, Proceed(t) \/ UserActs(t)
  PROVE  OthersStay(t)
<1> USE DEF TypeOK, OthersStay, Goto, Keep, Leave, EnterExpiry
<1>1. CASE OpenWorkflow(t)
  BY <1>1 DEF OpenWorkflow
<1>2. CASE ClickTooLate(t) \/ \E d \in Decisions : Decide(t, d)
  BY <1>2 DEF ClickTooLate, Decide
<1>3. CASE CheckApproval(t) \/ VerifyApproved(t)
  BY <1>3 DEF CheckApproval, VerifyApproved
<1>4. CASE \/ NothingWaits(t) \/ (\E p \in Payloads : Edit(t, p) \/ Propose(t, p))
           \/ SaveDecision(t) \/ SaveDecidedAction(t) \/ SaveEditedRequest(t)
           \/ SaveEditedAction(t) \/ SaveNewAction(t) \/ SaveNewRequest(t)
           \/ SaveEditedWorkflow(t) \/ ExpireRequest(t) \/ ExpireAction(t)
  BY <1>4 DEF NothingWaits, Edit, Propose, SaveDecision, SaveDecidedAction,
     SaveEditedRequest, SaveEditedAction, SaveNewAction, SaveNewRequest,
     SaveEditedWorkflow, ExpireRequest, ExpireAction
<1>5. CASE \/ PersistRunning(t) \/ ProposeRequest(t) \/ Pause(t) \/ AcquireGate(t)
           \/ LookupReceipt(t) \/ MarkExecutionStarted(t)
           \/ (\E acted \in BOOLEAN, outcome \in {"completed", "failed"} :
                 CallTool(t, acted, outcome))
           \/ SaveReceipt(t) \/ CloseAction(t) \/ FinishPlan(t)
  BY <1>5 DEF PersistRunning, ProposeRequest, Pause, AcquireGate, LookupReceipt,
     MarkExecutionStarted, CallTool, SaveReceipt, CloseAction, FinishPlan
<1>. QED
  BY <1>1, <1>2, <1>3, <1>4, <1>5 DEF Proceed, UserActs

\* The id of a request that is being created stays with its creator.
LEMMA FreshStep ==
  ASSUME Frame, NEW t \in Tabs, Proceed(t) \/ UserActs(t)
  PROVE  FreshRequests'
<1> USE DEF Frame
<1>1. RequestsGrow(t) /\ OthersStay(t) /\ issued \in 0 .. MaxRequest /\ issued' \in 0 .. MaxRequest
  BY RequestStep, OneTabMoves, TypeStep DEF TypeOK
<1>2. ASSUME pc'[t] \in Creating => pc[t] \in Creating /\ tab'[t] = tab[t]
      PROVE  FreshRequests'
  <2>. SUFFICES ASSUME NEW u \in Tabs, pc'[u] \in Creating
                PROVE  /\ tab'[u].fresh \in 1 .. issued'
                       /\ approvals'[tab'[u].fresh].status = "absent"
                       /\ \A w \in Tabs : pc'[w] \in Creating /\ w # u =>
                                            tab'[w].fresh # tab'[u].fresh
    BY DEF FreshRequests
  <2>1. \A w \in Tabs : pc'[w] \in Creating => pc[w] \in Creating /\ tab'[w] = tab[w]
    BY <1>1, <1>2 DEF OthersStay
  <2>2. /\ tab[u].fresh \in 1 .. issued
        /\ approvals[tab[u].fresh].status = "absent"
        /\ \A w \in Tabs : pc[w] \in Creating /\ w # u => tab[w].fresh # tab[u].fresh
    BY <2>1 DEF FreshRequests
  <2>3. tab[u].fresh \in Requests /\ tab[u].fresh \in 1 .. issued'
    BY <1>1, <2>2, ApprovalAssumption DEF RequestsGrow
  <2>4. approvals'[tab[u].fresh] = approvals[tab[u].fresh]
    <3>1. ~ (pc[t] \in Creating /\ pc'[t] \notin Creating /\ tab[u].fresh = tab[t].fresh)
      BY <2>2
    <3>. QED
      BY <3>1, <2>2, <2>3, <1>1 DEF RequestsGrow
  <2>. QED
    BY <2>1, <2>2, <2>3, <2>4
<1>4. ASSUME pc'[t] \in Creating, tab'[t].fresh = issued + 1, issued' = issued + 1,
             UNCHANGED approvals
      PROVE  FreshRequests'
  <2>1. approvals'[issued + 1].status = "absent" /\ issued + 1 \in 1 .. issued'
    BY <1>1, <1>4 DEF RequestsKeepVersion
  <2>. QED
    BY <1>1, <1>4, <2>1 DEF FreshRequests, OthersStay
<1>5. ASSUME NEW p \in Payloads, Edit(t, p) PROVE FreshRequests'
  <2>1. tab'[t].fresh = issued + 1 /\ pc'[t] \in Creating
    BY <1>5, TabFields DEF Edit, Goto, Keep, Creating, Editing, TypeOK, TabState
  <2>. QED
    BY <2>1, <1>5, <1>4 DEF Edit
<1>6. ASSUME NEW p \in Payloads, Propose(t, p) PROVE FreshRequests'
  <2>1. tab'[t].fresh = issued + 1 /\ pc'[t] \in Creating
    BY <1>6, TabFields DEF Propose, Goto, Keep, Creating, TypeOK, TabState
  <2>. QED
    BY <2>1, <1>6, <1>4 DEF Propose
<1>7. CASE SaveEditedRequest(t) \/ SaveEditedAction(t) \/ SaveNewAction(t)
  BY <1>7, <1>2 DEF SaveEditedRequest, SaveEditedAction, SaveNewAction, Goto, Creating,
     Editing, TypeOK
<1>8. CASE ~ \/ \E p \in Payloads : Edit(t, p) \/ Propose(t, p)
             \/ SaveEditedRequest(t) \/ SaveEditedAction(t) \/ SaveNewAction(t)
  <2>1. pc'[t] \notin Creating
    BY <1>8, TabFields DEF Proceed, UserActs, OpenWorkflow, NothingWaits, ClickTooLate,
       Decide, SaveDecision, SaveDecidedAction, SaveNewRequest, SaveEditedWorkflow,
       ExpireRequest, ExpireAction, PersistRunning, ProposeRequest, Pause, CheckApproval,
       VerifyApproved, AcquireGate, LookupReceipt, MarkExecutionStarted, CallTool,
       SaveReceipt, CloseAction, FinishPlan, Goto, Leave, EnterExpiry, Creating, Editing,
       TypeOK
  <2>. QED
    BY <2>1, <1>2
<1>. QED
  BY <1>5, <1>6, <1>7, <1>8

--------------------------------------------------------------------------------
(* References stay valid *)

\* References that belong together still do after any step.
LEMMA PointsStay ==
  ASSUME NEW t \in Tabs, RequestsGrow(t), NEW refs, Points(refs)
  PROVE  /\ refs.version \in Versions
         /\ refs.request \in Requests
         /\ approvals'[refs.request].version = refs.version
BY ApprovalAssumption DEF Points, RequestsGrow

\* Entering _expire_if_needed keeps the references.
LEMMA EnterExpiryFields ==
  ASSUME TypeOK, NEW t \in Tabs, NEW q, NEW state \in TabState, NEW return,
         EnterExpiry(t, q, state, return)
  PROVE  /\ tab'[t].version = state.version
         /\ tab'[t].request = state.request
         /\ tab'[t].expiring = q
BY DEF EnterExpiry, Keep, TypeOK, TabState

\* The references of the tab that moves: it keeps them, or takes them from the
\* waiting plan, or points at the request it has just written.
LEMMA PointingStep ==
  ASSUME Frame, NEW t \in Tabs, Proceed(t) \/ UserActs(t), pc'[t] \in Pointing
  PROVE  Points(tab[t])'
<1> USE ApprovalAssumption, TabFields DEF Frame
<1>1. RequestsGrow(t)
  BY RequestStep
<1>2. ASSUME NEW refs, Points(refs), tab'[t].version = refs.version,
             tab'[t].request = refs.request
      PROVE  Points(tab[t])'
  BY <1>1, <1>2, PointsStay DEF Points
<1>3. CASE OpenWorkflow(t)
  <2>1. Points(plan)
    BY <1>3 DEF OpenWorkflow, ReferencesHold
  <2>2. tab'[t].version = plan.version /\ tab'[t].request = plan.request
    <3>. DEFINE state == [Blank EXCEPT !.version = plan.version, !.request = plan.request,
                                       !.resumed = TRUE]
                shown == [Blank EXCEPT !.version = plan.version, !.request = plan.request,
                                       !.shown = PreviewOf(plan.version)]
    <3>1. plan.version \in 0 .. MaxVersion /\ plan.request \in 0 .. MaxRequest
      BY DEF TypeOK, PlanRow
    <3>2. state \in TabState /\ state.version = plan.version /\ state.request = plan.request
      BY <3>1, BlankType DEF TabState
    <3>3. shown.version = plan.version /\ shown.request = plan.request
      BY BlankType DEF TabState
    <3>4. CASE EnterExpiry(t, plan.request, state, "persist_running")
      BY <3>4, <3>2, EnterExpiryFields
    <3>5. CASE Keep(t, shown) \/ Keep(t, state)
      BY <3>5, <3>2, <3>3 DEF Keep, TypeOK
    <3>. QED
      BY <3>4, <3>5, <1>3 DEF OpenWorkflow
  <2>. QED
    BY <2>1, <2>2, <1>2
<1>4. CASE SaveNewRequest(t)
  <2>1. pc[t] \in Creating /\ pc[t] \in Editing
    BY <1>4 DEF SaveNewRequest, Creating, Editing
  <2>2. /\ tab[t].fresh \in Requests /\ NextVersion(tab[t].version) \in Versions
    <3>1. tab[t].version < MaxVersion /\ tab[t].fresh \in 1 .. issued
      BY <2>1 DEF FreshRequests, ReferencesHold
    <3>2. issued \in 0 .. MaxRequest
      BY DEF TypeOK
    <3>. QED
      BY <3>1, <3>2 DEF NextVersion
  <2>3. /\ tab'[t].version = NextVersion(tab[t].version)
        /\ tab'[t].request = tab[t].fresh
    BY <1>4 DEF SaveNewRequest, Keep, TypeOK, TabState
  <2>4. approvals'[tab[t].fresh].version = NextVersion(tab[t].version)
    BY <1>4, <2>2 DEF SaveNewRequest, SaveRequest, TypeOK
  <2>. QED
    BY <2>2, <2>3, <2>4 DEF Points
<1>5. CASE ProposeRequest(t)
  <2>1. pc[t] \in Creating
    BY <1>5 DEF ProposeRequest, Creating
  <2>2. tab[t].fresh \in Requests
    BY <2>1 DEF FreshRequests, TypeOK
  <2>3. tab'[t].version = 1 /\ tab'[t].request = tab[t].fresh
    BY <1>5 DEF ProposeRequest, Keep, TypeOK, TabState
  <2>4. approvals'[tab[t].fresh].version = 1
    BY <1>5, <2>2 DEF ProposeRequest, SaveRequest, TypeOK
  <2>. QED
    BY <2>2, <2>3, <2>4 DEF Points
<1>6. CASE ~ (OpenWorkflow(t) \/ SaveNewRequest(t) \/ ProposeRequest(t))
  <2>1. pc[t] \in Pointing
    BY <1>6 DEF Proceed, UserActs, NothingWaits, ClickTooLate, Clicked, Decide, Edit,
       SaveDecision, SaveDecidedAction, SaveEditedRequest, SaveEditedAction,
       SaveNewAction, SaveEditedWorkflow, ExpireRequest, ExpireAction, PersistRunning,
       Propose, Pause, CheckApproval, VerifyApproved, AcquireGate, LookupReceipt,
       MarkExecutionStarted, CallTool, SaveReceipt, CloseAction, FinishPlan, Goto, Leave,
       Pointing, Critical, Editing, Expiring, TypeOK
  <2>2. tab'[t].version = tab[t].version /\ tab'[t].request = tab[t].request
    <3>1. CASE ClickTooLate(t) \/ CheckApproval(t) \/ VerifyApproved(t)
      <4>1. [tab[t] EXCEPT !.payload = actions[tab[t].version].payload].version = tab[t].version
            /\ [tab[t] EXCEPT !.payload = actions[tab[t].version].payload].request = tab[t].request
        BY DEF TabState
      <4>2. \/ tab' = tab
            \/ Keep(t, [tab[t] EXCEPT !.payload = actions[tab[t].version].payload])
            \/ \E q, return : EnterExpiry(t, q, tab[t], return)
        BY <3>1 DEF ClickTooLate, CheckApproval, VerifyApproved
      <4>3. CASE Keep(t, [tab[t] EXCEPT !.payload = actions[tab[t].version].payload])
        BY <4>1, <4>3 DEF Keep, TypeOK
      <4>4. CASE \E q, return : EnterExpiry(t, q, tab[t], return)
        BY <4>4, EnterExpiryFields
      <4>. QED
        BY <4>2, <4>3, <4>4
    <3>2. CASE \E d \in Decisions : Decide(t, d)
      BY <3>2 DEF Decide, Keep, TypeOK, TabState
    <3>3. CASE \E p \in Payloads : Edit(t, p)
      BY <3>3 DEF Edit, Keep, TypeOK, TabState
    <3>4. CASE \E acted \in BOOLEAN, outcome \in {"completed", "failed"} :
                 CallTool(t, acted, outcome)
      BY <3>4 DEF CallTool, Keep, TypeOK, TabState
    <3>5. CASE ExpireAction(t)
      BY <3>5 DEF ExpireAction, Goto, Keep, Pointing, Critical, Editing, Expiring, TypeOK
    <3>6. CASE ~ \/ ClickTooLate(t) \/ CheckApproval(t) \/ VerifyApproved(t)
                 \/ (\E d \in Decisions : Decide(t, d)) \/ (\E p \in Payloads : Edit(t, p))
                 \/ (\E acted \in BOOLEAN, outcome \in {"completed", "failed"} :
                       CallTool(t, acted, outcome))
                 \/ ExpireAction(t)
      BY <3>6, <1>6 DEF Proceed, UserActs, NothingWaits, SaveDecision, SaveDecidedAction,
         SaveEditedRequest, SaveEditedAction, SaveNewAction, SaveEditedWorkflow,
         ExpireRequest, PersistRunning, Propose, Pause, AcquireGate, LookupReceipt,
         MarkExecutionStarted, SaveReceipt, CloseAction, FinishPlan, Goto, Leave, Pointing,
         Critical, Editing, Expiring, TypeOK
    <3>. QED
      BY <3>1, <3>2, <3>3, <3>4, <3>5, <3>6
  <2>3. Points(tab[t])
    BY <2>1 DEF ReferencesHold
  <2>. QED
    BY <2>2, <2>3, <1>2
<1>. QED
  BY <1>3, <1>4, <1>5, <1>6

\* The plan row and all tabs keep naming a version and a request of that version.
LEMMA ReferencesStep ==
  ASSUME Frame, NEW t \in Tabs, Proceed(t) \/ UserActs(t)
  PROVE  ReferencesHold'
<1> USE ApprovalAssumption, TabFields DEF Frame
<1>1. RequestsGrow(t) /\ OthersStay(t)
  BY RequestStep, OneTabMoves
<1>2. plan'.status = "waiting" => Points(plan)'
  <2>1. CASE Pause(t) \/ SaveEditedWorkflow(t)
    <3>1. Points(tab[t])
      BY <2>1 DEF Pause, SaveEditedWorkflow, ReferencesHold, Pointing
    <3>2. plan'.version = tab[t].version /\ plan'.request = tab[t].request
      BY <2>1 DEF Pause, SaveEditedWorkflow, SaveWorkflow
    <3>. QED
      BY <3>1, <3>2, <1>1, PointsStay DEF Points
  <2>2. CASE PersistRunning(t) \/ FinishPlan(t)
    BY <2>2 DEF PersistRunning, FinishPlan, SaveWorkflow
  <2>3. CASE ~ (Pause(t) \/ SaveEditedWorkflow(t) \/ PersistRunning(t) \/ FinishPlan(t))
    <3>1. plan' = plan
      BY <2>3 DEF Proceed, UserActs, OpenWorkflow, NothingWaits, ClickTooLate, Decide,
         Edit, SaveDecision, SaveDecidedAction, SaveEditedRequest, SaveEditedAction,
         SaveNewAction, SaveNewRequest, ExpireRequest, ExpireAction, Propose,
         ProposeRequest, CheckApproval, VerifyApproved, AcquireGate, LookupReceipt,
         MarkExecutionStarted, CallTool, SaveReceipt, CloseAction
    <3>. QED
      BY <3>1, <1>1, PointsStay DEF ReferencesHold, Points
  <2>. QED
    BY <2>1, <2>2, <2>3
<1>3. pc'[t] \in Editing => tab'[t].version < MaxVersion
  <2>1. CASE \E p \in Payloads : Edit(t, p)
    BY <2>1 DEF Edit, Keep, TypeOK, TabState
  <2>2. CASE ~ \E p \in Payloads : Edit(t, p)
    <3>1. pc'[t] \in Editing => pc[t] \in Editing /\ tab'[t] = tab[t]
      BY <2>2 DEF Proceed, UserActs, OpenWorkflow, NothingWaits, ClickTooLate, Decide,
         SaveDecision, SaveDecidedAction, SaveEditedRequest, SaveEditedAction,
         SaveNewAction, SaveNewRequest, SaveEditedWorkflow, ExpireRequest, ExpireAction,
         PersistRunning, Propose, ProposeRequest, Pause, CheckApproval, VerifyApproved,
         AcquireGate, LookupReceipt, MarkExecutionStarted, CallTool, SaveReceipt,
         CloseAction, FinishPlan, Goto, Leave, EnterExpiry, Editing, TypeOK
    <3>. QED
      BY <3>1 DEF ReferencesHold
  <2>. QED
    BY <2>1, <2>2
<1>4. pc'[t] \in Expiring => /\ tab'[t].expiring \in Requests
                             /\ approvals'[tab'[t].expiring].version \in Versions
  <2>1. ASSUME NEW q, NEW state \in TabState, NEW return, Expires(q),
               EnterExpiry(t, q, state, return)
        PROVE  /\ tab'[t].expiring \in Requests
               /\ approvals'[tab'[t].expiring].version \in Versions
    <3>1. tab'[t].expiring = q
      BY <2>1 DEF EnterExpiry, Keep, TypeOK, TabState
    <3>2. q \in Requests /\ approvals[q].version \in Versions
      BY <2>1, ExpiringRead
    <3>. QED
      BY <3>1, <3>2, <1>1 DEF RequestsGrow
  <2>2. CASE OpenWorkflow(t)
    <3>1. [Blank EXCEPT !.version = plan.version, !.request = plan.request,
                        !.resumed = TRUE] \in TabState
      <4>1. plan.version \in 0 .. MaxVersion /\ plan.request \in 0 .. MaxRequest
        BY DEF TypeOK, PlanRow
      <4>. QED
        BY <4>1, BlankType DEF TabState
    <3>. QED
      BY <2>2, <3>1, <2>1 DEF OpenWorkflow, Goto, Expiring, TypeOK
  <2>3. CASE ClickTooLate(t) \/ CheckApproval(t) \/ VerifyApproved(t)
    BY <2>3, <2>1 DEF ClickTooLate, CheckApproval, VerifyApproved, Goto, Expiring, TypeOK
  <2>4. CASE ~ (OpenWorkflow(t) \/ ClickTooLate(t) \/ CheckApproval(t) \/ VerifyApproved(t))
    <3>1. pc'[t] \in Expiring => pc[t] \in Expiring /\ tab'[t] = tab[t]
      BY <2>4 DEF Proceed, UserActs, NothingWaits, Decide, Edit, SaveDecision,
         SaveDecidedAction, SaveEditedRequest, SaveEditedAction, SaveNewAction,
         SaveNewRequest, SaveEditedWorkflow, ExpireRequest, ExpireAction, PersistRunning,
         Propose, ProposeRequest, Pause, AcquireGate, LookupReceipt,
         MarkExecutionStarted, CallTool, SaveReceipt, CloseAction, FinishPlan, Goto,
         Leave, Expiring, TypeOK
    <3>. QED
      BY <3>1, <1>1 DEF ReferencesHold, RequestsGrow
  <2>. QED
    BY <2>2, <2>3, <2>4
<1>5. pc'[t] \in Pointing => Points(tab[t])'
  BY PointingStep
<1>6. ASSUME NEW u \in Tabs, u # t
      PROVE  /\ pc'[u] \in Pointing => Points(tab[u])'
             /\ pc'[u] \in Editing => tab'[u].version < MaxVersion
             /\ pc'[u] \in Expiring => /\ tab'[u].expiring \in Requests
                                       /\ approvals'[tab'[u].expiring].version \in Versions
  <2>1. pc'[u] = pc[u] /\ tab'[u] = tab[u]
    BY <1>1, <1>6 DEF OthersStay
  <2>2. pc[u] \in Pointing => Points(tab[u])'
    BY <2>1, <1>1, PointsStay DEF ReferencesHold, Points
  <2>. QED
    BY <2>1, <2>2, <1>1 DEF ReferencesHold, RequestsGrow
<1>. QED
  BY <1>2, <1>3, <1>4, <1>5, <1>6 DEF ReferencesHold

--------------------------------------------------------------------------------
(* The gate, the grants and the effects *)

\* No step lets a second tab into the critical section.
LEMMA GateStep ==
  ASSUME Frame, NEW t \in Tabs, Proceed(t) \/ UserActs(t)
  PROVE  GateExcludes'
<1> USE ApprovalAssumption DEF Frame
<1>1. OthersStay(t)
  BY OneTabMoves
<1>2. ASSUME pc'[t] \in Critical => pc[t] \in Critical,
             gate' = gate \/ (gate' = NoTab /\ pc[t] \in Critical /\ pc'[t] \notin Critical)
      PROVE  GateExcludes'
  BY <1>1, <1>2 DEF GateExcludes, OthersStay
<1>3. CASE AcquireGate(t)
  BY <1>1, <1>3 DEF AcquireGate, GateFree, GateExcludes, OthersStay
<1>4. CASE LookupReceipt(t) \/ CloseAction(t)
  <2>1. /\ pc[t] \in Critical /\ pc'[t] \in {"start", "finish"}
        /\ pc'[t] = "finish" => gate' = NoTab
        /\ pc'[t] = "start" => gate' = gate
    BY <1>4 DEF LookupReceipt, CloseAction, ReleaseGate, Goto, Critical, TypeOK
  <2>. QED
    BY <2>1, <1>2 DEF Critical
<1>5. CASE ~ (AcquireGate(t) \/ LookupReceipt(t) \/ CloseAction(t))
  <2>1. gate' = gate
    BY <1>5 DEF Proceed, UserActs, OpenWorkflow, NothingWaits, ClickTooLate, Decide, Edit,
       SaveDecision, SaveDecidedAction, SaveEditedRequest, SaveEditedAction,
       SaveNewAction, SaveNewRequest, SaveEditedWorkflow, ExpireRequest, ExpireAction,
       PersistRunning, Propose, ProposeRequest, Pause, CheckApproval, VerifyApproved,
       MarkExecutionStarted, CallTool, SaveReceipt, FinishPlan
  <2>2. pc'[t] \in Critical => pc[t] \in Critical
    BY <1>5, TabFields DEF Proceed, UserActs, OpenWorkflow, NothingWaits, ClickTooLate,
       Decide, Edit, SaveDecision, SaveDecidedAction, SaveEditedRequest,
       SaveEditedAction, SaveNewAction, SaveNewRequest, SaveEditedWorkflow,
       ExpireRequest, ExpireAction, PersistRunning, Propose, ProposeRequest, Pause,
       CheckApproval, VerifyApproved, MarkExecutionStarted, CallTool, SaveReceipt,
       FinishPlan, Goto, Leave, EnterExpiry, Critical, TypeOK
  <2>. QED
    BY <2>1, <2>2, <1>2
<1>. QED
  BY <1>3, <1>4, <1>5

\* Consent is only ever added.
LEMMA ConsentGrows ==
  ASSUME TypeOK, NEW t \in Tabs, Proceed(t) \/ UserActs(t)
  PROVE  \A v \in Versions : consent[v] # {} => consent'[v] # {}
<1>1. CASE \E d \in Decisions : Decide(t, d)
  BY <1>1 DEF Decide, TypeOK
<1>2. CASE ~ \E d \in Decisions : Decide(t, d)
  <2>1. consent' = consent
    BY <1>2 DEF Proceed, UserActs, OpenWorkflow, NothingWaits, ClickTooLate, Edit,
       SaveDecision, SaveDecidedAction, SaveEditedRequest, SaveEditedAction,
       SaveNewAction, SaveNewRequest, SaveEditedWorkflow, ExpireRequest, ExpireAction,
       PersistRunning, Propose, ProposeRequest, Pause, CheckApproval, VerifyApproved,
       AcquireGate, LookupReceipt, MarkExecutionStarted, CallTool, SaveReceipt,
       CloseAction, FinishPlan, history
  <2>. QED
    BY <2>1
<1>. QED
  BY <1>1, <1>2

\* No step makes a version approved, or lets a run past verify_approved, without
\* the click of a user.
LEMMA GrantsStep ==
  ASSUME Frame, NEW t \in Tabs, Proceed(t) \/ UserActs(t)
  PROVE  GrantsAreReal'
<1> USE ApprovalAssumption, TabFields DEF Frame
<1>1. /\ RequestsGrow(t) /\ OthersStay(t)
      /\ \A v \in Versions : consent[v] # {} => consent'[v] # {}
  BY RequestStep, OneTabMoves, ConsentGrows
<1>. DEFINE Approving(u) == pc[u] = "save_decision" /\ tab[u].decision = "approved"
            Running(u) == pc[u] \in Critical \union {"acquire"}
<1>2. ASSUME NEW q \in Requests, approvals'[q].status = "approved"
      PROVE  consent'[approvals'[q].version] # {}
  <2>1. CASE approvals'[q].version = approvals[q].version /\ approvals[q].status = "approved"
    <3>1. approvals[q].version \in Versions
      BY <2>1 DEF RequestsKeepVersion, TypeOK, ApprovalRow
    <3>. QED
      BY <2>1, <3>1, <1>1 DEF GrantsAreReal
  <2>2. CASE SaveDecision(t) /\ q = tab[t].request
    <3>1. approvals'[q].version = tab[t].version /\ tab[t].decision = "approved"
      BY <1>2, <2>2 DEF SaveDecision, SaveRequest, TypeOK
    <3>2. tab[t].version \in Versions
      BY <2>2 DEF SaveDecision, ReferencesHold, Pointing, Points
    <3>. QED
      BY <3>1, <3>2, <2>2, <1>1 DEF SaveDecision, GrantsAreReal
  <2>3. ~ (SaveDecision(t) /\ q = tab[t].request) => approvals'[q] = approvals[q]
    <3>1. CASE SaveDecision(t)
      BY <3>1 DEF SaveDecision, SaveRequest, TypeOK
    <3>2. CASE SaveEditedRequest(t)
      BY <3>2, <1>2 DEF SaveEditedRequest, SaveRequest, TypeOK
    <3>3. CASE SaveNewRequest(t)
      BY <3>3, <1>2 DEF SaveNewRequest, SaveRequest, TypeOK
    <3>4. CASE ExpireRequest(t)
      BY <3>4, <1>2 DEF ExpireRequest, SaveRequest, TypeOK
    <3>5. CASE ProposeRequest(t)
      BY <3>5, <1>2 DEF ProposeRequest, SaveRequest, TypeOK
    <3>6. CASE ~ \/ SaveDecision(t) \/ SaveEditedRequest(t) \/ SaveNewRequest(t)
                 \/ ExpireRequest(t) \/ ProposeRequest(t)
      BY <3>6 DEF Proceed, UserActs, OpenWorkflow, NothingWaits, ClickTooLate, Decide,
         Edit, SaveDecidedAction, SaveEditedAction, SaveNewAction, SaveEditedWorkflow,
         ExpireAction, PersistRunning, Propose, Pause, CheckApproval, VerifyApproved,
         AcquireGate, LookupReceipt, MarkExecutionStarted, CallTool, SaveReceipt,
         CloseAction, FinishPlan, store
    <3>. QED
      BY <3>1, <3>2, <3>3, <3>4, <3>5, <3>6
  <2>. QED
    BY <2>1, <2>2, <2>3, <1>2
<1>3. ASSUME Approving(t)' \/ Running(t)' PROVE consent'[tab'[t].version] # {}
  <2>1. CASE \E d \in Decisions : Decide(t, d)
    <3>1. PICK d \in Decisions : Decide(t, d)
      BY <2>1
    <3>2. /\ tab'[t].version = tab[t].version /\ tab'[t].decision = d
          /\ pc'[t] = "save_decision"
      BY <3>1 DEF Decide, Goto, Keep, TypeOK, TabState
    <3>3. tab[t].version \in Versions
      BY <3>1 DEF Decide, Clicked, ReferencesHold, Pointing, Points
    <3>4. d = "approved"
      BY <3>2, <1>3 DEF Critical
    <3>. QED
      BY <3>1, <3>2, <3>3, <3>4 DEF Decide, TypeOK
  <2>2. CASE VerifyApproved(t)
    <3>1. tab[t].version \in Versions
      BY <2>2 DEF VerifyApproved, ReferencesHold, Pointing, Points
    <3>2. /\ Executable(tab[t].version, newest[tab[t].version])
          /\ tab'[t].version = tab[t].version
      <4>1. pc'[t] = "acquire"
        BY <2>2, <1>3 DEF VerifyApproved, EnterExpiry, Goto, Critical, TypeOK
      <4>2. /\ Executable(tab[t].version, newest[tab[t].version])
            /\ Keep(t, [tab[t] EXCEPT !.payload = actions[tab[t].version].payload])
        BY <4>1, <2>2 DEF VerifyApproved, EnterExpiry, Goto, TypeOK
      <4>. QED
        BY <4>2 DEF Keep, TypeOK, TabState
    <3>3. newest[tab[t].version] \in Requests
      BY <3>1, <3>2 DEF Executable, TypeOK
    <3>. QED
      BY <3>1, <3>2, <3>3, <1>1 DEF Executable, RequestsKeepVersion, GrantsAreReal
  <2>3. CASE \E acted \in BOOLEAN, outcome \in {"completed", "failed"} :
               CallTool(t, acted, outcome)
    <3>1. tab'[t].version = tab[t].version /\ Running(t)
      BY <2>3 DEF CallTool, Keep, Critical, TypeOK, TabState
    <3>2. tab[t].version \in Versions
      BY <3>1 DEF ReferencesHold, Pointing, Points
    <3>. QED
      BY <3>1, <3>2, <1>1 DEF GrantsAreReal
  <2>4. CASE ~ \/ \E d \in Decisions : Decide(t, d)
               \/ VerifyApproved(t)
               \/ \E acted \in BOOLEAN, outcome \in {"completed", "failed"} :
                    CallTool(t, acted, outcome)
    <3>1. tab'[t] = tab[t] /\ Running(t)
      BY <2>4, <1>3 DEF Proceed, UserActs, OpenWorkflow, NothingWaits, ClickTooLate, Edit,
         SaveDecision, SaveDecidedAction, SaveEditedRequest, SaveEditedAction,
         SaveNewAction, SaveNewRequest, SaveEditedWorkflow, ExpireRequest, ExpireAction,
         PersistRunning, Propose, ProposeRequest, Pause, CheckApproval, AcquireGate,
         LookupReceipt, MarkExecutionStarted, SaveReceipt, CloseAction, FinishPlan, Goto,
         Leave, EnterExpiry, Critical, TypeOK
    <3>2. tab[t].version \in Versions
      BY <3>1 DEF ReferencesHold, Pointing, Points
    <3>. QED
      BY <3>1, <3>2, <1>1 DEF GrantsAreReal
  <2>. QED
    BY <2>1, <2>2, <2>3, <2>4
<1>4. ASSUME NEW u \in Tabs, u # t, Approving(u)' \/ Running(u)'
      PROVE  consent'[tab'[u].version] # {}
  <2>1. pc'[u] = pc[u] /\ tab'[u] = tab[u]
    BY <1>1, <1>4 DEF OthersStay
  <2>2. tab[u].version \in Versions
    BY <2>1, <1>4 DEF ReferencesHold, Pointing, Points
  <2>. QED
    BY <2>1, <2>2, <1>4, <1>1 DEF GrantsAreReal
<1>. QED
  BY <1>2, <1>3, <1>4 DEF GrantsAreReal

\* The effects and the receipts change in the critical section only.
LEMMA EffectsStep ==
  ASSUME IInv, NEW t \in Tabs, Proceed(t) \/ UserActs(t)
  PROVE  EffectsAreRecorded'
<1> USE ApprovalAssumption, TabFields DEF IInv
<1>1. /\ OthersStay(t) /\ TypeOK'
      /\ \A v \in Versions : consent[v] # {} => consent'[v] # {}
  <2>1. Frame
    BY DEF Frame
  <2>. QED
    BY <2>1, OneTabMoves, ConsentGrows, TypeStep
<1>. DEFINE Facts(u) ==
       LET v == tab[u].version
       IN /\ pc[u] \in {"start", "call", "record"} => receipts[v] = "none"
          /\ pc[u] \in {"start", "call"} => effects[v] = 0
          /\ pc[u] = "record" /\ tab[u].outcome = "completed" => effects[v] = 1
<1>2. \A u \in Tabs : pc[u] \in Critical => gate = u
  BY DEF GateExcludes
<1>3. pc[t] \in Critical =>
        /\ tab[t].version \in Versions
        /\ consent[tab[t].version] # {}
        /\ Facts(t)
        /\ \A u \in Tabs : u # t => pc'[u] = pc[u] /\ pc[u] \notin Critical
  BY <1>1, <1>2 DEF ReferencesHold, Points, Pointing, GrantsAreReal, EffectsAreRecorded,
     OthersStay
<1>4. CASE LookupReceipt(t)
  <2>1. /\ UNCHANGED <<effects, receipts, consent, tab>>
        /\ pc[t] \in Critical /\ pc[t] # "record"
        /\ \/ pc'[t] = "start" /\ receipts[tab[t].version] = "none"
           \/ pc'[t] = "finish"
    BY <1>4 DEF LookupReceipt, Goto, Critical, TypeOK, store, history
  <2>2. pc'[t] = "start" => effects[tab[t].version] = 0
    <3>. SUFFICES ASSUME pc'[t] = "start", effects[tab[t].version] # 0 PROVE FALSE
      OBVIOUS
    <3>1. effects[tab[t].version] > 0
      BY <1>3, <2>1 DEF TypeOK
    <3>2. PICK u \in Tabs : pc[u] = "record" /\ tab[u].version = tab[t].version
      BY <3>1, <2>1, <1>3 DEF EffectsAreRecorded, ReceiptTruth
    <3>. QED
      BY <3>2, <2>1, <1>3 DEF Critical
  <2>3. ReceiptTruth'
    BY <1>1, <2>1, <1>3 DEF EffectsAreRecorded, ReceiptTruth, OthersStay, Critical
  <2>. QED
    BY <1>1, <1>3, <2>1, <2>2, <2>3 DEF EffectsAreRecorded, AtMostOnce, EffectNeedsGrant,
       OthersStay, Critical
<1>5. CASE MarkExecutionStarted(t)
  <2>1. /\ UNCHANGED <<effects, receipts, consent, tab>>
        /\ pc[t] = "start" /\ pc'[t] = "call"
    BY <1>5 DEF MarkExecutionStarted, Goto, TypeOK, history
  <2>. QED
    BY <1>1, <1>3, <2>1 DEF EffectsAreRecorded, AtMostOnce, EffectNeedsGrant,
       ReceiptTruth, OthersStay, Critical
<1>6. ASSUME NEW acted \in BOOLEAN, NEW outcome \in {"completed", "failed"},
             CallTool(t, acted, outcome)
      PROVE  EffectsAreRecorded'
  <2>. DEFINE v == tab[t].version
  <2>1. /\ UNCHANGED <<receipts, consent>>
        /\ pc[t] = "call" /\ pc'[t] = "record"
        /\ tab'[t].version = v /\ tab'[t].outcome = outcome
        /\ v \in Versions /\ consent[v] # {}
        /\ effects[v] = 0 /\ receipts[v] = "none"
    BY <1>6, <1>3 DEF CallTool, Goto, Keep, TypeOK, TabState, store, Critical
  <2>2. /\ effects'[v] = IF acted THEN 1 ELSE 0
        /\ \A w \in Versions : w # v => effects'[w] = effects[w]
        /\ outcome = "completed" => acted
    BY <1>6, <2>1 DEF CallTool, TypeOK
  <2>3. ReceiptTruth'
    BY <1>1, <1>3, <2>1, <2>2 DEF EffectsAreRecorded, ReceiptTruth, OthersStay, Critical
  <2>4. AtMostOnce' /\ EffectNeedsGrant'
    BY <2>1, <2>2 DEF EffectsAreRecorded, AtMostOnce, EffectNeedsGrant
  <2>5. \A u \in Tabs : Facts(u)'
    BY <1>1, <1>3, <2>1, <2>2 DEF OthersStay, Critical
  <2>. QED
    BY <2>3, <2>4, <2>5 DEF EffectsAreRecorded
<1>7. CASE SaveReceipt(t)
  <2>. DEFINE v == tab[t].version
  <2>1. /\ UNCHANGED <<effects, consent, tab>>
        /\ pc[t] = "record" /\ pc'[t] = "close"
        /\ v \in Versions /\ receipts[v] = "none"
        /\ receipts' = [receipts EXCEPT ![v] = tab[t].outcome]
    BY <1>7, <1>3 DEF SaveReceipt, FirstOutcome, Goto, TypeOK, history, Critical
  <2>2. /\ receipts'[v] = tab[t].outcome
        /\ \A w \in Versions : w # v => receipts'[w] = receipts[w]
        /\ tab[t].outcome = "completed" => effects[v] = 1
    BY <2>1, <1>3 DEF TypeOK, Critical
  <2>3. ReceiptTruth'
    BY <1>1, <1>3, <2>1, <2>2 DEF EffectsAreRecorded, ReceiptTruth, OthersStay, Critical
  <2>4. AtMostOnce' /\ EffectNeedsGrant'
    BY <2>1 DEF EffectsAreRecorded, AtMostOnce, EffectNeedsGrant
  <2>5. \A u \in Tabs : Facts(u)'
    BY <1>1, <1>3, <2>1 DEF OthersStay, Critical
  <2>. QED
    BY <2>3, <2>4, <2>5 DEF EffectsAreRecorded
<1>8. CASE ~ \/ LookupReceipt(t) \/ MarkExecutionStarted(t) \/ SaveReceipt(t)
             \/ \E acted \in BOOLEAN, outcome \in {"completed", "failed"} :
                  CallTool(t, acted, outcome)
  <2>1. UNCHANGED <<effects, receipts>>
    BY <1>8 DEF Proceed, UserActs, OpenWorkflow, NothingWaits, ClickTooLate, Decide, Edit,
       SaveDecision, SaveDecidedAction, SaveEditedRequest, SaveEditedAction,
       SaveNewAction, SaveNewRequest, SaveEditedWorkflow, ExpireRequest, ExpireAction,
       PersistRunning, Propose, ProposeRequest, Pause, CheckApproval, VerifyApproved,
       AcquireGate, CloseAction, FinishPlan, store, history
  <2>2. pc[t] # "record" /\ pc'[t] \notin {"start", "call", "record"}
    BY <1>8 DEF Proceed, UserActs, OpenWorkflow, NothingWaits, ClickTooLate, Clicked,
       Decide, Edit, SaveDecision, SaveDecidedAction, SaveEditedRequest,
       SaveEditedAction, SaveNewAction, SaveNewRequest, SaveEditedWorkflow,
       ExpireRequest, ExpireAction, PersistRunning, Propose, ProposeRequest, Pause,
       CheckApproval, VerifyApproved, AcquireGate, CloseAction, FinishPlan, Goto, Leave,
       EnterExpiry, TypeOK
  <2>3. ReceiptTruth'
    BY <1>1, <2>1, <2>2 DEF EffectsAreRecorded, ReceiptTruth, OthersStay
  <2>4. AtMostOnce' /\ EffectNeedsGrant'
    BY <2>1, <1>1 DEF EffectsAreRecorded, AtMostOnce, EffectNeedsGrant
  <2>5. \A u \in Tabs : Facts(u)'
    BY <1>1, <2>1, <2>2 DEF EffectsAreRecorded, OthersStay
  <2>. QED
    BY <2>3, <2>4, <2>5 DEF EffectsAreRecorded
<1>. QED
  BY <1>4, <1>5, <1>6, <1>7, <1>8

--------------------------------------------------------------------------------
(* The theorems *)

\* Every step of a tab preserves the frame.
LEMMA FrameStep ==
  ASSUME Frame, NEW t \in Tabs, Proceed(t) \/ UserActs(t)
  PROVE  Frame'
<1>1. RequestsKeepVersion'
  BY RequestStep DEF RequestsGrow
<1>. QED
  BY <1>1, TypeStep, FreshStep, ReferencesStep, GateStep, GrantsStep DEF Frame

\* The clock touches nothing of the frame.
LEMMA FrameLapse == Frame /\ Lapse => Frame'
<1> SUFFICES ASSUME Frame, Lapse PROVE Frame'
  OBVIOUS
<1>1. TypeOK'
  BY ApprovalAssumption DEF Frame, TypeOK, Lapse, store, faults, history
<1>. QED
  BY <1>1 DEF Frame, Lapse, store, history, RequestsKeepVersion, FreshRequests,
     ReferencesHold, Points, GateExcludes, GrantsAreReal

\* Nor does a step that changes nothing.
LEMMA FrameStutter == Frame /\ UNCHANGED vars => Frame'
BY DEF Frame, vars, store, faults, history, TypeOK, RequestsKeepVersion,
   FreshRequests, ReferencesHold, Points, GateExcludes, GrantsAreReal

\* Every step of the fault-free system preserves IInv.
LEMMA NextIInv == IInv /\ [Next]_vars => IInv'
<1> SUFFICES ASSUME IInv, [Next]_vars PROVE IInv'
  OBVIOUS
<1>0. Frame
  BY DEF IInv, Frame
<1>1. ASSUME NEW t \in Tabs, Proceed(t) \/ UserActs(t) PROVE IInv'
  BY <1>0, <1>1, FrameStep, EffectsStep DEF Frame, IInv
<1>2. CASE Lapse
  <2>1. EffectsAreRecorded'
    BY <1>2 DEF IInv, Lapse, store, history, EffectsAreRecorded, AtMostOnce,
       EffectNeedsGrant, ReceiptTruth
  <2>. QED
    BY <1>0, <1>2, <2>1, FrameLapse DEF Frame, IInv
<1>3. CASE UNCHANGED vars
  <2>1. EffectsAreRecorded'
    BY <1>3 DEF IInv, vars, store, history, EffectsAreRecorded, AtMostOnce,
       EffectNeedsGrant, ReceiptTruth
  <2>. QED
    BY <1>0, <1>3, <2>1, FrameStutter DEF Frame, IInv
<1>. QED
  BY <1>1, <1>2, <1>3 DEF Next, Settled

\* The invariant holds in every reachable state of the fault-free system.
THEOREM Invariance == Spec => []IInv
BY InitIInv, NextIInv, PTL DEF Spec

\* Type correctness, for any tabs, payloads, versions and requests.
THEOREM TypeCorrect == Spec => []TypeOK
BY Invariance, PTL DEF IInv

\* However many tabs resume, decide and edit, no version of an action makes the
\* tool act twice, as long as every write succeeds.
THEOREM ActsAtMostOnce == Spec => []AtMostOnce
BY Invariance, PTL DEF IInv, EffectsAreRecorded

\* However many tabs there are, the tool acts only for a version that a user
\* approved.
THEOREM ActsOnlyIfGranted == Spec => []EffectNeedsGrant
BY Invariance, PTL DEF IInv, EffectsAreRecorded

\* A receipt never claims more, or hides, what was done.
THEOREM ReceiptsTellTheTruth == Spec => []ReceiptTruth
BY Invariance, PTL DEF IInv, EffectsAreRecorded

--------------------------------------------------------------------------------
(* Implementation of the contract *)

\* Nothing is granted, performed or settled initially.
LEMMA InitContract == Init => C!Init
BY DEF Init, C!Init

\* Every step is a Grant, a Perform, a Settle, or invisible to the contract.
LEMMA NextContract == IInv /\ [Next]_vars => [C!Next]_(C!contractVars)
<1> SUFFICES ASSUME IInv, [Next]_vars PROVE [C!Next]_(C!contractVars)
  OBVIOUS
<1> USE DEF IInv
<1>1. CASE UNCHANGED <<effects, receipts, consent>>
  BY <1>1 DEF C!contractVars
<1>2. ASSUME NEW t \in Tabs, NEW d \in Decisions, Decide(t, d)
      PROVE  [C!Next]_(C!contractVars)
  <2>. DEFINE v == tab[t].version
  <2>1. v \in Versions /\ UNCHANGED <<effects, receipts>>
    BY <1>2 DEF Decide, Clicked, ReferencesHold, Pointing, Points, store
  <2>2. CASE d = "approved"
    <3>1. consent' = [consent EXCEPT ![v] = @ \union {tab[t].shown}]
      BY <1>2, <2>2 DEF Decide
    <3>2. consent'[v] # {} /\ \A w \in Versions : w # v => consent'[w] = consent[w]
      BY <2>1, <3>1 DEF TypeOK
    <3>3. {w \in Versions : consent'[w] # {}} = {w \in Versions : consent[w] # {}} \union {v}
      BY <2>1, <3>2
    <3>. QED
      BY <2>1, <3>3 DEF C!Next, C!Grant
  <2>3. CASE d # "approved"
    BY <1>2, <2>1, <2>3, <1>1 DEF Decide
  <2>. QED
    BY <2>2, <2>3
<1>3. ASSUME NEW t \in Tabs, NEW acted \in BOOLEAN,
             NEW outcome \in {"completed", "failed"}, CallTool(t, acted, outcome)
      PROVE  [C!Next]_(C!contractVars)
  <2>. DEFINE v == tab[t].version
  <2>1. /\ v \in Versions /\ consent[v] # {}
        /\ effects[v] = 0 /\ receipts[v] = "none"
        /\ UNCHANGED <<receipts, consent>>
    BY <1>3 DEF CallTool, ReferencesHold, Points, Pointing, Critical, GrantsAreReal,
       EffectsAreRecorded, store
  <2>2. CASE acted
    <3>1. effects' = [effects EXCEPT ![v] = 1]
      BY <1>3, <2>1, <2>2 DEF CallTool, TypeOK
    <3>. QED
      BY <2>1, <3>1 DEF C!Next, C!Perform
  <2>3. CASE ~acted
    <3>1. effects' = effects
      BY <1>3, <2>1, <2>3 DEF CallTool, TypeOK
    <3>. QED
      BY <2>1, <3>1, <1>1
  <2>. QED
    BY <2>2, <2>3
<1>4. ASSUME NEW t \in Tabs, SaveReceipt(t) PROVE [C!Next]_(C!contractVars)
  <2>. DEFINE v == tab[t].version
              o == tab[t].outcome
  <2>1. /\ v \in Versions /\ consent[v] # {} /\ o \in {"completed", "failed"}
        /\ receipts[v] = "none" /\ (o = "completed" => effects[v] = 1)
        /\ receipts' = [receipts EXCEPT ![v] = o]
        /\ UNCHANGED <<effects, consent>>
    BY <1>4, TabFields DEF SaveReceipt, FirstOutcome, ReferencesHold, Points, Pointing,
       Critical, GrantsAreReal, EffectsAreRecorded, history
  <2>. QED
    BY <2>1 DEF C!Next, C!Settle
<1>5. CASE Lapse \/ UNCHANGED vars
  BY <1>5, <1>1 DEF Lapse, vars, store, history
<1>6. ASSUME NEW t \in Tabs, Proceed(t) \/ UserActs(t),
             ~ \/ \E d \in Decisions : Decide(t, d)
               \/ \E acted \in BOOLEAN, outcome \in {"completed", "failed"} :
                    CallTool(t, acted, outcome)
               \/ SaveReceipt(t)
      PROVE  [C!Next]_(C!contractVars)
  <2>1. UNCHANGED <<effects, receipts, consent>>
    BY <1>6 DEF Proceed, UserActs, OpenWorkflow, NothingWaits, ClickTooLate, Edit,
       SaveDecision, SaveDecidedAction, SaveEditedRequest, SaveEditedAction,
       SaveNewAction, SaveNewRequest, SaveEditedWorkflow, ExpireRequest, ExpireAction,
       PersistRunning, Propose, ProposeRequest, Pause, CheckApproval, VerifyApproved,
       AcquireGate, LookupReceipt, MarkExecutionStarted, CloseAction, FinishPlan, store,
       history
  <2>. QED
    BY <2>1, <1>1
<1>. QED
  BY <1>2, <1>3, <1>4, <1>5, <1>6 DEF Next, Settled

\* The approval layer, with any number of tabs, implements the contract about
\* one action: granted before performed, performed once, settled once.
THEOREM ImplementsContract == Spec => Contract
<1>1. Spec => C!Init /\ [][C!Next]_(C!contractVars)
  BY Invariance, InitContract, NextContract, PTL DEF Spec
<1>. QED
  BY <1>1 DEF Contract, C!Spec


--------------------------------------------------------------------------------
(* With a dying process and failing writes *)

\* A failing write, or the handler of resume(), moves one tab to a label at
\* which it holds nothing, and writes no table but the plan's.
LEMMA FaultMoves ==
  ASSUME TypeOK, NEW t \in Tabs, WriteFails(t) \/ Recover(t)
  PROVE  /\ OthersStay(t)
         /\ pc'[t] \in {"idle", "finish", "recover"}
         /\ tab'[t] \in {Blank, tab[t]}
         /\ gate' = gate \/ (gate = t /\ gate' = NoTab)
         /\ UNCHANGED <<store, lapsed, history>>
         /\ plan' = plan \/ plan'.status = "ended"
<1>1. CASE WriteFails(t)
  <2>1. \/ pc'[t] = "idle" /\ tab'[t] = Blank
        \/ pc'[t] = "finish" /\ tab'[t] = tab[t]
        \/ pc'[t] = "recover" /\ tab'[t] = tab[t]
    BY <1>1 DEF TypeOK, WriteFails, Leave, Goto, Keep
  <2>2. OthersStay(t)
    BY <1>1 DEF TypeOK, WriteFails, Leave, Goto, Keep, OthersStay
  <2>3. gate' = gate \/ (gate = t /\ gate' = NoTab)
    BY <1>1 DEF WriteFails, ReleaseGate
  <2>. QED
    BY <1>1, <2>1, <2>2, <2>3 DEF WriteFails, store, history
<1>2. CASE Recover(t)
  <2>1. pc'[t] = "idle" /\ tab'[t] = Blank /\ OthersStay(t)
    BY <1>2 DEF TypeOK, Recover, Leave, Goto, Keep, OthersStay
  <2>. QED
    BY <1>2, <2>1 DEF Recover, SaveWorkflow, store, history
<1>. QED
  BY <1>1, <1>2

\* The faults of one tab keep every variable in its type.
LEMMA FaultTypes ==
  ASSUME TypeOK, NEW t \in Tabs, WriteFails(t) \/ Recover(t)
  PROVE  TypeOK'
<1>1. CASE WriteFails(t)
  <2>1. pc' \in [Tabs -> Labels] /\ tab' \in [Tabs -> TabState]
    BY <1>1, LeaveType, GotoType DEF WriteFails, Labels, TypeOK
  <2>2. gate' \in Tabs \union {NoTab}
    BY <1>1 DEF WriteFails, ReleaseGate, TypeOK
  <2>3. failures' \in 0 .. MaxFailures
    BY <1>1, ApprovalAssumption DEF WriteFails, TypeOK
  <2>. QED
    BY <1>1, <2>1, <2>2, <2>3 DEF WriteFails, TypeOK, store, history
<1>2. CASE Recover(t)
  <2>1. pc' \in [Tabs -> Labels] /\ tab' \in [Tabs -> TabState]
    BY <1>2, LeaveType DEF Recover
  <2>2. plan' \in PlanRow
    BY <1>2, SaveWorkflowType DEF Recover
  <2>. QED
    BY <1>2, <2>1, <2>2 DEF Recover, TypeOK, store, history, faults
<1>. QED
  BY <1>1, <1>2

\* A failing write preserves the frame, however many tabs there are.
LEMMA FrameFault ==
  ASSUME Frame, NEW t \in Tabs, WriteFails(t) \/ Recover(t)
  PROVE  Frame'
<1> USE DEF Frame
<1>1. TypeOK'
  BY FaultTypes
<1>2. /\ OthersStay(t)
      /\ pc'[t] \in {"idle", "finish", "recover"}
      /\ gate' = gate \/ (gate = t /\ gate' = NoTab)
      /\ UNCHANGED <<store, lapsed, history>>
      /\ plan' = plan \/ plan'.status = "ended"
  BY FaultMoves
<1>3. \A u \in Tabs : u # t => pc'[u] = pc[u] /\ tab'[u] = tab[u]
  BY <1>2 DEF OthersStay
<1>4. pc'[t] \notin Creating \union Pointing /\ pc'[t] # "acquire"
  BY <1>2 DEF Creating, Pointing, Editing, Critical, Expiring
<1>5. RequestsKeepVersion'
  BY <1>2 DEF RequestsKeepVersion, store
<1>6. FreshRequests'
  BY <1>2, <1>3, <1>4 DEF FreshRequests, store
<1>7. ReferencesHold'
  <2>1. plan'.status = "waiting" => Points(plan)'
    BY <1>2 DEF ReferencesHold, Points, store
  <2>2. \A u \in Tabs : pc'[u] \in Pointing => Points(tab[u])'
    BY <1>2, <1>3, <1>4 DEF ReferencesHold, Points, store
  <2>3. \A u \in Tabs : pc'[u] \in Editing => tab'[u].version < MaxVersion
    BY <1>3, <1>4 DEF ReferencesHold, Creating
  <2>4. \A u \in Tabs : pc'[u] \in Expiring =>
          tab'[u].expiring \in Requests /\ approvals'[tab'[u].expiring].version \in Versions
    BY <1>2, <1>3, <1>4 DEF ReferencesHold, Pointing, store
  <2>. QED
    BY <2>1, <2>2, <2>3, <2>4 DEF ReferencesHold
<1>8. GateExcludes'
  BY <1>2, <1>3, <1>4 DEF GateExcludes, Pointing
<1>9. GrantsAreReal'
  <2>1. pc'[t] \notin Critical \union {"acquire", "save_decision"}
    BY <1>2 DEF Critical
  <2>. QED
    BY <1>2, <1>3, <2>1 DEF GrantsAreReal, store, history
<1>. QED
  BY <1>1, <1>5, <1>6, <1>7, <1>8, <1>9

\* So does the death of the process.
LEMMA FrameCrash == Frame /\ Crash => Frame'
<1> SUFFICES ASSUME Frame, Crash PROVE Frame'
  OBVIOUS
<1> USE DEF Frame
<1>1. crashes' \in 0 .. MaxCrashes
  BY ApprovalAssumption DEF Crash, TypeOK
<1>2. /\ pc' \in [Tabs -> Labels] /\ tab' \in [Tabs -> TabState]
      /\ \A u \in Tabs : pc'[u] = "idle"
  BY BlankType DEF Crash, Labels
<1>3. TypeOK'
  BY <1>1, <1>2 DEF Crash, TypeOK, store, history
<1>4. RequestsKeepVersion'
  BY DEF RequestsKeepVersion, Crash, store
<1>5. FreshRequests' /\ ReferencesHold' /\ GateExcludes'
  BY <1>2 DEF Crash, FreshRequests, ReferencesHold, GateExcludes, Points, Creating,
     Pointing, Editing, Expiring, Critical, store
<1>6. GrantsAreReal'
  BY <1>2 DEF Crash, GrantsAreReal, Critical, store, history
<1>. QED
  BY <1>3, <1>4, <1>5, <1>6

\* The frame is inductive, faults included.
LEMMA FrameFaulty == Frame /\ [FaultyNext]_vars => Frame'
BY FrameStep, FrameLapse, FrameStutter, FrameFault, FrameCrash
DEF FaultyNext, Next, Settled

\* A call needs a grant, and grants are never taken back.
LEMMA GrantedStep ==
  ASSUME Frame, EffectNeedsGrant, NEW t \in Tabs, Proceed(t) \/ UserActs(t)
  PROVE  EffectNeedsGrant'
<1> USE DEF Frame
<1>1. \A v \in Versions : consent[v] # {} => consent'[v] # {}
  BY ConsentGrows
<1>2. ASSUME NEW acted \in BOOLEAN, NEW outcome \in {"completed", "failed"},
             CallTool(t, acted, outcome)
      PROVE  EffectNeedsGrant'
  <2>1. consent[tab[t].version] # {} /\ tab[t].version \in Versions
    BY <1>2 DEF CallTool, GrantsAreReal, ReferencesHold, Points, Pointing, Critical
  <2>2. \A v \in Versions : v # tab[t].version => effects'[v] = effects[v]
    BY <1>2, <2>1 DEF CallTool, TypeOK
  <2>. QED
    BY <1>1, <2>1, <2>2 DEF EffectNeedsGrant
<1>3. CASE ~ \E acted \in BOOLEAN, outcome \in {"completed", "failed"} :
               CallTool(t, acted, outcome)
  <2>1. effects' = effects
    BY <1>3 DEF Proceed, UserActs, OpenWorkflow, NothingWaits, ClickTooLate, Decide, Edit,
       SaveDecision, SaveDecidedAction, SaveEditedRequest, SaveEditedAction,
       SaveNewAction, SaveNewRequest, SaveEditedWorkflow, ExpireRequest, ExpireAction,
       PersistRunning, Propose, ProposeRequest, Pause, CheckApproval, VerifyApproved,
       AcquireGate, LookupReceipt, MarkExecutionStarted, SaveReceipt, CloseAction,
       FinishPlan, store, history
  <2>. QED
    BY <1>1, <2>1 DEF EffectNeedsGrant
<1>. QED
  BY <1>2, <1>3

\* So every effect keeps its grant, whatever fails.
LEMMA GrantedFaulty == Frame /\ EffectNeedsGrant /\ [FaultyNext]_vars => EffectNeedsGrant'
<1> SUFFICES ASSUME Frame, EffectNeedsGrant, [FaultyNext]_vars PROVE EffectNeedsGrant'
  OBVIOUS
<1>1. ASSUME NEW t \in Tabs, Proceed(t) \/ UserActs(t) PROVE EffectNeedsGrant'
  BY <1>1, GrantedStep
<1>2. ASSUME NEW t \in Tabs, WriteFails(t) \/ Recover(t) PROVE EffectNeedsGrant'
  BY <1>2, FaultMoves DEF Frame, EffectNeedsGrant, history
<1>3. CASE Lapse \/ Crash \/ UNCHANGED vars
  BY <1>3 DEF Lapse, Crash, vars, history, EffectNeedsGrant
<1>. QED
  BY <1>1, <1>2, <1>3 DEF FaultyNext, Next, Settled

\* Whatever fails, the tables, the plan and every script run stay well typed.
THEOREM TypeCorrectUnderFaults == FaultySpec => []TypeOK
<1>1. Init => Frame
  BY InitIInv DEF IInv, Frame
<1>. QED
  BY <1>1, FrameFaulty, PTL DEF FaultySpec, Frame

\* Whatever fails, and however many tabs there are, the tool acts only for a
\* version that a user approved.
THEOREM ActsOnlyIfGrantedUnderFaults == FaultySpec => []EffectNeedsGrant
<1>1. Init => Frame /\ EffectNeedsGrant
  BY InitIInv DEF IInv, Frame, EffectsAreRecorded
<1>. QED
  BY <1>1, FrameFaulty, GrantedFaulty, PTL DEF FaultySpec
================================================================================
