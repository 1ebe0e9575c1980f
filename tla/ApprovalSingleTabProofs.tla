----------------------- MODULE ApprovalSingleTabProofs -----------------------
(***************************************************************************)
(* TLAPS proofs about ApprovalService for a single browser tab, whatever   *)
(* writes fail and whenever the process dies: the tool acts on what the    *)
(* user approved, once per version, and on nothing that was rejected,      *)
(* edited away or had lapsed.  None of this holds for several tabs.        *)
(***************************************************************************)
EXTENDS ApprovalServiceProofs

--------------------------------------------------------------------------------
(* The inductive invariant of one tab *)

\* There is one tab.
OneTab == \E t : Tabs = {t}

\* Labels of a script run that found the plan parked, and of one that runs it.
Parked ==
  {"panel", "rerun", "save_decision", "save_decided_action", "save_edited_workflow",
   "persist_running"} \union Editing

Running ==
  {"propose", "propose_request", "pause", "check", "verify", "acquire", "finish",
   "recover"} \union Critical

\* Where the tab stands tells the status of the plan.
PlanFollows(t) ==
  /\ pc[t] \in Parked => plan.status = "waiting"
  /\ pc[t] \in Running => plan.status = "running"
  /\ pc[t] \in Expiring =>
       plan.status = IF tab[t].return = "finish" THEN "running" ELSE "waiting"

\* A request that can still lead to an execution.
Standing(q) == approvals[q].status \in {"pending", "approved"}

\* The tab works on the references it read from the plan, until it writes new ones.
PlanPoints ==
  \/ plan.version = 0 /\ plan.request = 0
  \/ Points(plan)

TabRefers(t) ==
  /\ pc[t] \in (Pointing \ {"pause", "save_edited_workflow"})
                 \union {"propose", "propose_request", "finish", "recover"} =>
       tab[t].version = plan.version /\ tab[t].request = plan.request
  /\ pc[t] \in Pointing \ {"pause", "save_edited_workflow"} => plan.request # 0
  /\ pc[t] \in Expiring => tab[t].expiring = plan.request
  /\ pc[t] = "expire_request" => Standing(plan.request)
  /\ pc[t] = "save_edited_workflow" => tab[t].version = plan.version + 1
  /\ pc[t] \in {"propose", "propose_request", "pause"} => ~tab[t].resumed

\* Every version has one request, and one request at most still stands.
OneRequestEach ==
  /\ \A q, r \in Requests :
       approvals[q].status # "absent" /\ approvals[q].version = approvals[r].version => q = r
  /\ \A q, r \in Requests : Standing(q) /\ Standing(r) => q = r

ActionsEnd(v) == \A w \in Versions : w > v => actions[w].status = "absent"
RequestsEnd(v) == \A q \in Requests : approvals[q].version <= v

\* While the request of the plan stands, no later version was begun.
Frontier(t) ==
  /\ plan.request # 0 /\ Standing(plan.request) =>
       ActionsEnd(plan.version) /\ RequestsEnd(plan.version)
  /\ pc[t] \in {"propose", "propose_request"} => plan.request = 0 /\ RequestsEnd(0) /\ ActionsEnd(1)
  /\ pc[t] \in {"pause", "save_edited_workflow", "save_edited_action", "save_new_action"} =>
       ActionsEnd(tab[t].version) /\ RequestsEnd(tab[t].version)
  /\ pc[t] = "save_new_request" =>
       ActionsEnd(tab[t].version + 1) /\ RequestsEnd(tab[t].version)
  /\ pc[t] = "pause" => plan.request = 0

\* What the tab found about the request is still so.
RequestAsRead(t) ==
  LET q == tab[t].request
  IN /\ pc[t] \in {"save_decision", "save_edited_request"} => approvals[q].status = "pending"
     /\ pc[t] = "save_decided_action" => approvals[q].status = tab[t].decision
     /\ pc[t] \in {"save_edited_action", "save_new_action", "save_new_request"} =>
          \A r \in Requests : ~Standing(r)
     /\ pc[t] = "expire_action" => approvals[q].status = "expired"
     /\ pc[t] = "persist_running" => approvals[q].status # "pending"
     /\ pc[t] \in {"verify", "acquire"} \union Critical => approvals[q].status = "approved"
     /\ pc[t] \in {"acquire"} \union Critical => newest[tab[t].version] = q

\* What the tab read of the arguments is still so, and what a request approves
\* was on the screen of the user who approved it.
PayloadAsShown(t) ==
  LET v == tab[t].version
  IN /\ pc[t] = "panel" => tab[t].shown = actions[v].payload
     /\ pc[t] \in {"save_decision", "save_decided_action", "save_edited_request",
                   "save_edited_action", "acquire"} \union Critical =>
          tab[t].payload = actions[v].payload
     /\ pc[t] = "save_decision" /\ tab[t].decision = "approved" =>
          tab[t].payload \in consent[v]
     /\ pc[t] \in Expiring =>
          tab[t].payload = actions[approvals[tab[t].expiring].version].payload

ApprovedIsShown ==
  \A q \in Requests : approvals[q].status = "approved" =>
    actions[approvals[q].version].payload \in consent[approvals[q].version]

\* What was rejected, or had lapsed when it was resumed, cannot pass the gate.
BarredStays(t) ==
  /\ \A v \in barred : v <= plan.version
  /\ \A q \in Requests : approvals[q].version \in barred =>
       /\ approvals[q].status # "pending"
       /\ approvals[q].status = "approved" => q <= lapsed
  /\ pc[t] \in {"verify", "acquire"} \union Critical => tab[t].version \notin barred

\* Nothing has happened until the tool was called, which is done once.
Unexecuted == \A v \in Versions : actions[v].status \notin {"completed", "failed"}

Untouched ==
  \A v \in Versions : effects[v] = 0 /\ sent[v] = {} /\ receipts[v] = "none"

Called(t) ==
  \/ pc[t] \in {"record", "close"}
  \/ pc[t] \in {"finish", "recover", "idle"} /\ plan.status # "waiting"

ActsLast(t) ==
  /\ ~Called(t) => Untouched /\ Unexecuted
  /\ pc[t] \in {"record", "close"} => Unexecuted

Shared ==
  /\ PlanPoints /\ OneRequestEach /\ ApprovedIsShown
  /\ AtMostOnce /\ ConsentBeforeEffect /\ OneLiveRequest

Own(t) ==
  /\ PlanFollows(t) /\ TabRefers(t) /\ Frontier(t) /\ RequestAsRead(t)
  /\ PayloadAsShown(t) /\ BarredStays(t) /\ ActsLast(t)

SingleInv == Shared /\ \A t \in Tabs : Own(t)

\* What a step of the tab starts from.
Ready(t) == OneTab /\ t \in Tabs /\ Frame /\ SingleInv

--------------------------------------------------------------------------------
(* Shorthands of the proofs *)

\* The labels of the tab, as sets of their members.
USE DEF Versions, Requests, Parked, Running, Critical, Editing, Expiring, Pointing

\* What the tab and the tables hold is typed, and belongs together.
LEMMA ReadyFields ==
  ASSUME NEW t, Ready(t)
  PROVE  /\ t \in Tabs /\ TypeOK /\ RequestsKeepVersion /\ Shared /\ Own(t)
         /\ \A u \in Tabs : u = t
         /\ pc[t] \in Labels
         /\ tab[t] \in TabState
         /\ tab[t].version \in 0 .. MaxVersion
         /\ tab[t].request \in 0 .. MaxRequest
         /\ plan.version \in 0 .. MaxVersion
         /\ plan.request \in 0 .. MaxRequest
         /\ plan.status \in {"running", "waiting", "ended"}
         /\ \A q \in Requests : approvals[q].version \in 0 .. MaxVersion
         /\ pc[t] \in Pointing => Points(tab[t])
         /\ plan.request # 0 => Points(plan)
         /\ tab[t].expiring \in 0 .. MaxRequest
         /\ tab[t].return \in {"idle", "persist_running", "finish"}
BY DEF Ready, OneTab, Frame, SingleInv, TypeOK, TabState, PlanRow, ApprovalRow,
   Shared, PlanPoints, ReferencesHold

\* With one tab, the invariant is what holds of the tables and of that tab.
LEMMA Whole ==
  ASSUME NEW t, Ready(t), Shared', Own(t)'
  PROVE  SingleInv'
BY DEF Ready, OneTab, SingleInv

\* A step that only moves the tab leaves what is shared as it is.
LEMMA SharedStays ==
  ASSUME Shared, UNCHANGED <<approvals, receipts, plan, effects, sent, consent>>,
         \A v \in Versions : actions'[v].payload = actions[v].payload,
         RequestsKeepVersion, TypeOK
  PROVE  Shared'
<1>1. PlanPoints' /\ OneRequestEach' /\ AtMostOnce' /\ ConsentBeforeEffect' /\ OneLiveRequest'
  BY DEF Shared, PlanPoints, Points, OneRequestEach, Standing, AtMostOnce,
     ConsentBeforeEffect, OneLiveRequest
<1>2. ApprovedIsShown'
  <2>1. \A q \in Requests : approvals[q].status = "approved" => approvals[q].version \in Versions
    BY ApprovalAssumption DEF RequestsKeepVersion, TypeOK, ApprovalRow
  <2>. QED
    BY <2>1 DEF Shared, ApprovedIsShown
<1>. QED
  BY <1>1, <1>2 DEF Shared


--------------------------------------------------------------------------------
(* Steps that write nothing *)

\* _expire_if_needed is entered for the request of the plan.
LEMMA EntersExpiry ==
  ASSUME NEW t, Ready(t), NEW state \in TabState,
         NEW return \in {"idle", "persist_running", "finish"},
         state.version = plan.version, state.request = plan.request,
         plan.status = IF return = "finish" THEN "running" ELSE "waiting",
         Expires(plan.request), EnterExpiry(t, plan.request, state, return),
         ~Called(t), UNCHANGED <<store, plan, lapsed, history>>
  PROVE  SingleInv'
<1>1. /\ pc'[t] = "expire_request"
      /\ tab'[t].version = plan.version /\ tab'[t].request = plan.request
      /\ tab'[t].return = return /\ tab'[t].expiring = plan.request
      /\ tab'[t].payload = actions[approvals[plan.request].version].payload
  BY DEF Ready, Frame, TypeOK, EnterExpiry, Goto, Keep, TabState
<1>2. plan.request # 0
  BY DEF Expires
<1>3. Shared'
  BY ReadyFields, SharedStays DEF store, history
<1>4. PlanFollows(t)' /\ TabRefers(t)'
  BY <1>1, <1>2 DEF PlanFollows, TabRefers, Expires, Standing, store
<1>5. Frontier(t)'
  BY <1>1, ReadyFields DEF Own, Frontier, Standing, ActionsEnd, RequestsEnd, store
<1>6. RequestAsRead(t)' /\ PayloadAsShown(t)'
  BY <1>1 DEF RequestAsRead, PayloadAsShown, store
<1>7. BarredStays(t)'
  BY <1>1, ReadyFields DEF Own, BarredStays, store, history
<1>8. ActsLast(t)'
  BY <1>1, ReadyFields DEF Own, ActsLast, Called, Untouched, Unexecuted, store, history
<1>. QED
  BY <1>3, <1>4, <1>5, <1>6, <1>7, <1>8, Whole DEF Own

\* A tab that leaves the plan alone has nothing to keep.
LEMMA Rests ==
  ASSUME NEW t, Ready(t), pc'[t] = "idle", Called(t) => Called(t)',
         UNCHANGED <<store, plan, lapsed, history>>
  PROVE  SingleInv'
<1>1. Shared'
  BY ReadyFields, SharedStays DEF store, history
<1>2. PlanFollows(t)' /\ TabRefers(t)' /\ RequestAsRead(t)' /\ PayloadAsShown(t)'
  BY DEF PlanFollows, TabRefers, RequestAsRead, PayloadAsShown
<1>3. Frontier(t)'
  BY ReadyFields DEF Own, Frontier, Standing, ActionsEnd, RequestsEnd, store
<1>4. BarredStays(t)'
  BY ReadyFields DEF Own, BarredStays, store, history
<1>5. ActsLast(t)'
  BY ReadyFields DEF Own, ActsLast, Called, Untouched, Unexecuted, store, history
<1>. QED
  BY <1>1, <1>2, <1>3, <1>4, <1>5, Whole DEF Own

\* So has one that gave its task up.
LEMMA GivesUp ==
  ASSUME NEW t, Ready(t), pc'[t] \in {"finish", "recover"}, plan.status = "running",
         tab'[t].version = plan.version, tab'[t].request = plan.request,
         UNCHANGED <<store, plan, lapsed, history>>
  PROVE  SingleInv'
<1>1. Shared'
  BY ReadyFields, SharedStays DEF store, history
<1>2. PlanFollows(t)' /\ TabRefers(t)' /\ RequestAsRead(t)' /\ PayloadAsShown(t)'
  BY DEF PlanFollows, TabRefers, RequestAsRead, PayloadAsShown
<1>3. Frontier(t)'
  BY ReadyFields DEF Own, Frontier, Standing, ActionsEnd, RequestsEnd, store
<1>4. BarredStays(t)'
  BY ReadyFields DEF Own, BarredStays, store, history
<1>5. ActsLast(t)'
  BY DEF ActsLast, Called
<1>. QED
  BY <1>1, <1>2, <1>3, <1>4, <1>5, Whole DEF Own

\* A script run reads the waiting plan and its request.
LEMMA OpenWorkflowKeeps ==
  ASSUME NEW t, Ready(t), OpenWorkflow(t)
  PROVE  SingleInv'
<1> DEFINE q == plan.request
           state == [Blank EXCEPT !.version = plan.version, !.request = q, !.resumed = TRUE]
<1>1. /\ pc[t] \in {"idle", "panel", "rerun"} /\ plan.status = "waiting"
      /\ UNCHANGED <<store, plan, lapsed, history>>
  BY DEF OpenWorkflow
<1>2. /\ q \in Requests /\ plan.version \in Versions
      /\ approvals[q].version = plan.version /\ Points(plan)
  BY <1>1 DEF Ready, Frame, ReferencesHold, Points
<1>3. ~Called(t)
  BY <1>1 DEF Called
<1>4. state \in TabState
  <2>1. plan.version \in 0 .. MaxVersion /\ q \in 0 .. MaxRequest
    BY ReadyFields
  <2>. QED
    BY <2>1, BlankType DEF TabState
<1>5. CASE Expires(q) /\ EnterExpiry(t, q, state, "persist_running")
  <2>1. state.version = plan.version /\ state.request = plan.request
    BY DEF Blank
  <2>. HIDE DEF state
  <2>. QED
    BY <1>1, <1>3, <1>4, <1>5, <2>1, EntersExpiry
<1>6. CASE /\ approvals[q].status = "pending" /\ Goto(t, "panel")
           /\ Keep(t, [Blank EXCEPT !.version = plan.version, !.request = q,
                                    !.shown = PreviewOf(plan.version)])
  <2>1. /\ pc'[t] = "panel" /\ tab'[t].version = plan.version /\ tab'[t].request = q
        /\ tab'[t].shown = actions[plan.version].payload
    BY <1>6 DEF Ready, Frame, TypeOK, Goto, Keep, Blank, PreviewOf
  <2>2. Shared'
    BY <1>1, ReadyFields, SharedStays DEF store, history
  <2>3. PlanFollows(t)' /\ TabRefers(t)' /\ RequestAsRead(t)' /\ PayloadAsShown(t)'
    BY <1>1, <1>2, <2>1 DEF PlanFollows, TabRefers, RequestAsRead, PayloadAsShown, store
  <2>4. Frontier(t)' /\ BarredStays(t)'
    BY <1>1, <2>1, ReadyFields DEF Own, Frontier, BarredStays, Standing, ActionsEnd,
       RequestsEnd, store, history
  <2>5. ActsLast(t)'
    BY <1>1, <1>3, <2>1, ReadyFields DEF Own, ActsLast, Untouched, Unexecuted, store, history
  <2>. QED
    BY <2>2, <2>3, <2>4, <2>5, Whole DEF Own
<1>7. CASE approvals[q].status # "pending" /\ Goto(t, "persist_running") /\ Keep(t, state)
  <2>1. /\ pc'[t] = "persist_running" /\ tab'[t].version = plan.version
        /\ tab'[t].request = q
    BY <1>7 DEF Ready, Frame, TypeOK, Goto, Keep, Blank
  <2>2. Shared'
    BY <1>1, ReadyFields, SharedStays DEF store, history
  <2>3. PlanFollows(t)' /\ TabRefers(t)' /\ RequestAsRead(t)' /\ PayloadAsShown(t)'
    BY <1>1, <1>2, <1>7, <2>1 DEF PlanFollows, TabRefers, RequestAsRead, PayloadAsShown, store
  <2>4. Frontier(t)' /\ BarredStays(t)'
    BY <1>1, <2>1, ReadyFields DEF Own, Frontier, BarredStays, Standing, ActionsEnd,
       RequestsEnd, store, history
  <2>5. ActsLast(t)'
    BY <1>1, <1>3, <2>1, ReadyFields DEF Own, ActsLast, Untouched, Unexecuted, store, history
  <2>. QED
    BY <2>2, <2>3, <2>4, <2>5, Whole DEF Own
<1>. QED
  BY <1>5, <1>6, <1>7 DEF OpenWorkflow

\* A script run that finds no waiting plan rests.
LEMMA NothingWaitsKeeps ==
  ASSUME NEW t, Ready(t), NothingWaits(t)
  PROVE  SingleInv'
<1>1. pc'[t] = "idle" /\ ~Called(t)
  BY DEF NothingWaits, Leave, Goto, Ready, Frame, TypeOK, Called
<1>. QED
  BY <1>1, Rests DEF NothingWaits

\* The panel the user clicks on shows the waiting plan.
LEMMA ClickedFacts ==
  ASSUME NEW t, Ready(t), Clicked(t)
  PROVE  /\ pc[t] = "panel" /\ plan.status = "waiting" /\ ~Called(t)
         /\ tab[t].version = plan.version /\ tab[t].request = plan.request
         /\ plan.version \in Versions /\ plan.request \in Requests
         /\ plan.request # 0
         /\ approvals[plan.request].version = plan.version
         /\ tab[t].shown = actions[plan.version].payload
<1>1. Points(plan)
  BY DEF Ready, Frame, ReferencesHold, Clicked
<1>. QED
  BY <1>1, ReadyFields, ApprovalAssumption DEF Clicked, Points, Called, Own, PayloadAsShown

\* A click on a lapsed request only closes it.
LEMMA ClickTooLateKeeps ==
  ASSUME NEW t, Ready(t), ClickTooLate(t)
  PROVE  SingleInv'
BY ClickedFacts, ReadyFields, EntersExpiry DEF ClickTooLate

\* A click on Approve, Deny or Cancel reads a request that is pending, and the
\* arguments the user saw.
LEMMA DecideKeeps ==
  ASSUME NEW t, Ready(t), NEW d \in Decisions, Decide(t, d)
  PROVE  SingleInv'
<1> DEFINE v == plan.version
           q == plan.request
<1>1. /\ tab[t].version = v /\ tab[t].request = q /\ v \in Versions /\ q \in Requests
      /\ q # 0 /\ plan.status = "waiting" /\ ~Called(t)
      /\ tab[t].shown = actions[v].payload /\ approvals[q].version = v
  BY ClickedFacts DEF Decide
<1>2. /\ approvals[q].status = "pending"
      /\ UNCHANGED <<store, plan, lapsed, effects, sent, barred>>
      /\ pc'[t] = "save_decision"
  BY <1>1 DEF Decide, Decidable, Goto, Ready, Frame, TypeOK
<1>3. /\ tab'[t].version = v /\ tab'[t].request = q
      /\ tab'[t].payload = actions[v].payload /\ tab'[t].decision = d
  BY <1>1, ReadyFields DEF Decide, Keep, TypeOK, TabState
<1>4. /\ \A w \in Versions : consent[w] \subseteq consent'[w]
      /\ d = "approved" => actions[v].payload \in consent'[v]
  BY <1>1, ReadyFields DEF Decide, TypeOK
<1>5. Shared'
  <2>1. ApprovedIsShown'
    <3>1. \A r \in Requests : approvals[r].status = "approved" => approvals[r].version \in Versions
      BY ReadyFields, ApprovalAssumption DEF RequestsKeepVersion
    <3>. QED
      BY <1>2, <1>4, <3>1, ReadyFields DEF Shared, ApprovedIsShown, store
  <2>2. ConsentBeforeEffect'
    BY <1>2, <1>4, ReadyFields DEF Shared, ConsentBeforeEffect
  <2>. QED
    BY <1>2, <2>1, <2>2, ReadyFields DEF Shared, PlanPoints, Points, OneRequestEach,
       Standing, AtMostOnce, OneLiveRequest, store
<1>6. PlanFollows(t)' /\ TabRefers(t)' /\ RequestAsRead(t)'
  BY <1>1, <1>2, <1>3 DEF PlanFollows, TabRefers, RequestAsRead, store
<1>7. PayloadAsShown(t)'
  BY <1>2, <1>3, <1>4 DEF PayloadAsShown, store
<1>8. Frontier(t)' /\ BarredStays(t)'
  BY <1>2, ReadyFields DEF Own, Frontier, BarredStays, Standing, ActionsEnd,
     RequestsEnd, store
<1>9. ActsLast(t)'
  BY <1>1, <1>2, ReadyFields DEF Own, ActsLast, Untouched, Unexecuted, store
<1>. QED
  BY <1>5, <1>6, <1>7, <1>8, <1>9, Whole DEF Own

\* What a run of the task knows about the references it was resumed with.
LEMMA RunFacts ==
  ASSUME NEW t, Ready(t), pc[t] \in {"check", "verify", "acquire"} \union Critical
  PROVE  /\ plan.status = "running"
         /\ tab[t].version = plan.version /\ tab[t].request = plan.request
         /\ plan.version \in Versions /\ plan.request \in Requests
         /\ plan.request # 0
         /\ approvals[plan.request].version = plan.version
<1>1. Points(tab[t]) /\ tab[t].version = plan.version /\ tab[t].request = plan.request
  BY ReadyFields DEF Own, TabRefers
<1>2. plan.status = "running"
  BY ReadyFields DEF Own, PlanFollows
<1>. QED
  BY <1>1, <1>2, ApprovalAssumption DEF Points

\* check_approval lets a run on only with an approval that has not lapsed.
LEMMA CheckApprovalKeeps ==
  ASSUME NEW t, Ready(t), CheckApproval(t)
  PROVE  SingleInv'
<1> DEFINE v == plan.version
           q == plan.request
<1>1. /\ tab[t].version = v /\ tab[t].request = q /\ v \in Versions /\ q \in Requests
      /\ q # 0 /\ plan.status = "running" /\ approvals[q].version = v
      /\ pc[t] = "check" /\ ~Called(t)
      /\ UNCHANGED <<store, plan, lapsed, history>>
  BY RunFacts DEF CheckApproval, Called
<1>2. CASE Expires(q) /\ EnterExpiry(t, q, tab[t], "finish")
  BY <1>1, <1>2, ReadyFields, EntersExpiry
<1>3. CASE Goto(t, "finish") /\ UNCHANGED tab
  <2>1. pc'[t] = "finish"
    BY <1>3 DEF Goto, Ready, Frame, TypeOK
  <2>. QED
    BY <1>1, <1>3, <2>1, GivesUp
<1>4. CASE ~Expires(q) /\ approvals[q].status = "approved" /\ Goto(t, "verify") /\ UNCHANGED tab
  <2>1. pc'[t] = "verify" /\ ~(q <= lapsed)
    BY <1>1, <1>4 DEF Goto, Ready, Frame, TypeOK, Expires
  <2>2. Shared'
    BY <1>1, ReadyFields, SharedStays DEF store, history
  <2>3. PlanFollows(t)' /\ TabRefers(t)' /\ RequestAsRead(t)' /\ PayloadAsShown(t)'
    BY <1>1, <1>4, <2>1 DEF PlanFollows, TabRefers, RequestAsRead, PayloadAsShown, store
  <2>4. Frontier(t)'
    BY <1>1, <2>1, ReadyFields DEF Own, Frontier, Standing, ActionsEnd, RequestsEnd, store
  <2>5. BarredStays(t)'
    BY <1>1, <1>4, <2>1, ReadyFields DEF Own, BarredStays, store, history
  <2>6. ActsLast(t)'
    BY <1>1, <2>1, ReadyFields DEF Own, ActsLast, Untouched, Unexecuted, store, history
  <2>. QED
    BY <2>2, <2>3, <2>4, <2>5, <2>6, Whole DEF Own
<1>. QED
  BY <1>1, <1>2, <1>3, <1>4 DEF CheckApproval

\* The newest request of the version is the one the plan names: there is no other.
LEMMA NewestIsPlans ==
  ASSUME NEW t, Ready(t), pc[t] \in {"check", "verify", "acquire"} \union Critical,
         newest[plan.version] # 0
  PROVE  newest[plan.version] = plan.request
<1>1. newest[plan.version] \in Requests
  BY RunFacts, ReadyFields, ApprovalAssumption DEF TypeOK
<1>2. approvals[newest[plan.version]].version = plan.version
  BY RunFacts, ReadyFields DEF RequestsKeepVersion
<1>3. approvals[plan.request].status # "absent"
  BY RunFacts, ReadyFields DEF RequestsKeepVersion
<1>. QED
  BY <1>1, <1>2, <1>3, RunFacts, ReadyFields DEF Shared, OneRequestEach

\* verify_approved reads the frozen arguments of the approved version.
LEMMA VerifyApprovedKeeps ==
  ASSUME NEW t, Ready(t), VerifyApproved(t)
  PROVE  SingleInv'
<1> DEFINE v == plan.version
           q == plan.request
<1>1. /\ tab[t].version = v /\ tab[t].request = q /\ v \in Versions /\ q \in Requests
      /\ q # 0 /\ plan.status = "running" /\ approvals[q].version = v
      /\ pc[t] = "verify" /\ ~Called(t)
      /\ UNCHANGED <<store, plan, lapsed, history>>
  BY RunFacts DEF VerifyApproved, Called
<1>2. CASE Expires(newest[v]) /\ EnterExpiry(t, newest[v], tab[t], "finish")
  <2>1. newest[v] = q
    BY <1>1, <1>2, NewestIsPlans, ApprovalAssumption DEF Expires
  <2>. QED
    BY <1>1, <1>2, <2>1, ReadyFields, EntersExpiry
<1>3. CASE Goto(t, "finish") /\ UNCHANGED tab
  <2>1. pc'[t] = "finish"
    BY <1>3 DEF Goto, Ready, Frame, TypeOK
  <2>. QED
    BY <1>1, <1>3, <2>1, GivesUp
<1>4. CASE /\ Executable(v, newest[v]) /\ Goto(t, "acquire")
           /\ Keep(t, [tab[t] EXCEPT !.payload = actions[v].payload])
  <2>1. newest[v] = q
    BY <1>1, <1>4, NewestIsPlans DEF Executable
  <2>2. /\ pc'[t] = "acquire" /\ tab'[t].version = v /\ tab'[t].request = q
        /\ tab'[t].payload = actions[v].payload
    BY <1>1, <1>4, ReadyFields DEF Goto, Keep, TypeOK, TabState
  <2>3. Shared'
    BY <1>1, ReadyFields, SharedStays DEF store, history
  <2>4. approvals[q].status = "approved" /\ v \notin barred
    BY <1>1, ReadyFields DEF Own, RequestAsRead, BarredStays
  <2>5. PlanFollows(t)' /\ TabRefers(t)' /\ RequestAsRead(t)' /\ PayloadAsShown(t)'
    BY <1>1, <2>1, <2>2, <2>4 DEF PlanFollows, TabRefers, RequestAsRead, PayloadAsShown, store
  <2>6. Frontier(t)'
    BY <1>1, <2>2, ReadyFields DEF Own, Frontier, Standing, ActionsEnd, RequestsEnd, store
  <2>7. BarredStays(t)'
    BY <1>1, <2>2, <2>4, ReadyFields DEF Own, BarredStays, store, history
  <2>8. ActsLast(t)'
    BY <1>1, <2>2, ReadyFields DEF Own, ActsLast, Untouched, Unexecuted, store, history
  <2>. QED
    BY <2>3, <2>5, <2>6, <2>7, <2>8, Whole DEF Own
<1>. QED
  BY <1>1, <1>2, <1>3, <1>4 DEF VerifyApproved

\* Moving on inside the gate keeps what was verified.
LEMMA MovesThroughGate ==
  ASSUME NEW t, Ready(t), pc[t] \in {"acquire", "lookup"}, pc'[t] \in {"lookup", "start"},
         UNCHANGED <<store, plan, lapsed, history, tab>>
  PROVE  SingleInv'
<1>1. plan.status = "running" /\ plan.request # 0 /\ ~Called(t)
  BY RunFacts DEF Called
<1>2. Shared'
  BY ReadyFields, SharedStays DEF store, history
<1>3. PlanFollows(t)' /\ TabRefers(t)' /\ RequestAsRead(t)' /\ PayloadAsShown(t)'
  BY <1>1, ReadyFields DEF Own, PlanFollows, TabRefers, RequestAsRead, PayloadAsShown, store, history
<1>4. Frontier(t)' /\ BarredStays(t)'
  BY ReadyFields DEF Own, Frontier, BarredStays, Standing, ActionsEnd, RequestsEnd, store, history
<1>5. ActsLast(t)'
  BY <1>1, ReadyFields DEF Own, ActsLast, Untouched, Unexecuted, store, history
<1>. QED
  BY <1>2, <1>3, <1>4, <1>5, Whole DEF Own

\* The gate is taken with what was verified.
LEMMA AcquireGateKeeps ==
  ASSUME NEW t, Ready(t), AcquireGate(t)
  PROVE  SingleInv'
<1>1. pc[t] = "acquire" /\ pc'[t] = "lookup"
  BY DEF AcquireGate, Goto, Ready, Frame, TypeOK
<1>. QED
  BY <1>1, MovesThroughGate DEF AcquireGate

\* A receipt that is found ends the task.
LEMMA LookupReceiptKeeps ==
  ASSUME NEW t, Ready(t), LookupReceipt(t)
  PROVE  SingleInv'
<1>1. pc[t] = "lookup" /\ pc'[t] \in {"start", "finish"}
  BY DEF LookupReceipt, Goto, Ready, Frame, TypeOK
<1>2. CASE pc'[t] = "start"
  BY <1>1, <1>2, MovesThroughGate DEF LookupReceipt
<1>3. CASE pc'[t] = "finish"
  BY <1>1, <1>3, GivesUp, RunFacts DEF LookupReceipt
<1>. QED
  BY <1>1, <1>2, <1>3

--------------------------------------------------------------------------------
(* Steps that close a request *)

\* A stored request has a version.
LEMMA StoredVersion ==
  ASSUME NEW t, Ready(t), NEW q \in Requests, approvals[q].status # "absent"
  PROVE  approvals[q].version \in Versions
BY ReadyFields, ApprovalAssumption DEF RequestsKeepVersion

\* The standing request of the plan is decided, edited or expires: what is
\* shared, the frontier and what was barred stay.
LEMMA Closes ==
  ASSUME NEW t, Ready(t), NEW q \in Requests, NEW status \in ApprovalStatus \ {"absent", "pending"},
         Standing(q), SaveRequest(q, status, approvals[q].version),
         status = "approved" =>
           /\ approvals[q].status = "pending"
           /\ actions[approvals[q].version].payload \in consent[approvals[q].version],
         UNCHANGED <<actions, receipts, plan, lapsed, history>>
  PROVE  /\ Shared'
         /\ approvals'[q].status = status
         /\ \A r \in Requests : approvals'[r].version = approvals[r].version
         /\ \A r \in Requests : Standing(r)' => Standing(r)
         /\ status \notin {"approved"} => \A r \in Requests : ~Standing(r)'
         /\ plan.request # 0 /\ Standing(plan.request)' =>
              ActionsEnd(plan.version)' /\ RequestsEnd(plan.version)'
         /\ \A r \in Requests : approvals'[r].version \in barred =>
              /\ approvals'[r].status # "pending"
              /\ approvals'[r].status = "approved" => r <= lapsed
<1>1. /\ approvals'[q] = [status |-> status, version |-> approvals[q].version]
      /\ \A r \in Requests : r # q => approvals'[r] = approvals[r]
  BY ReadyFields DEF SaveRequest, TypeOK
<1>2. approvals'[q].status = status /\ approvals'[q].version = approvals[q].version
  BY <1>1
<1>3. \A r \in Requests : approvals'[r].version = approvals[r].version
  BY <1>1, <1>2
<1>4. \A r \in Requests : Standing(r)' => Standing(r)
  BY <1>1 DEF Standing
<1>5. status # "approved" => \A r \in Requests : ~Standing(r)'
  <2>1. \A r \in Requests : Standing(r) => r = q
    BY ReadyFields DEF Shared, OneRequestEach
  <2>. QED
    BY <1>2, <1>4, <2>1 DEF Standing
<1>6. approvals[q].version \in Versions
  BY StoredVersion DEF Standing
<1>7. Shared'
  <2>1. PlanPoints'
    BY <1>3, ReadyFields DEF Shared, PlanPoints, Points
  <2>2. OneRequestEach'
    <3>1. \A r \in Requests : approvals'[r].status # "absent" => approvals[r].status # "absent"
      BY <1>1 DEF Standing
    <3>. QED
      BY <1>3, <1>4, <3>1, ReadyFields DEF Shared, OneRequestEach
  <2>3. ApprovedIsShown'
    <3>1. ASSUME NEW r \in Requests, approvals'[r].status = "approved"
          PROVE  actions'[approvals'[r].version].payload \in consent'[approvals'[r].version]
      <4>1. CASE r = q
        BY <1>2, <3>1, <4>1 DEF history
      <4>2. CASE r # q
        BY <1>1, <3>1, <4>2, ReadyFields DEF Shared, ApprovedIsShown, history
      <4>. QED
        BY <4>1, <4>2
    <3>. QED
      BY <3>1 DEF ApprovedIsShown
  <2>4. AtMostOnce' /\ ConsentBeforeEffect'
    BY ReadyFields DEF Shared, AtMostOnce, ConsentBeforeEffect, history
  <2>5. OneLiveRequest'
    <3>1. \A r \in Requests : approvals'[r].status = "pending" => approvals[r].status = "pending"
      BY <1>1
    <3>. QED
      BY <3>1, ReadyFields DEF Shared, OneLiveRequest
  <2>. QED
    BY <2>1, <2>2, <2>3, <2>4, <2>5 DEF Shared
<1>8. plan.request # 0 /\ Standing(plan.request)' =>
        ActionsEnd(plan.version)' /\ RequestsEnd(plan.version)'
  <2>1. plan.request # 0 => plan.request \in Requests
    BY ReadyFields
  <2>. QED
    BY <1>3, <1>4, <2>1, ReadyFields DEF Own, Frontier, ActionsEnd, RequestsEnd
<1>9. \A r \in Requests : approvals'[r].version \in barred =>
        /\ approvals'[r].status # "pending"
        /\ approvals'[r].status = "approved" => r <= lapsed
  BY <1>1, <1>2, <1>3, ReadyFields DEF Own, BarredStays
<1>. QED
  BY <1>2, <1>3, <1>4, <1>5, <1>7, <1>8, <1>9

\* The references of a script run at the panel's operations.
LEMMA PanelFacts ==
  ASSUME NEW t, Ready(t),
         pc[t] \in {"save_decision", "save_decided_action", "persist_running"} \union Editing
  PROVE  /\ plan.status = "waiting" /\ ~Called(t)
         /\ tab[t].version = plan.version /\ tab[t].request = plan.request
         /\ plan.version \in Versions /\ plan.request \in Requests
         /\ plan.request # 0
         /\ approvals[plan.request].version = plan.version
<1>1. Points(tab[t]) /\ tab[t].version = plan.version /\ tab[t].request = plan.request
  BY ReadyFields DEF Own, TabRefers
<1>2. plan.status = "waiting" /\ ~Called(t)
  BY ReadyFields DEF Own, PlanFollows, Called
<1>. QED
  BY <1>1, <1>2, ApprovalAssumption DEF Points

\* The decision is written into the request.
LEMMA SaveDecisionKeeps ==
  ASSUME NEW t, Ready(t), SaveDecision(t)
  PROVE  SingleInv'
<1> DEFINE v == plan.version
           q == plan.request
           d == tab[t].decision
<1>1. /\ pc[t] = "save_decision" /\ plan.status = "waiting" /\ ~Called(t)
      /\ tab[t].version = v /\ tab[t].request = q /\ v \in Versions /\ q \in Requests
      /\ q # 0 /\ approvals[q].version = v
      /\ UNCHANGED <<actions, receipts, plan, lapsed, tab, history>>
  BY PanelFacts DEF SaveDecision
<1>2. pc'[t] = "save_decided_action"
  BY DEF SaveDecision, Goto, Ready, Frame, TypeOK
<1>3. d \in {"approved", "denied", "cancelled"}
  BY ReadyFields DEF TabState, Decisions
<1>4. /\ approvals[q].status = "pending" /\ tab[t].payload = actions[v].payload
      /\ d = "approved" => actions[v].payload \in consent[v]
  BY <1>1, ReadyFields DEF Own, RequestAsRead, PayloadAsShown
<1>5. /\ Shared' /\ approvals'[q].status = d
      /\ plan.request # 0 /\ Standing(plan.request)' =>
           ActionsEnd(plan.version)' /\ RequestsEnd(plan.version)'
      /\ \A r \in Requests : approvals'[r].version \in barred =>
           /\ approvals'[r].status # "pending"
           /\ approvals'[r].status = "approved" => r <= lapsed
  <2>1. d \in ApprovalStatus \ {"absent", "pending"}
    BY <1>3 DEF ApprovalStatus
  <2>2. SaveRequest(q, d, approvals[q].version)
    BY <1>1 DEF SaveDecision
  <2>. HIDE DEF d
  <2>. QED
    BY <1>1, <1>4, <2>1, <2>2, Closes DEF Standing
<1>6. PlanFollows(t)' /\ TabRefers(t)' /\ RequestAsRead(t)' /\ PayloadAsShown(t)'
  BY <1>1, <1>2, <1>4, <1>5 DEF PlanFollows, TabRefers, RequestAsRead, PayloadAsShown, history
<1>7. Frontier(t)'
  BY <1>1, <1>2, <1>5 DEF Frontier
<1>8. BarredStays(t)'
  BY <1>1, <1>2, <1>5, ReadyFields DEF Own, BarredStays, history
<1>9. ActsLast(t)'
  BY <1>1, <1>2, ReadyFields DEF Own, ActsLast, Untouched, Unexecuted, history
<1>. QED
  BY <1>5, <1>6, <1>7, <1>8, <1>9, Whole DEF Own

\* An edit closes the request it replaces, after which none stands.
LEMMA SaveEditedRequestKeeps ==
  ASSUME NEW t, Ready(t), SaveEditedRequest(t)
  PROVE  SingleInv'
<1> DEFINE v == plan.version
           q == plan.request
<1>1. /\ pc[t] = "save_edited_request" /\ plan.status = "waiting" /\ ~Called(t)
      /\ tab[t].version = v /\ tab[t].request = q /\ v \in Versions /\ q \in Requests
      /\ q # 0 /\ approvals[q].version = v
      /\ UNCHANGED <<actions, receipts, plan, lapsed, tab, history>>
  BY PanelFacts DEF SaveEditedRequest
<1>2. pc'[t] = "save_edited_action"
  BY DEF SaveEditedRequest, Goto, Ready, Frame, TypeOK
<1>3. /\ approvals[q].status = "pending" /\ tab[t].payload = actions[v].payload
      /\ ActionsEnd(v) /\ RequestsEnd(v)
  BY <1>1, ReadyFields DEF Own, RequestAsRead, PayloadAsShown, Frontier, Standing
<1>4. /\ Shared' /\ \A r \in Requests : ~Standing(r)'
      /\ \A r \in Requests : approvals'[r].version = approvals[r].version
      /\ \A r \in Requests : approvals'[r].version \in barred =>
           /\ approvals'[r].status # "pending"
           /\ approvals'[r].status = "approved" => r <= lapsed
  <2>1. SaveRequest(q, "edited", approvals[q].version)
    BY <1>1 DEF SaveEditedRequest
  <2>2. "edited" \in ApprovalStatus \ {"absent", "pending"} /\ "edited" # "approved"
    BY DEF ApprovalStatus
  <2>. QED
    BY <1>1, <1>3, <2>1, <2>2, Closes DEF Standing
<1>5. PlanFollows(t)' /\ TabRefers(t)' /\ RequestAsRead(t)' /\ PayloadAsShown(t)'
  BY <1>1, <1>2, <1>3, <1>4 DEF PlanFollows, TabRefers, RequestAsRead, PayloadAsShown
<1>6. Frontier(t)'
  BY <1>1, <1>2, <1>3, <1>4 DEF Frontier, ActionsEnd, RequestsEnd
<1>7. BarredStays(t)'
  BY <1>1, <1>2, <1>4, ReadyFields DEF Own, BarredStays, history
<1>8. ActsLast(t)'
  BY <1>1, <1>2, ReadyFields DEF Own, ActsLast, Untouched, Unexecuted, history
<1>. QED
  BY <1>4, <1>5, <1>6, <1>7, <1>8, Whole DEF Own

\* What holds while _expire_if_needed runs.
LEMMA ExpiryFacts ==
  ASSUME NEW t, Ready(t), pc[t] \in Expiring
  PROVE  /\ plan.status = IF tab[t].return = "finish" THEN "running" ELSE "waiting"
         /\ tab[t].version = plan.version /\ tab[t].request = plan.request
         /\ tab[t].expiring = plan.request
         /\ plan.version \in Versions /\ plan.request \in Requests
         /\ plan.request # 0 /\ ~Called(t)
         /\ approvals[plan.request].version = plan.version
         /\ tab[t].payload = actions[plan.version].payload
<1>1. /\ Points(tab[t]) /\ tab[t].version = plan.version /\ tab[t].request = plan.request
      /\ tab[t].expiring = plan.request
  BY ReadyFields DEF Own, TabRefers
<1>2. /\ plan.status = IF tab[t].return = "finish" THEN "running" ELSE "waiting"
      /\ ~Called(t)
  BY ReadyFields DEF Own, PlanFollows, Called
<1>3. tab[t].payload = actions[approvals[tab[t].expiring].version].payload
  BY ReadyFields DEF Own, PayloadAsShown
<1>. QED
  BY <1>1, <1>2, <1>3, ApprovalAssumption DEF Points

\* The lapsed request is closed.
LEMMA ExpireRequestKeeps ==
  ASSUME NEW t, Ready(t), ExpireRequest(t)
  PROVE  SingleInv'
<1> DEFINE v == plan.version
           q == plan.request
<1>1. /\ plan.status = IF tab[t].return = "finish" THEN "running" ELSE "waiting"
      /\ tab[t].version = v /\ tab[t].request = q /\ tab[t].expiring = q
      /\ v \in Versions /\ q \in Requests /\ q # 0 /\ ~Called(t)
      /\ approvals[q].version = v /\ tab[t].payload = actions[v].payload
      /\ UNCHANGED <<actions, receipts, plan, lapsed, tab, history>>
      /\ pc[t] = "expire_request"
  BY ExpiryFacts DEF ExpireRequest
<1>2. pc'[t] = "expire_action"
  BY DEF ExpireRequest, Goto, Ready, Frame, TypeOK
<1>3. Standing(q)
  BY <1>1, ReadyFields DEF Own, TabRefers
<1>4. /\ Shared' /\ \A r \in Requests : ~Standing(r)'
      /\ approvals'[q].status = "expired"
      /\ \A r \in Requests : approvals'[r].version = approvals[r].version
      /\ \A r \in Requests : approvals'[r].version \in barred =>
           /\ approvals'[r].status # "pending"
           /\ approvals'[r].status = "approved" => r <= lapsed
  <2>1. SaveRequest(q, "expired", approvals[q].version)
    BY <1>1 DEF ExpireRequest
  <2>2. "expired" \in ApprovalStatus \ {"absent", "pending"} /\ "expired" # "approved"
    BY DEF ApprovalStatus
  <2>. QED
    BY <1>1, <1>3, <2>1, <2>2, Closes
<1>5. PlanFollows(t)' /\ TabRefers(t)' /\ RequestAsRead(t)' /\ PayloadAsShown(t)'
  BY <1>1, <1>2, <1>4 DEF PlanFollows, TabRefers, RequestAsRead, PayloadAsShown
<1>6. Frontier(t)'
  BY <1>1, <1>2, <1>4 DEF Frontier
<1>7. BarredStays(t)'
  BY <1>1, <1>2, <1>4, ReadyFields DEF Own, BarredStays, history
<1>8. ActsLast(t)'
  BY <1>1, <1>2, ReadyFields DEF Own, ActsLast, Called, Untouched, Unexecuted, history
<1>. QED
  BY <1>4, <1>5, <1>6, <1>7, <1>8, Whole DEF Own

--------------------------------------------------------------------------------
(* Steps that write the row of the current action *)

\* The row is written back with the arguments it has.
LEMMA RowRewritten ==
  ASSUME NEW t, Ready(t), NEW v \in Versions, NEW status, NEW payload,
         SaveAction(v, status, payload), payload = actions[v].payload
  PROVE  /\ actions'[v].status = status
         /\ \A w \in Versions : actions'[w].payload = actions[w].payload
         /\ \A w \in Versions : w # v => actions'[w] = actions[w]
<1>1. actions'[v] = [status |-> status, payload |-> payload]
  BY ReadyFields DEF SaveAction, TypeOK
<1>2. \A w \in Versions : w # v => actions'[w] = actions[w]
  BY ReadyFields DEF SaveAction, TypeOK
<1>3. actions'[v].payload = actions[v].payload /\ actions'[v].status = status
  BY <1>1
<1>. QED
  BY <1>2, <1>3

\* The decision is written into the action; a rejection bars the version.
LEMMA SaveDecidedActionKeeps ==
  ASSUME NEW t, Ready(t), SaveDecidedAction(t)
  PROVE  SingleInv'
<1> DEFINE v == plan.version
           q == plan.request
           d == tab[t].decision
<1>1. /\ pc[t] = "save_decided_action" /\ plan.status = "waiting" /\ ~Called(t)
      /\ tab[t].version = v /\ tab[t].request = q /\ v \in Versions /\ q \in Requests
      /\ q # 0 /\ approvals[q].version = v
      /\ UNCHANGED <<approvals, newest, issued, receipts, plan, lapsed, effects, sent, consent>>
  BY PanelFacts DEF SaveDecidedAction
<1>2. pc'[t] = "rerun"
  BY DEF SaveDecidedAction, Goto, Ready, Frame, TypeOK
<1>3. /\ d \in {"approved", "denied", "cancelled"}
      /\ tab[t].payload = actions[v].payload /\ approvals[q].status = d
  BY <1>1, ReadyFields DEF TabState, Decisions, Own, PayloadAsShown, RequestAsRead
<1>4. /\ actions'[v].status = d
      /\ \A w \in Versions : actions'[w].payload = actions[w].payload
      /\ \A w \in Versions : w # v => actions'[w] = actions[w]
  <2>. HIDE DEF d
  <2>1. SaveAction(v, d, tab[t].payload)
    BY <1>1 DEF SaveDecidedAction, d
  <2>. QED
    BY <1>1, <1>3, <2>1, RowRewritten
<1>5. barred' = IF d = "approved" THEN barred ELSE barred \union {v}
  BY <1>1 DEF SaveDecidedAction
<1>6. Shared'
  BY <1>1, <1>4, ReadyFields, SharedStays
<1>7. PlanFollows(t)' /\ TabRefers(t)' /\ RequestAsRead(t)' /\ PayloadAsShown(t)'
  BY <1>1, <1>2 DEF PlanFollows, TabRefers, RequestAsRead, PayloadAsShown
<1>8. Frontier(t)'
  BY <1>1, <1>2, <1>4, ReadyFields DEF Own, Frontier, Standing, ActionsEnd, RequestsEnd
<1>9. BarredStays(t)'
  <2>1. d # "approved" =>
          \A r \in Requests : approvals[r].version = v =>
            approvals[r].status \notin {"pending", "approved"}
    BY <1>1, <1>3, ReadyFields DEF Shared, OneRequestEach
  <2>2. \A w \in barred' : w <= v
    BY <1>1, <1>5, ReadyFields DEF Own, BarredStays
  <2>. QED
    BY <1>1, <1>2, <1>5, <2>1, <2>2, ReadyFields DEF Own, BarredStays
<1>10. ActsLast(t)'
  BY <1>1, <1>2, <1>3, <1>4, ReadyFields DEF Own, ActsLast, Untouched, Unexecuted
<1>. QED
  BY <1>6, <1>7, <1>8, <1>9, <1>10, Whole DEF Own

\* The edited version keeps its arguments.
LEMMA SaveEditedActionKeeps ==
  ASSUME NEW t, Ready(t), SaveEditedAction(t)
  PROVE  SingleInv'
<1> DEFINE v == plan.version
           q == plan.request
<1>1. /\ pc[t] = "save_edited_action" /\ plan.status = "waiting" /\ ~Called(t)
      /\ tab[t].version = v /\ tab[t].request = q /\ v \in Versions /\ q \in Requests
      /\ q # 0 /\ approvals[q].version = v
      /\ UNCHANGED <<approvals, newest, issued, receipts, plan, lapsed, tab, history>>
  BY PanelFacts DEF SaveEditedAction
<1>2. pc'[t] = "save_new_action"
  BY DEF SaveEditedAction, Goto, Ready, Frame, TypeOK
<1>3. /\ tab[t].payload = actions[v].payload
      /\ \A r \in Requests : ~Standing(r)
      /\ ActionsEnd(v) /\ RequestsEnd(v)
  BY <1>1, ReadyFields DEF Own, PayloadAsShown, RequestAsRead, Frontier
<1>4. /\ actions'[v].status = "edited"
      /\ \A w \in Versions : actions'[w].payload = actions[w].payload
      /\ \A w \in Versions : w # v => actions'[w] = actions[w]
  BY <1>1, <1>3, RowRewritten DEF SaveEditedAction
<1>5. Shared'
  BY <1>1, <1>4, ReadyFields, SharedStays DEF history
<1>6. PlanFollows(t)' /\ TabRefers(t)' /\ RequestAsRead(t)' /\ PayloadAsShown(t)'
  BY <1>1, <1>2, <1>3 DEF PlanFollows, TabRefers, RequestAsRead, PayloadAsShown, Standing
<1>7. Frontier(t)'
  BY <1>1, <1>2, <1>3, <1>4, ReadyFields DEF Frontier, Standing, ActionsEnd, RequestsEnd
<1>8. BarredStays(t)'
  BY <1>1, <1>2, ReadyFields DEF Own, BarredStays, history
<1>9. ActsLast(t)'
  BY <1>1, <1>2, <1>4, ReadyFields DEF Own, ActsLast, Untouched, Unexecuted, history
<1>. QED
  BY <1>5, <1>6, <1>7, <1>8, <1>9, Whole DEF Own

\* The action of a lapsed request keeps its arguments.
LEMMA ExpireActionKeeps ==
  ASSUME NEW t, Ready(t), ExpireAction(t)
  PROVE  SingleInv'
<1> DEFINE v == plan.version
           q == plan.request
<1>1. /\ plan.status = IF tab[t].return = "finish" THEN "running" ELSE "waiting"
      /\ tab[t].version = v /\ tab[t].request = q /\ tab[t].expiring = q
      /\ v \in Versions /\ q \in Requests /\ q # 0 /\ ~Called(t)
      /\ approvals[q].version = v /\ tab[t].payload = actions[v].payload
      /\ UNCHANGED <<approvals, newest, issued, receipts, plan, lapsed, history>>
      /\ pc[t] = "expire_action"
  BY ExpiryFacts DEF ExpireAction
<1>2. /\ pc'[t] = tab[t].return
      /\ tab'[t] = IF tab[t].return = "idle" THEN Blank ELSE tab[t]
      /\ tab[t].return \in {"idle", "persist_running", "finish"}
  BY ReadyFields DEF ExpireAction, Goto, Keep, TypeOK
<1>3. approvals[q].status = "expired"
  BY <1>1, ReadyFields DEF Own, RequestAsRead
<1>4. /\ actions'[v].status = "expired"
      /\ \A w \in Versions : actions'[w].payload = actions[w].payload
      /\ \A w \in Versions : w # v => actions'[w] = actions[w]
  BY <1>1, RowRewritten DEF ExpireAction
<1>5. Shared'
  BY <1>1, <1>4, ReadyFields, SharedStays DEF history
<1>6. PlanFollows(t)' /\ TabRefers(t)' /\ RequestAsRead(t)' /\ PayloadAsShown(t)'
  BY <1>1, <1>2, <1>3 DEF PlanFollows, TabRefers, RequestAsRead, PayloadAsShown
<1>7. Frontier(t)'
  BY <1>1, <1>2, <1>3, <1>4 DEF Frontier, Standing
<1>8. BarredStays(t)'
  BY <1>1, <1>2, ReadyFields DEF Own, BarredStays, history
<1>9. ActsLast(t)'
  BY <1>1, <1>2, <1>4, ReadyFields DEF Own, ActsLast, Untouched, Unexecuted, history
<1>. QED
  BY <1>5, <1>6, <1>7, <1>8, <1>9, Whole DEF Own

\* What the gate was passed with.
LEMMA GateFacts ==
  ASSUME NEW t, Ready(t), pc[t] \in Critical
  PROVE  /\ plan.status = "running"
         /\ tab[t].version = plan.version /\ tab[t].request = plan.request
         /\ plan.version \in Versions /\ plan.request \in Requests
         /\ plan.request # 0
         /\ approvals[plan.request] = [status |-> "approved", version |-> plan.version]
         /\ newest[plan.version] = plan.request
         /\ tab[t].payload = actions[plan.version].payload
         /\ plan.version \notin barred
         /\ actions[plan.version].payload \in consent[plan.version]
         /\ ActionsEnd(plan.version)
         /\ \A r \in Requests : approvals[r].status # "pending"
<1>1. /\ plan.status = "running"
      /\ tab[t].version = plan.version /\ tab[t].request = plan.request
      /\ plan.version \in Versions /\ plan.request \in Requests
      /\ plan.request # 0 /\ approvals[plan.request].version = plan.version
  BY RunFacts
<1>2. approvals[plan.request].status = "approved" /\ newest[plan.version] = plan.request
  <2>1. RequestAsRead(t)
    BY ReadyFields DEF Own
  <2>2. approvals[tab[t].request].status = "approved"
    BY <2>1 DEF RequestAsRead
  <2>3. newest[tab[t].version] = tab[t].request
    BY <2>1 DEF RequestAsRead
  <2>. QED
    BY <1>1, <2>2, <2>3
<1>3. tab[t].payload = actions[plan.version].payload /\ plan.version \notin barred
  BY <1>1, ReadyFields DEF Own, PayloadAsShown, BarredStays
<1>4. actions[plan.version].payload \in consent[plan.version]
  BY <1>1, <1>2, ReadyFields DEF Shared, ApprovedIsShown
<1>5. ActionsEnd(plan.version)
  BY <1>1, <1>2, ReadyFields DEF Own, Frontier, Standing
<1>6. \A r \in Requests : approvals[r].status # "pending"
  BY <1>1, <1>2, ReadyFields DEF Shared, OneRequestEach, Standing
<1>7. approvals[plan.request] = [status |-> "approved", version |-> plan.version]
  BY <1>1, <1>2, ReadyFields DEF TypeOK, ApprovalRow
<1>. QED
  BY <1>1, <1>2, <1>3, <1>4, <1>5, <1>6, <1>7

\* The action is marked with the arguments that were verified.
LEMMA MarkExecutionStartedKeeps ==
  ASSUME NEW t, Ready(t), MarkExecutionStarted(t)
  PROVE  SingleInv'
<1> DEFINE v == plan.version
<1>1. /\ pc[t] = "start" /\ plan.status = "running" /\ ~Called(t)
      /\ tab[t].version = v /\ v \in Versions /\ tab[t].payload = actions[v].payload
      /\ plan.request # 0
      /\ UNCHANGED <<approvals, newest, issued, receipts, plan, lapsed, tab, history>>
  BY GateFacts DEF MarkExecutionStarted, Called
<1>2. pc'[t] = "call"
  BY DEF MarkExecutionStarted, Goto, Ready, Frame, TypeOK
<1>3. /\ actions'[v].status = "executing"
      /\ \A w \in Versions : actions'[w].payload = actions[w].payload
      /\ \A w \in Versions : w # v => actions'[w] = actions[w]
  BY <1>1, RowRewritten DEF MarkExecutionStarted
<1>4. Shared'
  BY <1>1, <1>3, ReadyFields, SharedStays DEF history
<1>5. PlanFollows(t)' /\ TabRefers(t)'
  BY <1>1, <1>2, ReadyFields DEF Own, PlanFollows, TabRefers
<1>6. RequestAsRead(t)' /\ PayloadAsShown(t)'
  BY <1>1, <1>2, <1>3, ReadyFields DEF Own, RequestAsRead, PayloadAsShown
<1>7. Frontier(t)'
  BY <1>1, <1>2, <1>3, ReadyFields DEF Own, Frontier, Standing, ActionsEnd, RequestsEnd
<1>8. BarredStays(t)'
  BY <1>1, <1>2, ReadyFields DEF Own, BarredStays, history
<1>9. ActsLast(t)'
  BY <1>1, <1>2, <1>3, ReadyFields DEF Own, ActsLast, Untouched, Unexecuted, history
<1>. QED
  BY <1>4, <1>5, <1>6, <1>7, <1>8, <1>9, Whole DEF Own

\* The one call: nothing has acted before it.
LEMMA CallToolKeeps ==
  ASSUME NEW t, Ready(t), NEW acted \in BOOLEAN, NEW outcome \in {"completed", "failed"},
         CallTool(t, acted, outcome)
  PROVE  SingleInv'
<1> DEFINE v == plan.version
<1>1. /\ pc[t] = "call" /\ plan.status = "running" /\ ~Called(t)
      /\ tab[t].version = v /\ v \in Versions /\ tab[t].payload = actions[v].payload
      /\ plan.request # 0 /\ actions[v].payload \in consent[v]
      /\ UNCHANGED <<store, plan, lapsed, consent, barred>>
  BY GateFacts DEF CallTool, Called
<1>2. /\ pc'[t] = "record" /\ tab'[t].version = tab[t].version
      /\ tab'[t].request = tab[t].request /\ tab'[t].payload = tab[t].payload
  BY ReadyFields DEF CallTool, Goto, Keep, TypeOK, TabState
<1>3. Untouched /\ Unexecuted
  BY <1>1, ReadyFields DEF Own, ActsLast
<1>4. \A w \in Versions : effects'[w] <= 1 /\ sent'[w] \subseteq consent'[w]
  <2>1. \A w \in Versions : w # v => effects'[w] = effects[w] /\ sent'[w] = sent[w]
    BY <1>1, ReadyFields DEF CallTool, TypeOK
  <2>2. effects'[v] \in {0, 1} /\ sent'[v] \subseteq {tab[t].payload}
    BY <1>1, <1>3, ReadyFields DEF CallTool, TypeOK, Untouched
  <2>. QED
    BY <1>1, <1>3, <2>1, <2>2 DEF Untouched
<1>5. Shared'
  BY <1>1, <1>4, ReadyFields DEF Shared, PlanPoints, Points, OneRequestEach, Standing,
     ApprovedIsShown, AtMostOnce, ConsentBeforeEffect, OneLiveRequest, store
<1>6. PlanFollows(t)' /\ TabRefers(t)'
  BY <1>1, <1>2, ReadyFields DEF Own, PlanFollows, TabRefers
<1>7. RequestAsRead(t)' /\ PayloadAsShown(t)'
  BY <1>1, <1>2, ReadyFields DEF Own, RequestAsRead, PayloadAsShown, store
<1>8. Frontier(t)'
  BY <1>1, <1>2, ReadyFields DEF Own, Frontier, Standing, ActionsEnd, RequestsEnd, store
<1>9. BarredStays(t)'
  BY <1>1, <1>2, ReadyFields DEF Own, BarredStays, store
<1>10. ActsLast(t)'
  BY <1>1, <1>2, <1>3 DEF ActsLast, Called, Unexecuted, store
<1>. QED
  BY <1>5, <1>6, <1>7, <1>8, <1>9, <1>10, Whole DEF Own

\* A receipt is written when no request is pending.
LEMMA SaveReceiptKeeps ==
  ASSUME NEW t, Ready(t), SaveReceipt(t)
  PROVE  SingleInv'
<1>1. /\ pc[t] = "record" /\ plan.status = "running"
      /\ \A r \in Requests : approvals[r].status # "pending"
      /\ UNCHANGED <<actions, approvals, newest, issued, plan, lapsed, tab, history>>
  BY GateFacts DEF SaveReceipt
<1>2. pc'[t] = "close"
  BY DEF SaveReceipt, Goto, Ready, Frame, TypeOK
<1>3. Shared'
  BY <1>1, ReadyFields DEF Shared, PlanPoints, Points, OneRequestEach, Standing,
     ApprovedIsShown, AtMostOnce, ConsentBeforeEffect, OneLiveRequest, history
<1>4. PlanFollows(t)' /\ TabRefers(t)'
  BY <1>1, <1>2, ReadyFields DEF Own, PlanFollows, TabRefers
<1>5. RequestAsRead(t)' /\ PayloadAsShown(t)'
  BY <1>1, <1>2, ReadyFields DEF Own, RequestAsRead, PayloadAsShown
<1>6. Frontier(t)'
  BY <1>1, <1>2, ReadyFields DEF Own, Frontier, Standing, ActionsEnd, RequestsEnd
<1>7. BarredStays(t)'
  BY <1>1, <1>2, ReadyFields DEF Own, BarredStays, history
<1>8. ActsLast(t)'
  BY <1>1, <1>2, ReadyFields DEF Own, ActsLast, Called, Unexecuted
<1>. QED
  BY <1>3, <1>4, <1>5, <1>6, <1>7, <1>8, Whole DEF Own

\* The final status is the last thing written to an action.
LEMMA CloseActionKeeps ==
  ASSUME NEW t, Ready(t), CloseAction(t)
  PROVE  SingleInv'
<1> DEFINE v == plan.version
<1>1. /\ pc[t] = "close" /\ plan.status = "running"
      /\ tab[t].version = v /\ v \in Versions /\ tab[t].payload = actions[v].payload
      /\ UNCHANGED <<approvals, newest, issued, receipts, plan, lapsed, tab, history>>
  BY GateFacts DEF CloseAction
<1>2. pc'[t] = "finish"
  BY DEF CloseAction, Goto, Ready, Frame, TypeOK
<1>3. /\ \A w \in Versions : actions'[w].payload = actions[w].payload
      /\ \A w \in Versions : w # v => actions'[w] = actions[w]
  BY <1>1, RowRewritten DEF CloseAction
<1>4. Shared'
  BY <1>1, <1>3, ReadyFields, SharedStays DEF history
<1>5. PlanFollows(t)' /\ TabRefers(t)' /\ RequestAsRead(t)' /\ PayloadAsShown(t)'
  BY <1>1, <1>2, ReadyFields DEF Own, PlanFollows, TabRefers, RequestAsRead, PayloadAsShown
<1>6. Frontier(t)'
  BY <1>1, <1>2, <1>3, ReadyFields DEF Own, Frontier, Standing, ActionsEnd, RequestsEnd
<1>7. BarredStays(t)'
  BY <1>1, <1>2, ReadyFields DEF Own, BarredStays, history
<1>8. ActsLast(t)'
  BY <1>1, <1>2 DEF ActsLast, Called
<1>. QED
  BY <1>4, <1>5, <1>6, <1>7, <1>8, Whole DEF Own

--------------------------------------------------------------------------------
(* Steps that create a version and its request *)

\* Starting an edit only takes the id of a request.
LEMMA EditKeeps ==
  ASSUME NEW t, Ready(t), NEW p \in Payloads, Edit(t, p)
  PROVE  SingleInv'
<1> DEFINE v == plan.version
           q == plan.request
<1>1. /\ tab[t].version = v /\ tab[t].request = q /\ v \in Versions /\ q \in Requests
      /\ q # 0 /\ plan.status = "waiting" /\ ~Called(t) /\ approvals[q].version = v
      /\ UNCHANGED <<actions, approvals, newest, receipts, plan, lapsed, history>>
  BY ClickedFacts DEF Edit
<1>2. approvals[q].status = "pending" /\ pc'[t] = "save_edited_request"
  BY <1>1 DEF Edit, Decidable, Goto, Ready, Frame, TypeOK
<1>3. tab'[t].version = v /\ tab'[t].request = q /\ tab'[t].payload = actions[v].payload
  BY <1>1, ReadyFields DEF Edit, Keep, TypeOK, TabState
<1>4. Shared'
  BY <1>1, ReadyFields, SharedStays DEF history
<1>5. PlanFollows(t)' /\ TabRefers(t)' /\ RequestAsRead(t)' /\ PayloadAsShown(t)'
  BY <1>1, <1>2, <1>3 DEF PlanFollows, TabRefers, RequestAsRead, PayloadAsShown
<1>6. Frontier(t)'
  BY <1>1, <1>2, ReadyFields DEF Own, Frontier, Standing, ActionsEnd, RequestsEnd
<1>7. BarredStays(t)'
  BY <1>1, <1>2, ReadyFields DEF Own, BarredStays, history
<1>8. ActsLast(t)'
  BY <1>1, <1>2, ReadyFields DEF Own, ActsLast, Untouched, Unexecuted, history
<1>. QED
  BY <1>4, <1>5, <1>6, <1>7, <1>8, Whole DEF Own

\* The row of a new version: no request names it yet.
LEMMA SaveNewActionKeeps ==
  ASSUME NEW t, Ready(t), SaveNewAction(t)
  PROVE  SingleInv'
<1> DEFINE v == plan.version
<1>1. /\ pc[t] = "save_new_action" /\ plan.status = "waiting" /\ ~Called(t)
      /\ tab[t].version = v /\ tab[t].request = plan.request /\ v \in Versions
      /\ plan.request \in Requests /\ plan.request # 0
      /\ UNCHANGED <<approvals, newest, issued, receipts, plan, lapsed, tab, history>>
  BY PanelFacts DEF SaveNewAction
<1>2. pc'[t] = "save_new_request"
  BY DEF SaveNewAction, Goto, Ready, Frame, TypeOK
<1>3. /\ \A r \in Requests : ~Standing(r)
      /\ ActionsEnd(v) /\ RequestsEnd(v)
  BY <1>1, ReadyFields DEF Own, RequestAsRead, Frontier
<1>4. v + 1 \in Versions
  BY <1>1, ReadyFields, ApprovalAssumption DEF Ready, Frame, ReferencesHold
<1>5. /\ actions'[v + 1].status = "pending_approval"
      /\ \A w \in Versions : w # v + 1 => actions'[w] = actions[w]
  BY <1>1, <1>4, ReadyFields DEF SaveNewAction, NextVersion, SaveAction, TypeOK
<1>6. Shared'
  <2>1. ApprovedIsShown'
    BY <1>1, <1>3 DEF ApprovedIsShown, Standing
  <2>. QED
    BY <1>1, <2>1, ReadyFields DEF Shared, PlanPoints, Points, OneRequestEach, Standing,
       AtMostOnce, ConsentBeforeEffect, OneLiveRequest, history
<1>7. PlanFollows(t)' /\ TabRefers(t)' /\ RequestAsRead(t)' /\ PayloadAsShown(t)'
  BY <1>1, <1>2, <1>3 DEF PlanFollows, TabRefers, RequestAsRead, PayloadAsShown, Standing
<1>8. Frontier(t)'
  BY <1>1, <1>2, <1>3, <1>5 DEF Frontier, Standing, ActionsEnd, RequestsEnd
<1>9. BarredStays(t)'
  BY <1>1, <1>2, ReadyFields DEF Own, BarredStays, history
<1>10. ActsLast(t)'
  <2>1. Unexecuted'
    BY <1>1, <1>5, ReadyFields DEF Own, ActsLast, Unexecuted
  <2>. QED
    BY <1>1, <1>2, <2>1, ReadyFields DEF Own, ActsLast, Untouched, history
<1>. QED
  BY <1>6, <1>7, <1>8, <1>9, <1>10, Whole DEF Own

\* A request is created for a version that had none, when none stands.
LEMMA Opens ==
  ASSUME NEW t, Ready(t), NEW q \in Requests, NEW v \in Versions,
         SaveRequest(q, "pending", v), approvals[q].status = "absent",
         \A r \in Requests : ~Standing(r),
         \A r \in Requests : approvals[r].version < v,
         v \notin barred, Untouched,
         UNCHANGED <<actions, receipts, plan, lapsed, history>>
  PROVE  /\ Shared'
         /\ RequestsEnd(v)'
         /\ plan.request # 0 => ~Standing(plan.request)'
         /\ \A r \in Requests : approvals'[r].version \in barred =>
              /\ approvals'[r].status # "pending"
              /\ approvals'[r].status = "approved" => r <= lapsed
<1>1. /\ approvals'[q] = [status |-> "pending", version |-> v]
      /\ \A r \in Requests : r # q => approvals'[r] = approvals[r]
  BY ReadyFields DEF SaveRequest, TypeOK
<1>2. approvals'[q].status = "pending" /\ approvals'[q].version = v
  BY <1>1
<1>3. \A r \in Requests : Standing(r)' => r = q
  BY <1>1 DEF Standing
<1>4. plan.request # 0 => plan.request # q /\ plan.request \in Requests
  BY ReadyFields, ApprovalAssumption DEF Points, RequestsKeepVersion
<1>5. Shared'
  <2>1. PlanPoints'
    BY <1>1, <1>4, ReadyFields DEF Shared, PlanPoints, Points
  <2>2. OneRequestEach'
    <3>1. \A r \in Requests : r # q => approvals'[r].version # v
      BY <1>1, ReadyFields
    <3>2. \A r, s \in Requests :
            approvals'[r].status # "absent" /\ approvals'[r].version = approvals'[s].version => r = s
      BY <1>1, <1>2, <3>1, ReadyFields DEF Shared, OneRequestEach
    <3>. QED
      BY <1>3, <3>2 DEF OneRequestEach
  <2>3. ApprovedIsShown'
    BY <1>1, <1>2 DEF ApprovedIsShown, Standing
  <2>4. AtMostOnce' /\ ConsentBeforeEffect'
    BY ReadyFields DEF Shared, AtMostOnce, ConsentBeforeEffect, history
  <2>5. OneLiveRequest'
    BY <1>3 DEF OneLiveRequest, Standing, Untouched
  <2>. QED
    BY <2>1, <2>2, <2>3, <2>4, <2>5 DEF Shared
<1>6. RequestsEnd(v)'
  BY <1>1, <1>2, ReadyFields DEF RequestsEnd
<1>7. \A r \in Requests : approvals'[r].version \in barred =>
        /\ approvals'[r].status # "pending"
        /\ approvals'[r].status = "approved" => r <= lapsed
  BY <1>1, <1>2, ReadyFields DEF Own, BarredStays
<1>. QED
  BY <1>3, <1>4, <1>5, <1>6, <1>7

\* Whoever creates a request has an unused id for it.
LEMMA FreshFacts ==
  ASSUME NEW t, Ready(t), pc[t] \in Creating
  PROVE  tab[t].fresh \in Requests /\ approvals[tab[t].fresh].status = "absent"
<1>1. tab[t].fresh \in 1 .. issued /\ approvals[tab[t].fresh].status = "absent"
  BY DEF Ready, Frame, FreshRequests
<1>2. issued \in 0 .. MaxRequest
  BY ReadyFields DEF TypeOK
<1>. QED
  BY <1>1, <1>2, ApprovalAssumption

\* The request of the new version is the only one that stands.
LEMMA SaveNewRequestKeeps ==
  ASSUME NEW t, Ready(t), SaveNewRequest(t)
  PROVE  SingleInv'
<1> DEFINE v == plan.version
           q == tab[t].fresh
<1>1. /\ pc[t] = "save_new_request" /\ plan.status = "waiting" /\ ~Called(t)
      /\ tab[t].version = v /\ v \in Versions /\ plan.request # 0
      /\ UNCHANGED <<actions, issued, receipts, plan, lapsed, history>>
  BY PanelFacts DEF SaveNewRequest
<1>2. /\ pc'[t] = "save_edited_workflow" /\ tab'[t].version = v + 1
      /\ v + 1 \in Versions
  <2>1. tab[t].version < MaxVersion
    BY <1>1 DEF Ready, Frame, ReferencesHold
  <2>2. pc'[t] = "save_edited_workflow" /\ tab'[t].version = v + 1
    BY <1>1, ReadyFields DEF SaveNewRequest, NextVersion, Goto, Keep, TypeOK, TabState
  <2>. QED
    BY <1>1, <2>1, <2>2, ApprovalAssumption
<1>3. q \in Requests /\ approvals[q].status = "absent"
  BY <1>1, FreshFacts DEF Creating
<1>4. /\ \A r \in Requests : ~Standing(r)
      /\ ActionsEnd(v + 1) /\ RequestsEnd(v) /\ Untouched /\ Unexecuted
  BY <1>1, ReadyFields DEF Own, RequestAsRead, Frontier, ActsLast
<1>5. v + 1 \notin barred
  BY <1>1, ReadyFields DEF Own, BarredStays
<1>6. /\ Shared' /\ RequestsEnd(v + 1)'
      /\ plan.request # 0 => ~Standing(plan.request)'
      /\ \A r \in Requests : approvals'[r].version \in barred =>
           /\ approvals'[r].status # "pending"
           /\ approvals'[r].status = "approved" => r <= lapsed
  <2>1. SaveRequest(q, "pending", v + 1)
    BY <1>1 DEF SaveNewRequest, NextVersion
  <2>2. \A r \in Requests : approvals[r].version < v + 1
    BY <1>1, <1>4, ReadyFields DEF RequestsEnd
  <2>. QED
    BY <1>1, <1>2, <1>3, <1>4, <1>5, <2>1, <2>2, Opens
<1>7. PlanFollows(t)' /\ TabRefers(t)' /\ RequestAsRead(t)' /\ PayloadAsShown(t)'
  BY <1>1, <1>2 DEF PlanFollows, TabRefers, RequestAsRead, PayloadAsShown
<1>8. Frontier(t)'
  BY <1>1, <1>2, <1>4, <1>6 DEF Frontier, ActionsEnd, RequestsEnd
<1>9. BarredStays(t)'
  BY <1>1, <1>2, <1>6, ReadyFields DEF Own, BarredStays, history
<1>10. ActsLast(t)'
  BY <1>1, <1>2, <1>4 DEF ActsLast, Untouched, Unexecuted, history
<1>. QED
  BY <1>6, <1>7, <1>8, <1>9, <1>10, Whole DEF Own

\* The first proposal: the tables are empty.
LEMMA ProposeFacts ==
  ASSUME NEW t, Ready(t), pc[t] \in {"propose", "propose_request"}
  PROVE  /\ plan.status = "running" /\ ~Called(t) /\ plan.request = 0 /\ plan.version = 0
         /\ tab[t].version = 0 /\ tab[t].request = 0 /\ ~tab[t].resumed
         /\ \A r \in Requests : ~Standing(r) /\ approvals[r].version = 0
         /\ barred = {} /\ Untouched /\ Unexecuted /\ ActionsEnd(1) /\ RequestsEnd(0)
<1>1. /\ plan.request = 0 /\ RequestsEnd(0) /\ ActionsEnd(1)
  BY ReadyFields DEF Own, Frontier
<1>2. plan.version = 0
  BY <1>1, ReadyFields DEF Shared, PlanPoints, Points
<1>3. \A r \in Requests : ~Standing(r) /\ approvals[r].version = 0
  BY <1>1, ReadyFields DEF RequestsEnd, RequestsKeepVersion, Standing
<1>4. tab[t].version = 0 /\ tab[t].request = 0 /\ ~tab[t].resumed
  BY <1>1, <1>2, ReadyFields DEF Own, TabRefers
<1>5. plan.status = "running" /\ ~Called(t)
  BY ReadyFields DEF Own, PlanFollows, Called
<1>6. barred = {}
  BY <1>2, ReadyFields DEF Own, BarredStays, TypeOK
<1>7. Untouched /\ Unexecuted
  BY <1>5, ReadyFields DEF Own, ActsLast
<1>. QED
  BY <1>1, <1>2, <1>3, <1>4, <1>5, <1>6, <1>7

\* The first version is proposed when the tables are empty.
LEMMA ProposeKeeps ==
  ASSUME NEW t, Ready(t), NEW p \in Payloads, Propose(t, p)
  PROVE  SingleInv'
<1>1. /\ plan.status = "running" /\ ~Called(t) /\ plan.request = 0 /\ plan.version = 0
      /\ tab[t].version = 0 /\ tab[t].request = 0 /\ ~tab[t].resumed
      /\ \A r \in Requests : ~Standing(r) /\ approvals[r].version = 0
      /\ barred = {} /\ Untouched /\ Unexecuted /\ ActionsEnd(1) /\ RequestsEnd(0)
      /\ UNCHANGED <<approvals, newest, receipts, plan, lapsed, history>>
  BY ProposeFacts DEF Propose
<1>2. /\ pc'[t] = "propose_request" /\ tab'[t].version = 0 /\ tab'[t].request = 0
      /\ ~tab'[t].resumed
  BY <1>1, ReadyFields DEF Propose, Goto, Keep, TypeOK, TabState
<1>3. /\ actions'[1].status = "pending_approval"
      /\ \A w \in Versions : w # 1 => actions'[w] = actions[w]
  BY ReadyFields, ApprovalAssumption DEF Propose, SaveAction, TypeOK
<1>4. Shared'
  <2>1. ApprovedIsShown'
    BY <1>1 DEF ApprovedIsShown, Standing
  <2>. QED
    BY <1>1, <2>1, ReadyFields DEF Shared, PlanPoints, Points, OneRequestEach, Standing,
       AtMostOnce, ConsentBeforeEffect, OneLiveRequest, history
<1>5. PlanFollows(t)' /\ TabRefers(t)' /\ RequestAsRead(t)' /\ PayloadAsShown(t)'
  BY <1>1, <1>2 DEF PlanFollows, TabRefers, RequestAsRead, PayloadAsShown
<1>6. Frontier(t)'
  BY <1>1, <1>2, <1>3 DEF Frontier, ActionsEnd, RequestsEnd
<1>7. BarredStays(t)'
  BY <1>1, <1>2 DEF BarredStays, history
<1>8. ActsLast(t)'
  <2>1. Unexecuted'
    BY <1>1, <1>3 DEF Unexecuted
  <2>. QED
    BY <1>1, <1>2, <2>1 DEF ActsLast, Untouched, history
<1>. QED
  BY <1>4, <1>5, <1>6, <1>7, <1>8, Whole DEF Own

\* The first request is the only one.
LEMMA ProposeRequestKeeps ==
  ASSUME NEW t, Ready(t), ProposeRequest(t)
  PROVE  SingleInv'
<1> DEFINE q == tab[t].fresh
<1>1. /\ plan.status = "running" /\ ~Called(t) /\ plan.request = 0 /\ plan.version = 0
      /\ ~tab[t].resumed
      /\ \A r \in Requests : ~Standing(r) /\ approvals[r].version = 0
      /\ barred = {} /\ Untouched /\ Unexecuted /\ ActionsEnd(1)
      /\ UNCHANGED <<actions, issued, receipts, plan, lapsed, history>>
  BY ProposeFacts DEF ProposeRequest
<1>2. pc'[t] = "pause" /\ tab'[t].version = 1 /\ ~tab'[t].resumed
  BY <1>1, ReadyFields DEF ProposeRequest, Goto, Keep, TypeOK, TabState
<1>3. q \in Requests /\ approvals[q].status = "absent"
  BY FreshFacts DEF ProposeRequest, Creating
<1>4. 1 \in Versions
  BY ApprovalAssumption
<1>5. Shared' /\ RequestsEnd(1)'
  <2>1. SaveRequest(q, "pending", 1)
    BY DEF ProposeRequest
  <2>2. \A r \in Requests : approvals[r].version < 1
    BY <1>1
  <2>. QED
    BY <1>1, <1>3, <1>4, <2>1, <2>2, Opens
<1>6. PlanFollows(t)' /\ TabRefers(t)' /\ RequestAsRead(t)' /\ PayloadAsShown(t)'
  BY <1>1, <1>2 DEF PlanFollows, TabRefers, RequestAsRead, PayloadAsShown
<1>7. Frontier(t)'
  BY <1>1, <1>2, <1>5 DEF Frontier, ActionsEnd, RequestsEnd
<1>8. BarredStays(t)'
  BY <1>1, <1>2 DEF BarredStays, history
<1>9. ActsLast(t)'
  BY <1>1, <1>2 DEF ActsLast, Untouched, Unexecuted, history
<1>. QED
  BY <1>5, <1>6, <1>7, <1>8, <1>9, Whole DEF Own

--------------------------------------------------------------------------------
(* Steps that write the workflow row *)

\* The row is written with the references it has.
LEMMA PlanRewritten ==
  ASSUME NEW t, Ready(t), NEW status, SaveWorkflow(t, status),
         tab[t].version = plan.version, tab[t].request = plan.request,
         UNCHANGED <<store, effects, sent, consent>>
  PROVE  /\ plan'.status = status /\ plan'.version = plan.version
         /\ plan'.request = plan.request
         /\ Shared'
<1>1. plan'.status = status /\ plan'.version = plan.version /\ plan'.request = plan.request
  BY DEF SaveWorkflow
<1>. QED
  BY <1>1, ReadyFields DEF Shared, PlanPoints, Points, OneRequestEach, Standing,
     ApprovedIsShown, AtMostOnce, ConsentBeforeEffect, OneLiveRequest, store

\* resume() bars what had lapsed; the request is not pending here.
LEMMA PersistRunningKeeps ==
  ASSUME NEW t, Ready(t), PersistRunning(t)
  PROVE  SingleInv'
<1> DEFINE v == plan.version
           q == plan.request
<1>1. /\ pc[t] = "persist_running" /\ plan.status = "waiting" /\ ~Called(t)
      /\ tab[t].version = v /\ tab[t].request = q /\ v \in Versions /\ q \in Requests
      /\ q # 0 /\ approvals[q].version = v
      /\ UNCHANGED <<store, lapsed, tab, effects, sent, consent>>
  BY PanelFacts DEF PersistRunning
<1>2. pc'[t] = "check" /\ approvals[q].status # "pending"
  BY <1>1, ReadyFields DEF PersistRunning, Goto, TypeOK, Own, RequestAsRead
<1>3. /\ plan'.status = "running" /\ plan'.version = v /\ plan'.request = q
      /\ Shared'
  BY <1>1, PlanRewritten DEF PersistRunning
<1>4. barred' = IF q <= lapsed THEN barred \union {v} ELSE barred
  BY <1>1 DEF PersistRunning
<1>5. PlanFollows(t)' /\ TabRefers(t)' /\ RequestAsRead(t)' /\ PayloadAsShown(t)'
  BY <1>1, <1>2, <1>3 DEF PlanFollows, TabRefers, RequestAsRead, PayloadAsShown
<1>6. Frontier(t)'
  BY <1>1, <1>2, <1>3, ReadyFields DEF Own, Frontier, Standing, ActionsEnd, RequestsEnd, store
<1>7. BarredStays(t)'
  <2>1. \A r \in Requests : approvals[r].version = v => r = q
    BY <1>1, ReadyFields, ApprovalAssumption DEF Shared, OneRequestEach, RequestsKeepVersion
  <2>2. \A w \in barred' : w <= plan'.version
    BY <1>1, <1>3, <1>4, ReadyFields DEF Own, BarredStays
  <2>3. \A r \in Requests : approvals'[r].version \in barred' =>
          /\ approvals'[r].status # "pending"
          /\ approvals'[r].status = "approved" => r <= lapsed'
    BY <1>1, <1>2, <1>4, <2>1, ReadyFields DEF Own, BarredStays, store
  <2>. QED
    BY <1>2, <2>2, <2>3 DEF BarredStays
<1>8. ActsLast(t)'
  BY <1>1, <1>2, ReadyFields DEF Own, ActsLast, Untouched, Unexecuted, store
<1>. QED
  BY <1>3, <1>5, <1>6, <1>7, <1>8, Whole DEF Own

\* A script run ends the plan it ran.
LEMMA EndsPlan ==
  ASSUME NEW t, Ready(t), pc[t] \in {"finish", "recover"}, SaveWorkflow(t, "ended"),
         Leave(t), UNCHANGED <<store, lapsed, history>>
  PROVE  SingleInv'
<1>1. tab[t].version = plan.version /\ tab[t].request = plan.request
  BY ReadyFields DEF Own, TabRefers
<1>2. /\ plan'.status = "ended" /\ plan'.version = plan.version
      /\ plan'.request = plan.request /\ Shared'
  BY <1>1, PlanRewritten DEF history
<1>3. pc'[t] = "idle"
  BY ReadyFields DEF Leave, Goto, TypeOK
<1>4. PlanFollows(t)' /\ TabRefers(t)' /\ RequestAsRead(t)' /\ PayloadAsShown(t)'
  BY <1>3 DEF PlanFollows, TabRefers, RequestAsRead, PayloadAsShown
<1>5. Frontier(t)'
  BY <1>2, <1>3, ReadyFields DEF Own, Frontier, Standing, ActionsEnd, RequestsEnd, store
<1>6. BarredStays(t)'
  BY <1>2, <1>3, ReadyFields DEF Own, BarredStays, store, history
<1>7. ActsLast(t)'
  BY <1>2, <1>3 DEF ActsLast, Called
<1>. QED
  BY <1>2, <1>4, <1>5, <1>6, <1>7, Whole DEF Own

\* The plan is parked at the request that was just created.
LEMMA ParksPlan ==
  ASSUME NEW t, Ready(t), pc[t] \in {"pause", "save_edited_workflow"},
         SaveWorkflow(t, "waiting"), pc'[t] \in {"idle", "rerun"},
         UNCHANGED <<store, lapsed, history>>
  PROVE  SingleInv'
<1>1. /\ tab[t].version \in Versions /\ tab[t].request \in Requests
      /\ approvals[tab[t].request].version = tab[t].version
  BY ReadyFields DEF Points
<1>2. ActionsEnd(tab[t].version) /\ RequestsEnd(tab[t].version)
  BY ReadyFields DEF Own, Frontier
<1>3. plan.version <= tab[t].version
  <2>1. CASE pc[t] = "pause"
    <3>1. plan.request = 0
      BY <2>1, ReadyFields DEF Own, Frontier
    <3>2. plan.version = 0
      BY <3>1, ReadyFields DEF Shared, PlanPoints, Points
    <3>. QED
      BY <1>1, <3>2
  <2>2. CASE pc[t] = "save_edited_workflow"
    <3>1. tab[t].version = plan.version + 1
      BY <2>2, ReadyFields DEF Own, TabRefers
    <3>. QED
      BY <3>1, ReadyFields
  <2>. QED
    BY <2>1, <2>2
<1>4. ~Called(t)
  BY DEF Called
<1>5. /\ plan'.status = "waiting" /\ plan'.version = tab[t].version
      /\ plan'.request = tab[t].request
  BY DEF SaveWorkflow
<1>6. Shared'
  BY <1>1, <1>5, ReadyFields DEF Shared, PlanPoints, Points, OneRequestEach, Standing,
     ApprovedIsShown, AtMostOnce, ConsentBeforeEffect, OneLiveRequest, store, history
<1>7. PlanFollows(t)' /\ TabRefers(t)' /\ RequestAsRead(t)' /\ PayloadAsShown(t)'
  BY <1>5 DEF PlanFollows, TabRefers, RequestAsRead, PayloadAsShown
<1>8. Frontier(t)'
  BY <1>2, <1>5 DEF Frontier, ActionsEnd, RequestsEnd, store
<1>9. BarredStays(t)'
  <2>1. \A w \in barred : w \in Versions /\ w <= plan.version
    BY ReadyFields DEF Own, BarredStays, TypeOK
  <2>2. \A w \in barred : w <= tab[t].version
    BY <1>1, <1>3, <2>1, ReadyFields
  <2>. QED
    BY <1>5, <2>2, ReadyFields DEF Own, BarredStays, store, history
<1>10. ActsLast(t)'
  BY <1>4, <1>5, ReadyFields DEF Own, ActsLast, Called, Untouched, Unexecuted, store, history
<1>. QED
  BY <1>6, <1>7, <1>8, <1>9, <1>10, Whole DEF Own

\* The four operations that write the workflow row for good.
LEMMA WorkflowRowKeeps ==
  ASSUME NEW t, Ready(t),
         Pause(t) \/ SaveEditedWorkflow(t) \/ FinishPlan(t) \/ Recover(t)
  PROVE  SingleInv'
<1>1. CASE Pause(t)
  <2>1. pc[t] = "pause" /\ pc'[t] = "idle"
    BY <1>1, ReadyFields DEF Pause, Leave, Goto, TypeOK
  <2>. QED
    BY <1>1, <2>1, ParksPlan DEF Pause
<1>2. CASE SaveEditedWorkflow(t)
  <2>1. pc[t] = "save_edited_workflow" /\ pc'[t] = "rerun"
    BY <1>2, ReadyFields DEF SaveEditedWorkflow, Goto, TypeOK
  <2>. QED
    BY <1>2, <2>1, ParksPlan DEF SaveEditedWorkflow
<1>3. CASE FinishPlan(t)
  BY <1>3, EndsPlan DEF FinishPlan
<1>4. CASE Recover(t)
  BY <1>4, EndsPlan DEF Recover
<1>. QED
  BY <1>1, <1>2, <1>3, <1>4

--------------------------------------------------------------------------------
(* Faults and the clock *)

\* Wherever a write fails, the tab rests or gives its task up.
LEMMA WriteFailsKeeps ==
  ASSUME NEW t, Ready(t), WriteFails(t)
  PROVE  SingleInv'
<1>1. UNCHANGED <<store, plan, lapsed, history>>
  BY DEF WriteFails
<1>2. CASE Unhandled(t) /\ Leave(t)
  <2>1. pc'[t] = "idle"
    BY <1>2, ReadyFields DEF Leave, Goto, TypeOK
  <2>2. Called(t) => Called(t)'
    BY <1>1, <1>2, <2>1, ReadyFields DEF Unhandled, Called, Own, PlanFollows
  <2>. QED
    BY <1>1, <2>1, <2>2, Rests
<1>3. CASE FailsTask(t) /\ Goto(t, "finish") /\ UNCHANGED tab
  <2>1. pc'[t] = "finish" /\ tab' = tab
    BY <1>3, ReadyFields DEF Goto, TypeOK
  <2>2. plan.status = "running"
    BY <1>3, ReadyFields DEF FailsTask, Own, PlanFollows
  <2>3. tab[t].version = plan.version /\ tab[t].request = plan.request
    BY <1>3, ReadyFields DEF FailsTask, Own, TabRefers
  <2>. QED
    BY <1>1, <2>1, <2>2, <2>3, GivesUp
<1>4. CASE FailsResume(t) /\ Goto(t, "recover") /\ UNCHANGED <<tab, gate>>
  <2>1. pc'[t] = "recover" /\ tab' = tab
    BY <1>4, ReadyFields DEF Goto, TypeOK
  <2>2. plan.status = "running"
    BY <1>4, ReadyFields DEF FailsResume, Own, PlanFollows
  <2>3. tab[t].version = plan.version /\ tab[t].request = plan.request
    BY <1>4, ReadyFields DEF FailsResume, Own, TabRefers
  <2>. QED
    BY <1>1, <2>1, <2>2, <2>3, GivesUp
<1>. QED
  BY <1>2, <1>3, <1>4 DEF WriteFails

\* The process dies, and the tab rests.
LEMMA CrashKeeps ==
  ASSUME NEW t, Ready(t), Crash
  PROVE  SingleInv'
<1>1. pc'[t] = "idle" /\ UNCHANGED <<store, plan, lapsed, history>>
  BY ReadyFields DEF Crash
<1>2. Called(t) => Called(t)'
  BY <1>1, ReadyFields DEF Called, Own, PlanFollows
<1>. QED
  BY <1>1, <1>2, Rests

\* Time only makes more of the requests lapsed.
LEMMA LapseKeeps ==
  ASSUME NEW t, Ready(t), Lapse
  PROVE  SingleInv'
<1>1. Shared'
  BY ReadyFields, SharedStays DEF Lapse, store, history
<1>2. PlanFollows(t)' /\ TabRefers(t)' /\ RequestAsRead(t)' /\ PayloadAsShown(t)'
  BY ReadyFields DEF Own, Lapse, PlanFollows, TabRefers, RequestAsRead, PayloadAsShown,
     Standing, store, history
<1>3. Frontier(t)' /\ ActsLast(t)'
  BY ReadyFields DEF Own, Lapse, Frontier, Standing, ActionsEnd, RequestsEnd, ActsLast,
     Called, Untouched, Unexecuted, store, history
<1>4. BarredStays(t)'
  <2>1. \A r \in Requests : r <= lapsed => r <= lapsed'
    BY ReadyFields DEF Lapse, TypeOK
  <2>. QED
    BY <2>1, ReadyFields DEF Own, Lapse, BarredStays, store, history
<1>. QED
  BY <1>1, <1>2, <1>3, <1>4, Whole DEF Own

--------------------------------------------------------------------------------
(* The invariant and the theorems *)

\* The invariant holds when the consequential task is reached.
LEMMA SingleInit == OneTab /\ Init => SingleInv
<1> SUFFICES ASSUME OneTab, Init PROVE SingleInv
  OBVIOUS
<1>1. PICK p \in Tabs : pc = [u \in Tabs |-> IF u = p THEN "propose" ELSE "idle"]
  BY DEF Init
<1>2. Shared
  BY DEF Init, Shared, PlanPoints, OneRequestEach, Standing, ApprovedIsShown,
     AtMostOnce, ConsentBeforeEffect, OneLiveRequest
<1>3. ASSUME NEW t \in Tabs PROVE Own(t)
  <2>1. /\ pc[t] = "propose" /\ tab[t] = Blank
        /\ plan.status = "running" /\ plan.version = 0 /\ plan.request = 0
    BY <1>1 DEF OneTab, Init
  <2>2. PlanFollows(t) /\ TabRefers(t)
    BY <2>1 DEF PlanFollows, TabRefers, Blank
  <2>3. Frontier(t) /\ RequestAsRead(t) /\ PayloadAsShown(t)
    BY <2>1 DEF Init, Frontier, RequestAsRead, PayloadAsShown, RequestsEnd, ActionsEnd
  <2>4. BarredStays(t) /\ ActsLast(t)
    BY <2>1 DEF Init, BarredStays, ActsLast, Untouched, Unexecuted
  <2>. QED
    BY <2>2, <2>3, <2>4 DEF Own
<1>. QED
  BY <1>2, <1>3 DEF SingleInv

\* Every step of the tab that a user or the script takes keeps it.
LEMMA TabKeeps ==
  ASSUME NEW t, Ready(t), Proceed(t) \/ UserActs(t)
  PROVE  SingleInv'
<1>1. CASE UserActs(t)
  BY <1>1, OpenWorkflowKeeps, NothingWaitsKeeps, ClickTooLateKeeps, DecideKeeps, EditKeeps
  DEF UserActs
<1>2. CASE Proceed(t)
  BY <1>2, OpenWorkflowKeeps, NothingWaitsKeeps, SaveDecisionKeeps, SaveDecidedActionKeeps,
     SaveEditedRequestKeeps, SaveEditedActionKeeps, SaveNewActionKeeps,
     SaveNewRequestKeeps, WorkflowRowKeeps, ExpireRequestKeeps, ExpireActionKeeps,
     PersistRunningKeeps, ProposeKeeps, ProposeRequestKeeps, CheckApprovalKeeps,
     VerifyApprovedKeeps, AcquireGateKeeps, LookupReceiptKeeps,
     MarkExecutionStartedKeeps, CallToolKeeps, SaveReceiptKeeps, CloseActionKeeps
  DEF Proceed
<1>. QED
  BY <1>1, <1>2

\* A step that changes nothing keeps the invariant.
LEMMA SingleStutter == SingleInv /\ UNCHANGED vars => SingleInv'
BY DEF vars, store, history, SingleInv, Shared, PlanPoints, Points, OneRequestEach,
   Standing, ApprovedIsShown, AtMostOnce, ConsentBeforeEffect, OneLiveRequest, Own,
   PlanFollows, TabRefers, Frontier, RequestAsRead, PayloadAsShown, BarredStays, ActsLast,
   Called, Untouched, Unexecuted, ActionsEnd, RequestsEnd

\* The frame and the invariant of one tab are preserved by every step, fault
\* or not.
LEMMA SingleNext ==
  ASSUME OneTab, Frame, SingleInv, [FaultyNext]_vars
  PROVE  SingleInv'
<1>1. PICK t : Tabs = {t}
  BY DEF OneTab
<1>2. Ready(t)
  BY <1>1 DEF Ready
<1>3. ASSUME NEW u \in Tabs, Proceed(u) \/ UserActs(u) PROVE SingleInv'
  <2>1. u = t
    BY <1>1
  <2>. QED
    BY <1>2, <1>3, <2>1, TabKeeps
<1>4. ASSUME NEW u \in Tabs, WriteFails(u) \/ Recover(u) PROVE SingleInv'
  <2>1. u = t
    BY <1>1
  <2>. QED
    BY <1>2, <1>4, <2>1, WriteFailsKeeps, WorkflowRowKeeps
<1>5. CASE Lapse \/ Crash
  BY <1>2, <1>5, LapseKeeps, CrashKeeps
<1>6. CASE UNCHANGED vars
  BY <1>6, SingleStutter
<1>. QED
  BY <1>3, <1>4, <1>5, <1>6 DEF FaultyNext, Next, Settled

\* With one tab, whatever writes fail and whenever the process dies, the
\* invariant holds in every reachable state.
THEOREM SingleInvariance ==
  ASSUME OneTab
  PROVE  FaultySpec => [](Frame /\ SingleInv)
<1>1. Init => Frame /\ SingleInv
  BY InitIInv, SingleInit DEF IInv, Frame
<1>2. Frame /\ SingleInv /\ [FaultyNext]_vars => (Frame /\ SingleInv)'
  BY FrameFaulty, SingleNext
<1>. QED
  BY <1>1, <1>2, PTL DEF FaultySpec

\* However often the run crashes and its writes fail, one version acts once.
THEOREM SingleActsOnce ==
  ASSUME OneTab
  PROVE  FaultySpec => []AtMostOnce
<1>1. SingleInv => AtMostOnce
  BY DEF SingleInv, Shared
<1>. QED
  BY <1>1, SingleInvariance, PTL

\* The tool acts on what its user saw and approved.
THEOREM SingleConsents ==
  ASSUME OneTab
  PROVE  FaultySpec => []ConsentBeforeEffect
<1>1. SingleInv => ConsentBeforeEffect
  BY DEF SingleInv, Shared
<1>. QED
  BY <1>1, SingleInvariance, PTL

\* The user is asked about one request, and about none after the execution.
THEOREM SingleAsksOnce ==
  ASSUME OneTab
  PROVE  FaultySpec => []OneLiveRequest
<1>1. SingleInv => OneLiveRequest
  BY DEF SingleInv, Shared
<1>. QED
  BY <1>1, SingleInvariance, PTL

--------------------------------------------------------------------------------
(* What a step may never do *)

\* The tool acts in the call step only.
LEMMA OnlyCallActs ==
  ASSUME [FaultyNext]_vars, effects' # effects
  PROVE  \E t \in Tabs, acted \in BOOLEAN, outcome \in {"completed", "failed"} :
           CallTool(t, acted, outcome)
<1>1. ASSUME NEW t \in Tabs, Proceed(t) \/ UserActs(t),
             ~ \E acted \in BOOLEAN, outcome \in {"completed", "failed"} :
                 CallTool(t, acted, outcome)
      PROVE  effects' = effects
  BY <1>1 DEF Proceed, UserActs, OpenWorkflow, NothingWaits, ClickTooLate, Decide, Edit,
     SaveDecision, SaveDecidedAction, SaveEditedRequest, SaveEditedAction,
     SaveNewAction, SaveNewRequest, SaveEditedWorkflow, ExpireRequest, ExpireAction,
     PersistRunning, Propose, ProposeRequest, Pause, CheckApproval, VerifyApproved,
     AcquireGate, LookupReceipt, MarkExecutionStarted, SaveReceipt, CloseAction,
     FinishPlan, store, history
<1>2. ASSUME NEW t \in Tabs, WriteFails(t) \/ Recover(t) PROVE effects' = effects
  BY <1>2 DEF WriteFails, Recover, history
<1>3. CASE Lapse \/ Crash \/ UNCHANGED vars
  BY <1>3 DEF Lapse, Crash, vars, history
<1>. QED
  BY <1>1, <1>2, <1>3 DEF FaultyNext, Next, Settled

\* A call acts for the version of the plan, which is standing approved, was not
\* barred, and has no successor.
LEMMA CallIsLive ==
  ASSUME OneTab, Frame, SingleInv, [FaultyNext]_vars, effects' # effects
  PROVE  /\ plan.version \in Versions
         /\ \A v \in Versions : v # plan.version => effects'[v] = effects[v]
         /\ plan.version \notin barred
         /\ newest[plan.version] # 0
         /\ approvals[newest[plan.version]].status = "approved"
         /\ \A w \in Versions : w > plan.version => actions[w].status = "absent"
<1>1. PICK t \in Tabs, acted \in BOOLEAN, outcome \in {"completed", "failed"} :
        CallTool(t, acted, outcome)
  BY OnlyCallActs
<1>2. Ready(t) /\ pc[t] \in Critical
  BY <1>1 DEF Ready, CallTool
<1>3. /\ tab[t].version = plan.version /\ plan.version \in Versions
      /\ plan.request # 0
      /\ approvals[plan.request] = [status |-> "approved", version |-> plan.version]
      /\ newest[plan.version] = plan.request
      /\ plan.version \notin barred /\ ActionsEnd(plan.version)
  BY <1>2, GateFacts
<1>4. \A v \in Versions : v # plan.version => effects'[v] = effects[v]
  BY <1>1, <1>2, <1>3, ReadyFields DEF CallTool, TypeOK
<1>. QED
  BY <1>3, <1>4 DEF ActionsEnd

\* What the user rejected, and what had lapsed when it was resumed, never runs.
THEOREM SingleBarredNeverRuns ==
  ASSUME OneTab
  PROVE  FaultySpec => BarredNeverRuns
<1>1. Frame /\ SingleInv /\ [FaultyNext]_vars
        => [\A v \in barred : effects'[v] = effects[v]]_vars
  <2> SUFFICES ASSUME Frame, SingleInv, [FaultyNext]_vars, NEW v \in barred
               PROVE  effects'[v] = effects[v]
    OBVIOUS
  <2>1. v \in Versions
    BY DEF Frame, TypeOK
  <2>. QED
    BY <2>1, CallIsLive
<1>. QED
  BY <1>1, SingleInvariance, PTL DEF FaultySpec, BarredNeverRuns

\* What runs stands approved at that moment, and nothing newer was proposed.
THEOREM SingleRunsUnderLiveApproval ==
  ASSUME OneTab
  PROVE  FaultySpec => RunsUnderLiveApproval
<1>1. Frame /\ SingleInv /\ [FaultyNext]_vars
        => [\A v \in Versions : effects'[v] # effects[v] =>
              /\ newest[v] # 0 /\ approvals[newest[v]].status = "approved"
              /\ \A w \in Versions : w > v => actions[w].status = "absent"]_vars
  <2> SUFFICES ASSUME Frame, SingleInv, [FaultyNext]_vars,
                      NEW v \in Versions, effects'[v] # effects[v]
               PROVE  /\ newest[v] # 0 /\ approvals[newest[v]].status = "approved"
                      /\ \A w \in Versions : w > v => actions[w].status = "absent"
    OBVIOUS
  <2>1. effects' # effects
    OBVIOUS
  <2>2. v = plan.version
    BY <2>1, CallIsLive
  <2>. QED
    BY <2>1, <2>2, CallIsLive
<1>. QED
  BY <1>1, SingleInvariance, PTL DEF FaultySpec, RunsUnderLiveApproval

\* While some action has its final status, the tab writes no action row.
LEMMA FinalRowsRest ==
  ASSUME NEW t, Ready(t), ~Unexecuted, Proceed(t) \/ UserActs(t)
  PROVE  actions' = actions
<1>1. pc[t] \in {"finish", "recover", "idle"}
  BY ReadyFields DEF Own, ActsLast, Called
<1>. QED
  BY <1>1 DEF Proceed, UserActs, OpenWorkflow, NothingWaits, ClickTooLate, Decide, Edit,
     Clicked, SaveDecision, SaveDecidedAction, SaveEditedRequest, SaveEditedAction,
     SaveNewAction, SaveNewRequest, SaveEditedWorkflow, ExpireRequest, ExpireAction,
     PersistRunning, Propose, ProposeRequest, Pause, CheckApproval, VerifyApproved,
     AcquireGate, LookupReceipt, MarkExecutionStarted, CallTool, SaveReceipt,
     CloseAction, FinishPlan, store

\* No late decision, edit or expiry overwrites the status of an executed action.
THEOREM SingleExecutedStatusStays ==
  ASSUME OneTab
  PROVE  FaultySpec => ExecutedStatusStays
<1>1. Frame /\ SingleInv /\ [FaultyNext]_vars
        => [\A v \in Versions : actions[v].status \in {"completed", "failed"} =>
              actions'[v].status = actions[v].status]_vars
  <2> SUFFICES ASSUME Frame, SingleInv, [FaultyNext]_vars, NEW v \in Versions,
                      actions[v].status \in {"completed", "failed"}
               PROVE  actions'[v].status = actions[v].status
    OBVIOUS
  <2>1. ~Unexecuted
    BY DEF Unexecuted
  <2>2. ASSUME NEW t \in Tabs, Proceed(t) \/ UserActs(t) PROVE actions' = actions
    BY <2>1, <2>2, FinalRowsRest DEF Ready
  <2>3. ASSUME NEW t \in Tabs, WriteFails(t) \/ Recover(t) PROVE actions' = actions
    BY <2>3 DEF WriteFails, Recover, store
  <2>4. CASE Lapse \/ Crash \/ UNCHANGED vars
    BY <2>4 DEF Lapse, Crash, vars, store
  <2>. QED
    BY <2>2, <2>3, <2>4 DEF FaultyNext, Next, Settled
<1>. QED
  BY <1>1, SingleInvariance, PTL DEF FaultySpec, ExecutedStatusStays
================================================================================
