-------------------------- MODULE GraphRuntimeProofs --------------------------
(***************************************************************************)
(* TLAPS proofs about GraphRuntime: whatever plan a thread works on, and   *)
(* whatever checkpoint a dead process leaves, the tool of a task acts once *)
(* for each approval, or again after a call that left no receipt.          *)
(***************************************************************************)
EXTENDS GraphRuntime, TaskGraphProofs, WellFoundedInduction

ApprovalTypeOK ==
  /\ verdict \in [Slots -> Verdict]
  /\ receipt \in [Slots -> {"none", "completed", "failed"}]
  /\ credit \in [Slots -> Int]

\* An approved action without a receipt has an approval that is not used up.
ApprovedIsGranted ==
  \A i \in Slots : verdict[i] = "approved" /\ receipt[i] = "none" => credit[i] >= 1

GrantInv == ApprovalTypeOK /\ OncePerGrant /\ ApprovedIsGranted

\* No grant exists initially.
LEMMA GrantInitially == Init => GrantInv
BY DEF Init, GrantInv, ApprovalTypeOK, OncePerGrant, ApprovedIsGranted, Verdict

\* A request of a new action: whatever receipt and approval there were are void.
LEMMA AskKeeps ==
  ASSUME GrantInv, NEW i \in Slots, Ask(i), UNCHANGED credit
  PROVE  GrantInv'
BY DEF GrantInv, ApprovalTypeOK, OncePerGrant, ApprovedIsGranted, Ask, Verdict

\* A decision; an approval is one more the tool may use up.
LEMMA DecideKeeps ==
  ASSUME GrantInv, NEW i \in Slots, NEW decision \in {"approved", "denied", "cancelled"},
         Decide(i, decision)
  PROVE  GrantInv'
<1>1. ApprovalTypeOK'
  BY DEF Decide, GrantInv, ApprovalTypeOK, Verdict
<1>2. \A j \in Slots : credit'[j] >= credit[j]
  BY DEF Decide, GrantInv, ApprovalTypeOK
<1>3. OncePerGrant'
  BY <1>1, <1>2 DEF GrantInv, ApprovalTypeOK, OncePerGrant
<1>4. ASSUME NEW j \in Slots, verdict'[j] = "approved", receipt'[j] = "none"
      PROVE  credit'[j] >= 1
  <2>1. CASE j = i
    BY <1>4, <2>1 DEF Decide, GrantInv, ApprovalTypeOK, OncePerGrant
  <2>2. CASE j # i
    BY <1>2, <1>4, <2>2 DEF Decide, GrantInv, ApprovalTypeOK, ApprovedIsGranted
  <2>. QED
    BY <2>1, <2>2
<1>. QED
  BY <1>1, <1>3, <1>4 DEF GrantInv, ApprovedIsGranted

\* A call: the gate and the lookup of the receipt let it through only with an
\* approval in hand, and what it used up is covered by its receipt.
LEMMA CallKeeps ==
  ASSUME GrantInv, NEW i \in Slots, NEW did \in BOOLEAN,
         NEW outcome \in {"completed", "failed"},
         NEW record \in {"none", "receipt", "closed"},
         Call(i, did, outcome, record)
  PROVE  GrantInv'
<1>1. credit[i] >= 1 /\ receipt[i] = "none"
  BY DEF Call, AtGate, Proceeds, Receipted, GrantInv, ApprovedIsGranted
<1>2. ApprovalTypeOK'
  BY DEF Call, GrantInv, ApprovalTypeOK, Verdict
<1>3. \/ credit'[i] = credit[i]
      \/ record # "none" /\ credit'[i] = credit[i] - 1
  BY <1>1 DEF Call, GrantInv, ApprovalTypeOK
<1>4. record # "none" => receipt'[i] # "none"
  BY DEF Call, GrantInv, ApprovalTypeOK
<1>5. \A j \in Slots \ {i} :
        credit'[j] = credit[j] /\ receipt'[j] = receipt[j] /\ verdict'[j] = verdict[j]
  <2>1. \A j \in Slots \ {i} : credit'[j] = credit[j]
    BY DEF Call, GrantInv, ApprovalTypeOK
  <2>2. \A j \in Slots \ {i} : receipt'[j] = receipt[j]
    BY DEF Call, GrantInv, ApprovalTypeOK
  <2>3. \A j \in Slots \ {i} : verdict'[j] = verdict[j]
    BY DEF Call, GrantInv, ApprovalTypeOK
  <2>. QED
    BY <2>1, <2>2, <2>3
<1>6. OncePerGrant'
  BY <1>1, <1>3, <1>5 DEF GrantInv, ApprovalTypeOK, OncePerGrant
<1>7. ApprovedIsGranted'
  BY <1>1, <1>3, <1>4, <1>5 DEF GrantInv, ApprovalTypeOK, ApprovedIsGranted
<1>. QED
  BY <1>2, <1>6, <1>7 DEF GrantInv

\* An expiry takes no grant that was used.
LEMMA ExpireKeeps ==
  ASSUME GrantInv, NEW i \in Slots, Expire(i)
  PROVE  GrantInv'
BY DEF Expire, GrantInv, ApprovalTypeOK, OncePerGrant, ApprovedIsGranted, Verdict,
       history

\* The grant invariant is inductive.
LEMMA GrantKept == GrantInv /\ [Next]_vars => GrantInv'
<1>1. ASSUME GrantInv, UNCHANGED <<verdict, receipt, credit>> PROVE GrantInv'
  BY <1>1 DEF GrantInv, ApprovalTypeOK, OncePerGrant, ApprovedIsGranted
<1>2. ASSUME GrantInv, Run PROVE GrantInv'
  <2>1. ASSUME NEW i \in Slots, AskApproval(i) PROVE GrantInv'
    BY <1>2, <2>1, AskKeeps DEF AskApproval, history
  <2>2. ASSUME NEW i \in Slots, NEW did \in BOOLEAN,
               NEW outcome \in {"completed", "failed"},
               NEW record \in {"none", "receipt", "closed"},
               Act(i, did, outcome, record)
        PROVE  GrantInv'
    BY <1>2, <2>2, CallKeeps DEF Act
  <2>3. ASSUME NEW i \in Slots,
               \/ FailClosed(i) \/ Refused(i) \/ StepLimit(i) \/ Replay(i)
               \/ \E outcome \in {"completed", "empty", "transient", "permanent"} :
                    Attempt(i, outcome)
        PROVE  GrantInv'
    BY <1>1, <1>2, <2>3
       DEF FailClosed, Refused, StepLimit, Replay, Attempt, approvals, history
  <2>4. CASE \/ PlanFails \/ RouteTask \/ RetryTask \/ Interrupt \/ ApprovalResumed
             \/ EvaluateFails \/ ReplanFails \/ ReplanRaises \/ Finalize
    BY <1>1, <1>2, <2>4
       DEF PlanFails, RouteTask, RetryTask, Interrupt, ApprovalResumed, EvaluateFails,
           ReplanFails, ReplanRaises, Finalize, approvals, history
  <2>5. ASSUME NEW k, NEW additions, Plan(k, additions) \/ Replan(k, additions)
        PROVE  GrantInv'
    BY <1>1, <1>2, <2>5 DEF Plan, Replan, approvals, history
  <2>6. ASSUME NEW satisfied, NEW again, Evaluate(satisfied, again)
        PROVE  GrantInv'
    BY <1>1, <1>2, <2>6 DEF Evaluate, approvals, history
  <2>. QED
    BY <1>2, <2>1, <2>2, <2>3, <2>4, <2>5, <2>6 DEF Run
<1>3. ASSUME GrantInv, User PROVE GrantInv'
  BY <1>1, <1>3, DecideKeeps DEF User, Start, Resume, approvals, history
<1>4. ASSUME GrantInv, Faults PROVE GrantInv'
  BY <1>1, <1>4, ExpireKeeps, AskKeeps, CallKeeps
     DEF Faults, Crash, CrashAsking, CrashActing, approvals
<1>. QED
  BY <1>1, <1>2, <1>3, <1>4 DEF Next, Over, vars, approvals, history

\* For every set of plans, every number of crashes and every checkpoint they may
\* lose, the tool of a task acts once for each approval (nodes.py:101-161,
\* task_runner.py:231-326).
THEOREM ActsOncePerGrant == Spec => []OncePerGrant
<1>1. GrantInv => OncePerGrant
  BY DEF GrantInv
<1>. QED
  BY <1>1, GrantInitially, GrantKept, PTL DEF Spec

--------------------------------------------------------------------------------
(* The pass of the scheduler, a recursive function over the task list *)

\* Induction, as a property of a set of numbers.
LEMMA SetInduction ==
  ASSUME NEW S, 0 \in S, \A n \in Nat : n \in S => n + 1 \in S
  PROVE  Nat \subseteq S
<1> DEFINE T == Nat \ S
<1>1. SUFFICES ASSUME T # {} PROVE FALSE
  OBVIOUS
<1>2. PICK x \in T : \A y \in T : ~(<<y, x>> \in OpToRel(<, Nat))
  BY <1>1, WFMin, NatLessThanWellFounded
<1>3. x # 0 /\ x \in Nat
  BY <1>2
<1>4. x - 1 \in Nat /\ x - 1 < x
  BY <1>3
<1>5. <<x - 1, x>> \in OpToRel(<, Nat)
  BY <1>3, <1>4 DEF OpToRel
<1>6. x - 1 \in S
  BY <1>2, <1>4, <1>5
<1>7. x \in S
  BY <1>3, <1>4, <1>6
<1>. QED
  BY <1>2, <1>7

\* The pass over the first n tasks exists.
LEMMA UpToExists ==
  ASSUME NEW p
  PROVE  \A n \in Nat : \E f : f = [i \in 0 .. n |->
           IF i = 0 THEN p ELSE RefreshedAt(f[i - 1], i, enabled)]
<1> DEFINE S == {n \in Nat : \E f : f = [i \in 0 .. n |->
                   IF i = 0 THEN p ELSE RefreshedAt(f[i - 1], i, enabled)]}
<1>1. 0 \in S
  <2>1. [i \in 0 .. 0 |-> p] =
          [i \in 0 .. 0 |-> IF i = 0 THEN p
                            ELSE RefreshedAt([j \in 0 .. 0 |-> p][i - 1], i, enabled)]
    OBVIOUS
  <2>. QED
    BY <2>1
<1>2. ASSUME NEW n \in Nat, n \in S PROVE n + 1 \in S
  <2>1. PICK f : f = [i \in 0 .. n |-> IF i = 0 THEN p
                                       ELSE RefreshedAt(f[i - 1], i, enabled)]
    BY <1>2
  <2> DEFINE g == [i \in 0 .. n + 1 |-> IF i = n + 1 THEN RefreshedAt(f[n], n + 1, enabled)
                                        ELSE f[i]]
  <2>2. ASSUME NEW i \in 0 .. n + 1
        PROVE  g[i] = IF i = 0 THEN p ELSE RefreshedAt(g[i - 1], i, enabled)
    <3>1. CASE i = 0
      <4>1. f[0] = p
        BY ONLY <2>1, n \in Nat
      <4>. QED
        BY <3>1, <4>1
    <3>2. CASE i = n + 1
      <4>1. i - 1 = n /\ i # 0
        BY <3>2
      <4>2. g[n] = f[n]
        OBVIOUS
      <4>. QED
        BY <3>2, <4>1, <4>2
    <3>3. CASE i \in 1 .. n
      <4>1. i # 0 /\ i # n + 1 /\ i - 1 # n + 1 /\ i - 1 \in 0 .. n + 1 /\ i \in 0 .. n
        BY <3>3
      <4>2. f[i] = RefreshedAt(f[i - 1], i, enabled)
        BY ONLY <2>1, <4>1
      <4>3. g[i] = f[i] /\ g[i - 1] = f[i - 1]
        BY <4>1
      <4> HIDE DEF g
      <4>. QED
        BY <4>1, <4>2, <4>3
    <3>. QED
      BY <3>1, <3>2, <3>3
  <2>3. g = [i \in 0 .. n + 1 |-> IF i = 0 THEN p ELSE RefreshedAt(g[i - 1], i, enabled)]
    <3>1. g = [i \in 0 .. n + 1 |-> g[i]]
      OBVIOUS
    <3> HIDE DEF g
    <3>. QED
      BY <2>2, <3>1
  <2>4. n + 1 \in Nat
    OBVIOUS
  <2> HIDE DEF g
  <2>. QED
    BY <2>3, <2>4
<1>. QED
  BY <1>1, <1>2, SetInduction

\* The pass leaves every task refreshed: what it leaves pending cannot run.
LEMMA PassRefreshes ==
  ASSUME NEW p \in PlanState, Sound(p)
  PROVE  Passed(p, Pass(p), p.listed, enabled)
<1> DEFINE f == CHOOSE f : f = [i \in 0 .. p.listed |->
                  IF i = 0 THEN p ELSE RefreshedAt(f[i - 1], i, enabled)]
<1>1. p.listed \in 0 .. MaxListed /\ p.listed \in Nat
  BY PlanAssumption DEF PlanState
<1>2. f = [i \in 0 .. p.listed |-> IF i = 0 THEN p ELSE RefreshedAt(f[i - 1], i, enabled)]
  BY <1>1, UpToExists, Zenon
<1>3. Pass(p) = f[p.listed]
  BY DEF Pass
<1> HIDE DEF f
<1>4. f[0] = p
  BY <1>1, <1>2
<1>5. \A n \in Nat : n + 1 <= p.listed => f[n + 1] = RefreshedAt(f[n], n + 1, enabled)
  <2> SUFFICES ASSUME NEW n \in Nat, n + 1 <= p.listed
               PROVE  f[n + 1] = RefreshedAt(f[n], n + 1, enabled)
    OBVIOUS
  <2>1. n + 1 \in 0 .. p.listed /\ n + 1 # 0 /\ (n + 1) - 1 = n
    BY <1>1
  <2>. QED
    BY <1>2, <2>1
<1> DEFINE S == {n \in Nat : n <= p.listed => Passed(p, f[n], n, enabled)}
<1>6. 0 \in S
  BY <1>4, PassedNone
<1>7. ASSUME NEW n \in Nat, n \in S PROVE n + 1 \in S
  <2>1. SUFFICES ASSUME n + 1 <= p.listed PROVE Passed(p, f[n + 1], n + 1, enabled)
    OBVIOUS
  <2>2. Passed(p, f[n], n, enabled) /\ n + 1 \in Slots
    BY <1>1, <1>7, <2>1, PlanAssumption DEF Slots
  <2>. QED
    BY <1>5, <2>1, <2>2, PassedNext
<1>8. Nat \subseteq S
  BY <1>6, <1>7, SetInduction
<1>9. p.listed \in S
  BY <1>1, <1>8
<1>. QED
  BY <1>1, <1>3, <1>9

--------------------------------------------------------------------------------
(* What holds of a checkpoint, the latest one and the one a crash may leave *)

TasksOK(c) ==
  /\ Sound(c.plan)
  /\ \A i \in Slots : Status(c.plan, i) \notin {"running", "approved"}
  /\ \A i \in Slots : Status(c.plan, i) = "waiting" =>
       c.next \in {"approval", "execute_task"} /\ i = c.task

\* The task the next node works on.
AtTask(c) ==
  /\ c.next \in {"approval", "execute_task", "retry_task"} => c.task \in Slots
  /\ c.next = "approval" => Status(c.plan, c.task) = "waiting" /\ verdict[c.task] # "none"
  /\ c.next = "execute_task" => Status(c.plan, c.task) \in {"ready", "waiting"}
  /\ c.next = "retry_task" =>
       Status(c.plan, c.task) = "failed" /\ DepsComplete(c.plan, c.task)

StatusOK(c) ==
  /\ c.next \in {"none", "planner"} => c.plan = NoPlan
  /\ c.next \in {"execute_task", "retry_task", "evaluate"} => c.plan.status = "running"
  /\ c.next = "approval" => c.plan.status = "waiting"
  /\ c.next = "task_router" => c.plan.status \in {"running", "failed"}
  /\ c.next \in {"replan", "finalize"} => c.plan.status \in {"evaluating", "failed"}

\* The evaluation channel keeps what an earlier revision left in it.
EvaluationOK(c) ==
  /\ c.next \notin {"finalize", "end"} => c.evaluation \in {"none", "replan"}
  /\ c.next = "replan" /\ c.plan.status = "failed" => c.plan.revision >= 1
  /\ c.next \notin {"replan", "finalize", "end"} /\ c.evaluation = "replan" =>
       c.plan.revision >= 1 \/ c.plan.status = "failed"
  /\ c.next = "finalize" /\ c.evaluation = "satisfied" =>
       Gaps(c.plan) = {} /\ c.plan.status = "evaluating"

\* The answer channel keeps the pause, or the error of a node, of an earlier one.
AnswerOK(c) ==
  c.next # "end" =>
    /\ c.answer \in {"none", "paused", "error"}
    /\ c.answer = "paused" => \E i \in Listed(c.plan) : verdict[i] # "none"
    /\ c.answer = "error" => c.plan.status = "failed" \/ c.plan.revision >= 2

AccountOK(c) ==
  \/ c.next \in {"evaluate", "replan", "finalize", "end"}
  \/ c.next = "task_router" /\ c.plan.status = "failed"
  => Accounted(c.plan, enabled)

EndOK(c) ==
  c.next = "end" =>
    /\ c.plan.status = "completed" <=> c.answer = "answer"
    /\ c.plan.status = "completed" => Gaps(c.plan) = {}
    /\ \/ c.plan.status \in {"completed", "failed"}
       \/ c.plan.status = "evaluating" /\ \E i \in Listed(c.plan) : verdict[i] # "none"
       \/ c.plan.status = "evaluating" /\ c.plan.revision >= 2

Checked(c) ==
  /\ TasksOK(c) /\ AtTask(c) /\ StatusOK(c) /\ EvaluationOK(c)
  /\ AnswerOK(c) /\ AccountOK(c) /\ EndOK(c)

\* A thread at rest was stopped where it may be, or died.
RestsOK == ~live => thread.next \in {"none", "end", "approval", "replan"} \/ died

ThreadTypeOK ==
  /\ thread \in Checkpoint /\ parked \in Checkpoint
  /\ live \in BOOLEAN
  /\ enabled \in SUBSET Tools
  /\ died \in BOOLEAN /\ crashes \in 0 .. MaxCrashes

ThreadInv ==
  /\ ThreadTypeOK /\ RestsOK
  /\ Checked(thread) /\ Checked(parked)
  /\ parked = NoThread \/ parked.next = "approval"

IInv == GrantInv /\ ThreadInv

\* No request is ever forgotten.
VerdictsStay == \A i \in Slots : verdict[i] # "none" => verdict'[i] # "none"

\* The tasks of the list have slots.
LEMMA ListedSlots ==
  ASSUME NEW p \in PlanState
  PROVE  Listed(p) \subseteq Slots
BY PlanAssumption DEF Listed, Slots, PlanState

\* The absent thread is a sound checkpoint.
LEMMA NoThreadChecked == NoThread \in Checkpoint /\ Checked(NoThread)
<1>1. /\ NoPlan.status = "none" /\ NoPlan.listed = 0
      /\ \A i \in Slots : Status(NoPlan, i) = "absent"
  BY DEF NoPlan, AbsentTask, Status
<1>2. /\ NoThread.plan = NoPlan /\ NoThread.next = "none" /\ NoThread.task = 0
      /\ NoThread.evaluation = "none" /\ NoThread.answer = "none"
  BY DEF NoThread
<1>3. NoThread \in Checkpoint
  BY NoPlanType, PlanAssumption DEF NoThread, Checkpoint, Evaluation, Answer
<1>4. TasksOK(NoThread)
  BY <1>1, <1>2, NoPlanSound DEF TasksOK
<1>5. /\ AtTask(NoThread) /\ StatusOK(NoThread) /\ EvaluationOK(NoThread)
      /\ AnswerOK(NoThread) /\ AccountOK(NoThread) /\ EndOK(NoThread)
  BY <1>2 DEF AtTask, StatusOK, EvaluationOK, AnswerOK, AccountOK, EndOK
<1>. QED
  BY <1>3, <1>4, <1>5 DEF Checked

\* Decisions and new requests leave a checkpoint as good as it was; other tools
\* matter only to one past the executor.
LEMMA CheckedLater ==
  ASSUME NEW c \in Checkpoint, Checked(c), VerdictsStay,
         enabled' = enabled \/ c.next \in {"none", "planner", "approval"}
  PROVE  Checked(c)'
<1>1. c.plan \in PlanState /\ Listed(c.plan) \subseteq Slots
  BY ListedSlots DEF Checkpoint
<1>2. TasksOK(c)' /\ StatusOK(c)' /\ EvaluationOK(c)'
  BY DEF Checked, TasksOK, StatusOK, EvaluationOK
<1>3. AtTask(c)'
  BY DEF Checked, AtTask, VerdictsStay
<1>4. AnswerOK(c)' /\ EndOK(c)'
  BY <1>1 DEF Checked, AnswerOK, EndOK, VerdictsStay
<1>5. AccountOK(c)'
  BY DEF Checked, AccountOK
<1>. QED
  BY <1>2, <1>3, <1>4, <1>5 DEF Checked

\* A node ends with a checkpoint that is as it should be.
LEMMA LeaveKeeps ==
  ASSUME ThreadInv, NEW c \in Checkpoint, Leave(c), Checked(c)', VerdictsStay, live,
         UNCHANGED <<live, enabled, died, crashes>>
  PROVE  ThreadInv'
<1>1. thread' = c /\ parked' \in {parked, c} /\ (parked' = parked \/ c.next = "approval")
  BY DEF Leave
<1>2. PICK d : d = parked
  OBVIOUS
<1>3. d \in Checkpoint /\ Checked(d)
  BY <1>2 DEF ThreadInv, ThreadTypeOK
<1>4. Checked(d)'
  BY <1>3, CheckedLater
<1>5. Checked(parked)'
  <2>1. parked' = d \/ parked' = c
    BY <1>1, <1>2
  <2>. QED
    BY <1>4, <2>1
<1>6. Checked(thread)'
  BY <1>1
<1>7. ThreadTypeOK' /\ RestsOK'
  BY <1>1 DEF ThreadInv, ThreadTypeOK, RestsOK
<1>. QED
  BY <1>1, <1>5, <1>6, <1>7 DEF ThreadInv

\* Going to a node writes the plan and the next node only.
LEMMA ToFields ==
  ASSUME thread \in Checkpoint, NEW p \in PlanState, NEW next \in Nodes \union {"end"}
  PROVE  /\ To(next, p) \in Checkpoint
         /\ To(next, p).plan = p /\ To(next, p).next = next
         /\ To(next, p).task = thread.task /\ To(next, p).evaluation = thread.evaluation
         /\ To(next, p).answer = thread.answer
BY DEF To, Checkpoint

--------------------------------------------------------------------------------
(* The nodes *)

\* The executor leaves the task finished; after a failed attempt it may be retried.
LEMMA SettleKeeps ==
  ASSUME ThreadInv, NEW i \in Slots, At("execute_task"), thread.task = i, NEW q,
         NEW status \in {"completed", "failed", "denied", "cancelled", "expired"},
         Moved(thread.plan, q, i, status), NEW c,
         \/ c = To("task_router", q)
         \/ /\ c = To("retry_task", q) /\ status = "failed"
            /\ Status(thread.plan, i) = "ready",
         Leave(c), VerdictsStay, UNCHANGED <<live, enabled, died, crashes>>
  PROVE  ThreadInv'
<1> DEFINE p == thread.plan
<1>1. /\ thread \in Checkpoint /\ p \in PlanState /\ live /\ thread.next = "execute_task"
      /\ TasksOK(thread) /\ AtTask(thread) /\ p.status = "running"
      /\ EvaluationOK(thread) /\ AnswerOK(thread)
  BY DEF ThreadInv, ThreadTypeOK, At, Checkpoint, Checked, StatusOK
<1>2. /\ q \in PlanState /\ q.status = p.status /\ q.listed = p.listed
      /\ q.revision = p.revision
      /\ \A j \in Slots : Status(q, j) = IF j = i THEN status ELSE Status(p, j)
      /\ \A j \in Slots : q.tasks[j].deps = p.tasks[j].deps
  BY DEF Moved
<1>3. /\ c \in Checkpoint /\ c.plan = q /\ c.task = i
      /\ c.evaluation = thread.evaluation /\ c.answer = thread.answer
      /\ \/ c.next = "task_router"
         \/ c.next = "retry_task" /\ status = "failed" /\ Status(p, i) = "ready"
  BY <1>1, <1>2, ToFields DEF Nodes
<1>4. Status(p, i) \in {"ready", "waiting"}
  BY <1>1 DEF AtTask
<1>5. DepsComplete(p, i)
  BY <1>1, <1>4 DEF TasksOK, Sound, MayStart
<1>6. TasksOK(c)
  <2>1. Sound(q)
    BY <1>1, <1>4, <1>5, MovedSound DEF TasksOK
  <2>. QED
    BY <1>1, <1>2, <1>3, <2>1 DEF TasksOK
<1>7. AtTask(c)
  <2>1. DepsComplete(q, i)
    BY <1>1, <1>2, <1>4, <1>5, TaskFields DEF DepsComplete
  <2>. QED
    BY <1>2, <1>3, <2>1 DEF AtTask
<1>8. StatusOK(c) /\ EvaluationOK(c) /\ AccountOK(c) /\ EndOK(c)
  BY <1>1, <1>2, <1>3 DEF StatusOK, EvaluationOK, AccountOK, EndOK
<1>9. AnswerOK(c)
  BY <1>1, <1>2, <1>3 DEF AnswerOK, Listed
<1>10. Checked(c)
  BY <1>6, <1>7, <1>8, <1>9 DEF Checked
<1>. QED
  BY <1>1, <1>3, <1>10, CheckedLater, LeaveKeeps

\* The gate parks the task that it asks about.
LEMMA AskApprovalKeeps ==
  ASSUME GrantInv, ThreadInv, NEW i \in Slots, AskApproval(i)
  PROVE  ThreadInv'
<1> DEFINE p == thread.plan
           w == WithStatus(p, i, "waiting")
<1>1. /\ thread \in Checkpoint /\ p \in PlanState /\ live /\ thread.next = "execute_task"
      /\ thread.task = i /\ Status(p, i) = "ready"
      /\ TasksOK(thread) /\ p.status = "running" /\ EvaluationOK(thread)
  BY DEF AskApproval, Ask, AtGate, ThreadInv, ThreadTypeOK, At, Checkpoint, Checked, StatusOK
<1>2. /\ UNCHANGED <<live, enabled, died, crashes>>
      /\ verdict'[i] = "pending" /\ \A j \in Slots \ {i} : verdict'[j] = verdict[j]
  BY DEF AskApproval, Ask, GrantInv, ApprovalTypeOK, history
<1>3. VerdictsStay
  BY <1>2 DEF VerdictsStay
<1>4. Moved(p, w, i, "waiting")
  BY <1>1, WithStatusMoves DEF TaskStatus
<1>5. w \in PlanState /\ Sound(w)
  <2>1. DepsComplete(p, i) /\ \A j \in Slots \ {i} : Status(p, j) # "waiting"
    BY <1>1 DEF TasksOK, Sound, MayStart
  <2>2. Sound(p)
    BY <1>1 DEF TasksOK
  <2>3. w \in PlanState
    BY <1>4 DEF Moved
  <2> HIDE DEF w, p
  <2>4. Sound(w)
    BY <1>1, <1>4, <2>1, <2>2, MovedSound
  <2>. QED
    BY <2>3, <2>4
<1> HIDE DEF w
<1>6. PICK q : q = [w EXCEPT !.status = "waiting"]
  OBVIOUS
<1>7. /\ q \in PlanState /\ q.status = "waiting" /\ Sound(q) /\ q.revision = p.revision
      /\ q.listed = p.listed
      /\ \A j \in Slots : Status(q, j) = IF j = i THEN "waiting" ELSE Status(p, j)
  BY <1>4, <1>5, <1>6, StatusOnly DEF Moved, PlanStatus
<1>8. PICK c : c = [To("approval", q) EXCEPT !.answer = "paused"]
  OBVIOUS
<1>9. /\ c \in Checkpoint /\ c.plan = q /\ c.next = "approval" /\ c.task = i
      /\ c.evaluation = thread.evaluation /\ c.answer = "paused"
  BY <1>1, <1>7, <1>8, ToFields DEF Nodes, Checkpoint, Answer
<1>10. Leave(c)
  BY <1>6, <1>8 DEF AskApproval, Parked, w
<1>11. i \in Listed(q)
  BY <1>7 DEF Sound, Placed
<1>12. TasksOK(c)'
  BY <1>1, <1>7, <1>9 DEF TasksOK
<1>13. AtTask(c)' /\ StatusOK(c)' /\ EvaluationOK(c)' /\ AccountOK(c)' /\ EndOK(c)'
  BY <1>1, <1>2, <1>7, <1>9 DEF AtTask, StatusOK, EvaluationOK, AccountOK, EndOK
<1>14. AnswerOK(c)'
  BY <1>2, <1>9, <1>11 DEF AnswerOK
<1>15. Checked(c)'
  BY <1>12, <1>13, <1>14 DEF Checked
<1>. QED
  BY <1>1, <1>2, <1>3, <1>9, <1>10, <1>15, LeaveKeeps

\* planner: a first plan, or the failure of the planner.
LEMMA PlanKeeps ==
  ASSUME ThreadInv,
         \/ PlanFails
         \/ \E k \in Slots : \E additions \in Additions(NoPlan, k) : Plan(k, additions)
  PROVE  ThreadInv'
<1>1. /\ thread \in Checkpoint /\ live /\ thread.next = "planner" /\ thread.plan = NoPlan
      /\ EvaluationOK(thread) /\ AnswerOK(thread)
      /\ UNCHANGED <<live, enabled, died, crashes>> /\ VerdictsStay
  BY DEF PlanFails, Plan, ThreadInv, ThreadTypeOK, At, Checked, StatusOK, approvals, history,
         VerdictsStay
<1>2. NoPlan.status = "none" /\ NoPlan.listed = 0 /\ NoPlan.revision = 0
      /\ \A i \in Slots : Status(NoPlan, i) = "absent"
  BY DEF NoPlan, AbsentTask, Status
<1>3. thread.evaluation = "none" /\ thread.answer = "none"
  BY <1>1, <1>2 DEF EvaluationOK, AnswerOK, Listed
<1>4. ASSUME NEW q \in PlanState, Sound(q), q.status \in {"running", "failed"},
             \A i \in Slots : Status(q, i) \in {"absent", "pending"},
             NEW c \in Checkpoint, c.plan = q, c.next = "task_router",
             c.evaluation = "none", Leave(c),
             \/ c.answer = "none" /\ q.status = "running"
             \/ c.answer = "error" /\ q.status = "failed" /\ q.listed = 0
      PROVE  ThreadInv'
  <2>1. /\ TasksOK(c) /\ AtTask(c) /\ StatusOK(c) /\ EvaluationOK(c) /\ AnswerOK(c)
        /\ EndOK(c)
    BY <1>4 DEF TasksOK, AtTask, StatusOK, EvaluationOK, AnswerOK, EndOK
  <2>2. AccountOK(c)
    BY <1>4 DEF AccountOK, Accounted, Listed
  <2>. QED
    BY <1>1, <1>4, <2>1, <2>2, CheckedLater, LeaveKeeps DEF Checked
<1>5. CASE PlanFails
  <2>1. PICK q : q = [NoPlan EXCEPT !.status = "failed"]
    OBVIOUS
  <2>2. /\ q \in PlanState /\ Sound(q) /\ q.status = "failed" /\ q.listed = 0
        /\ \A i \in Slots : Status(q, i) = "absent"
    BY <1>2, <2>1, NoPlanType, NoPlanSound, StatusOnly DEF PlanStatus
  <2>3. PICK c : c = [To("task_router", q) EXCEPT !.answer = "error"]
    OBVIOUS
  <2>4. /\ c \in Checkpoint /\ c.plan = q /\ c.next = "task_router"
        /\ c.evaluation = "none" /\ c.answer = "error"
    BY <1>1, <1>3, <2>2, <2>3, ToFields DEF Nodes, Checkpoint, Answer
  <2>5. Leave(c)
    BY <1>1, <1>5, <2>1, <2>3 DEF PlanFails, Error
  <2>. QED
    BY <1>4, <2>2, <2>4, <2>5
<1>6. ASSUME NEW k \in Slots, NEW additions \in Additions(NoPlan, k), Plan(k, additions)
      PROVE  ThreadInv'
  <2>1. PICK q : q = Planned(k, additions)
    OBVIOUS
  <2>2. /\ q \in PlanState /\ Sound(q) /\ q.status = "running"
        /\ \A i \in Slots : Status(q, i) \in {"absent", "pending"}
    BY <2>1, PlannedFacts
  <2>3. PICK c : c = To("task_router", q)
    OBVIOUS
  <2>4. /\ c \in Checkpoint /\ c.plan = q /\ c.next = "task_router"
        /\ c.evaluation = "none" /\ c.answer = "none"
    BY <1>1, <1>3, <2>2, <2>3, ToFields DEF Nodes
  <2>5. Leave(c)
    BY <1>6, <2>1, <2>3 DEF Plan
  <2>. QED
    BY <1>4, <2>2, <2>4, <2>5
<1>. QED
  BY <1>5, <1>6

\* task_router: the pass of the scheduler, and where it leads.
LEMMA RouteKeeps ==
  ASSUME ThreadInv, RouteTask
  PROVE  ThreadInv'
<1> DEFINE p == thread.plan
<1>1. /\ thread \in Checkpoint /\ p \in PlanState /\ live /\ thread.next = "task_router"
      /\ TasksOK(thread) /\ p.status \in {"running", "failed"} /\ EvaluationOK(thread)
      /\ AnswerOK(thread) /\ AccountOK(thread)
      /\ UNCHANGED <<live, enabled, died, crashes>> /\ VerdictsStay
  BY DEF RouteTask, ThreadInv, ThreadTypeOK, At, Checkpoint, Checked, StatusOK, approvals,
         history, VerdictsStay
<1>2. /\ thread.evaluation \in {"none", "replan"}
      /\ thread.answer \in {"none", "paused", "error"}
      /\ \A i \in Slots : Status(p, i) \notin {"running", "approved", "waiting"}
  BY <1>1 DEF EvaluationOK, AnswerOK, TasksOK
<1>3. CASE p.status = "failed"
  <2>1. PICK c : c = [thread EXCEPT !.next = "finalize", !.task = 0]
    OBVIOUS
  <2>2. 0 \in 0 .. MaxListed
    BY PlanAssumption
  <2>3. /\ c \in Checkpoint /\ c.plan = p /\ c.next = "finalize" /\ c.task = 0
        /\ c.evaluation = thread.evaluation /\ c.answer = thread.answer
    BY <1>1, <2>1, <2>2 DEF Checkpoint, Nodes
  <2>4. Leave(c)
    BY <1>1, <1>3, <2>1 DEF RouteTask
  <2>5. TasksOK(c)
    BY <1>1, <1>2, <2>3 DEF TasksOK
  <2>6. /\ AtTask(c) /\ StatusOK(c) /\ EvaluationOK(c) /\ AnswerOK(c) /\ AccountOK(c)
        /\ EndOK(c)
    BY <1>1, <1>2, <1>3, <2>3
       DEF AtTask, StatusOK, EvaluationOK, AnswerOK, AccountOK, EndOK
  <2>. QED
    BY <1>1, <2>3, <2>4, <2>5, <2>6, CheckedLater, LeaveKeeps DEF Checked
<1>4. CASE p.status = "running"
  <2>1. PICK q : q = Pass(p)
    OBVIOUS
  <2>2. Passed(p, q, p.listed, enabled)
    BY <1>1, <2>1, PassRefreshes DEF TasksOK
  <2>3. /\ q \in PlanState /\ Sound(q) /\ q.status = "running" /\ q.listed = p.listed
        /\ q.revision = p.revision
    BY <1>4, <2>2 DEF Passed
  <2>4. \A i \in Slots : Status(q, i) \notin {"running", "approved", "waiting"}
    BY <1>2, <2>2 DEF Passed
  <2>5. ASSUME NEW c \in Checkpoint, c.plan = q, Leave(c),
               c.evaluation = thread.evaluation, c.answer = thread.answer,
               \/ c.next = "execute_task" /\ c.task \in Ready(q)
               \/ c.next = "evaluate" /\ Ready(q) = {}
        PROVE  ThreadInv'
    <3>1. TasksOK(c)
      BY <2>3, <2>4, <2>5 DEF TasksOK
    <3>2. AtTask(c) /\ StatusOK(c) /\ EndOK(c)
      <4>1. c.next = "execute_task" => c.task \in Slots /\ Status(q, c.task) = "ready"
        BY <2>3, <2>5, ListedSlots DEF Ready
      <4>. QED
        BY <2>3, <2>5, <4>1 DEF AtTask, StatusOK, EndOK
    <3>3. EvaluationOK(c) /\ AnswerOK(c)
      BY <1>1, <1>4, <2>3, <2>5 DEF EvaluationOK, AnswerOK, Listed
    <3>4. AccountOK(c)
      <4>1. ASSUME c.next = "evaluate", NEW i \in Listed(q)
            PROVE  /\ Status(q, i) \notin {"ready", "running", "waiting", "approved"}
                   /\ Status(q, i) = "pending" => Stuck(q, i, enabled)
        BY <2>2, <2>3, <2>4, <2>5, <4>1, ListedSlots DEF Ready, Passed, Listed
      <4>. QED
        BY <2>3, <2>5, <4>1 DEF AccountOK, Accounted
    <3>. QED
      BY <1>1, <2>5, <3>1, <3>2, <3>3, <3>4, CheckedLater, LeaveKeeps DEF Checked
  <2>6. ASSUME NEW i \in Ready(q), Leave([To("execute_task", q) EXCEPT !.task = i])
        PROVE  ThreadInv'
    <3>1. PICK c : c = [To("execute_task", q) EXCEPT !.task = i]
      OBVIOUS
    <3>2. i \in 0 .. MaxListed
      BY <2>3, ListedSlots, PlanAssumption DEF Ready, Slots
    <3>3. /\ c \in Checkpoint /\ c.plan = q /\ c.next = "execute_task" /\ c.task = i
          /\ c.evaluation = thread.evaluation /\ c.answer = thread.answer
      BY <1>1, <2>3, <3>1, <3>2, ToFields DEF Nodes, Checkpoint
    <3>. QED
      BY <2>5, <2>6, <3>1, <3>3
  <2>7. ASSUME Ready(q) = {}, Leave([To("evaluate", q) EXCEPT !.task = 0])
        PROVE  ThreadInv'
    <3>1. PICK c : c = [To("evaluate", q) EXCEPT !.task = 0]
      OBVIOUS
    <3>2. 0 \in 0 .. MaxListed
      BY PlanAssumption
    <3>3. /\ c \in Checkpoint /\ c.plan = q /\ c.next = "evaluate"
          /\ c.evaluation = thread.evaluation /\ c.answer = thread.answer
      BY <1>1, <2>3, <3>1, <3>2, ToFields DEF Nodes, Checkpoint
    <3>. QED
      BY <2>5, <2>7, <3>1, <3>3
  <2>. QED
    BY <1>4, <2>1, <2>6, <2>7 DEF RouteTask
<1>. QED
  BY <1>1, <1>3, <1>4

\* retry_task: the task goes straight back to the executor.
LEMMA RetryKeeps ==
  ASSUME ThreadInv, RetryTask
  PROVE  ThreadInv'
<1> DEFINE p == thread.plan
           i == thread.task
<1>1. /\ thread \in Checkpoint /\ p \in PlanState /\ live /\ thread.next = "retry_task"
      /\ TasksOK(thread) /\ p.status = "running" /\ EvaluationOK(thread)
      /\ AnswerOK(thread) /\ i \in Slots /\ Status(p, i) = "failed" /\ DepsComplete(p, i)
      /\ UNCHANGED <<live, enabled, died, crashes>> /\ VerdictsStay
  BY DEF RetryTask, ThreadInv, ThreadTypeOK, At, Checkpoint, Checked, StatusOK, AtTask,
         approvals, history, VerdictsStay
<1>2. \A j \in Slots : Status(p, j) \notin {"running", "approved", "waiting"}
  BY <1>1 DEF TasksOK
<1>3. PICK q : q = WithStatus(p, i, "ready")
  OBVIOUS
<1>4. Moved(p, q, i, "ready")
  BY <1>1, <1>3, WithStatusMoves DEF TaskStatus
<1>5. /\ q \in PlanState /\ q.status = p.status /\ q.listed = p.listed
      /\ q.revision = p.revision
      /\ \A j \in Slots : Status(q, j) = IF j = i THEN "ready" ELSE Status(p, j)
  BY <1>4 DEF Moved
<1>6. Sound(q)
  <2>1. Sound(p)
    BY <1>1 DEF TasksOK
  <2> HIDE DEF p, i
  <2>. QED
    BY <1>1, <1>4, <2>1, MovedSound
<1>7. PICK c : c = To("execute_task", q)
  OBVIOUS
<1>8. /\ c \in Checkpoint /\ c.plan = q /\ c.next = "execute_task" /\ c.task = i
      /\ c.evaluation = thread.evaluation /\ c.answer = thread.answer
  BY <1>1, <1>5, <1>7, ToFields DEF Nodes
<1>9. Leave(c)
  BY <1>3, <1>7 DEF RetryTask
<1>10. TasksOK(c) /\ AtTask(c)
  BY <1>1, <1>2, <1>5, <1>6, <1>8 DEF TasksOK, AtTask
<1>11. StatusOK(c) /\ EvaluationOK(c) /\ AnswerOK(c) /\ AccountOK(c) /\ EndOK(c)
  BY <1>1, <1>5, <1>8 DEF StatusOK, EvaluationOK, AnswerOK, AccountOK, EndOK, Listed
<1>. QED
  BY <1>1, <1>8, <1>9, <1>10, <1>11, CheckedLater, LeaveKeeps DEF Checked

\* approval: the pause, and the way back to the executor.
LEMMA InterruptKeeps ==
  ASSUME ThreadInv, Interrupt
  PROVE  ThreadInv'
<1>1. /\ thread' = thread /\ parked' = thread /\ live' = FALSE /\ thread.next = "approval"
      /\ UNCHANGED <<enabled, died, crashes>> /\ VerdictsStay
  BY DEF Interrupt, At, approvals, history, VerdictsStay
<1>2. PICK c : c = thread
  OBVIOUS
<1>3. c \in Checkpoint /\ Checked(c)
  BY <1>2 DEF ThreadInv, ThreadTypeOK
<1>4. Checked(c)'
  BY <1>1, <1>3, CheckedLater
<1>5. Checked(thread)' /\ Checked(parked)'
  BY <1>1, <1>2, <1>4
<1>6. ThreadTypeOK' /\ RestsOK'
  BY <1>1 DEF ThreadInv, ThreadTypeOK, RestsOK
<1>. QED
  BY <1>1, <1>5, <1>6 DEF ThreadInv

\* The approval node continues with the task that was parked.
LEMMA ApprovalResumedKeeps ==
  ASSUME ThreadInv, ApprovalResumed
  PROVE  ThreadInv'
<1> DEFINE p == thread.plan
<1>1. /\ thread \in Checkpoint /\ p \in PlanState /\ live /\ thread.next = "approval"
      /\ TasksOK(thread) /\ p.status = "waiting" /\ EvaluationOK(thread)
      /\ AnswerOK(thread) /\ thread.task \in Slots /\ Status(p, thread.task) = "waiting"
      /\ UNCHANGED <<live, enabled, died, crashes>> /\ VerdictsStay
  BY DEF ApprovalResumed, ThreadInv, ThreadTypeOK, At, Checkpoint, Checked, StatusOK,
         AtTask, approvals, history, VerdictsStay
<1>2. PICK q : q = [p EXCEPT !.status = "running"]
  OBVIOUS
<1>3. /\ q \in PlanState /\ q.status = "running" /\ q.listed = p.listed
      /\ q.revision = p.revision /\ Sound(q)
      /\ \A i \in Slots : Status(q, i) = Status(p, i)
  BY <1>1, <1>2, StatusOnly DEF PlanStatus, TasksOK
<1>4. PICK c : c = To("execute_task", q)
  OBVIOUS
<1>5. /\ c \in Checkpoint /\ c.plan = q /\ c.next = "execute_task"
      /\ c.task = thread.task
      /\ c.evaluation = thread.evaluation /\ c.answer = thread.answer
  BY <1>1, <1>3, <1>4, ToFields DEF Nodes
<1>6. Leave(c)
  BY <1>2, <1>4 DEF ApprovalResumed
<1>7. TasksOK(c) /\ AtTask(c)
  BY <1>1, <1>3, <1>5 DEF TasksOK, AtTask
<1>8. StatusOK(c) /\ EvaluationOK(c) /\ AnswerOK(c) /\ AccountOK(c) /\ EndOK(c)
  BY <1>1, <1>3, <1>5 DEF StatusOK, EvaluationOK, AnswerOK, AccountOK, EndOK, Listed
<1>. QED
  BY <1>1, <1>5, <1>6, <1>7, <1>8, CheckedLater, LeaveKeeps DEF Checked

\* evaluate, with an answer of the LLM or without.
LEMMA EvaluateKeeps ==
  ASSUME ThreadInv, NEW satisfied \in BOOLEAN, NEW again \in BOOLEAN,
         Evaluate(satisfied, again)
  PROVE  ThreadInv'
<1> DEFINE p == thread.plan
<1>1. /\ thread \in Checkpoint /\ p \in PlanState /\ live /\ thread.next = "evaluate"
      /\ TasksOK(thread) /\ p.status = "running" /\ EvaluationOK(thread)
      /\ AnswerOK(thread) /\ Accounted(p, enabled)
      /\ UNCHANGED <<live, enabled, died, crashes>> /\ VerdictsStay
  BY DEF Evaluate, ThreadInv, ThreadTypeOK, At, Checkpoint, Checked, StatusOK,
         AccountOK, approvals, history, VerdictsStay
<1>2. PICK q : q = [p EXCEPT !.status = "evaluating"]
  OBVIOUS
<1>3. /\ q \in PlanState /\ q.status = "evaluating" /\ q.listed = p.listed
      /\ q.revision = p.revision /\ Sound(q) /\ Accounted(q, enabled)
      /\ \A i \in Slots : Status(q, i) = Status(p, i)
  BY <1>1, <1>2, StatusOnly DEF PlanStatus, TasksOK
<1>4. PICK evaluation :
        evaluation = IF Reached(q, satisfied) THEN "satisfied"
                     ELSE IF satisfied \/ again THEN "replan" ELSE "stop"
  OBVIOUS
<1>5. /\ evaluation \in Evaluation
      /\ evaluation = "satisfied" => Gaps(q) = {}
      /\ AfterEvaluation(evaluation, q) \in {"replan", "finalize"}
      /\ AfterEvaluation(evaluation, q) = "replan" => evaluation = "replan"
  BY <1>4 DEF Evaluation, Reached, AfterEvaluation
<1>6. PICK c : c = [To(AfterEvaluation(evaluation, q), q) EXCEPT !.evaluation = evaluation]
  OBVIOUS
<1>7. /\ c \in Checkpoint /\ c.plan = q /\ c.next = AfterEvaluation(evaluation, q)
      /\ c.evaluation = evaluation /\ c.answer = thread.answer
  <2>1. AfterEvaluation(evaluation, q) \in Nodes
    BY <1>5 DEF Nodes
  <2>. QED
    BY <1>1, <1>3, <1>5, <1>6, <2>1, ToFields DEF Checkpoint
<1>8. Leave(c)
  BY <1>2, <1>4, <1>6 DEF Evaluate
<1>9. TasksOK(c)
  BY <1>1, <1>3, <1>7 DEF TasksOK
<1>10. AtTask(c) /\ StatusOK(c) /\ EvaluationOK(c) /\ AccountOK(c) /\ EndOK(c)
  BY <1>3, <1>5, <1>7 DEF AtTask, StatusOK, EvaluationOK, AccountOK, EndOK
<1>11. AnswerOK(c)
  BY <1>1, <1>3, <1>5, <1>7 DEF AnswerOK, Listed
<1>. QED
  BY <1>1, <1>7, <1>8, <1>9, <1>10, <1>11, CheckedLater, LeaveKeeps DEF Checked

\* A node fails: the plan is failed and the answer says so.
LEMMA ErrorKeeps ==
  ASSUME ThreadInv, live, NEW next \in {"task_router", "replan", "finalize"},
         thread.next \in {"evaluate", "replan"},
         next = "replan" => thread.plan.revision >= 1,
         Leave(Error(next, thread.plan)),
         UNCHANGED <<live, enabled, died, crashes>>, VerdictsStay
  PROVE  ThreadInv'
<1> DEFINE p == thread.plan
<1>1. /\ thread \in Checkpoint /\ p \in PlanState
      /\ TasksOK(thread) /\ EvaluationOK(thread) /\ Accounted(p, enabled)
  BY DEF ThreadInv, ThreadTypeOK, Checkpoint, Checked, AccountOK
<1>2. PICK q : q = [p EXCEPT !.status = "failed"]
  OBVIOUS
<1>3. /\ q \in PlanState /\ q.status = "failed" /\ q.listed = p.listed
      /\ q.revision = p.revision /\ Sound(q) /\ Accounted(q, enabled)
      /\ \A i \in Slots : Status(q, i) = Status(p, i)
  BY <1>1, <1>2, StatusOnly DEF PlanStatus, TasksOK
<1>4. PICK c : c = [To(next, q) EXCEPT !.answer = "error"]
  OBVIOUS
<1>5. /\ c \in Checkpoint /\ c.plan = q /\ c.next = next
      /\ c.evaluation = thread.evaluation /\ c.answer = "error"
  <2>1. next \in Nodes
    BY DEF Nodes
  <2>. QED
    BY <1>1, <1>3, <1>4, <2>1, ToFields DEF Checkpoint, Answer
<1>6. Leave(c)
  BY <1>2, <1>4 DEF Error
<1>7. TasksOK(c)
  BY <1>1, <1>3, <1>5 DEF TasksOK
<1>8. /\ AtTask(c) /\ StatusOK(c) /\ EvaluationOK(c) /\ AnswerOK(c) /\ AccountOK(c)
      /\ EndOK(c)
  BY <1>1, <1>3, <1>5 DEF AtTask, StatusOK, EvaluationOK, AnswerOK, AccountOK, EndOK
<1>. QED
  BY <1>5, <1>6, <1>7, <1>8, CheckedLater, LeaveKeeps DEF Checked

\* A failing evaluation leaves a sound checkpoint.
LEMMA EvaluateFailsKeeps ==
  ASSUME ThreadInv, EvaluateFails
  PROVE  ThreadInv'
<1>1. /\ live /\ thread.next = "evaluate" /\ EvaluationOK(thread)
      /\ thread.plan.status = "running"
      /\ UNCHANGED <<live, enabled, died, crashes>> /\ VerdictsStay
  BY DEF EvaluateFails, ThreadInv, At, Checked, StatusOK, approvals, history, VerdictsStay
<1>2. /\ AfterEvaluation(thread.evaluation, thread.plan) \in {"replan", "finalize"}
      /\ AfterEvaluation(thread.evaluation, thread.plan) = "replan" =>
           thread.plan.revision >= 1
  BY <1>1 DEF AfterEvaluation, EvaluationOK
<1>3. Leave(Error(AfterEvaluation(thread.evaluation, thread.plan), thread.plan))
  BY DEF EvaluateFails
<1>. QED
  BY <1>1, <1>2, <1>3, ErrorKeeps

\* replan: a revision, none that is acceptable, or a failure of the LLM.
LEMMA ReplanKeeps ==
  ASSUME ThreadInv, NEW k \in 1 .. MaxListed - thread.plan.listed,
         NEW additions \in Additions(thread.plan, k), Replan(k, additions)
  PROVE  ThreadInv'
<1> DEFINE p == thread.plan
<1>1. /\ thread \in Checkpoint /\ p \in PlanState /\ live /\ thread.next = "replan"
      /\ TasksOK(thread) /\ EvaluationOK(thread) /\ AnswerOK(thread)
      /\ p.status \in {"evaluating", "failed"}
      /\ UNCHANGED <<live, enabled, died, crashes>> /\ VerdictsStay
  BY DEF Replan, ThreadInv, ThreadTypeOK, At, Checkpoint, Checked, StatusOK,
         approvals, history, VerdictsStay
<1>2. \A j \in Slots : Status(p, j) \notin {"running", "approved", "waiting"}
  BY <1>1 DEF TasksOK
<1>3. p.revision \in Nat /\ p.listed \in Nat /\ k \in Nat
  BY <1>1, PlanAssumption DEF PlanState
<1>4. PICK q : q = Revised(p, k, additions)
  OBVIOUS
<1>5. PICK new : new = p.listed + 1 .. p.listed + k
  OBVIOUS
<1>6. /\ q \in PlanState /\ q.status = "running" /\ q.listed = p.listed + k
      /\ q.revision = p.revision + 1 /\ Sound(q)
      /\ \A i \in new : Status(q, i) = "pending"
      /\ \A i \in Slots \ new :
           Status(q, i) = IF Status(p, i) \in {"pending", "ready"}
                          THEN "cancelled" ELSE Status(p, i)
  <2>1. Sound(p)
    BY <1>1 DEF TasksOK
  <2>. QED
    BY <1>1, <1>4, <1>5, <2>1, RevisedFacts
<1>7. PICK c : c = To("task_router", q)
  OBVIOUS
<1>8. /\ c \in Checkpoint /\ c.plan = q /\ c.next = "task_router"
      /\ c.evaluation = thread.evaluation /\ c.answer = thread.answer
  BY <1>1, <1>6, <1>7, ToFields DEF Nodes
<1>9. Leave(c)
  BY <1>4, <1>7 DEF Replan
<1>10. TasksOK(c)
  <2>1. \A i \in Slots : Status(q, i) \notin {"running", "approved", "waiting"}
    BY <1>2, <1>6
  <2>. QED
    BY <1>6, <1>8, <2>1 DEF TasksOK
<1>11. AtTask(c) /\ StatusOK(c) /\ EvaluationOK(c) /\ AccountOK(c) /\ EndOK(c)
  BY <1>1, <1>3, <1>6, <1>8 DEF AtTask, StatusOK, EvaluationOK, AccountOK, EndOK
<1>12. AnswerOK(c)
  <2>1. Listed(p) \subseteq Listed(q)
    BY <1>3, <1>6 DEF Listed
  <2>2. c.answer = "error" => q.revision >= 2
    BY <1>1, <1>3, <1>6, <1>8 DEF AnswerOK, EvaluationOK
  <2>. QED
    BY <1>1, <1>8, <2>1, <2>2 DEF AnswerOK
<1>. QED
  BY <1>1, <1>8, <1>9, <1>10, <1>11, <1>12, CheckedLater, LeaveKeeps DEF Checked

\* finalize: an answer that is there already is kept, and so is the status.
LEMMA FinalizeKeeps ==
  ASSUME ThreadInv, Finalize
  PROVE  ThreadInv'
<1> DEFINE p == thread.plan
<1>1. /\ thread \in Checkpoint /\ p \in PlanState /\ thread.next = "finalize"
      /\ TasksOK(thread) /\ EvaluationOK(thread) /\ AnswerOK(thread)
      /\ Accounted(p, enabled) /\ p.status \in {"evaluating", "failed"}
      /\ UNCHANGED <<enabled, died, crashes>> /\ VerdictsStay
      /\ thread' = Finalized /\ parked' = NoThread /\ live' = FALSE
  BY DEF Finalize, ThreadInv, ThreadTypeOK, At, Checkpoint, Checked, StatusOK, AccountOK,
         approvals, history, VerdictsStay
<1>2. PICK status, answer :
        /\ thread' = [To("end", [p EXCEPT !.status = status])
                        EXCEPT !.answer = answer, !.task = 0]
        /\ \/ status = p.status /\ answer = thread.answer
              /\ (p.status = "failed"
                  \/ (thread.evaluation # "satisfied" /\ thread.answer # "none"))
           \/ status = "completed" /\ answer = "answer"
              /\ thread.evaluation = "satisfied"
           \/ status = "failed" /\ answer = "unmet"
  BY <1>1 DEF Finalized
<1>3. thread.answer \in {"none", "paused", "error"}
  BY <1>1 DEF AnswerOK
<1>4. status \in PlanStatus /\ answer \in Answer
  BY <1>1, <1>2, <1>3 DEF PlanStatus, Answer
<1>5. PICK q : q = [p EXCEPT !.status = status]
  OBVIOUS
<1>6. /\ q \in PlanState /\ q.status = status /\ q.listed = p.listed
      /\ q.revision = p.revision /\ Sound(q) /\ Accounted(q, enabled) /\ Gaps(q) = Gaps(p)
      /\ \A i \in Slots : Status(q, i) = Status(p, i)
  BY <1>1, <1>4, <1>5, StatusOnly DEF TasksOK
<1>7. PICK c : c = [To("end", q) EXCEPT !.answer = answer, !.task = 0]
  OBVIOUS
<1>8. /\ c \in Checkpoint /\ c.plan = q /\ c.next = "end" /\ c.answer = answer
  <2>1. 0 \in 0 .. MaxListed
    BY PlanAssumption
  <2>2. PICK t : t = To("end", q)
    OBVIOUS
  <2>3. t \in Checkpoint /\ t.plan = q /\ t.next = "end"
    BY <1>1, <1>6, <2>2, ToFields
  <2>. QED
    BY <1>4, <1>7, <2>1, <2>2, <2>3 DEF Checkpoint
<1>9. TasksOK(c)
  BY <1>1, <1>6, <1>8 DEF TasksOK
<1>10. EndOK(c)
  <2>1. status = "completed" <=> answer = "answer"
    BY <1>1, <1>2, <1>3
  <2>2. status = "completed" => Gaps(p) = {}
    BY <1>1, <1>2 DEF EvaluationOK
  <2>3. \/ status \in {"completed", "failed"}
        \/ status = "evaluating" /\ answer \in {"paused", "error"}
           /\ answer = thread.answer
    BY <1>1, <1>2, <1>3
  <2>4. answer = thread.answer =>
          /\ answer = "paused" => \E i \in Listed(p) : verdict[i] # "none"
          /\ answer = "error" => p.status = "failed" \/ p.revision >= 2
    BY <1>1 DEF AnswerOK
  <2>5. status = "evaluating" => p.status = "evaluating"
    BY <1>2
  <2>. QED
    BY <1>6, <1>8, <2>1, <2>2, <2>3, <2>4, <2>5 DEF EndOK, Listed
<1>11. AtTask(c) /\ StatusOK(c) /\ EvaluationOK(c) /\ AnswerOK(c) /\ AccountOK(c)
  BY <1>6, <1>8 DEF AtTask, StatusOK, EvaluationOK, AnswerOK, AccountOK
<1>12. Checked(c)'
  BY <1>1, <1>8, <1>9, <1>10, <1>11, CheckedLater DEF Checked
<1>13. Checked(thread)' /\ thread' = c
  BY <1>2, <1>5, <1>7, <1>12
<1>14. Checked(parked)' /\ parked' \in Checkpoint
  <2>1. PICK d : d = NoThread
    OBVIOUS
  <2>2. d \in Checkpoint /\ Checked(d)
    BY <2>1, NoThreadChecked
  <2>3. Checked(d)'
    BY <1>1, <2>2, CheckedLater
  <2>. QED
    BY <1>1, <2>1, <2>2, <2>3
<1>15. ThreadTypeOK' /\ RestsOK'
  BY <1>1, <1>8, <1>13, <1>14 DEF ThreadInv, ThreadTypeOK, RestsOK
<1>. QED
  BY <1>1, <1>13, <1>14, <1>15 DEF ThreadInv

\* The executor: everything but a new request leaves the task finished.
LEMMA ExecutorKeeps ==
  ASSUME GrantInv, ThreadInv, NEW i \in Slots,
         \/ FailClosed(i) \/ Refused(i) \/ StepLimit(i) \/ Replay(i)
         \/ \E outcome \in {"completed", "empty", "transient", "permanent"} :
              Attempt(i, outcome)
         \/ \E did \in BOOLEAN, outcome \in {"completed", "failed"},
               record \in {"none", "receipt", "closed"} : Act(i, did, outcome, record)
  PROVE  ThreadInv'
<1> DEFINE p == thread.plan
<1>1. p \in PlanState /\ thread.plan = p
  BY DEF ThreadInv, ThreadTypeOK, Checkpoint
<1>2. VerdictsStay
  BY DEF FailClosed, Refused, StepLimit, Replay, Attempt, Act, Call, approvals,
         VerdictsStay, GrantInv, ApprovalTypeOK
<1>3. UNCHANGED <<live, enabled, died, crashes>>
  BY DEF FailClosed, Refused, StepLimit, Replay, Attempt, Act, history
<1>4. At("execute_task") /\ thread.task = i
  BY DEF FailClosed, Refused, StepLimit, Replay, Attempt, Act, Call, AtGate, Proceeds
<1>5. ASSUME NEW status \in {"completed", "failed", "denied", "cancelled", "expired"},
             Leave(Settled(p, i, status)) \/ Leave(Settled(Attempted(p, i), i, status))
             \/ Leave(Settled([Attempted(p, i) EXCEPT !.tasks[i].evidence = FALSE],
                              i, status))
      PROVE  ThreadInv'
  <2>1. status \in TaskStatus
    BY DEF TaskStatus
  <2>2. PICK q : /\ Moved(p, q, i, status)
                 /\ Leave(To("task_router", q))
    BY <1>1, <1>5, <2>1, WithStatusMoves, SettledMoves DEF Settled
  <2>3. PICK c : c = To("task_router", q)
    OBVIOUS
  <2>4. Leave(c)
    BY <2>2, <2>3
  <2> HIDE DEF p
  <2>. QED
    BY <1>1, <1>2, <1>3, <1>4, <2>2, <2>3, <2>4, SettleKeeps
<1>6. CASE FailClosed(i)
  BY <1>5, <1>6 DEF FailClosed
<1>7. CASE Refused(i)
  BY <1>5, <1>7 DEF Refused
<1>8. CASE StepLimit(i)
  BY <1>5, <1>8 DEF StepLimit
<1>9. CASE Replay(i)
  <2>1. receipt[i] \in {"completed", "failed"}
    BY <1>9 DEF Replay, Receipted, GrantInv, ApprovalTypeOK
  <2>. QED
    BY <1>5, <1>9, <2>1 DEF Replay
<1>10. ASSUME NEW outcome \in {"completed", "empty", "transient", "permanent"},
              Attempt(i, outcome)
       PROVE  ThreadInv'
  <2>1. CASE outcome = "completed"
    BY <1>5, <1>10, <2>1 DEF Attempt
  <2>2. CASE outcome = "empty"
    BY <1>5, <1>10, <2>2 DEF Attempt
  <2>3. CASE outcome = "permanent"
    BY <1>5, <1>10, <2>3 DEF Attempt
  <2>4. CASE outcome = "transient"
    <3>1. PICK q : q = WithStatus(Attempted(p, i), i, "failed")
      OBVIOUS
    <3>2. Moved(p, q, i, "failed")
      BY <1>1, <3>1, SettledMoves DEF TaskStatus
    <3>3. PICK c : c = To("retry_task", q)
      OBVIOUS
    <3>4. [To("task_router", q) EXCEPT !.next = "retry_task"] = c
      BY <3>3 DEF To
    <3>5. Leave(c) /\ Status(p, i) = "ready"
      BY <1>10, <2>4, <3>1, <3>4 DEF Attempt, Settled, AtGate
    <3> HIDE DEF p
    <3>. QED
      BY <1>1, <1>2, <1>3, <1>4, <3>2, <3>3, <3>5, SettleKeeps
  <2>. QED
    BY <2>1, <2>2, <2>3, <2>4
<1>11. ASSUME NEW did \in BOOLEAN, NEW outcome \in {"completed", "failed"},
              NEW record \in {"none", "receipt", "closed"}, Act(i, did, outcome, record)
       PROVE  ThreadInv'
  BY <1>5, <1>11 DEF Act
<1>. QED
  BY <1>6, <1>7, <1>8, <1>9, <1>10, <1>11

--------------------------------------------------------------------------------
(* The user, and the death of the process *)

\* A new thread is a sound checkpoint.
LEMMA StartKeeps ==
  ASSUME ThreadInv, NEW tools \in SUBSET Tools, Start(tools)
  PROVE  ThreadInv'
<1>1. /\ thread = NoThread /\ live' = TRUE /\ enabled' = tools
      /\ thread' = [NoThread EXCEPT !.next = "planner"]
      /\ UNCHANGED <<parked, died, crashes>> /\ VerdictsStay
  BY DEF Start, approvals, history, VerdictsStay
<1>2. PICK c : c = [NoThread EXCEPT !.next = "planner"]
  OBVIOUS
<1>3. /\ c \in Checkpoint /\ c.plan = NoPlan /\ c.next = "planner"
      /\ c.evaluation = "none" /\ c.answer = "none"
  <2>1. "planner" \in Nodes
    BY DEF Nodes
  <2>. QED
    BY <1>2, <2>1, NoThreadChecked DEF NoThread, Checkpoint
<1>4. TasksOK(c)
  BY <1>3, NoPlanSound DEF TasksOK, NoPlan, AbsentTask, Status
<1>5. /\ AtTask(c) /\ StatusOK(c) /\ EvaluationOK(c) /\ AnswerOK(c) /\ AccountOK(c)
      /\ EndOK(c)
  BY <1>3 DEF AtTask, StatusOK, EvaluationOK, AnswerOK, AccountOK, EndOK
<1>6. Checked(c)'
  BY <1>1, <1>3, <1>4, <1>5, CheckedLater DEF Checked
<1>7. PICK d : d = parked
  OBVIOUS
<1>8. d \in Checkpoint /\ Checked(d) /\ (d = NoThread \/ d.next = "approval")
  BY <1>7 DEF ThreadInv, ThreadTypeOK
<1>9. Checked(d)'
  BY <1>1, <1>8, CheckedLater DEF NoThread
<1>10. Checked(thread)' /\ Checked(parked)'
  BY <1>1, <1>2, <1>6, <1>7, <1>9
<1>11. ThreadTypeOK' /\ RestsOK'
  BY <1>1, <1>2, <1>3 DEF ThreadInv, ThreadTypeOK, RestsOK
<1>. QED
  BY <1>1, <1>10, <1>11 DEF ThreadInv

\* A step that leaves both checkpoints alone.
LEMMA SameThreads ==
  ASSUME ThreadInv, UNCHANGED <<thread, parked, crashes>>, VerdictsStay,
         live' \in BOOLEAN, died' \in BOOLEAN, enabled' \in SUBSET Tools,
         enabled' = enabled \/ thread.next = "approval", RestsOK'
  PROVE  ThreadInv'
<1>1. PICK c, d : c = thread /\ d = parked
  OBVIOUS
<1>2. /\ c \in Checkpoint /\ Checked(c)
      /\ d \in Checkpoint /\ Checked(d) /\ (d = NoThread \/ d.next = "approval")
  BY <1>1 DEF ThreadInv, ThreadTypeOK
<1>3. Checked(c)'
  BY <1>1, <1>2, CheckedLater
<1>4. Checked(d)'
  BY <1>2, CheckedLater DEF NoThread
<1>5. Checked(thread)' /\ Checked(parked)'
  BY <1>1, <1>3, <1>4
<1>6. ThreadTypeOK'
  BY DEF ThreadInv, ThreadTypeOK
<1>. QED
  BY <1>5, <1>6 DEF ThreadInv

\* What a dead process leaves: the latest checkpoint, or the one before the
\* approval node.
LEMMA DieKeeps ==
  ASSUME ThreadInv, Die, VerdictsStay
  PROVE  ThreadInv'
<1>1. /\ thread' = thread \/ (thread' = parked /\ parked # NoThread)
      /\ live' = FALSE /\ died' = TRUE /\ crashes' = crashes + 1 /\ crashes < MaxCrashes
      /\ parked' = parked /\ enabled' = enabled
  BY DEF Die
<1>2. PICK c, d : c = thread /\ d = parked
  OBVIOUS
<1>3. c \in Checkpoint /\ Checked(c) /\ d \in Checkpoint /\ Checked(d)
  BY <1>2 DEF ThreadInv, ThreadTypeOK
<1>4. Checked(c)' /\ Checked(d)'
  BY <1>1, <1>3, CheckedLater
<1>5. Checked(thread)' /\ Checked(parked)'
  BY <1>1, <1>2, <1>4
<1>6. ThreadTypeOK' /\ RestsOK'
  <2>1. crashes' \in 0 .. MaxCrashes
    BY <1>1, GraphAssumption DEF ThreadInv, ThreadTypeOK
  <2>2. live' \in BOOLEAN /\ died' \in BOOLEAN
    BY <1>1
  <2>3. thread' \in Checkpoint /\ parked' \in Checkpoint /\ enabled' \in SUBSET Tools
    BY <1>1 DEF ThreadInv, ThreadTypeOK
  <2>. QED
    BY <1>1, <2>1, <2>2, <2>3 DEF ThreadTypeOK, RestsOK
<1>. QED
  BY <1>1, <1>5, <1>6 DEF ThreadInv

\* What the user and the clock do touches approvals only.
LEMMA UserKeeps ==
  ASSUME GrantInv, ThreadInv, User
  PROVE  ThreadInv'
<1>1. ASSUME NEW tools \in SUBSET Tools, Resume(tools)
      PROVE  ThreadInv'
  <2>1. /\ thread.next = "approval" /\ live' = TRUE /\ enabled' = tools /\ died' = FALSE
        /\ UNCHANGED <<thread, parked, crashes>> /\ VerdictsStay
    BY <1>1 DEF Resume, approvals, VerdictsStay
  <2>. QED
    BY <2>1, SameThreads DEF RestsOK
<1>2. ASSUME NEW i \in Slots, NEW decision \in {"approved", "denied", "cancelled"},
             Decide(i, decision)
      PROVE  ThreadInv'
  <2>1. UNCHANGED <<thread, parked, live, enabled, died, crashes>>
    BY <1>2 DEF Decide
  <2>2. VerdictsStay
    BY <1>2 DEF Decide, VerdictsStay, GrantInv, ApprovalTypeOK
  <2>. QED
    BY <2>1, <2>2, SameThreads DEF ThreadInv, ThreadTypeOK, RestsOK
<1>. QED
  BY <1>1, <1>2, StartKeeps DEF User

\* Every fault, and an expiry, keeps both checkpoints sound.
LEMMA FaultsKeep ==
  ASSUME GrantInv, ThreadInv, Faults
  PROVE  ThreadInv'
<1>1. CASE Crash
  BY <1>1, DieKeeps DEF Crash, approvals, VerdictsStay
<1>2. ASSUME NEW i \in Slots, Expire(i) PROVE ThreadInv'
  <2>1. UNCHANGED <<thread, parked, live, enabled, died, crashes>>
    BY <1>2 DEF Expire, history
  <2>2. VerdictsStay
    BY <1>2 DEF Expire, VerdictsStay, GrantInv, ApprovalTypeOK
  <2>. QED
    BY <2>1, <2>2, SameThreads DEF ThreadInv, ThreadTypeOK, RestsOK
<1>3. ASSUME NEW i \in Slots, CrashAsking(i) PROVE ThreadInv'
  BY <1>3, DieKeeps DEF CrashAsking, Ask, VerdictsStay, GrantInv, ApprovalTypeOK
<1>4. ASSUME NEW i \in Slots, NEW did \in BOOLEAN, NEW outcome \in {"completed", "failed"},
             NEW record \in {"none", "receipt", "closed"},
             CrashActing(i, did, outcome, record)
      PROVE  ThreadInv'
  BY <1>4, DieKeeps DEF CrashActing, Call, VerdictsStay, GrantInv, ApprovalTypeOK
<1>. QED
  BY <1>1, <1>2, <1>3, <1>4 DEF Faults

\* Every node of the run keeps both checkpoints sound.
LEMMA RunKeeps ==
  ASSUME GrantInv, ThreadInv, Run
  PROVE  ThreadInv'
<1>1. CASE \/ PlanFails
           \/ \E k \in Slots : \E additions \in Additions(NoPlan, k) : Plan(k, additions)
  BY <1>1, PlanKeeps
<1>2. CASE RouteTask \/ RetryTask
  BY <1>2, RouteKeeps, RetryKeeps
<1>3. CASE Interrupt \/ ApprovalResumed
  BY <1>3, InterruptKeeps, ApprovalResumedKeeps
<1>4. ASSUME NEW i \in Slots, AskApproval(i) PROVE ThreadInv'
  BY <1>4, AskApprovalKeeps
<1>5. ASSUME NEW i \in Slots,
             \/ FailClosed(i) \/ Refused(i) \/ StepLimit(i) \/ Replay(i)
             \/ \E outcome \in {"completed", "empty", "transient", "permanent"} :
                  Attempt(i, outcome)
             \/ \E did \in BOOLEAN, outcome \in {"completed", "failed"},
                   record \in {"none", "receipt", "closed"} : Act(i, did, outcome, record)
      PROVE  ThreadInv'
  BY <1>5, ExecutorKeeps
<1>6. CASE (\E satisfied, again \in BOOLEAN : Evaluate(satisfied, again)) \/ EvaluateFails
  BY <1>6, EvaluateKeeps, EvaluateFailsKeeps
<1>7. CASE \E k \in 1 .. MaxListed - thread.plan.listed :
             \E additions \in Additions(thread.plan, k) : Replan(k, additions)
  BY <1>7, ReplanKeeps
<1>8. CASE ReplanFails
  <2>1. /\ live /\ thread.next = "replan" /\ Leave(Error("task_router", thread.plan))
        /\ UNCHANGED <<live, enabled, died, crashes>> /\ VerdictsStay
    BY <1>8 DEF ReplanFails, At, approvals, history, VerdictsStay
  <2>. QED
    BY <2>1, ErrorKeeps
<1>9. CASE ReplanRaises
  <2>1. /\ thread.next = "replan" /\ live' = FALSE
        /\ UNCHANGED <<thread, parked, enabled, died, crashes>> /\ VerdictsStay
    BY <1>9 DEF ReplanRaises, At, approvals, history, VerdictsStay
  <2>. QED
    BY <2>1, SameThreads DEF ThreadInv, ThreadTypeOK, RestsOK
<1>10. CASE Finalize
  BY <1>10, FinalizeKeeps
<1> USE DEF Run
<1>. QED
  BY <1>1, <1>2, <1>3, <1>4, <1>5, <1>6, <1>7, <1>8, <1>9, <1>10

\* No thread exists initially.
LEMMA ThreadInitially == Init => ThreadInv
<1> SUFFICES ASSUME Init PROVE ThreadInv
  OBVIOUS
<1>1. /\ thread = NoThread /\ parked = NoThread /\ live = FALSE /\ enabled = {}
      /\ died = FALSE /\ crashes = 0
  BY DEF Init
<1>2. ThreadTypeOK
  <2>1. 0 \in 0 .. MaxCrashes
    BY GraphAssumption
  <2>. QED
    BY <1>1, <2>1, NoThreadChecked DEF ThreadTypeOK
<1>3. RestsOK
  BY <1>1 DEF RestsOK, NoThread
<1>4. Checked(thread) /\ Checked(parked)
  BY <1>1, NoThreadChecked
<1>. QED
  BY <1>1, <1>2, <1>3, <1>4 DEF ThreadInv

\* The invariant is inductive.
LEMMA Inductive == IInv /\ [Next]_vars => IInv'
<1> SUFFICES ASSUME IInv, [Next]_vars PROVE IInv'
  OBVIOUS
<1>1. GrantInv'
  BY GrantKept DEF IInv
<1>2. CASE Run
  BY <1>1, <1>2, RunKeeps DEF IInv
<1>3. CASE User
  BY <1>1, <1>3, UserKeeps DEF IInv
<1>4. CASE Faults
  BY <1>1, <1>4, FaultsKeep DEF IInv
<1>5. CASE Over \/ UNCHANGED vars
  <2>1. /\ UNCHANGED <<thread, parked, live, enabled, died, crashes>>
        /\ VerdictsStay
    BY <1>5 DEF Over, vars, approvals, history, VerdictsStay
  <2>2. ThreadInv
    BY DEF IInv
  <2>3. live' \in BOOLEAN /\ died' \in BOOLEAN /\ enabled' \in SUBSET Tools /\ RestsOK'
    BY <2>1, <2>2 DEF ThreadInv, ThreadTypeOK, RestsOK
  <2>. QED
    BY <1>1, <2>1, <2>2, <2>3, SameThreads DEF IInv
<1>. QED
  BY <1>1, <1>2, <1>3, <1>4, <1>5 DEF IInv, Next

\* Both checkpoints are sound, and grants accounted for, in every reachable state.
THEOREM Invariance == Spec => []IInv
<1>1. Init => IInv
  BY GrantInitially, ThreadInitially DEF IInv
<1>. QED
  BY <1>1, Inductive, PTL DEF Spec

\* Type correctness of every state, among them what a crash leaves.
THEOREM TypeCorrect == Spec => []TypeOK
<1>1. IInv => TypeOK
  BY DEF IInv, GrantInv, ApprovalTypeOK, ThreadInv, ThreadTypeOK, TypeOK
<1>. QED
  BY <1>1, Invariance, PTL

\* A thread at rest has ended or waits where find_waiting_run finds it with the one
\* task it is about; otherwise the process died in it or the replanner's call
\* failed (runtime.py:150-174, nodes.py:202-262).
THEOREM StoppedFound == Spec => []StoppedIsFound
<1>1. IInv => StoppedIsFound
  <2> SUFFICES ASSUME IInv, ~live, thread.next = "approval"
               PROVE  /\ {i \in Listed(thread.plan) : Status(thread.plan, i) = "waiting"}
                           = {thread.task}
                      /\ verdict[thread.task] # "none"
    BY DEF IInv, ThreadInv, RestsOK, StoppedIsFound
  <2>1. thread.plan \in PlanState
    BY DEF IInv, ThreadInv, ThreadTypeOK, Checkpoint
  <2>2. /\ thread.task \in Slots /\ Status(thread.plan, thread.task) = "waiting"
        /\ verdict[thread.task] # "none"
    BY DEF IInv, ThreadInv, Checked, AtTask
  <2>3. thread.task \in Listed(thread.plan)
    BY <2>2 DEF IInv, ThreadInv, Checked, TasksOK, Sound, Placed
  <2>4. \A i \in Listed(thread.plan) :
          Status(thread.plan, i) = "waiting" => i = thread.task
    BY <2>1, ListedSlots DEF IInv, ThreadInv, Checked, TasksOK
  <2>. QED
    BY <2>2, <2>3, <2>4
<1>. QED
  BY <1>1, Invariance, PTL

\* A thread that ended is "completed" exactly when it shows the answer to the goal,
\* and leaves no required task open nor any that could still run
\* (nodes.py:330-361, routing.py:32-45).
THEOREM EndsJustified == Spec => []EndJustified
<1>1. IInv => EndJustified
  <2> SUFFICES ASSUME IInv, thread.next = "end" PROVE EndJustified
    BY DEF EndJustified
  <2>1. EndOK(thread) /\ AccountOK(thread)
    BY DEF IInv, ThreadInv, Checked
  <2>2. Accounted(thread.plan, enabled)
    BY <2>1 DEF AccountOK
  <2>. QED
    BY <2>1, <2>2 DEF EndOK, Accounted, Stuck, EndJustified
<1>. QED
  BY <1>1, Invariance, PTL

================================================================================
