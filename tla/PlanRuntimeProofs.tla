--------------------------- MODULE PlanRuntimeProofs ---------------------------
(***************************************************************************)
(* TLAPS proofs about PlanRuntime: for every set of drafts, tools and      *)
(* bounds, what one plan goes through over all its script runs.            *)
(***************************************************************************)
EXTENDS PlanRuntime, TaskGraphProofs, FiniteSetTheorems

Terminal == {"completed", "failed", "cancelled"}

Underway(p, i) == Status(p, i) \in {"running", "approved"}

\* How the three objects and the script belong together.
ScriptInv ==
  /\ pc = "idle" => held = NoPlan /\ ~resumed /\ plan = saved
  /\ ~resumed => held = NoPlan
  /\ pc \in {"loop", "pause"} => plan = saved
  /\ pc = "loop" => cursor = 1
  /\ pc # "idle" => /\ saved.status = "running"
                    /\ saved.listed = plan.listed /\ saved.revision = plan.revision
                    /\ held.listed <= plan.listed
  /\ pc \notin {"idle", "replan"} => plan.status = "running"
  /\ saved.status # "evaluating"
  /\ saved.status = "none" => /\ saved = NoPlan
                              /\ acted = [i \in Slots |-> 0]
                              /\ born = [i \in Slots |-> 0]

ObjectInv == Sound(plan) /\ Sound(saved) /\ Sound(held)

\* Only the task in the executor is under way, and only in memory.
AttemptInv ==
  /\ \A i \in Slots : Underway(plan, i) => pc = "attempt" /\ i = active
  /\ pc = "attempt" => active \in Slots /\ Underway(plan, active)
  /\ \A i \in Slots : ~Underway(saved, i) /\ ~Underway(held, i)
  /\ \A i \in Slots : /\ saved.tasks[i].attempts <= plan.tasks[i].attempts
                      /\ held.tasks[i].attempts <= plan.tasks[i].attempts

\* A task waits only in a plan that is parked or about to be, and from the first
\* step of the run that resumes it until its attempt is over; a request is
\* pending only while its task waits.
WaitingInv ==
  /\ \A i \in Slots : Status(plan, i) = "waiting" =>
       pc \in {"idle", "loop"} \/ (pc = "pause" /\ i = active)
  /\ pc = "pause" => active \in Slots /\ Status(plan, active) = "waiting"
  /\ \A i \in Slots : Status(saved, i) = "waiting" =>
       /\ verdict[i] # "none"
       /\ pc \in {"idle", "loop"} \/ (pc \in {"attempt", "pause"} /\ i = active)
  /\ \A i \in Slots : Status(held, i) # "waiting"
  /\ saved.status = "waiting" => \E i \in Slots : Status(saved, i) = "waiting"
  /\ \A i \in Slots : verdict[i] = "pending" =>
       pc \in {"idle", "pause"} /\ Status(saved, i) = "waiting"

\* What acted was granted, and its task is over as long as the plan goes on.
ActedInv ==
  /\ pc = "attempt" /\ Status(plan, active) = "approved" =>
       verdict[active] \in {"approved", "expired"}
  /\ \A i \in Slots : acted[i] # 0 =>
       /\ acted[i] = 1 /\ verdict[i] \in {"approved", "expired"}
       /\ \/ saved.status \in Terminal
          \/ /\ Status(plan, i) \in {"completed", "failed"}
             /\ Status(saved, i) \in {"completed", "failed"}

\* An action that a later revision proposes again had come to nothing.
Superseded(p) ==
  \A i, j \in Listed(p) :
    p.tasks[i].kind \in Tools /\ p.tasks[i].kind = p.tasks[j].kind /\ born[i] < born[j] =>
      Status(p, i) \in {"failed", "blocked", "expired", "cancelled"}

RevisionInv ==
  /\ Superseded(plan) /\ Superseded(saved) /\ Superseded(held)
  /\ saved.status \notin Terminal => \A i \in Slots : born[i] <= plan.revision

\* The tasks the pass has left pending cannot run; when it ends with nothing
\* ready, the plan is accounted for, and resume() holds only such plans.
EndInv ==
  /\ pc = "refresh" =>
       \A i \in Listed(plan) : i < cursor /\ Status(plan, i) = "pending" => Stuck(plan, i, enabled)
  /\ pc = "replan" => Accounted(plan, enabled)
  /\ Accounted(held, enabled)
  /\ saved.status \in {"completed", "failed"} => Accounted(saved, enabled)
  /\ saved.status = "completed" => Gaps(saved) = {}

IInv ==
  /\ TypeOK /\ ScriptInv /\ ObjectInv /\ AttemptInv
  /\ WaitingInv /\ ActedInv /\ RevisionInv /\ EndInv

\* The invariant holds before there is a plan.
LEMMA Initially == Init => IInv
<1> SUFFICES ASSUME Init PROVE IInv
  OBVIOUS
<1>1. plan = NoPlan /\ saved = NoPlan /\ held = NoPlan /\ pc = "idle" /\ ~resumed
  BY DEF Init
<1>2. /\ NoPlan.status = "none" /\ NoPlan.listed = 0
      /\ \A i \in Slots : Status(NoPlan, i) = "absent" /\ NoPlan.tasks[i].attempts = 0
  BY DEF NoPlan, AbsentTask, Status
<1>3. TypeOK
  <2>1. 0 \in 0 .. MaxListed /\ 1 \in 1 .. MaxListed + 1
    BY PlanAssumption
  <2>2. verdict \in [Slots -> Verdict] /\ acted \in [Slots -> Nat] /\ born \in [Slots -> Nat]
    BY DEF Init, Verdict
  <2>. QED
    BY <2>1, <2>2, NoPlanType DEF Init, TypeOK
<1>4. ScriptInv
  BY <1>1, <1>2 DEF Init, ScriptInv
<1>5. ObjectInv
  BY <1>1, NoPlanSound DEF ObjectInv
<1>6. AttemptInv
  BY <1>1, <1>2 DEF AttemptInv, Underway
<1>7. WaitingInv
  BY <1>1, <1>2 DEF Init, WaitingInv
<1>8. ActedInv
  BY <1>1 DEF Init, ActedInv
<1>9. RevisionInv
  <2>1. \A i \in Slots : born[i] <= plan.revision
    BY DEF Init, NoPlan
  <2>. QED
    BY <1>1, <1>2, <2>1 DEF RevisionInv, Superseded, Listed
<1>10. EndInv
  BY <1>1, <1>2 DEF EndInv, Accounted, Listed
<1>. QED
  BY <1>3, <1>4, <1>5, <1>6, <1>7, <1>8, <1>9, <1>10 DEF IInv

--------------------------------------------------------------------------------
(* Steps of the loop *)

\* No later revision proposes an action that is still open.
LEMMA MovedSuperseded ==
  ASSUME NEW p, NEW q, NEW i \in Slots, NEW status, Moved(p, q, i, status),
         Superseded(p), p \in PlanState,
         Status(p, i) \notin {"failed", "blocked", "expired", "cancelled"}
  PROVE  Superseded(q)
<1>1. Listed(p) \subseteq Slots /\ Listed(q) = Listed(p)
  BY PlanAssumption DEF Moved, Listed, Slots, PlanState
<1>. QED
  BY <1>1 DEF Moved, Superseded

\* The loop goes on after a task that is over: it waited, was in the executor, or
\* was ready and could not be proposed.
LEMMA SettleKeeps ==
  ASSUME IInv, NEW q, NEW i \in Slots, NEW status \in {"completed", "failed", "denied",
                                                       "expired", "cancelled"},
         Moved(plan, q, i, status), LoopWith(q),
         UNCHANGED <<held, verdict, enabled, resumed, born>>,
         \/ pc = "loop" /\ Status(plan, i) = "waiting"
         \/ pc = "attempt" /\ active = i
         \/ pc = "refresh" /\ Status(plan, i) = "ready"
            /\ \A j \in Slots : Status(plan, j) # "waiting",
         \/ acted' = acted
         \/ /\ pc = "attempt" /\ Status(plan, i) = "approved"
            /\ status \in {"completed", "failed"}
            /\ \E n \in {acted[i], acted[i] + 1} : acted' = [acted EXCEPT ![i] = n]
  PROVE  IInv'
<1>1. /\ plan' = q /\ saved' = q /\ pc' = "loop" /\ active' = 0 /\ cursor' = 1
      /\ q \in PlanState /\ plan \in PlanState /\ held \in PlanState
      /\ q.status = plan.status /\ q.listed = plan.listed /\ q.revision = plan.revision
      /\ held' = held /\ pc # "idle"
  BY DEF LoopWith, Moved, IInv, TypeOK
<1>2. Status(plan, i) \in {"waiting", "ready", "running", "approved"}
  BY DEF IInv, AttemptInv, Underway
<1>3. \A j \in Slots : verdict[j] # "pending"
  BY DEF IInv, WaitingInv
<1>4. TypeOK'
  <2>1. acted' \in [Slots -> Nat]
    BY DEF IInv, TypeOK
  <2>. QED
    BY <1>1, <2>1, PlanAssumption DEF IInv, TypeOK
<1>5. /\ plan.status = "running" /\ saved.status = "running" /\ held.listed <= plan.listed
      /\ ~resumed => held = NoPlan
  BY DEF IInv, ScriptInv, LoopWith, AttemptInv, WaitingInv
<1>6. ScriptInv'
  BY <1>1, <1>5 DEF ScriptInv
<1>7. Sound(q)
  <2>1. DepsComplete(plan, i)
    BY <1>2 DEF IInv, ObjectInv, Sound, MayStart
  <2>. QED
    BY <1>1, <1>2, <2>1, MovedSound DEF IInv, ObjectInv
<1>8. ObjectInv'
  BY <1>1, <1>7 DEF IInv, ObjectInv
<1>9. \A j \in Slots : Status(q, j) = IF j = i THEN status ELSE Status(plan, j)
  BY DEF Moved
<1>10. \A j \in Slots : Status(q, j) # "waiting" /\ ~Underway(q, j)
  BY <1>9 DEF IInv, AttemptInv, WaitingInv, Sound, ObjectInv, OneWaits, Underway
<1>11. AttemptInv'
  <2>1. \A j \in Slots : /\ q.tasks[j].attempts >= plan.tasks[j].attempts
                         /\ held.tasks[j].attempts <= plan.tasks[j].attempts
                         /\ q.tasks[j].attempts \in Nat /\ plan.tasks[j].attempts \in Nat
                         /\ held.tasks[j].attempts \in Nat
    BY <1>1, TaskFields DEF Moved, IInv, AttemptInv
  <2>2. \A j \in Slots : q.tasks[j].attempts <= q.tasks[j].attempts
                         /\ held.tasks[j].attempts <= q.tasks[j].attempts
    BY <2>1
  <2>3. \A j \in Slots : ~Underway(held, j)
    BY DEF IInv, AttemptInv
  <2>. QED
    BY <1>1, <1>10, <2>2, <2>3 DEF AttemptInv, Underway, Status
<1>12. WaitingInv'
  BY <1>1, <1>3, <1>5, <1>10 DEF IInv, WaitingInv, Status
<1>13. ActedInv'
  <2>1. ASSUME NEW j \in Slots, acted'[j] # 0
        PROVE  /\ acted'[j] = 1 /\ verdict[j] \in {"approved", "expired"}
               /\ Status(q, j) \in {"completed", "failed"}
    <3>1. CASE acted'[j] = acted[j]
      BY <1>2, <1>5, <1>9, <2>1, <3>1 DEF IInv, ActedInv, Terminal
    <3>2. CASE acted'[j] # acted[j]
      <4>1. /\ j = i /\ acted'[i] = acted[i] + 1 /\ Status(plan, i) = "approved"
            /\ pc = "attempt" /\ status \in {"completed", "failed"}
        BY <3>2 DEF IInv, TypeOK
      <4>2. acted[i] = 0
        BY <1>5, <4>1 DEF IInv, ActedInv, Terminal
      <4>3. i = active
        BY <4>1 DEF IInv, AttemptInv, Underway
      <4>. QED
        BY <1>9, <4>1, <4>2, <4>3 DEF IInv, ActedInv
    <3>. QED
      BY <3>1, <3>2
  <2>. QED
    BY <1>1, <2>1 DEF ActedInv, Status
<1>14. RevisionInv'
  <2>1. Superseded(q)
    BY <1>1, <1>2, MovedSuperseded DEF IInv, RevisionInv
  <2>2. \A j \in Slots : born[j] <= plan.revision
    BY <1>5 DEF IInv, RevisionInv, Terminal
  <2>3. Superseded(q)' /\ Superseded(held)'
    BY <1>1, <2>1 DEF IInv, RevisionInv, Superseded, Listed, Status
  <2>. QED
    BY <1>1, <2>2, <2>3 DEF RevisionInv
<1>15. EndInv'
  BY <1>1, <1>5 DEF IInv, EndInv, Accounted, Stuck, Listed, Status
<1>. QED
  BY <1>4, <1>6, <1>8, <1>11, <1>12, <1>13, <1>14, <1>15 DEF IInv

\* A task goes to the executor.
LEMMA BeginKeeps ==
  ASSUME IInv, NEW i \in Slots, NEW status \in {"running", "approved"},
         Begin(i, status), UNCHANGED <<verdict, enabled, history>>,
         \/ /\ pc = "loop" /\ Status(plan, i) = "waiting"
            /\ status = "approved" /\ verdict[i] = "approved"
         \/ pc = "refresh" /\ Status(plan, i) = "ready" /\ status = "running"
  PROVE  IInv'
<1> DEFINE q == WithStatus(plan, i, status)
<1>1. /\ plan' = q /\ saved' = saved /\ held' = held /\ pc' = "attempt"
      /\ active' = i /\ cursor' = 1 /\ resumed' = resumed /\ verdict' = verdict
      /\ enabled' = enabled /\ acted' = acted /\ born' = born
      /\ plan \in PlanState /\ saved \in PlanState /\ held \in PlanState
  BY DEF Begin, IInv, TypeOK, history
<1>2. status \in TaskStatus
  BY DEF TaskStatus
<1>3. Moved(plan, q, i, status)
  BY <1>1, <1>2, WithStatusMoves
<1> HIDE DEF q
<1>4. /\ q \in PlanState /\ q.status = plan.status /\ q.listed = plan.listed
      /\ q.revision = plan.revision
      /\ \A j \in Slots : Status(q, j) = IF j = i THEN status ELSE Status(plan, j)
      /\ \A j \in Slots : q.tasks[j].attempts >= plan.tasks[j].attempts
  BY <1>3 DEF Moved
<1>5. \A j \in Slots : verdict[j] # "pending"
  BY DEF IInv, WaitingInv
<1>6. TypeOK'
  BY <1>1, <1>4, PlanAssumption DEF IInv, TypeOK, Slots
<1>7. ScriptInv'
  BY <1>1, <1>4 DEF IInv, ScriptInv
<1>8. Sound(q)
  <2>1. DepsComplete(plan, i)
    BY DEF IInv, ObjectInv, Sound, MayStart
  <2>. QED
    BY <1>1, <1>3, <2>1, MovedSound DEF IInv, ObjectInv
<1>9. ObjectInv'
  BY <1>1, <1>8 DEF IInv, ObjectInv
<1>10. \A j \in Slots : Status(q, j) # "waiting"
  BY <1>4 DEF IInv, ObjectInv, Sound, OneWaits, WaitingInv
<1>11. \A j \in Slots : Underway(q, j) <=> j = i
  BY <1>4 DEF IInv, AttemptInv, Underway
<1>12. AttemptInv'
  <2>1. \A j \in Slots : saved.tasks[j].attempts <= q.tasks[j].attempts
                         /\ held.tasks[j].attempts <= q.tasks[j].attempts
    BY <1>1, <1>4, TaskFields DEF IInv, AttemptInv
  <2>2. \A j \in Slots : ~Underway(saved, j) /\ ~Underway(held, j)
    BY DEF IInv, AttemptInv
  <2>. QED
    BY <1>1, <1>11, <2>1, <2>2 DEF AttemptInv, Underway, Status
<1>13. WaitingInv'
  <2>1. ASSUME NEW j \in Slots, Status(saved, j) = "waiting"
        PROVE  verdict[j] # "none" /\ j = i
    BY <2>1 DEF IInv, WaitingInv, ScriptInv, ObjectInv, Sound, OneWaits
  <2>2. saved.status = "running"
    BY DEF IInv, ScriptInv
  <2>. QED
    BY <1>1, <1>5, <1>10, <2>1, <2>2 DEF IInv, WaitingInv, Status
<1>14. ActedInv'
  <2>1. Status(q, i) = "approved" => verdict[i] \in {"approved", "expired"}
    BY <1>4
  <2>2. \A j \in Slots : acted[j] # 0 =>
          /\ acted[j] = 1 /\ verdict[j] \in {"approved", "expired"}
          /\ Status(q, j) \in {"completed", "failed"}
          /\ Status(saved, j) \in {"completed", "failed"}
    BY <1>4 DEF IInv, ActedInv, ScriptInv, Terminal
  <2>. QED
    BY <1>1, <2>1, <2>2 DEF ActedInv, Status
<1>15. RevisionInv'
  <2>1. Superseded(q)
    BY <1>1, <1>3, MovedSuperseded DEF IInv, RevisionInv
  <2>2. Superseded(plan)' /\ Superseded(held)' /\ Superseded(saved)'
    BY <1>1, <2>1 DEF IInv, RevisionInv, Superseded, Listed, Status
  <2>. QED
    BY <1>1, <1>4, <2>2 DEF IInv, RevisionInv
<1>16. EndInv'
  BY <1>1 DEF IInv, EndInv, ScriptInv, Accounted, Stuck, Listed, Status
<1>. QED
  BY <1>6, <1>7, <1>9, <1>12, <1>13, <1>14, <1>15, <1>16 DEF IInv

\* A ready task is put to the user.
LEMMA AskKeeps ==
  ASSUME IInv, NEW i \in Slots, GateWait(i), UNCHANGED <<enabled, history>>,
         pc = "refresh", Status(plan, i) = "ready",
         verdict' = [verdict EXCEPT ![i] = "pending"]
  PROVE  IInv'
<1> DEFINE q == WithStatus(plan, i, "waiting")
<1>1. /\ plan' = q /\ saved' = q /\ held' = held /\ pc' = "pause"
      /\ active' = i /\ cursor' = 1 /\ resumed' = resumed
      /\ enabled' = enabled /\ acted' = acted /\ born' = born
      /\ plan \in PlanState /\ saved \in PlanState /\ held \in PlanState
  BY DEF GateWait, IInv, TypeOK, history
<1>2. "waiting" \in TaskStatus
  BY DEF TaskStatus
<1>3. Moved(plan, q, i, "waiting")
  BY <1>1, <1>2, WithStatusMoves
<1> HIDE DEF q
<1>4. /\ q \in PlanState /\ q.status = plan.status /\ q.listed = plan.listed
      /\ q.revision = plan.revision
      /\ \A j \in Slots : Status(q, j) = IF j = i THEN "waiting" ELSE Status(plan, j)
      /\ \A j \in Slots : q.tasks[j].attempts >= plan.tasks[j].attempts
  BY <1>3 DEF Moved
<1>5. /\ verdict'[i] = "pending"
      /\ \A j \in Slots \ {i} : verdict'[j] = verdict[j] /\ verdict[j] # "pending"
  BY DEF IInv, TypeOK, WaitingInv
<1>6. TypeOK'
  <2>1. verdict' \in [Slots -> Verdict]
    BY DEF IInv, TypeOK, Verdict
  <2>. QED
    BY <1>1, <1>4, <2>1, PlanAssumption DEF IInv, TypeOK, Slots
<1>7. ScriptInv'
  BY <1>1, <1>4 DEF IInv, ScriptInv
<1>8. Sound(q)
  <2>1. DepsComplete(plan, i) /\ \A j \in Slots : Status(plan, j) # "waiting"
    BY DEF IInv, ObjectInv, Sound, MayStart, WaitingInv
  <2>. QED
    BY <1>1, <1>3, <2>1, MovedSound DEF IInv, ObjectInv
<1>9. ObjectInv'
  BY <1>1, <1>8 DEF IInv, ObjectInv
<1>10. \A j \in Slots : /\ Status(q, j) = "waiting" <=> j = i
                        /\ ~Underway(q, j)
  BY <1>4 DEF IInv, AttemptInv, WaitingInv, Underway
<1>12. AttemptInv'
  <2>1. \A j \in Slots : q.tasks[j].attempts <= q.tasks[j].attempts
                         /\ held.tasks[j].attempts <= q.tasks[j].attempts
    BY <1>1, <1>4, TaskFields DEF IInv, AttemptInv
  <2>2. \A j \in Slots : ~Underway(held, j)
    BY DEF IInv, AttemptInv
  <2>. QED
    BY <1>1, <1>10, <2>1, <2>2 DEF AttemptInv, Underway, Status
<1>13. WaitingInv'
  <2>1. q.status = "running" /\ \A j \in Slots : Status(held, j) # "waiting"
    BY <1>4 DEF IInv, ScriptInv, WaitingInv
  <2>. QED
    BY <1>1, <1>5, <1>10, <2>1 DEF WaitingInv, Status
<1>14. ActedInv'
  <2>1. \A j \in Slots : acted[j] # 0 =>
          /\ j # i /\ acted[j] = 1 /\ verdict[j] \in {"approved", "expired"}
          /\ Status(q, j) \in {"completed", "failed"}
    BY <1>4 DEF IInv, ActedInv, ScriptInv, Terminal
  <2>. QED
    BY <1>1, <1>5, <2>1 DEF ActedInv, Status
<1>15. RevisionInv'
  <2>1. Superseded(q)
    BY <1>1, <1>3, MovedSuperseded DEF IInv, RevisionInv
  <2>2. Superseded(plan)' /\ Superseded(saved)' /\ Superseded(held)'
    BY <1>1, <2>1 DEF IInv, RevisionInv, Superseded, Listed, Status
  <2>3. \A j \in Slots : born[j] <= plan.revision
    BY DEF IInv, RevisionInv, ScriptInv, Terminal
  <2>. QED
    BY <1>1, <1>4, <2>2, <2>3 DEF RevisionInv
<1>16. EndInv'
  <2>1. q.status = "running"
    BY <1>4 DEF IInv, ScriptInv
  <2>. QED
    BY <1>1, <2>1 DEF IInv, EndInv, Accounted, Stuck, Listed, Status
<1>. QED
  BY <1>6, <1>7, <1>9, <1>12, <1>13, <1>14, <1>15, <1>16 DEF IInv

\* A failed attempt that is repeated.
LEMMA RepeatKeeps ==
  ASSUME IInv, pc = "attempt", Status(plan, active) = "running",
         plan' = Attempted(plan, active),
         UNCHANGED <<held, saved, verdict, enabled, pc, active, cursor, resumed, history>>
  PROVE  IInv'
<1> DEFINE q == Attempted(plan, active)
<1>1. /\ plan' = q /\ saved' = saved /\ held' = held /\ pc' = pc /\ verdict' = verdict
      /\ active' = active /\ cursor' = cursor /\ resumed' = resumed
      /\ enabled' = enabled /\ acted' = acted /\ born' = born
      /\ plan \in PlanState /\ saved \in PlanState /\ held \in PlanState
      /\ active \in Slots
  BY DEF IInv, TypeOK, AttemptInv, history
<1>2. Moved(plan, q, active, Status(plan, active))
  BY <1>1, AttemptedMoves
<1> HIDE DEF q
<1>3. /\ q \in PlanState /\ q.status = plan.status /\ q.listed = plan.listed
      /\ q.revision = plan.revision
      /\ \A j \in Slots : /\ Status(q, j) = Status(plan, j)
                          /\ q.tasks[j].attempts >= plan.tasks[j].attempts
  BY <1>2 DEF Moved
<1>4. TypeOK'
  BY <1>1, <1>3 DEF IInv, TypeOK
<1>5. ScriptInv'
  BY <1>1, <1>3 DEF IInv, ScriptInv
<1>6. Sound(q)
  <2>1. DepsComplete(plan, active)
    BY <1>1 DEF IInv, ObjectInv, Sound, MayStart
  <2>. QED
    BY <1>1, <1>2, <2>1, MovedSound DEF IInv, ObjectInv
<1>7. ObjectInv'
  BY <1>1, <1>6 DEF IInv, ObjectInv
<1>8. AttemptInv'
  <2>1. \A j \in Slots : saved.tasks[j].attempts <= q.tasks[j].attempts
                         /\ held.tasks[j].attempts <= q.tasks[j].attempts
    BY <1>1, <1>3, TaskFields DEF IInv, AttemptInv
  <2>2. \A j \in Slots : Underway(q, j) <=> Underway(plan, j)
    BY <1>3 DEF Underway
  <2>. QED
    BY <1>1, <2>1, <2>2 DEF IInv, AttemptInv, Underway, Status
<1>9. WaitingInv'
  BY <1>1, <1>3 DEF IInv, WaitingInv, Status
<1>10. ActedInv'
  BY <1>1, <1>3 DEF IInv, ActedInv, Status
<1>11. RevisionInv'
  <2>1. Superseded(q)
    BY <1>1, <1>2, MovedSuperseded DEF IInv, RevisionInv
  <2>2. Superseded(plan)' /\ Superseded(saved)' /\ Superseded(held)'
    BY <1>1, <2>1 DEF IInv, RevisionInv, Superseded, Listed, Status
  <2>. QED
    BY <1>1, <1>3, <2>2 DEF IInv, RevisionInv
<1>12. EndInv'
  BY <1>1 DEF IInv, EndInv, Accounted, Stuck, Listed, Status
<1>. QED
  BY <1>4, <1>5, <1>7, <1>8, <1>9, <1>10, <1>11, <1>12 DEF IInv

\* The pass begins.
LEMMA BeginPassKeeps ==
  ASSUME IInv, BeginPass
  PROVE  IInv'
<1>1. /\ plan' = plan /\ saved' = saved /\ held' = held /\ verdict' = verdict
      /\ active' = active /\ cursor' = cursor /\ resumed' = resumed
      /\ enabled' = enabled /\ acted' = acted /\ born' = born
      /\ pc = "loop" /\ pc' = "refresh"
  BY DEF BeginPass, history
<1>2. \A i \in Slots : Status(plan, i) # "waiting"
  <2>1. \A i \in Slots : Status(plan, i) = "waiting" => i \in Listed(plan)
    BY DEF IInv, ObjectInv, Sound, Placed
  <2>. QED
    BY <2>1 DEF BeginPass, Waiting
<1>3. TypeOK' /\ ScriptInv' /\ ObjectInv'
  BY <1>1 DEF IInv, TypeOK, ScriptInv, ObjectInv
<1>4. AttemptInv'
  BY <1>1 DEF IInv, AttemptInv, Underway, Status
<1>5. WaitingInv'
  BY <1>1, <1>2 DEF IInv, WaitingInv, ScriptInv, Status
<1>6. ActedInv' /\ RevisionInv'
  BY <1>1 DEF IInv, ActedInv, RevisionInv, Superseded, Status, Listed
<1>7. EndInv'
  <2>1. \A i \in Listed(plan) : ~(i < 1)
    BY DEF Listed
  <2>. QED
    BY <1>1, <2>1 DEF IInv, EndInv, ScriptInv, Accounted, Stuck, Listed, Status
<1>. QED
  BY <1>3, <1>4, <1>5, <1>6, <1>7 DEF IInv

\* One task of the pass; a task that is left pending cannot run.
LEMMA RefreshKeeps ==
  ASSUME IInv, RefreshTask
  PROVE  IInv'
<1> DEFINE q == RefreshedAt(plan, cursor, enabled)
<1>1. /\ plan' = q /\ saved' = saved /\ held' = held /\ verdict' = verdict
      /\ active' = active /\ cursor' = cursor + 1 /\ resumed' = resumed
      /\ enabled' = enabled /\ acted' = acted /\ born' = born
      /\ pc = "refresh" /\ pc' = "refresh"
      /\ plan \in PlanState /\ saved \in PlanState /\ held \in PlanState
      /\ Sound(plan)
  BY DEF RefreshTask, IInv, TypeOK, ObjectInv, history
<1>2. cursor \in Slots /\ cursor + 1 \in 1 .. MaxListed + 1
  BY <1>1, PlanAssumption DEF RefreshTask, IInv, TypeOK, PlanState, Slots
<1>3. /\ q = plan /\ Status(plan, cursor) \notin {"pending", "ready"}
      \/ /\ Moved(plan, q, cursor, Refreshed(plan, cursor, enabled))
         /\ Status(plan, cursor) \in {"pending", "ready"}
  BY <1>1, <1>2, RefreshedAtMoves
<1>4. /\ q \in PlanState /\ Sound(q)
      /\ \A j \in Slots : q.tasks[j].attempts = plan.tasks[j].attempts
  BY <1>1, <1>2, RefreshedAtMoves
<1>5. Refreshed(plan, cursor, enabled) \in {"blocked", "ready", "pending"}
  BY DEF Refreshed
<1> HIDE DEF q
<1>6. /\ q.status = plan.status /\ q.listed = plan.listed /\ q.revision = plan.revision
      /\ \A j \in Slots \ {cursor} : Status(q, j) = Status(plan, j)
      /\ \A j \in Slots : /\ q.tasks[j].kind = plan.tasks[j].kind
                          /\ q.tasks[j].deps = plan.tasks[j].deps
      /\ \/ Status(q, cursor) = Status(plan, cursor)
            /\ Status(plan, cursor) \notin {"pending", "ready"}
         \/ Status(plan, cursor) \in {"pending", "ready"}
            /\ Status(q, cursor) = Refreshed(plan, cursor, enabled)
  BY <1>2, <1>3 DEF Moved
<1>7. \A j \in Slots : \/ Status(q, j) = Status(plan, j)
                       \/ /\ Status(q, j) \in {"blocked", "ready", "pending"}
                          /\ Status(plan, j) \in {"pending", "ready"}
  BY <1>5, <1>6
<1>8. TypeOK'
  BY <1>1, <1>2, <1>4 DEF IInv, TypeOK
<1>9. ScriptInv'
  BY <1>1, <1>6 DEF IInv, ScriptInv
<1>10. ObjectInv'
  BY <1>1, <1>4 DEF IInv, ObjectInv
<1>11. AttemptInv'
  <2>1. \A j \in Slots : saved.tasks[j].attempts <= q.tasks[j].attempts
                         /\ held.tasks[j].attempts <= q.tasks[j].attempts
    BY <1>4 DEF IInv, AttemptInv
  <2>2. \A j \in Slots : ~Underway(q, j) /\ ~Underway(saved, j) /\ ~Underway(held, j)
    BY <1>1, <1>7 DEF IInv, AttemptInv, Underway
  <2>. QED
    BY <1>1, <2>1, <2>2 DEF AttemptInv, Underway, Status
<1>12. WaitingInv'
  <2>1. \A j \in Slots : Status(q, j) # "waiting"
    BY <1>1, <1>7 DEF IInv, WaitingInv
  <2>. QED
    BY <1>1, <2>1 DEF IInv, WaitingInv, Status
<1>13. ActedInv'
  <2>1. \A j \in Slots : Status(plan, j) \in {"completed", "failed"} =>
                           Status(q, j) \in {"completed", "failed"}
    BY <1>7
  <2>. QED
    BY <1>1, <2>1 DEF IInv, ActedInv, Status
<1>14. RevisionInv'
  <2>1. Superseded(q)
    BY <1>1, <1>2, <1>3, MovedSuperseded DEF IInv, RevisionInv
  <2>2. Superseded(plan)' /\ Superseded(saved)' /\ Superseded(held)'
    BY <1>1, <2>1 DEF IInv, RevisionInv, Superseded, Listed, Status
  <2>. QED
    BY <1>1, <1>6, <2>2 DEF IInv, RevisionInv
<1>15. EndInv'
  <2>1. ASSUME NEW j \in Listed(q), j < cursor + 1, Status(q, j) = "pending"
        PROVE  Stuck(q, j, enabled)
    <3>1. j \in Slots /\ j \in Listed(plan) /\ (j < cursor \/ j = cursor)
      BY <1>1, <1>2, <1>6, <2>1, PlanAssumption DEF Listed, Slots, PlanState
    <3>2. Stuck(plan, j, enabled)
      <4>1. CASE j < cursor
        <5>1. j # cursor
          BY <1>2, <3>1, <4>1 DEF Slots
        <5>. QED
          BY <1>1, <1>6, <2>1, <3>1, <4>1, <5>1 DEF IInv, EndInv
      <4>2. CASE j = cursor
        BY <1>6, <2>1, <4>2 DEF Refreshed, Stuck, DepsComplete
      <4>. QED
        BY <3>1, <4>1, <4>2
    <3>3. \A d \in plan.tasks[j].deps : Status(plan, d) # "completed" => Status(q, d) # "completed"
      BY <1>1, <1>7, <3>1, TaskFields
    <3>. QED
      BY <1>6, <3>1, <3>2, <3>3 DEF Stuck
  <2>2. Accounted(held, enabled)' /\ (saved.status \in {"completed", "failed"} => Accounted(saved, enabled)')
    BY <1>1 DEF IInv, EndInv, Accounted, Stuck, Listed, Status
  <2>3. \A j \in Listed(plan)' : j < cursor' /\ Status(plan, j)' = "pending" => Stuck(plan, j, enabled)'
    BY <1>1, <2>1 DEF Stuck, Listed, Status
  <2>. QED
    BY <1>1, <2>2, <2>3 DEF IInv, EndInv
<1>. QED
  BY <1>8, <1>9, <1>10, <1>11, <1>12, <1>13, <1>14, <1>15 DEF IInv

--------------------------------------------------------------------------------
(* The ends of a script run *)

\* When the pass ends and nothing is ready, every task is over or cannot run.
LEMMA PassAccounts ==
  ASSUME IInv, \/ PassDone /\ Ready(plan) = {}
               \/ pc = "replan"
  PROVE  Accounted(plan, enabled) /\ \A i \in Slots : Status(plan, i) # "waiting" /\ ~Underway(plan, i)
<1>1. plan \in PlanState /\ pc \in {"refresh", "replan"}
  BY DEF IInv, TypeOK, PassDone
<1>2. \A i \in Slots : Status(plan, i) # "waiting" /\ ~Underway(plan, i)
  BY <1>1 DEF IInv, WaitingInv, AttemptInv
<1>3. CASE pc = "replan"
  BY <1>2, <1>3 DEF IInv, EndInv
<1>4. CASE PassDone /\ Ready(plan) = {}
  <2>1. \A i \in Listed(plan) : i \in Slots /\ i < cursor /\ Status(plan, i) # "ready"
    <3>1. plan.listed \in 0 .. MaxListed /\ cursor > plan.listed /\ cursor \in Nat
      BY <1>1, <1>4, PlanAssumption DEF PassDone, PlanState, IInv, TypeOK
    <3>2. \A i \in Listed(plan) : i \in Slots /\ i < cursor
      BY <3>1, PlanAssumption DEF Listed, Slots
    <3>. QED
      BY <1>4, <3>2 DEF Ready
  <2>. QED
    BY <1>2, <1>4, <2>1 DEF IInv, EndInv, PassDone, Accounted, Underway
<1>. QED
  BY <1>1, <1>3, <1>4

\* The plan ends: finished, failed or cancelled.
LEMMA EndKeeps ==
  ASSUME IInv, pc # "idle", NEW q \in PlanState, q.status \in Terminal,
         EndWith(q), UNCHANGED <<verdict, enabled, history>>,
         Sound(q), Superseded(q), \A i \in Slots : ~Underway(q, i),
         \A i \in Slots : Status(q, i) = "waiting" => verdict[i] # "none",
         \A i \in Slots : verdict[i] # "pending",
         q.status \in {"completed", "failed"} => Accounted(q, enabled),
         q.status = "completed" => Gaps(q) = {}
  PROVE  IInv'
<1>1. /\ plan' = q /\ saved' = q /\ held' = NoPlan /\ verdict' = verdict
      /\ pc' = "idle" /\ active' = 0 /\ cursor' = 1 /\ resumed' = FALSE
      /\ enabled' = enabled /\ acted' = acted /\ born' = born
  BY DEF EndWith, history
<1>2. TypeOK'
  <2>1. 0 \in 0 .. MaxListed /\ 1 \in 1 .. MaxListed + 1
    BY PlanAssumption
  <2>. QED
    BY <1>1, <2>1, NoPlanType DEF IInv, TypeOK
<1>3. ScriptInv'
  BY <1>1 DEF ScriptInv, Terminal
<1>4. ObjectInv'
  BY <1>1, NoPlanSound DEF ObjectInv
<1>5. \A i \in Slots : NoPlan.tasks[i].attempts = 0 /\ Status(NoPlan, i) = "absent"
  BY DEF NoPlan, AbsentTask, Status
<1>6. AttemptInv'
  <2>1. \A i \in Slots : q.tasks[i].attempts <= q.tasks[i].attempts
                         /\ NoPlan.tasks[i].attempts <= q.tasks[i].attempts
    BY <1>5, TaskFields
  <2>. QED
    BY <1>1, <1>5, <2>1 DEF AttemptInv, Underway, Status
<1>7. WaitingInv'
  BY <1>1, <1>5 DEF WaitingInv, Terminal, Status
<1>8. ActedInv'
  BY <1>1 DEF IInv, ActedInv
<1>9. RevisionInv'
  <2>1. NoPlan.listed = 0
    BY DEF NoPlan
  <2>. QED
    BY <1>1, <2>1 DEF RevisionInv, Superseded, Listed, Status
<1>10. EndInv'
  <2>1. NoPlan.listed = 0
    BY DEF NoPlan
  <2>. QED
    BY <1>1, <2>1 DEF EndInv, Accounted, Stuck, Gaps, Listed, Status
<1>. QED
  BY <1>2, <1>3, <1>4, <1>6, <1>7, <1>8, <1>9, <1>10 DEF IInv

\* A plan that only changes its status is the same plan to the invariants.
LEMMA SamePlan ==
  ASSUME NEW p \in PlanState, NEW status \in PlanStatus, NEW q,
         q = [p EXCEPT !.status = status]
  PROVE  /\ q \in PlanState /\ q.status = status /\ q.tasks = p.tasks
         /\ q.listed = p.listed /\ q.revision = p.revision
         /\ Sound(p) => Sound(q)
         /\ Superseded(p) => Superseded(q)
         /\ Accounted(p, enabled) => Accounted(q, enabled)
         /\ Gaps(q) = Gaps(p)
         /\ \A i \in Slots : Status(q, i) = Status(p, i)
<1>1. q.tasks = p.tasks /\ q.listed = p.listed
  BY StatusOnly
<1>2. Superseded(p) => Superseded(q)
  BY <1>1 DEF Superseded, Status, Listed
<1>. QED
  BY <1>2, StatusOnly

\* The plan is finished, or it failed: nothing of it is left to run.
LEMMA OutcomeKeeps ==
  ASSUME IInv, NEW status \in {"completed", "failed"},
         EndWith([plan EXCEPT !.status = status]), UNCHANGED <<verdict, enabled, history>>,
         \/ PassDone /\ Ready(plan) = {}
         \/ pc = "replan",
         status = "completed" => Gaps(plan) = {}
  PROVE  IInv'
<1>1. plan \in PlanState /\ status \in PlanStatus /\ status \in Terminal
      /\ pc \in {"refresh", "replan"}
  BY DEF IInv, TypeOK, PlanStatus, Terminal, PassDone
<1>2. PICK q : q = [plan EXCEPT !.status = status]
  OBVIOUS
<1>3. /\ q \in PlanState /\ q.status = status /\ Sound(q) /\ Superseded(q)
      /\ Accounted(q, enabled) /\ Gaps(q) = Gaps(plan)
      /\ \A i \in Slots : Status(q, i) # "waiting" /\ ~Underway(q, i)
  BY <1>1, <1>2, SamePlan, PassAccounts DEF IInv, ObjectInv, RevisionInv, Underway
<1>4. \A i \in Slots : verdict[i] # "pending"
  BY <1>1 DEF IInv, WaitingInv
<1>5. EndWith(q)
  BY <1>2
<1>. QED
  BY <1>1, <1>3, <1>4, <1>5, EndKeeps

\* What the handler of resume() puts back.
LEMMA HandledKeeps ==
  ASSUME IInv, EndWith(Handled), UNCHANGED <<verdict, enabled, history>>,
         \/ PassDone /\ Ready(plan) = {}
         \/ pc = "replan"
  PROVE  IInv'
<1>1. CASE held = NoPlan
  BY <1>1, OutcomeKeeps DEF Handled
<1>2. CASE held # NoPlan
  <2>1. held \in PlanState /\ "failed" \in PlanStatus /\ "failed" \in Terminal
        /\ pc \in {"refresh", "replan"}
    BY DEF IInv, TypeOK, PlanStatus, Terminal, PassDone
  <2>2. PICK q : q = [held EXCEPT !.status = "failed"]
    OBVIOUS
  <2>3. /\ q \in PlanState /\ q.status = "failed" /\ Sound(q) /\ Superseded(q)
        /\ Accounted(q, enabled) /\ \A i \in Slots : Status(q, i) = Status(held, i)
    BY <2>1, <2>2, SamePlan DEF IInv, ObjectInv, RevisionInv, EndInv
  <2>4. \A i \in Slots : Status(q, i) # "waiting" /\ ~Underway(q, i) /\ verdict[i] # "pending"
    BY <2>1, <2>3 DEF IInv, WaitingInv, AttemptInv, Underway
  <2>5. EndWith(q)
    BY <1>2, <2>2 DEF Handled
  <2>. QED
    BY <2>1, <2>3, <2>4, <2>5, EndKeeps
<1>. QED
  BY <1>1, <1>2

\* The user cancels: what has not started is cancelled, a waiting task stays.
LEMMA CancelKeeps ==
  ASSUME IInv, CancelPlan
  PROVE  IInv'
<1> DEFINE cancelled(task) == IF task.status \in {"pending", "ready"}
                              THEN [task EXCEPT !.status = "cancelled"] ELSE task
           tasks == [i \in Slots |-> cancelled(plan.tasks[i])]
<1>1. PICK q : q = [plan EXCEPT !.status = "cancelled",
                                !.tasks = [i \in Slots |-> cancelled(@[i])]]
  OBVIOUS
<1>2. /\ EndWith(q) /\ pc = "loop" /\ UNCHANGED <<verdict, enabled, history>>
      /\ plan \in PlanState /\ plan = saved
  BY <1>1 DEF CancelPlan, IInv, TypeOK, ScriptInv
<1>3. ASSUME NEW task \in Task
      PROVE  /\ cancelled(task) \in Task /\ cancelled(task).deps = task.deps
             /\ cancelled(task).kind = task.kind
             /\ cancelled(task).attempts = task.attempts
             /\ cancelled(task).status = IF task.status \in {"pending", "ready"}
                                         THEN "cancelled" ELSE task.status
  BY DEF Task, TaskStatus
<1>4. q = [plan EXCEPT !.status = "cancelled", !.tasks = tasks]
  BY <1>1, <1>2 DEF PlanState
<1> HIDE DEF cancelled
<1>5. tasks \in [Slots -> Task] /\ "cancelled" \in PlanStatus
  BY <1>2, <1>3, TaskFields DEF PlanStatus
<1>6. /\ q \in PlanState /\ q.status = "cancelled" /\ q.tasks = tasks
      /\ q.listed = plan.listed
  BY <1>2, <1>4, <1>5 DEF PlanState
<1>7. \A i \in Slots : /\ q.tasks[i].deps = plan.tasks[i].deps
                       /\ q.tasks[i].kind = plan.tasks[i].kind
                       /\ q.tasks[i].attempts = plan.tasks[i].attempts
                       /\ Status(q, i) = IF Status(plan, i) \in {"pending", "ready"}
                                         THEN "cancelled" ELSE Status(plan, i)
  BY <1>2, <1>3, <1>6, TaskFields DEF Status
<1>8. Sound(q)
  <2>1. Sound(plan)
    BY DEF IInv, ObjectInv
  <2>2. Placed(q)
    BY <1>6, <1>7, <2>1 DEF Sound, Placed, Listed
  <2>3. \A i \in Slots : DepsComplete(plan, i) => DepsComplete(q, i)
    BY <1>2, <1>7, TaskFields DEF DepsComplete
  <2>4. MayStart(q)
    BY <1>7, <2>1, <2>3 DEF Sound, MayStart
  <2>5. OneWaits(q)
    BY <1>7, <2>1 DEF Sound, OneWaits
  <2>. QED
    BY <2>2, <2>4, <2>5 DEF Sound
<1>9. Superseded(q)
  <2>1. Listed(plan) \subseteq Slots /\ Listed(q) = Listed(plan)
    BY <1>2, <1>6, PlanAssumption DEF Listed, Slots, PlanState
  <2>. QED
    BY <1>7, <2>1 DEF IInv, RevisionInv, Superseded
<1>10. \A i \in Slots : /\ ~Underway(q, i) /\ verdict[i] # "pending"
                        /\ Status(q, i) = "waiting" => verdict[i] # "none"
  BY <1>2, <1>7 DEF IInv, AttemptInv, WaitingInv, Underway
<1>. QED
  BY <1>2, <1>6, <1>8, <1>9, <1>10, EndKeeps DEF Terminal

\* The plan is parked with its waiting task.
LEMMA PauseKeeps ==
  ASSUME IInv, Pause
  PROVE  IInv'
<1>1. plan \in PlanState /\ "waiting" \in PlanStatus /\ pc = "pause" /\ plan = saved
  BY DEF IInv, TypeOK, ScriptInv, PlanStatus, Pause
<1>2. PICK q : q = [plan EXCEPT !.status = "waiting"]
  OBVIOUS
<1>3. /\ q \in PlanState /\ q.status = "waiting" /\ Sound(q) /\ Superseded(q)
      /\ q.revision = plan.revision
      /\ \A i \in Slots : Status(q, i) = Status(plan, i)
  BY <1>1, <1>2, SamePlan DEF IInv, ObjectInv, RevisionInv
<1>4. /\ plan' = q /\ saved' = q /\ held' = NoPlan /\ verdict' = verdict
      /\ pc' = "idle" /\ active' = 0 /\ cursor' = 1 /\ resumed' = FALSE
      /\ enabled' = enabled /\ acted' = acted /\ born' = born
  BY <1>2 DEF Pause, EndWith, history
<1>5. /\ NoPlan.listed = 0
      /\ \A i \in Slots : NoPlan.tasks[i].attempts = 0 /\ Status(NoPlan, i) = "absent"
  BY DEF NoPlan, AbsentTask, Status
<1>6. TypeOK'
  <2>1. 0 \in 0 .. MaxListed /\ 1 \in 1 .. MaxListed + 1
    BY PlanAssumption
  <2>. QED
    BY <1>3, <1>4, <2>1, NoPlanType DEF IInv, TypeOK
<1>7. ScriptInv' /\ ObjectInv'
  BY <1>3, <1>4, NoPlanSound DEF ScriptInv, ObjectInv
<1>8. AttemptInv'
  <2>1. \A i \in Slots : q.tasks[i].attempts <= q.tasks[i].attempts
                         /\ NoPlan.tasks[i].attempts <= q.tasks[i].attempts
    BY <1>3, <1>5, TaskFields
  <2>2. \A i \in Slots : ~Underway(q, i)
    BY <1>1, <1>3 DEF IInv, AttemptInv, Underway
  <2>. QED
    BY <1>4, <1>5, <2>1, <2>2 DEF AttemptInv, Underway, Status
<1>9. WaitingInv'
  <2>1. /\ \E i \in Slots : Status(q, i) = "waiting"
        /\ \A i \in Slots : Status(q, i) = "waiting" => verdict[i] # "none"
        /\ \A i \in Slots : verdict[i] = "pending" => Status(q, i) = "waiting"
    BY <1>1, <1>3 DEF IInv, WaitingInv
  <2>. QED
    BY <1>4, <1>5, <2>1 DEF WaitingInv, Status
<1>10. ActedInv'
  BY <1>1, <1>3, <1>4 DEF IInv, ActedInv, ScriptInv, Terminal, Status
<1>11. RevisionInv'
  <2>1. \A i \in Slots : born[i] <= plan.revision
    BY <1>1 DEF IInv, RevisionInv, ScriptInv, Terminal
  <2>. QED
    BY <1>3, <1>4, <1>5, <2>1 DEF RevisionInv, Superseded, Listed, Status
<1>12. EndInv'
  BY <1>3, <1>4, <1>5 DEF EndInv, Accounted, Listed
<1>. QED
  BY <1>6, <1>7, <1>8, <1>9, <1>10, <1>11, <1>12 DEF IInv

\* The script run is gone: what it had only in memory is lost.
LEMMA AbandonKeeps ==
  ASSUME IInv, pc # "idle", Abandon, UNCHANGED <<verdict, enabled, history>>
  PROVE  IInv'
<1>1. /\ plan' = saved /\ saved' = saved /\ held' = NoPlan /\ verdict' = verdict
      /\ pc' = "idle" /\ active' = 0 /\ cursor' = 1 /\ resumed' = FALSE
      /\ enabled' = enabled /\ acted' = acted /\ born' = born
      /\ saved \in PlanState /\ saved.status = "running"
      /\ saved.revision = plan.revision
  BY DEF Abandon, history, IInv, TypeOK, ScriptInv
<1>2. /\ NoPlan.listed = 0
      /\ \A i \in Slots : NoPlan.tasks[i].attempts = 0 /\ Status(NoPlan, i) = "absent"
  BY DEF NoPlan, AbsentTask, Status
<1>3. TypeOK'
  <2>1. 0 \in 0 .. MaxListed /\ 1 \in 1 .. MaxListed + 1
    BY PlanAssumption
  <2>. QED
    BY <1>1, <2>1, NoPlanType DEF IInv, TypeOK
<1>4. ScriptInv' /\ ObjectInv'
  BY <1>1, NoPlanSound DEF IInv, ScriptInv, ObjectInv
<1>5. AttemptInv'
  <2>1. \A i \in Slots : saved.tasks[i].attempts <= saved.tasks[i].attempts
                         /\ NoPlan.tasks[i].attempts <= saved.tasks[i].attempts
    BY <1>1, <1>2, TaskFields
  <2>. QED
    BY <1>1, <1>2, <2>1 DEF IInv, AttemptInv, Underway, Status
<1>6. WaitingInv'
  BY <1>1, <1>2 DEF IInv, WaitingInv, Status
<1>7. ActedInv'
  BY <1>1 DEF IInv, ActedInv, Terminal, Status
<1>8. RevisionInv'
  BY <1>1, <1>2 DEF IInv, RevisionInv, Superseded, Listed, Status, Terminal
<1>9. EndInv'
  BY <1>1, <1>2 DEF IInv, EndInv, Accounted, Listed
<1>. QED
  BY <1>3, <1>4, <1>5, <1>6, <1>7, <1>8, <1>9 DEF IInv

--------------------------------------------------------------------------------
(* Revisions *)

\* The evaluator asks for a replan.
LEMMA ToReplanKeeps ==
  ASSUME IInv, PassDone, Ready(plan) = {}, plan' = [plan EXCEPT !.status = "evaluating"],
         pc' = "replan",
         UNCHANGED <<held, saved, active, cursor, resumed, verdict, enabled, history>>
  PROVE  IInv'
<1>1. plan \in PlanState /\ "evaluating" \in PlanStatus /\ pc = "refresh"
  BY DEF IInv, TypeOK, PlanStatus, PassDone
<1>2. PICK q : q = [plan EXCEPT !.status = "evaluating"]
  OBVIOUS
<1>3. /\ q \in PlanState /\ Sound(q) /\ Superseded(q) /\ Accounted(q, enabled)
      /\ q.revision = plan.revision /\ q.listed = plan.listed /\ q.tasks = plan.tasks
      /\ \A i \in Slots : Status(q, i) # "waiting" /\ ~Underway(q, i)
      /\ \A i \in Slots : Status(q, i) = Status(plan, i)
  BY <1>1, <1>2, SamePlan, PassAccounts DEF IInv, ObjectInv, RevisionInv, Underway
<1>4. /\ plan' = q /\ saved' = saved /\ held' = held /\ verdict' = verdict
      /\ active' = active /\ cursor' = cursor /\ resumed' = resumed
      /\ enabled' = enabled /\ acted' = acted /\ born' = born
  BY <1>2 DEF history
<1>5. TypeOK' /\ ScriptInv' /\ ObjectInv'
  BY <1>1, <1>3, <1>4 DEF IInv, TypeOK, ScriptInv, ObjectInv
<1>6. AttemptInv'
  BY <1>1, <1>3, <1>4 DEF IInv, AttemptInv, Underway, Status
<1>7. WaitingInv'
  BY <1>1, <1>3, <1>4 DEF IInv, WaitingInv, Status
<1>8. ActedInv'
  BY <1>1, <1>3, <1>4 DEF IInv, ActedInv, Status
<1>9. RevisionInv'
  BY <1>3, <1>4 DEF IInv, RevisionInv, Superseded, Listed, Status
<1>10. EndInv'
  BY <1>3, <1>4 DEF IInv, EndInv, Accounted, Stuck, Listed, Status
<1>. QED
  BY <1>5, <1>6, <1>7, <1>8, <1>9, <1>10 DEF IInv

\* An accepted revision names no tool that was refused or that acted: its other
\* proposals came to nothing.
LEMMA RevisedSuperseded ==
  ASSUME IInv, pc = "replan", NEW k \in 1 .. MaxListed - plan.listed,
         NEW additions \in Additions(plan, k), Acceptable(plan, k, additions, enabled),
         NEW i \in Listed(Revised(plan, k, additions)),
         NEW j \in Listed(Revised(plan, k, additions)),
         NEW b, b = [s \in Slots |-> IF s \in DOMAIN additions THEN plan.revision + 1
                                     ELSE born[s]],
         Revised(plan, k, additions).tasks[i].kind \in Tools,
         Revised(plan, k, additions).tasks[i].kind = Revised(plan, k, additions).tasks[j].kind,
         b[i] < b[j]
  PROVE  Status(Revised(plan, k, additions), i) \in {"failed", "blocked", "expired", "cancelled"}
<1> DEFINE new == plan.listed + 1 .. plan.listed + k
<1>1. /\ plan \in PlanState /\ Sound(plan) /\ born \in [Slots -> Nat]
      /\ saved.status = "running" /\ Accounted(plan, enabled)
      /\ plan.revision \in Nat /\ plan.listed \in 0 .. MaxListed
  BY DEF IInv, TypeOK, ObjectInv, ScriptInv, EndInv, PlanState
<1>2. PICK q : q = Revised(plan, k, additions)
  OBVIOUS
<1>3. /\ q.listed = plan.listed + k /\ new \subseteq Slots /\ DOMAIN additions = new
      /\ \A s \in new : q.tasks[s].kind = additions[s].kind
      /\ \A s \in Slots \ new :
           /\ q.tasks[s].kind = plan.tasks[s].kind
           /\ Status(q, s) = IF Status(plan, s) \in {"pending", "ready"}
                             THEN "cancelled" ELSE Status(plan, s)
  BY <1>1, <1>2, RevisedFacts
<1>4. Listed(plan) \subseteq Slots
  BY <1>1, PlanAssumption DEF Listed, Slots
<1>5. \A s \in {i, j} : s \in Slots /\ (s \in new \/ (s \in Listed(plan) /\ s \notin new))
  <2>1. i \in 1 .. plan.listed + k /\ j \in 1 .. plan.listed + k
    BY <1>2, <1>3 DEF Listed
  <2>2. plan.listed \in Nat /\ k \in Nat /\ plan.listed + k <= MaxListed
    BY <1>1, PlanAssumption
  <2>3. ASSUME NEW s \in 1 .. plan.listed + k
        PROVE  s \in Slots /\ (s \in new \/ (s \in Listed(plan) /\ s \notin new))
    BY <2>2, PlanAssumption DEF Listed, Slots
  <2>. QED
    BY <2>1, <2>3
<1>6. \A s \in Slots : born[s] \in Nat /\ born[s] <= plan.revision
  BY <1>1 DEF IInv, RevisionInv, Terminal
<1>7. /\ q.tasks[i].kind \in Tools /\ q.tasks[i].kind = q.tasks[j].kind
      /\ \A s \in Slots : b[s] = IF s \in new THEN plan.revision + 1 ELSE born[s]
  BY <1>2, <1>3
<1> HIDE DEF new
<1>8. i \notin new
  BY <1>1, <1>5, <1>6, <1>7
<1>9. i \in Listed(plan) /\ i \in Slots /\ j \in Slots
  BY <1>5, <1>8
<1>10. q.tasks[i].kind = plan.tasks[i].kind
       /\ Status(q, i) = IF Status(plan, i) \in {"pending", "ready"}
                         THEN "cancelled" ELSE Status(plan, i)
  BY <1>3, <1>8, <1>9
<1>11. CASE j \in new
  <2>1. plan.tasks[i].kind = additions[j].kind /\ plan.tasks[i].kind \in Tools
    BY <1>3, <1>7, <1>10, <1>11
  <2>2. additions[j].kind \notin BarredTools(plan)
    BY <1>3, <1>11 DEF Acceptable
  <2>3. Status(plan, i) \notin {"denied", "cancelled", "completed"}
    BY <1>9, <2>1, <2>2 DEF BarredTools
  <2>4. Status(plan, i) \in TaskStatus \ {"absent", "ready", "running", "waiting", "approved"}
    BY <1>1, <1>9, TaskFields DEF Accounted, Sound, Placed
  <2>. QED
    BY <1>2, <1>10, <2>3, <2>4 DEF TaskStatus
<1>12. CASE j \notin new
  <2>1. j \in Listed(plan) /\ q.tasks[j].kind = plan.tasks[j].kind /\ born[i] < born[j]
    BY <1>3, <1>5, <1>7, <1>8, <1>9, <1>12
  <2>2. Status(plan, i) \in {"failed", "blocked", "expired", "cancelled"}
    BY <1>7, <1>9, <1>10, <2>1 DEF IInv, RevisionInv, Superseded
  <2>. QED
    BY <1>2, <1>10, <2>2
<1>. QED
  BY <1>11, <1>12

\* A revision: the loop goes on with the revised copy, and resume() keeps the
\* object it had.
LEMMA ReplanKeeps ==
  ASSUME IInv, NEW k \in 1 .. MaxListed - plan.listed,
         NEW additions \in Additions(plan, k), Replan(k, additions)
  PROVE  IInv'
<1> DEFINE new == plan.listed + 1 .. plan.listed + k
<1>1. PICK q : q = Revised(plan, k, additions)
  OBVIOUS
<1>2. PICK b : b = [i \in Slots |-> IF i \in DOMAIN additions THEN plan.revision + 1
                                    ELSE born[i]]
  OBVIOUS
<1>3. /\ plan' = q /\ saved' = q /\ held' \in {plan, held} /\ (~resumed => held' = held)
      /\ verdict' = verdict /\ pc = "replan" /\ pc' = "loop" /\ active' = 0
      /\ cursor' = 1 /\ resumed' = resumed
      /\ enabled' = enabled /\ acted' = acted /\ born' = b
  BY <1>1, <1>2 DEF Replan, LoopWith, history
<1>4. /\ plan \in PlanState /\ held \in PlanState /\ born \in [Slots -> Nat]
      /\ Sound(plan) /\ Accounted(plan, enabled) /\ saved.status = "running"
      /\ plan.revision \in Nat /\ plan.listed \in 0 .. MaxListed /\ held.listed <= plan.listed
      /\ held.listed \in 0 .. MaxListed
  BY <1>3 DEF IInv, TypeOK, ObjectInv, ScriptInv, EndInv, PlanState
<1>5. /\ q \in PlanState /\ q.status = "running"
      /\ q.listed = plan.listed + k /\ q.revision = plan.revision + 1
      /\ new \subseteq Slots /\ DOMAIN additions = new
      /\ \A i \in new : Status(q, i) = "pending" /\ q.tasks[i].attempts = 0
      /\ \A i \in Slots \ new :
           /\ q.tasks[i].attempts = plan.tasks[i].attempts
           /\ Status(q, i) = IF Status(plan, i) \in {"pending", "ready"}
                             THEN "cancelled" ELSE Status(plan, i)
      /\ Sound(q)
  BY <1>1, <1>4, RevisedFacts
<1>6. /\ b \in [Slots -> Nat]
      /\ \A i \in Slots : b[i] = IF i \in new THEN plan.revision + 1 ELSE born[i]
  BY <1>2, <1>4, <1>5
<1>7. \A i \in new : /\ i \notin Listed(plan) /\ i \notin Listed(held)
                     /\ Status(plan, i) = "absent" /\ Status(held, i) = "absent"
  <2>1. \A i \in new : i \notin Listed(plan) /\ i \notin Listed(held)
    BY <1>4 DEF Listed
  <2>. QED
    BY <1>5, <2>1 DEF IInv, ObjectInv, Sound, Placed
<1>8. \A i \in Slots : /\ Status(plan, i) # "waiting" /\ ~Underway(plan, i)
                       /\ Status(held, i) # "waiting" /\ ~Underway(held, i)
  BY <1>3 DEF IInv, WaitingInv, AttemptInv
<1> HIDE DEF new
<1>9. TypeOK'
  <2>1. 0 \in 0 .. MaxListed /\ 1 \in 1 .. MaxListed + 1
    BY PlanAssumption
  <2>. QED
    BY <1>3, <1>4, <1>5, <1>6, <2>1 DEF IInv, TypeOK
<1>10. ScriptInv'
  <2>1. plan.listed <= q.listed /\ held.listed <= q.listed
    BY <1>4, <1>5
  <2>2. ~resumed => held = NoPlan
    BY DEF IInv, ScriptInv
  <2>. QED
    BY <1>3, <1>5, <2>1, <2>2 DEF ScriptInv
<1>11. ObjectInv'
  BY <1>3, <1>5 DEF IInv, ObjectInv
<1>12. \A i \in Slots : Status(q, i) # "waiting" /\ ~Underway(q, i)
  BY <1>5, <1>8 DEF Underway
<1>13. AttemptInv'
  <2>1. ASSUME NEW i \in Slots
        PROVE  /\ held.tasks[i].attempts <= q.tasks[i].attempts
               /\ plan.tasks[i].attempts <= q.tasks[i].attempts
    <3>1. CASE i \in new
      <4>1. held.tasks[i].attempts <= 0 /\ plan.tasks[i].attempts <= 0
        BY <1>4, <1>7, <3>1, TaskFields DEF IInv, ObjectInv, Sound, Placed
      <4>. QED
        BY <1>5, <3>1, <4>1
    <3>2. CASE i \notin new
      BY <1>4, <1>5, <3>2, TaskFields DEF IInv, AttemptInv
    <3>. QED
      BY <3>1, <3>2
  <2>2. \A i \in Slots : q.tasks[i].attempts <= q.tasks[i].attempts
    BY <1>5, TaskFields
  <2>. QED
    BY <1>3, <1>8, <1>12, <2>1, <2>2 DEF AttemptInv, Underway, Status
<1>14. WaitingInv'
  <2>1. \A i \in Slots : verdict[i] # "pending"
    BY <1>3 DEF IInv, WaitingInv
  <2>. QED
    BY <1>3, <1>5, <1>8, <1>12, <2>1 DEF WaitingInv, Status
<1>15. ActedInv'
  <2>1. ASSUME NEW i \in Slots, acted[i] # 0
        PROVE  /\ acted[i] = 1 /\ verdict[i] \in {"approved", "expired"}
               /\ Status(q, i) \in {"completed", "failed"}
    <3>1. Status(plan, i) \in {"completed", "failed"} /\ i \notin new
      BY <1>4, <1>7, <2>1 DEF IInv, ActedInv, Terminal
    <3>. QED
      BY <1>5, <2>1, <3>1 DEF IInv, ActedInv
  <2>. QED
    BY <1>3, <2>1 DEF ActedInv, Status
<1>16. RevisionInv'
  <2>1. Superseded(plan)'
    BY <1>1, <1>2, <1>3, RevisedSuperseded DEF Replan, Superseded, Listed, Status
  <2>2. ASSUME NEW p \in {plan, held} PROVE \A i \in Listed(p) : i \in Slots /\ b[i] = born[i]
    <3>1. \A i \in Listed(p) : i \notin new
      BY <1>7, <2>2
    <3>2. p.listed \in 0 .. MaxListed
      BY <1>4, <2>2
    <3>3. \A i \in Listed(p) : i \in Slots
      BY <3>2, PlanAssumption DEF Listed, Slots
    <3>. QED
      BY <1>6, <3>1, <3>3
  <2>3. Superseded(held)'
    BY <1>3, <2>2 DEF IInv, RevisionInv, Superseded, Listed, Status
  <2>4. \A i \in Slots : b[i] <= q.revision
    BY <1>4, <1>5, <1>6 DEF IInv, RevisionInv, Terminal
  <2>. QED
    BY <1>3, <2>1, <2>3, <2>4 DEF RevisionInv, Superseded, Listed, Status
<1>17. EndInv'
  BY <1>3, <1>4, <1>5 DEF IInv, EndInv, Accounted, Stuck, Listed, Status
<1>. QED
  BY <1>9, <1>10, <1>11, <1>13, <1>14, <1>15, <1>16, <1>17 DEF IInv

--------------------------------------------------------------------------------
(* Prompts and decisions *)

\* A script run takes up a plan, with the tools of this session: a new one, or
\* the parked one whose request is decided.
LEMMA StartKeeps ==
  ASSUME IInv, pc = "idle", NEW q \in PlanState, LoopWith(q),
         UNCHANGED <<held, verdict, history>>, enabled' \in SUBSET Tools,
         resumed' \in BOOLEAN, q.status = "running",
         Sound(q), Superseded(q), \A i \in Slots : ~Underway(q, i),
         \A i \in Slots : Status(q, i) = "waiting" => verdict[i] # "none",
         \A i \in Slots : verdict[i] # "pending",
         \A i \in Slots : acted[i] # 0 => Status(q, i) \in {"completed", "failed"},
         \A i \in Slots : acted[i] # 0 => saved.status \notin Terminal,
         \A i \in Slots : born[i] <= q.revision
  PROVE  IInv'
<1>1. /\ plan' = q /\ saved' = q /\ held = NoPlan /\ held' = NoPlan /\ verdict' = verdict
      /\ pc' = "loop" /\ active' = 0 /\ cursor' = 1
      /\ acted' = acted /\ born' = born
  BY DEF LoopWith, history, IInv, ScriptInv
<1>2. /\ NoPlan.listed = 0
      /\ \A i \in Slots : NoPlan.tasks[i].attempts = 0 /\ Status(NoPlan, i) = "absent"
  BY DEF NoPlan, AbsentTask, Status
<1>3. TypeOK'
  <2>1. 0 \in 0 .. MaxListed /\ 1 \in 1 .. MaxListed + 1
    BY PlanAssumption
  <2>. QED
    BY <1>1, <2>1, NoPlanType DEF IInv, TypeOK
<1>4. ScriptInv' /\ ObjectInv'
  <2>1. q.listed \in Nat
    BY PlanAssumption DEF PlanState
  <2>2. NoPlan.listed <= q.listed
    BY <1>2, <2>1
  <2>. QED
    BY <1>1, <2>2, NoPlanSound DEF ScriptInv, ObjectInv
<1>5. AttemptInv'
  <2>1. \A i \in Slots : q.tasks[i].attempts <= q.tasks[i].attempts
                         /\ NoPlan.tasks[i].attempts <= q.tasks[i].attempts
    BY <1>2, TaskFields
  <2>. QED
    BY <1>1, <1>2, <2>1 DEF AttemptInv, Underway, Status
<1>6. WaitingInv'
  BY <1>1, <1>2 DEF WaitingInv, Status
<1>7. ActedInv'
  BY <1>1 DEF IInv, ActedInv, Status
<1>8. RevisionInv'
  BY <1>1, <1>2 DEF IInv, RevisionInv, Superseded, Listed, Status
<1>9. EndInv'
  BY <1>1, <1>2 DEF EndInv, Accounted, Listed
<1>. QED
  BY <1>3, <1>4, <1>5, <1>6, <1>7, <1>8, <1>9 DEF IInv

\* A new plan starts with nothing acted on.
LEMMA CreatePlanKeeps ==
  ASSUME IInv, NEW tools \in SUBSET Tools, NEW k \in Slots,
         NEW additions \in Additions(NoPlan, k), CreatePlan(tools, k, additions)
  PROVE  IInv'
<1>1. PICK q : q = Planned(k, additions)
  OBVIOUS
<1>2. /\ pc = "idle" /\ saved = NoPlan /\ LoopWith(q) /\ enabled' = tools
      /\ UNCHANGED <<held, verdict, history>> /\ resumed' = resumed /\ resumed \in BOOLEAN
      /\ \A i \in Slots : acted[i] = 0 /\ born[i] = 0
  BY <1>1 DEF CreatePlan, IInv, TypeOK, ScriptInv
<1>3. /\ q \in PlanState /\ q.status = "running" /\ q.revision = 0 /\ Sound(q)
      /\ \A i \in Slots : Status(q, i) \in {"absent", "pending"}
  BY <1>1, PlannedFacts
<1>4. Superseded(q)
  <2>1. Listed(q) \subseteq Slots
    BY <1>3, PlanAssumption DEF Listed, Slots, PlanState
  <2>. QED
    BY <1>2, <2>1 DEF Superseded
<1>5. \A i \in Slots : verdict[i] # "pending"
  BY <1>2 DEF IInv, WaitingInv, NoPlan, AbsentTask, Status
<1>6. \A i \in Slots : Status(q, i) # "waiting" /\ ~Underway(q, i)
  BY <1>3 DEF Underway
<1>. QED
  BY <1>2, <1>3, <1>4, <1>5, <1>6, StartKeeps

\* resume() takes the parked plan as it was stored.
LEMMA ResumeKeeps ==
  ASSUME IInv, NEW tools \in SUBSET Tools, Resume(tools)
  PROVE  IInv'
<1>1. saved \in PlanState /\ "running" \in PlanStatus /\ saved.status = "waiting"
  BY DEF IInv, TypeOK, PlanStatus, Resume
<1>2. PICK q : q = [saved EXCEPT !.status = "running"]
  OBVIOUS
<1>3. /\ q \in PlanState /\ q.status = "running" /\ Sound(q) /\ Superseded(q)
      /\ q.revision = saved.revision
      /\ \A i \in Slots : Status(q, i) = Status(saved, i)
  BY <1>1, <1>2, SamePlan DEF IInv, ObjectInv, RevisionInv
<1>4. /\ pc = "idle" /\ LoopWith(q) /\ enabled' = tools /\ resumed' = TRUE
      /\ UNCHANGED <<held, verdict, history>> /\ plan = saved
  BY <1>2 DEF Resume, IInv, ScriptInv
<1>5. \A i \in Slots : verdict[i] # "pending"
  <2>1. \A i \in Slots : Status(saved, i) = "waiting" => i \in Listed(saved)
    BY DEF IInv, ObjectInv, Sound, Placed
  <2>. QED
    BY <2>1 DEF IInv, WaitingInv, Resume
<1>6. \A i \in Slots : /\ ~Underway(q, i)
                       /\ Status(q, i) = "waiting" => verdict[i] # "none"
                       /\ acted[i] # 0 => Status(q, i) \in {"completed", "failed"}
                       /\ born[i] <= q.revision
  BY <1>1, <1>3, <1>4
     DEF IInv, AttemptInv, WaitingInv, ActedInv, RevisionInv, Underway, Terminal
<1>7. enabled' \in SUBSET Tools /\ resumed' \in BOOLEAN /\ saved.status \notin Terminal
  BY <1>1, <1>4 DEF Terminal
<1>. QED
  BY <1>3, <1>4, <1>5, <1>6, <1>7, StartKeeps

\* An answer to the request, by the user or by the clock.
LEMMA AnswerKeeps ==
  ASSUME IInv, NEW i \in Slots,
         NEW answer \in {"approved", "denied", "cancelled", "expired"},
         verdict' = [verdict EXCEPT ![i] = answer],
         verdict[i] = "pending" \/ (verdict[i] = "approved" /\ answer = "expired"),
         UNCHANGED <<plan, held, saved, enabled, script, history>>
  PROVE  IInv'
<1>1. /\ plan' = plan /\ saved' = saved /\ held' = held /\ pc' = pc
      /\ active' = active /\ cursor' = cursor /\ resumed' = resumed
      /\ enabled' = enabled /\ acted' = acted /\ born' = born
  BY DEF script, history
<1>2. /\ verdict'[i] = answer /\ \A j \in Slots \ {i} : verdict'[j] = verdict[j]
      /\ verdict' \in [Slots -> Verdict]
  BY DEF IInv, TypeOK, Verdict
<1>3. \A j \in Slots : /\ verdict[j] \in {"approved", "expired"} =>
                            verdict'[j] \in {"approved", "expired"}
                       /\ verdict[j] # "none" => verdict'[j] # "none"
                       /\ verdict'[j] = "pending" => verdict[j] = "pending"
  BY <1>2
<1>4. TypeOK' /\ ScriptInv' /\ ObjectInv'
  BY <1>1, <1>2 DEF IInv, TypeOK, ScriptInv, ObjectInv
<1>5. AttemptInv'
  BY <1>1 DEF IInv, AttemptInv, Underway, Status
<1>6. WaitingInv'
  BY <1>1, <1>3 DEF IInv, WaitingInv, Status
<1>7. ActedInv'
  <2>1. pc = "attempt" => active \in Slots
    BY DEF IInv, AttemptInv
  <2>. QED
    BY <1>1, <1>3, <2>1 DEF IInv, ActedInv, Status
<1>8. RevisionInv'
  BY <1>1 DEF IInv, RevisionInv, Superseded, Listed, Status
<1>9. EndInv'
  BY <1>1 DEF IInv, EndInv, Accounted, Stuck, Gaps, Listed, Status
<1>. QED
  BY <1>4, <1>5, <1>6, <1>7, <1>8, <1>9 DEF IInv

--------------------------------------------------------------------------------
(* Every step *)

\* A step that changes nothing keeps the invariant.
LEMMA StutterKeeps == IInv /\ UNCHANGED vars => IInv'
<1> SUFFICES ASSUME IInv, UNCHANGED vars PROVE IInv'
  OBVIOUS
<1>1. /\ plan' = plan /\ saved' = saved /\ held' = held /\ pc' = pc /\ verdict' = verdict
      /\ active' = active /\ cursor' = cursor /\ resumed' = resumed
      /\ enabled' = enabled /\ acted' = acted /\ born' = born
  BY DEF vars, script, history
<1>2. TypeOK' /\ ScriptInv' /\ ObjectInv'
  BY <1>1 DEF IInv, TypeOK, ScriptInv, ObjectInv
<1>3. AttemptInv' /\ WaitingInv'
  BY <1>1 DEF IInv, AttemptInv, WaitingInv, Underway, Status
<1>4. ActedInv' /\ RevisionInv' /\ EndInv'
  BY <1>1 DEF IInv, ActedInv, RevisionInv, EndInv, Superseded, Accounted, Stuck, Gaps,
              Listed, Status
<1>. QED
  BY <1>2, <1>3, <1>4 DEF IInv

\* The waiting task goes to the executor, or fails closed.
LEMMA ContinueKeeps ==
  ASSUME IInv, NEW i \in Slots, ContinueWaiting(i)
  PROVE  IInv'
<1>1. /\ plan \in PlanState /\ pc = "loop" /\ Status(plan, i) = "waiting"
      /\ UNCHANGED <<verdict, enabled, history>> /\ verdict[i] # "pending"
  BY DEF ContinueWaiting, Waiting, IInv, TypeOK, WaitingInv
<1>2. PICK answer \in {verdict[i], "failed"} :
        \/ answer = "approved" /\ Begin(i, "approved")
        \/ answer = "pending" /\ GateWait(i)
        \/ answer \in {"denied", "cancelled", "expired", "failed"} /\ GateStop(i, answer)
  BY DEF ContinueWaiting, GateAnswer
<1>3. CASE answer = "approved" /\ Begin(i, "approved")
  BY <1>1, <1>2, <1>3, BeginKeeps
<1>4. CASE answer \in {"denied", "cancelled", "expired", "failed"} /\ GateStop(i, answer)
  <2>1. answer \in TaskStatus
    BY <1>4 DEF TaskStatus
  <2>2. Moved(plan, WithStatus(plan, i, answer), i, answer)
    BY <1>1, <2>1, WithStatusMoves
  <2>3. PICK q : q = WithStatus(plan, i, answer)
    OBVIOUS
  <2>4. /\ LoopWith(q) /\ UNCHANGED <<held, verdict, enabled, resumed, born>>
        /\ acted' = acted /\ Moved(plan, q, i, answer)
    BY <1>1, <1>4, <2>2, <2>3 DEF GateStop, history
  <2>. QED
    BY <1>1, <1>4, <2>4, SettleKeeps
<1>. QED
  BY <1>1, <1>2, <1>3, <1>4

\* The gate parks the task that it asks about.
LEMMA AskApprovalKeeps ==
  ASSUME IInv, NEW i \in Slots, AskApproval(i)
  PROVE  IInv'
<1>1. /\ plan \in PlanState /\ pc = "refresh" /\ Status(plan, i) = "ready"
      /\ UNCHANGED <<enabled, history>> /\ \A j \in Slots : Status(plan, j) # "waiting"
  BY DEF AskApproval, PassDone, Ready, IInv, TypeOK, WaitingInv
<1>2. CASE GateWait(i) /\ verdict' = [verdict EXCEPT ![i] = "pending"]
  BY <1>1, <1>2, AskKeeps
<1>3. CASE GateStop(i, "failed") /\ UNCHANGED verdict
  <2>1. "failed" \in TaskStatus
    BY DEF TaskStatus
  <2>2. Moved(plan, WithStatus(plan, i, "failed"), i, "failed")
    BY <1>1, <2>1, WithStatusMoves
  <2>3. PICK q : q = WithStatus(plan, i, "failed")
    OBVIOUS
  <2>4. /\ LoopWith(q) /\ UNCHANGED <<held, verdict, enabled, resumed, born>>
        /\ acted' = acted /\ Moved(plan, q, i, "failed")
    BY <1>1, <1>3, <2>2, <2>3 DEF GateStop, history
  <2>. QED
    BY <1>1, <2>4, SettleKeeps
<1>. QED
  BY <1>2, <1>3 DEF AskApproval

\* The executor returns: the step limit, an attempt or an approved action.
LEMMA ExecutedKeeps ==
  ASSUME IInv, NEW i \in Slots,
         \/ StepLimit(i)
         \/ \E outcome : Attempt(i, outcome)
         \/ \E did \in BOOLEAN, outcome \in {"completed", "failed"} : Act(i, did, outcome)
  PROVE  IInv'
<1>1. /\ plan \in PlanState /\ pc = "attempt" /\ active = i
      /\ UNCHANGED <<held, verdict, enabled, resumed, born>>
  BY DEF StepLimit, Attempt, Act, IInv, TypeOK, history
<1>2. ASSUME NEW status \in {"completed", "failed"}, NEW q, LoopWith(q),
             \/ q = WithStatus(plan, i, status)
             \/ q = WithStatus(Attempted(plan, i), i, status)
             \/ q = WithStatus([Attempted(plan, i) EXCEPT !.tasks[i].evidence = FALSE],
                               i, status),
             \/ acted' = acted
             \/ /\ Status(plan, i) = "approved"
                /\ \E n \in {acted[i], acted[i] + 1} : acted' = [acted EXCEPT ![i] = n]
      PROVE  IInv'
  <2>1. status \in TaskStatus
    BY <1>2 DEF TaskStatus
  <2>2. Moved(plan, q, i, status)
    BY <1>1, <1>2, <2>1, WithStatusMoves, SettledMoves
  <2>. QED
    BY <1>1, <1>2, <2>2, SettleKeeps
<1>3. CASE StepLimit(i)
  <2>1. LoopWith(WithStatus(plan, i, "failed")) /\ acted' = acted
    BY <1>3 DEF StepLimit, Settle, history
  <2>. QED
    BY <1>2, <2>1
<1>4. ASSUME NEW outcome, Attempt(i, outcome) PROVE IInv'
  <2>1. acted' = acted /\ Status(plan, i) = "running"
    BY <1>4 DEF Attempt, history
  <2>2. CASE \/ LoopWith(WithStatus(Attempted(plan, i), i, "completed"))
             \/ LoopWith(WithStatus([Attempted(plan, i) EXCEPT !.tasks[i].evidence = FALSE],
                                    i, "completed"))
             \/ LoopWith(WithStatus(Attempted(plan, i), i, "failed"))
    BY <1>2, <2>1, <2>2
  <2>3. CASE plan' = Attempted(plan, i) /\ UNCHANGED <<saved, pc, active, cursor>>
    BY <1>1, <1>4, <2>1, <2>3, RepeatKeeps DEF Attempt
  <2>. QED
    BY <1>4, <2>2, <2>3 DEF Attempt, Settle
<1>5. ASSUME NEW did \in BOOLEAN, NEW outcome \in {"completed", "failed"},
             Act(i, did, outcome)
      PROVE  IInv'
  <2>1. Status(plan, i) = "approved" /\ acted' = [acted EXCEPT ![i] = IF did THEN @ + 1 ELSE @]
        /\ LoopWith(WithStatus(Attempted(plan, i), i, outcome))
    BY <1>5 DEF Act, Settle
  <2>2. \E n \in {acted[i], acted[i] + 1} : acted' = [acted EXCEPT ![i] = n]
    BY <2>1 DEF IInv, TypeOK
  <2>. QED
    BY <1>2, <2>1, <2>2
<1>. QED
  BY <1>3, <1>4, <1>5

\* Every step of the script that runs the plan keeps the invariant.
LEMMA RunKeeps ==
  ASSUME IInv, Run
  PROVE  IInv'
<1>1. CASE BeginPass \/ RefreshTask \/ Pause
  BY <1>1, BeginPassKeeps, RefreshKeeps, PauseKeeps
<1>2. ASSUME NEW i \in Slots, StartTask(i) PROVE IInv'
  <2>1. pc = "refresh" /\ Status(plan, i) = "ready" /\ Begin(i, "running")
        /\ UNCHANGED <<verdict, enabled, history>>
    BY <1>2 DEF StartTask, PassDone, Ready
  <2>. QED
    BY <2>1, BeginKeeps
<1>3. ASSUME NEW i \in Slots, ContinueWaiting(i) \/ AskApproval(i) \/ StepLimit(i)
      PROVE  IInv'
  BY <1>3, ContinueKeeps, AskApprovalKeeps, ExecutedKeeps
<1>4. ASSUME NEW i \in Slots, NEW outcome, Attempt(i, outcome) PROVE IInv'
  BY <1>4, ExecutedKeeps
<1>5. ASSUME NEW i \in Slots, NEW did \in BOOLEAN, NEW outcome \in {"completed", "failed"},
             Act(i, did, outcome)
      PROVE  IInv'
  BY <1>5, ExecutedKeeps
<1>6. ASSUME NEW satisfied \in BOOLEAN, NEW again \in BOOLEAN, Evaluate(satisfied, again)
      PROVE  IInv'
  <2>1. PassDone /\ Ready(plan) = {} /\ UNCHANGED <<verdict, enabled, history>>
    BY <1>6 DEF Evaluate
  <2>2. CASE Reached(plan, satisfied) /\ EndWith([plan EXCEPT !.status = "completed"])
    BY <2>1, <2>2, OutcomeKeeps DEF Reached
  <2>3. CASE EndWith([plan EXCEPT !.status = "failed"])
    BY <2>1, <2>3, OutcomeKeeps
  <2>4. CASE /\ plan' = [plan EXCEPT !.status = "evaluating"] /\ pc' = "replan"
             /\ UNCHANGED <<held, saved, active, cursor, resumed>>
    BY <2>1, <2>4, ToReplanKeeps
  <2>. QED
    BY <1>6, <2>2, <2>3, <2>4 DEF Evaluate
<1>7. ASSUME NEW k \in 1 .. MaxListed - plan.listed, NEW additions \in Additions(plan, k),
             Replan(k, additions)
      PROVE  IInv'
  BY <1>7, ReplanKeeps
<1>8. CASE ReplanFails
  BY <1>8, OutcomeKeeps DEF ReplanFails
<1>. QED
  BY <1>1, <1>2, <1>3, <1>4, <1>5, <1>6, <1>7, <1>8 DEF Run

\* What the user and the clock do keeps the invariant.
LEMMA UserKeeps ==
  ASSUME IInv, User
  PROVE  IInv'
<1>1. ASSUME NEW i \in Slots, NEW decision \in {"approved", "denied", "cancelled"},
             Decide(i, decision)
      PROVE  IInv'
  BY <1>1, AnswerKeeps DEF Decide
<1>. QED
  BY <1>1, CreatePlanKeeps, ResumeKeeps, CancelKeeps DEF User

\* The invariant is inductive.
LEMMA Kept == IInv /\ [Next]_vars => IInv'
<1>1. ASSUME IInv, NEW i \in Slots, Expire(i) PROVE IInv'
  <2>1. verdict' = [verdict EXCEPT ![i] = "expired"] /\ verdict[i] \in {"pending", "approved"}
        /\ UNCHANGED <<plan, held, saved, enabled, script, history>>
    BY <1>1 DEF Expire
  <2>. QED
    BY <1>1, <2>1, AnswerKeeps
<1>2. ASSUME IInv, Raise PROVE IInv'
  <2>1. CASE resumed
    BY <1>2, <2>1, HandledKeeps DEF Raise
  <2>2. CASE ~resumed
    BY <1>2, <2>2, AbandonKeeps DEF Raise, PassDone
  <2>. QED
    BY <2>1, <2>2
<1>3. ASSUME IInv, Crash PROVE IInv'
  BY <1>3, AbandonKeeps DEF Crash
<1>. QED
  BY <1>1, <1>2, <1>3, RunKeeps, UserKeeps, StutterKeeps DEF Next, Over

\* The invariant holds in every reachable state.
THEOREM Invariance == Spec => []IInv
BY Initially, Kept, PTL DEF Spec

--------------------------------------------------------------------------------

\* The plan in memory, the durable row and the script are of their types
\* (planner/models.py, planner/runtime.py).
THEOREM TypeCorrect == Spec => []TypeOK
<1>1. IInv => TypeOK
  BY DEF IInv
<1>. QED
  BY <1>1, Invariance, PTL

\* For any plan and any number of revisions, script runs, crashes and failures of
\* the LLM, a consequential tool acts at most once for a task, and only after an
\* approval (task_runner.py:305-316).
THEOREM ActsOnce == Spec => []ConsequentialOnce
<1>1. IInv => ConsequentialOnce
  <2> SUFFICES ASSUME IInv, NEW i \in Slots
               PROVE  /\ acted[i] <= 1
                      /\ acted[i] = 1 => verdict[i] \in {"approved", "expired"}
    BY DEF ConsequentialOnce
  <2>1. acted[i] = 0 \/ (acted[i] = 1 /\ verdict[i] \in {"approved", "expired"})
    BY DEF IInv, ActedInv
  <2>. QED
    BY <2>1
<1>. QED
  BY <1>1, Invariance, PTL

\* However often a plan is revised, no revision names a tool whose action was
\* denied or completed before (replanner.py:54-91).
THEOREM StaysRefused == Spec => []RefusedStaysRefused
<1>1. IInv => RefusedStaysRefused
  BY DEF IInv, RevisionInv, Superseded, RefusedStaysRefused
<1>. QED
  BY <1>1, Invariance, PTL

\* Whatever is scheduled, parked, resumed and revised, at most one action is put
\* to the user, and a parked plan can be found by its request (runtime.py:123-145).
THEOREM OneQuestion == Spec => []OneQuestionAtATime
<1>1. ASSUME IInv PROVE Cardinality({i \in Slots : verdict[i] = "pending"}) <= 1
  <2> DEFINE S == {i \in Slots : verdict[i] = "pending"}
  <2>1. \A i, j \in S : i = j
    BY <1>1 DEF IInv, WaitingInv, ObjectInv, Sound, OneWaits
  <2>2. CASE S = {}
    BY <2>2, FS_EmptySet
  <2>3. CASE S # {}
    <3>1. PICK x \in S : S = {x}
      BY <2>1, <2>3
    <3>. QED
      BY <3>1, FS_Singleton
  <2>. QED
    BY <2>2, <2>3
<1>2. ASSUME IInv, saved.status = "waiting"
      PROVE  \E i \in Listed(saved) :
               /\ {j \in Listed(saved) : Status(saved, j) = "waiting"} = {i}
               /\ verdict[i] # "none"
  <2>1. PICK i \in Slots : Status(saved, i) = "waiting"
    BY <1>2 DEF IInv, WaitingInv
  <2>2. i \in Listed(saved) /\ verdict[i] # "none"
    BY <1>2, <2>1 DEF IInv, ObjectInv, Sound, Placed, WaitingInv
  <2>3. Listed(saved) \subseteq Slots
    BY <1>2, PlanAssumption DEF IInv, TypeOK, PlanState, Listed, Slots
  <2>4. \A j \in Listed(saved) : Status(saved, j) = "waiting" <=> j = i
    BY <1>2, <2>1, <2>3 DEF IInv, ObjectInv, Sound, OneWaits
  <2>. QED
    BY <2>2, <2>4
<1>3. IInv => OneQuestionAtATime
  BY <1>1, <1>2 DEF OneQuestionAtATime
<1>. QED
  BY <1>3, Invariance, PTL

\* A plan that ended leaves no task under way or able to run, and a completed one
\* no gap, whichever of its objects was persisted (runtime.py:147-225,
\* goal_evaluator.py:103-114).
THEOREM EndAccounts == Spec => []EndAccountsForAll
<1>1. IInv => EndAccountsForAll
  BY DEF IInv, EndInv, Accounted, Stuck, EndAccountsForAll
<1>. QED
  BY <1>1, Invariance, PTL

--------------------------------------------------------------------------------
(* Attempts *)

\* A step that attempts a task finds all it depends on complete.
AttemptsJustified ==
  \A i \in Slots : plan'.tasks[i].attempts <= plan.tasks[i].attempts \/ DepsComplete(plan, i)

\* The attempt in hand is the only new one, and its task had its dependencies met.
LEMMA ExecutedJustified ==
  ASSUME IInv, NEW i \in Slots, pc = "attempt", active = i,
         \/ plan' = Attempted(plan, i)
         \/ \E status \in TaskStatus :
              \/ plan' = WithStatus(plan, i, status)
              \/ plan' = WithStatus(Attempted(plan, i), i, status)
              \/ plan' = WithStatus([Attempted(plan, i) EXCEPT !.tasks[i].evidence = FALSE],
                                    i, status)
  PROVE  AttemptsJustified
<1>1. plan \in PlanState /\ DepsComplete(plan, i)
  BY DEF IInv, TypeOK, AttemptInv, ObjectInv, Sound, MayStart, Underway
<1>2. \A j \in Slots : plan.tasks[j].attempts <= plan.tasks[j].attempts
  BY <1>1, TaskFields
<1>3. \E status : Moved(plan, plan', i, status)
  <2>1. CASE plan' = Attempted(plan, i)
    BY <1>1, <2>1, AttemptedMoves
  <2>2. ASSUME NEW status \in TaskStatus,
               \/ plan' = WithStatus(plan, i, status)
               \/ plan' = WithStatus(Attempted(plan, i), i, status)
               \/ plan' = WithStatus([Attempted(plan, i) EXCEPT !.tasks[i].evidence = FALSE],
                                     i, status)
        PROVE  Moved(plan, plan', i, status)
    BY <1>1, <2>2, WithStatusMoves, SettledMoves
  <2>. QED
    BY <2>1, <2>2
<1>4. \A j \in Slots \ {i} : plan'.tasks[j] = plan.tasks[j]
  BY <1>3 DEF Moved
<1>. QED
  BY <1>1, <1>2, <1>4 DEF AttemptsJustified

\* Every step attempts only tasks whose dependencies are met.
LEMMA StepsJustified ==
  ASSUME IInv, [Next]_vars
  PROVE  AttemptsJustified
<1>1. /\ plan \in PlanState /\ saved \in PlanState /\ held \in PlanState
      /\ \A j \in Slots : /\ plan.tasks[j].attempts \in Nat
                          /\ saved.tasks[j].attempts <= plan.tasks[j].attempts
                          /\ held.tasks[j].attempts <= plan.tasks[j].attempts
  BY TaskFields DEF IInv, TypeOK, AttemptInv
<1>2. ASSUME plan'.tasks = plan.tasks PROVE AttemptsJustified
  BY <1>1, <1>2 DEF AttemptsJustified
<1>3. ASSUME \A j \in Slots : plan'.tasks[j].attempts <= plan.tasks[j].attempts
      PROVE  AttemptsJustified
  BY <1>3 DEF AttemptsJustified
<1>4. ASSUME NEW i \in Slots, NEW status \in TaskStatus, plan' = WithStatus(plan, i, status)
      PROVE  AttemptsJustified
  BY <1>1, <1>4, WithStatusMoves DEF AttemptsJustified
<1>5. ASSUME NEW status \in PlanStatus, NEW p \in {plan, saved, held},
             plan' = [p EXCEPT !.status = status]
      PROVE  AttemptsJustified
  <2>1. plan'.tasks = p.tasks
    BY <1>1, <1>5, StatusOfPlan
  <2>. QED
    BY <1>1, <1>3, <1>5, <2>1
<1>6. CASE UNCHANGED vars
  BY <1>2, <1>6 DEF vars
<1>7. CASE Run
  <2>1. CASE BeginPass
    BY <1>2, <2>1 DEF BeginPass
  <2>2. CASE RefreshTask
    <3>1. cursor \in Slots
      BY <1>1, <2>2, PlanAssumption DEF RefreshTask, IInv, TypeOK, PlanState, Slots
    <3>2. Sound(plan) /\ plan' = RefreshedAt(plan, cursor, enabled)
      BY <2>2 DEF RefreshTask, IInv, ObjectInv
    <3>3. \A j \in Slots : plan'.tasks[j].attempts = plan.tasks[j].attempts
      BY <1>1, <3>1, <3>2, RefreshedAtMoves
    <3>. QED
      BY <1>1, <3>3 DEF AttemptsJustified
  <2>3. CASE Pause \/ ReplanFails \/ \E satisfied, again \in BOOLEAN : Evaluate(satisfied, again)
    <3>1. \E status \in PlanStatus : plan' = [plan EXCEPT !.status = status]
      BY <2>3 DEF Pause, ReplanFails, Evaluate, EndWith, PlanStatus
    <3>. QED
      BY <1>5, <3>1
  <2>4. ASSUME NEW i \in Slots, ContinueWaiting(i) \/ StartTask(i) \/ AskApproval(i)
        PROVE  AttemptsJustified
    <3>1. \E status \in TaskStatus : plan' = WithStatus(plan, i, status)
      BY <2>4 DEF ContinueWaiting, StartTask, AskApproval, Begin, GateWait, GateStop,
                  LoopWith, TaskStatus
    <3>. QED
      BY <1>4, <3>1
  <2>5. ASSUME NEW i \in Slots,
               \/ StepLimit(i)
               \/ \E outcome : Attempt(i, outcome)
               \/ \E did \in BOOLEAN, outcome \in {"completed", "failed"} :
                    Act(i, did, outcome)
        PROVE  AttemptsJustified
    BY <2>5, ExecutedJustified
       DEF StepLimit, Attempt, Act, Settle, LoopWith, TaskStatus
  <2>6. ASSUME NEW k \in 1 .. MaxListed - plan.listed, NEW additions \in Additions(plan, k),
               Replan(k, additions)
        PROVE  AttemptsJustified
    <3>1. plan' = Revised(plan, k, additions) /\ Sound(plan)
      BY <2>6 DEF Replan, LoopWith, IInv, ObjectInv
    <3>2. \A j \in Slots : \/ plan'.tasks[j].attempts = 0
                           \/ plan'.tasks[j].attempts = plan.tasks[j].attempts
      BY <1>1, <3>1, RevisedFacts
    <3>. QED
      BY <1>1, <1>3, <3>2
  <2>. QED
    BY <1>7, <2>1, <2>2, <2>3, <2>4, <2>5, <2>6 DEF Run
<1>8. CASE User
  <2>1. ASSUME NEW k \in Slots, NEW additions \in Additions(NoPlan, k), NEW tools,
               CreatePlan(tools, k, additions)
        PROVE  AttemptsJustified
    <3>1. \A j \in Slots : plan'.tasks[j].attempts = 0
      BY <2>1, PlannedFacts DEF CreatePlan, LoopWith
    <3>. QED
      BY <1>1, <1>3, <3>1
  <2>2. ASSUME NEW tools, Resume(tools) PROVE AttemptsJustified
    <3>1. plan' = [saved EXCEPT !.status = "running"] /\ "running" \in PlanStatus
      BY <2>2 DEF Resume, LoopWith, PlanStatus
    <3>. QED
      BY <1>5, <3>1
  <2>3. ASSUME NEW i, NEW decision, Decide(i, decision) PROVE AttemptsJustified
    BY <1>2, <2>3 DEF Decide
  <2>4. CASE CancelPlan
    <3> DEFINE cancelled(task) == IF task.status \in {"pending", "ready"}
                                  THEN [task EXCEPT !.status = "cancelled"] ELSE task
    <3>1. plan' = [plan EXCEPT !.status = "cancelled",
                               !.tasks = [i \in Slots |-> cancelled(plan.tasks[i])]]
      BY <1>1, <2>4 DEF CancelPlan, EndWith, PlanState
    <3>2. plan'.tasks = [i \in Slots |-> cancelled(plan.tasks[i])]
      BY <1>1, <3>1 DEF PlanState
    <3>3. \A j \in Slots : cancelled(plan.tasks[j]).attempts = plan.tasks[j].attempts
      BY <1>1, TaskFields DEF Task
    <3>. QED
      BY <1>1, <3>2, <3>3 DEF AttemptsJustified
  <2>. QED
    BY <1>8, <2>1, <2>2, <2>3, <2>4 DEF User
<1>9. CASE (\E i \in Slots : Expire(i)) \/ Over
  BY <1>2, <1>9 DEF Expire, Over, vars
<1>10. CASE Crash \/ Raise
  <2>1. plan' = saved \/ plan' = [plan EXCEPT !.status = "failed"]
        \/ plan' = [held EXCEPT !.status = "failed"]
    BY <1>10 DEF Crash, Raise, Abandon, EndWith, Handled
  <2>2. "failed" \in PlanStatus
    BY DEF PlanStatus
  <2>. QED
    BY <1>1, <1>3, <1>5, <2>1, <2>2
<1>. QED
  BY <1>6, <1>7, <1>8, <1>9, <1>10 DEF Next

\* In the first plan, in every revision and after every pause, a task is attempted
\* only when all it depends on is complete (scheduler.py:14-45,
\* runtime.py:123-170).
THEOREM RunsDependenciesFirst == Spec => DependenciesFirst
<1>1. ASSUME IInv, [Next]_vars
      PROVE  \A i \in Slots : plan'.tasks[i].attempts > plan.tasks[i].attempts =>
               \A d \in plan.tasks[i].deps : Status(plan, d) = "completed"
  <2>1. plan \in PlanState /\ plan' \in PlanState
    BY <1>1, Kept DEF IInv, TypeOK
  <2>2. \A i \in Slots : /\ plan.tasks[i].attempts \in Nat
                         /\ plan'.tasks[i].attempts \in Nat
    BY <2>1, TaskFields
  <2>. QED
    BY <1>1, <2>2, StepsJustified DEF AttemptsJustified, DepsComplete
<1>. QED
  BY <1>1, Invariance, PTL DEF Spec, DependenciesFirst

================================================================================
