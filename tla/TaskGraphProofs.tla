---------------------------- MODULE TaskGraphProofs ----------------------------
(***************************************************************************)
(* Lemmas about the operators of TaskGraph: what the validator's,          *)
(* replanner's and scheduler's steps leave of a plan, and that they keep   *)
(* it sound.  The proofs about the two plan runtimes cite them by name.    *)
(***************************************************************************)
EXTENDS TaskGraph, TLAPS

\* The list has no gaps, and nothing beyond its end.
Placed(p) ==
  \A i \in Slots :
    /\ Status(p, i) = "absent" <=> i \notin Listed(p)
    /\ Status(p, i) = "absent" => p.tasks[i].attempts = 0

\* A task that was let start has its dependencies complete.
MayStart(p) ==
  \A i \in Slots : Status(p, i) \in {"ready", "running", "waiting", "approved"} =>
    DepsComplete(p, i)

OneWaits(p) ==
  \A i, j \in Slots : Status(p, i) = "waiting" /\ Status(p, j) = "waiting" => i = j

Sound(p) == Placed(p) /\ MayStart(p) /\ OneWaits(p)

\* A task that cannot run: its tool is off or it waits for another task.
Stuck(p, i, tools) ==
  \/ ~Supports(tools, p.tasks[i].kind)
  \/ \E d \in p.tasks[i].deps : Status(p, d) # "completed"

\* No task is under way or could still run.
Accounted(p, tools) ==
  \A i \in Listed(p) :
    /\ Status(p, i) \notin {"ready", "running", "waiting", "approved"}
    /\ Status(p, i) = "pending" => Stuck(p, i, tools)

\* q is p with task i in another status, and perhaps more attempts at it.
Moved(p, q, i, status) ==
  /\ q \in PlanState
  /\ q.status = p.status /\ q.listed = p.listed /\ q.revision = p.revision
  /\ \A j \in Slots : /\ q.tasks[j].kind = p.tasks[j].kind
                      /\ q.tasks[j].deps = p.tasks[j].deps
                      /\ q.tasks[j].attempts >= p.tasks[j].attempts
                      /\ Status(q, j) = IF j = i THEN status ELSE Status(p, j)
  /\ \A j \in Slots \ {i} : q.tasks[j] = p.tasks[j]

\* The absent plan is typed.
LEMMA NoPlanType == NoPlan \in PlanState
BY PlanAssumption
   DEF NoPlan, PlanState, PlanStatus, AbsentTask, Task, TaskStatus, Kinds, Slots

\* The absent plan is sound.
LEMMA NoPlanSound == Sound(NoPlan)
BY DEF Sound, Placed, MayStart, OneWaits, NoPlan, AbsentTask, Status, Listed

\* The fields of a task have their types.
LEMMA TaskFields ==
  ASSUME NEW p \in PlanState, NEW i \in Slots
  PROVE  /\ p.tasks[i] \in Task
         /\ p.tasks[i].kind \in Kinds /\ p.tasks[i].deps \subseteq Slots
         /\ p.tasks[i].attempts \in Nat
         /\ Status(p, i) \in TaskStatus
BY DEF PlanState, Task, Status

\* Writing the status of the plan changes nothing else.
LEMMA StatusOfPlan ==
  ASSUME NEW p \in PlanState, NEW status \in PlanStatus
  PROVE  /\ [p EXCEPT !.status = status] \in PlanState
         /\ [p EXCEPT !.status = status].status = status
         /\ [p EXCEPT !.status = status].tasks = p.tasks
         /\ [p EXCEPT !.status = status].listed = p.listed
         /\ [p EXCEPT !.status = status].revision = p.revision
BY DEF PlanState

\* A new status for a task.
LEMMA WithStatusMoves ==
  ASSUME NEW p \in PlanState, NEW i \in Slots, NEW status \in TaskStatus
  PROVE  /\ Moved(p, WithStatus(p, i, status), i, status)
         /\ \A j \in Slots : WithStatus(p, i, status).tasks[j].attempts = p.tasks[j].attempts
<1> DEFINE q == WithStatus(p, i, status)
           task == [p.tasks[i] EXCEPT !.status = status]
<1>1. task \in Task
  BY TaskFields DEF Task
<1>2. q = [p EXCEPT !.tasks = [p.tasks EXCEPT ![i] = task]]
  BY DEF WithStatus, PlanState
<1>3. q.tasks = [p.tasks EXCEPT ![i] = task]
  BY <1>2 DEF PlanState
<1>4. q \in PlanState /\ q.status = p.status /\ q.listed = p.listed /\ q.revision = p.revision
  BY <1>1, <1>2 DEF PlanState
<1>5. q.tasks[i] = task /\ \A j \in Slots \ {i} : q.tasks[j] = p.tasks[j]
  BY <1>3 DEF PlanState
<1>6. /\ task.kind = p.tasks[i].kind /\ task.deps = p.tasks[i].deps
      /\ task.attempts = p.tasks[i].attempts /\ task.status = status
  BY TaskFields DEF Task
<1> HIDE DEF q, task
<1>7. \A j \in Slots : /\ q.tasks[j].kind = p.tasks[j].kind
                       /\ q.tasks[j].deps = p.tasks[j].deps
                       /\ q.tasks[j].attempts = p.tasks[j].attempts
                       /\ Status(q, j) = IF j = i THEN status ELSE Status(p, j)
  BY <1>5, <1>6 DEF Status
<1>8. \A j \in Slots : q.tasks[j].attempts >= p.tasks[j].attempts
  BY <1>7, TaskFields
<1>9. Moved(p, q, i, status)
  BY <1>4, <1>5, <1>7, <1>8 DEF Moved
<1>. QED
  BY <1>7, <1>9 DEF q

\* One more attempt.
LEMMA AttemptedMoves ==
  ASSUME NEW p \in PlanState, NEW i \in Slots
  PROVE  Moved(p, Attempted(p, i), i, Status(p, i))
<1> DEFINE q == Attempted(p, i)
           task == [p.tasks[i] EXCEPT !.attempts = @ + 1]
<1>1. task \in Task
  BY TaskFields DEF Task
<1>2. q = [p EXCEPT !.tasks = [p.tasks EXCEPT ![i] = task], !.steps = p.steps + 1]
  BY DEF Attempted, PlanState
<1>3. q.tasks = [p.tasks EXCEPT ![i] = task]
  BY <1>2 DEF PlanState
<1>4. q \in PlanState /\ q.status = p.status /\ q.listed = p.listed /\ q.revision = p.revision
  <2>1. [p.tasks EXCEPT ![i] = task] \in [Slots -> Task] /\ p.steps + 1 \in Nat
    BY <1>1 DEF PlanState
  <2> HIDE DEF task
  <2>. QED
    BY <1>2, <2>1 DEF PlanState
<1>5. q.tasks[i] = task /\ \A j \in Slots \ {i} : q.tasks[j] = p.tasks[j]
  BY <1>3 DEF PlanState
<1>6. /\ task.kind = p.tasks[i].kind /\ task.deps = p.tasks[i].deps
      /\ task.attempts >= p.tasks[i].attempts /\ task.status = p.tasks[i].status
  BY TaskFields DEF Task
<1> HIDE DEF q, task
<1>7. \A j \in Slots : /\ q.tasks[j].kind = p.tasks[j].kind
                       /\ q.tasks[j].deps = p.tasks[j].deps
                       /\ q.tasks[j].attempts >= p.tasks[j].attempts
                       /\ Status(q, j) = IF j = i THEN Status(p, i) ELSE Status(p, j)
  BY <1>5, <1>6, TaskFields DEF Status
<1>9. Moved(p, q, i, Status(p, i))
  BY <1>4, <1>5, <1>7 DEF Moved
<1>. QED
  BY <1>9 DEF q

\* Document retrieval that found nothing.
LEMMA NoEvidenceMoves ==
  ASSUME NEW p \in PlanState, NEW i \in Slots
  PROVE  Moved(p, [p EXCEPT !.tasks[i].evidence = FALSE], i, Status(p, i))
<1> DEFINE q == [p EXCEPT !.tasks[i].evidence = FALSE]
           task == [p.tasks[i] EXCEPT !.evidence = FALSE]
<1>1. task \in Task
  <2>1. p.tasks[i] \in Task /\ FALSE \in BOOLEAN
    BY TaskFields
  <2>. QED
    BY <2>1, Zenon DEF Task
<1>2. q = [p EXCEPT !.tasks = [p.tasks EXCEPT ![i] = task]]
  BY DEF PlanState
<1>3. q.tasks = [p.tasks EXCEPT ![i] = task]
  BY <1>2 DEF PlanState
<1>4. q \in PlanState /\ q.status = p.status /\ q.listed = p.listed /\ q.revision = p.revision
  BY <1>1, <1>2 DEF PlanState
<1>5. q.tasks[i] = task /\ \A j \in Slots \ {i} : q.tasks[j] = p.tasks[j]
  BY <1>3 DEF PlanState
<1>6. /\ task.kind = p.tasks[i].kind /\ task.deps = p.tasks[i].deps
      /\ task.attempts = p.tasks[i].attempts /\ task.status = p.tasks[i].status
  BY TaskFields DEF Task
<1> HIDE DEF q, task
<1>7. \A j \in Slots : /\ q.tasks[j].kind = p.tasks[j].kind
                       /\ q.tasks[j].deps = p.tasks[j].deps
                       /\ q.tasks[j].attempts >= p.tasks[j].attempts
                       /\ Status(q, j) = IF j = i THEN Status(p, i) ELSE Status(p, j)
  BY <1>5, <1>6, TaskFields DEF Status
<1>9. Moved(p, q, i, Status(p, i))
  BY <1>4, <1>5, <1>7 DEF Moved
<1>. QED
  BY <1>9 DEF q

\* Two changes of one task are one change of it.
LEMMA MovedAgain ==
  ASSUME NEW p \in PlanState, NEW q, NEW r, NEW i \in Slots, NEW s, NEW t,
         Moved(p, q, i, s), Moved(q, r, i, t)
  PROVE  Moved(p, r, i, t)
<1>1. \A j \in Slots : /\ p.tasks[j].attempts \in Nat /\ q.tasks[j].attempts \in Nat
                       /\ r.tasks[j].attempts \in Nat
  BY TaskFields DEF Moved
<1>2. \A j \in Slots : r.tasks[j].attempts >= p.tasks[j].attempts
  BY <1>1 DEF Moved
<1>. QED
  BY <1>2 DEF Moved

\* A finished attempt, with what came of it.
LEMMA SettledMoves ==
  ASSUME NEW p \in PlanState, NEW i \in Slots, NEW status \in TaskStatus
  PROVE  /\ Moved(p, WithStatus(Attempted(p, i), i, status), i, status)
         /\ Moved(p, WithStatus([Attempted(p, i) EXCEPT !.tasks[i].evidence = FALSE],
                                i, status), i, status)
<1> DEFINE q == Attempted(p, i)
           r == [q EXCEPT !.tasks[i].evidence = FALSE]
<1>1. Moved(p, q, i, Status(p, i)) /\ q \in PlanState
  BY AttemptedMoves DEF Moved
<1> HIDE DEF q
<1>2. Moved(q, r, i, Status(q, i)) /\ r \in PlanState
  BY <1>1, NoEvidenceMoves DEF Moved
<1> HIDE DEF r
<1>3. Moved(p, r, i, Status(q, i))
  BY <1>1, <1>2, MovedAgain
<1>4. Moved(q, WithStatus(q, i, status), i, status) /\ Moved(r, WithStatus(r, i, status), i, status)
  BY <1>1, <1>2, WithStatusMoves
<1>5. /\ Moved(p, WithStatus(q, i, status), i, status)
      /\ Moved(p, WithStatus(r, i, status), i, status)
  BY <1>1, <1>3, <1>4, MovedAgain
<1>. QED
  BY <1>5 DEF q, r

\* A task that is moved leaves the plan sound: it was not complete, and it starts
\* or waits only with its dependencies complete and no other waiting.
LEMMA MovedSound ==
  ASSUME NEW p \in PlanState, NEW q, NEW i \in Slots, NEW status,
         Moved(p, q, i, status), Sound(p),
         Status(p, i) \notin {"absent", "completed"}, status # "absent",
         status \in {"ready", "running", "waiting", "approved"} => DepsComplete(p, i),
         status = "waiting" => \A j \in Slots \ {i} : Status(p, j) # "waiting"
  PROVE  Sound(q)
<1>1. Placed(q)
  BY DEF Moved, Sound, Placed, Listed
<1>2. \A j \in Slots : DepsComplete(p, j) => DepsComplete(q, j)
  BY TaskFields DEF Moved, DepsComplete
<1>3. MayStart(q)
  BY <1>2 DEF Moved, Sound, MayStart
<1>4. OneWaits(q)
  BY DEF Moved, Sound, OneWaits
<1>. QED
  BY <1>1, <1>3, <1>4 DEF Sound

\* The pass at one task: it is left alone, or refreshed.
LEMMA RefreshedAtMoves ==
  ASSUME NEW p \in PlanState, NEW i \in Slots, NEW tools, Sound(p)
  PROVE  /\ \/ RefreshedAt(p, i, tools) = p /\ Status(p, i) \notin {"pending", "ready"}
            \/ /\ Moved(p, RefreshedAt(p, i, tools), i, Refreshed(p, i, tools))
               /\ Status(p, i) \in {"pending", "ready"}
         /\ RefreshedAt(p, i, tools) \in PlanState
         /\ \A j \in Slots : RefreshedAt(p, i, tools).tasks[j].attempts = p.tasks[j].attempts
         /\ Sound(RefreshedAt(p, i, tools))
<1>1. Refreshed(p, i, tools) \in {"blocked", "ready", "pending"}
  BY DEF Refreshed
<1>2. Refreshed(p, i, tools) = "ready" => DepsComplete(p, i)
  BY DEF Refreshed
<1>3. CASE Status(p, i) \notin {"pending", "ready"}
  BY <1>3 DEF RefreshedAt
<1>4. CASE Status(p, i) \in {"pending", "ready"}
  <2>1. RefreshedAt(p, i, tools) = WithStatus(p, i, Refreshed(p, i, tools))
    BY <1>4 DEF RefreshedAt
  <2>2. Refreshed(p, i, tools) \in TaskStatus
    BY <1>1 DEF TaskStatus
  <2>3. /\ Moved(p, RefreshedAt(p, i, tools), i, Refreshed(p, i, tools))
        /\ \A j \in Slots : RefreshedAt(p, i, tools).tasks[j].attempts = p.tasks[j].attempts
    BY <2>1, <2>2, WithStatusMoves
  <2>4. Sound(RefreshedAt(p, i, tools))
    BY <1>1, <1>2, <1>4, <2>3, MovedSound
  <2>. QED
    BY <1>4, <2>3, <2>4 DEF Moved
<1>. QED
  BY <1>3, <1>4

\* A task that a revision adds is typed.
LEMMA NewTaskType ==
  ASSUME NEW draft \in Drafts
  PROVE  /\ NewTask(draft) \in Task
         /\ NewTask(draft).status = "pending" /\ NewTask(draft).attempts = 0
         /\ NewTask(draft).kind = draft.kind
<1>1. draft \in Draft
  BY PlanAssumption
<1>2. TRUE \in BOOLEAN /\ 0 \in Nat /\ "pending" \in TaskStatus
  BY DEF TaskStatus
<1>. QED
  BY <1>1, <1>2, Zenon DEF NewTask, Draft, Task

\* More tasks at the end of the list.
LEMMA ExtendFacts ==
  ASSUME NEW p \in PlanState, NEW k \in 1 .. MaxListed - p.listed,
         NEW additions \in Additions(p, k)
  PROVE  LET q == Extend(p, k, additions)
             new == p.listed + 1 .. p.listed + k
         IN /\ q \in PlanState
            /\ q.listed = p.listed + k /\ q.revision = p.revision
            /\ new \subseteq Slots /\ DOMAIN additions = new
            /\ \A i \in new : q.tasks[i] = NewTask(additions[i]) /\ additions[i] \in Drafts
            /\ \A i \in Slots \ new : q.tasks[i] = p.tasks[i]
<1> DEFINE q == Extend(p, k, additions)
           new == p.listed + 1 .. p.listed + k
           tasks == [i \in Slots |-> IF i \in DOMAIN additions
                                     THEN NewTask(additions[i]) ELSE p.tasks[i]]
<1>1. p.listed \in 0 .. MaxListed /\ k \in Nat /\ MaxListed \in Nat
  BY PlanAssumption DEF PlanState
<1>2. p.listed + k \in 0 .. MaxListed /\ new \subseteq Slots
  BY <1>1 DEF Slots
<1>3. DOMAIN additions = new /\ \A i \in new : additions[i] \in Drafts
  BY DEF Additions
<1>4. tasks \in [Slots -> Task]
  BY <1>3, NewTaskType, TaskFields
<1>5. q = [p EXCEPT !.listed = p.listed + k, !.tasks = tasks]
  BY DEF Extend, PlanState
<1> HIDE DEF new
<1>6. /\ \A i \in new : tasks[i] = NewTask(additions[i])
      /\ \A i \in Slots \ new : tasks[i] = p.tasks[i]
  BY <1>2, <1>3
<1> HIDE DEF tasks
<1>7. q \in PlanState /\ q.listed = p.listed + k /\ q.revision = p.revision /\ q.tasks = tasks
  BY <1>2, <1>4, <1>5 DEF PlanState
<1>. QED
  BY <1>2, <1>3, <1>6, <1>7 DEF new

\* What _retire_unfinished leaves: pending and ready tasks are cancelled.
LEMMA RetireFacts ==
  ASSUME NEW p \in PlanState, Placed(p)
  PROVE  LET r == Retire(p)
         IN /\ r \in PlanState
            /\ r.listed = p.listed /\ r.revision = p.revision
            /\ \A i \in Slots :
                 /\ r.tasks[i].kind = p.tasks[i].kind /\ r.tasks[i].deps = p.tasks[i].deps
                 /\ r.tasks[i].attempts = p.tasks[i].attempts
                 /\ Status(r, i) = IF Status(p, i) \in {"pending", "ready"}
                                   THEN "cancelled" ELSE Status(p, i)
<1> DEFINE retired(task) ==
             IF task.status = "completed" THEN task
             ELSE [task EXCEPT !.required = FALSE,
                               !.status = IF @ \in {"pending", "ready"}
                                          THEN "cancelled" ELSE @]
           tasks == [i \in Slots |-> IF i \in Listed(p) THEN retired(p.tasks[i])
                                     ELSE p.tasks[i]]
<1>1. ASSUME NEW task \in Task
      PROVE  /\ retired(task) \in Task
             /\ retired(task).kind = task.kind /\ retired(task).deps = task.deps
             /\ retired(task).attempts = task.attempts
             /\ retired(task).status = IF task.status \in {"pending", "ready"}
                                       THEN "cancelled" ELSE task.status
  <2>1. CASE task.status = "completed"
    BY <2>1
  <2>2. CASE task.status # "completed"
    <3> DEFINE s == IF task.status \in {"pending", "ready"} THEN "cancelled" ELSE task.status
    <3>1. retired(task) = [task EXCEPT !.required = FALSE, !.status = s]
      BY <2>2 DEF Task
    <3>2. s \in TaskStatus /\ FALSE \in BOOLEAN
      BY DEF Task, TaskStatus
    <3> HIDE DEF s
    <3>3. retired(task) \in Task
      BY <3>1, <3>2, Zenon DEF Task
    <3>4. /\ retired(task).kind = task.kind /\ retired(task).deps = task.deps
          /\ retired(task).attempts = task.attempts /\ retired(task).status = s
      BY <3>1 DEF Task
    <3>. QED
      BY <3>3, <3>4 DEF s
  <2>. QED
    BY <2>1, <2>2
<1>2. Retire(p) = [p EXCEPT !.tasks = tasks]
  BY DEF Retire, PlanState
<1> HIDE DEF retired
<1>3. tasks \in [Slots -> Task]
  BY <1>1, TaskFields
<1>4. /\ Retire(p) \in PlanState /\ Retire(p).listed = p.listed
      /\ Retire(p).revision = p.revision /\ Retire(p).tasks = tasks
  BY <1>2, <1>3 DEF PlanState
<1>5. ASSUME NEW i \in Slots
      PROVE  /\ tasks[i].kind = p.tasks[i].kind /\ tasks[i].deps = p.tasks[i].deps
             /\ tasks[i].attempts = p.tasks[i].attempts
             /\ tasks[i].status = IF Status(p, i) \in {"pending", "ready"}
                                  THEN "cancelled" ELSE Status(p, i)
  <2>1. CASE i \in Listed(p)
    BY <1>1, <2>1, TaskFields DEF Status
  <2>2. CASE i \notin Listed(p)
    BY <2>2 DEF Status, Placed
  <2>. QED
    BY <2>1, <2>2
<1>. QED
  BY <1>4, <1>5 DEF Status

\* A plan that a revision extends stays sound.
LEMMA ExtendSound ==
  ASSUME NEW p \in PlanState, Sound(p), NEW k \in 1 .. MaxListed - p.listed,
         NEW additions \in Additions(p, k)
  PROVE  Sound(Extend(p, k, additions))
<1> DEFINE q == Extend(p, k, additions)
           new == p.listed + 1 .. p.listed + k
<1>1. p.listed \in Nat /\ k \in Nat
  BY PlanAssumption DEF PlanState
<1>2. /\ q.listed = p.listed + k /\ new \subseteq Slots
      /\ \A i \in new : Status(q, i) = "pending"
      /\ \A i \in Slots \ new : q.tasks[i] = p.tasks[i]
  BY ExtendFacts, NewTaskType DEF Status
<1>3. \A i \in Slots : i \in Listed(q) <=> i \in Listed(p) \/ i \in new
  BY <1>1, <1>2 DEF Listed, Slots
<1>4. \A i \in new : i \notin Listed(p) /\ Status(p, i) = "absent"
  BY <1>1, <1>2 DEF Listed, Sound, Placed
<1> HIDE DEF q, new
<1>5. Placed(q)
  BY <1>2, <1>3 DEF Sound, Placed, Status
<1>6. ASSUME NEW i \in Slots, Status(q, i) \in {"ready", "running", "waiting", "approved"}
      PROVE  DepsComplete(q, i)
  <2>1. i \notin new
    BY <1>2, <1>6
  <2>2. q.tasks[i] = p.tasks[i] /\ DepsComplete(p, i)
    BY <1>2, <1>6, <2>1 DEF Sound, MayStart, Status
  <2>3. \A d \in p.tasks[i].deps : Status(q, d) = "completed"
    BY <1>2, <1>4, <2>2, TaskFields DEF DepsComplete, Status
  <2>. QED
    BY <2>2, <2>3 DEF DepsComplete
<1>7. OneWaits(q)
  BY <1>2 DEF Sound, OneWaits, Status
<1>. QED
  BY <1>5, <1>6, <1>7 DEF Sound, MayStart, q

\* A plan whose open tasks are retired stays sound.
LEMMA RetireSound ==
  ASSUME NEW p \in PlanState, Sound(p)
  PROVE  Sound(Retire(p))
<1> DEFINE r == Retire(p)
<1>1. /\ r.listed = p.listed
      /\ \A i \in Slots : r.tasks[i].deps = p.tasks[i].deps
                          /\ r.tasks[i].attempts = p.tasks[i].attempts
                          /\ Status(r, i) = IF Status(p, i) \in {"pending", "ready"}
                                            THEN "cancelled" ELSE Status(p, i)
  BY RetireFacts DEF Sound
<1> HIDE DEF r
<1>2. Placed(r)
  BY <1>1 DEF Sound, Placed, Listed
<1>3. \A i \in Slots : DepsComplete(p, i) => DepsComplete(r, i)
  BY <1>1, TaskFields DEF DepsComplete
<1>4. MayStart(r)
  BY <1>1, <1>3 DEF Sound, MayStart
<1>5. OneWaits(r)
  BY <1>1 DEF Sound, OneWaits
<1>. QED
  BY <1>2, <1>4, <1>5 DEF Sound, r

\* A first plan: every listed task is pending.
LEMMA PlannedFacts ==
  ASSUME NEW k \in Slots, NEW additions \in Additions(NoPlan, k)
  PROVE  LET q == Planned(k, additions)
         IN /\ q \in PlanState /\ q.status = "running" /\ q.revision = 0
            /\ \A i \in Slots : Status(q, i) \in {"absent", "pending"}
                                /\ q.tasks[i].attempts = 0
            /\ Sound(q)
<1> DEFINE e == Extend(NoPlan, k, additions)
<1>1. k \in 1 .. MaxListed - NoPlan.listed
  BY PlanAssumption DEF NoPlan, Slots
<1>2. e \in PlanState /\ Sound(e) /\ e.revision = 0
  BY <1>1, ExtendFacts, ExtendSound, NoPlanType, NoPlanSound DEF NoPlan
<1>3. \A i \in Slots : e.tasks[i].status \in {"absent", "pending"} /\ e.tasks[i].attempts = 0
  <2>1. \A i \in Slots : NoPlan.tasks[i].status = "absent" /\ NoPlan.tasks[i].attempts = 0
    BY DEF NoPlan, AbsentTask
  <2>2. \A i \in Slots :
          e.tasks[i] = NoPlan.tasks[i] \/ \E draft \in Drafts : e.tasks[i] = NewTask(draft)
    BY <1>1, ExtendFacts, NoPlanType
  <2>. QED
    BY <2>1, <2>2, NewTaskType
<1> HIDE DEF e
<1>4. "running" \in PlanStatus
  BY DEF PlanStatus
<1>5. /\ [e EXCEPT !.status = "running"] \in PlanState
      /\ [e EXCEPT !.status = "running"].status = "running"
      /\ [e EXCEPT !.status = "running"].tasks = e.tasks
      /\ [e EXCEPT !.status = "running"].listed = e.listed
      /\ [e EXCEPT !.status = "running"].revision = e.revision
  BY <1>2, <1>4, StatusOfPlan
<1>6. Planned(k, additions) = [e EXCEPT !.status = "running"]
  BY DEF Planned, e
<1>7. Sound(Planned(k, additions))
  BY <1>2, <1>5, <1>6 DEF Sound, Placed, MayStart, OneWaits, DepsComplete, Status, Listed
<1>. QED
  BY <1>2, <1>3, <1>5, <1>6, <1>7 DEF Status

\* A revision: what was open is cancelled, what was done is kept, and the new
\* tasks are pending.
LEMMA RevisedFacts ==
  ASSUME NEW p \in PlanState, Sound(p), NEW k \in 1 .. MaxListed - p.listed,
         NEW additions \in Additions(p, k)
  PROVE  LET q == Revised(p, k, additions)
             new == p.listed + 1 .. p.listed + k
         IN /\ q \in PlanState /\ q.status = "running"
            /\ q.listed = p.listed + k /\ q.revision = p.revision + 1
            /\ new \subseteq Slots /\ DOMAIN additions = new
            /\ \A i \in new : /\ q.tasks[i].kind = additions[i].kind
                              /\ Status(q, i) = "pending" /\ q.tasks[i].attempts = 0
            /\ \A i \in Slots \ new :
                 /\ q.tasks[i].kind = p.tasks[i].kind
                 /\ q.tasks[i].attempts = p.tasks[i].attempts
                 /\ Status(q, i) = IF Status(p, i) \in {"pending", "ready"}
                                   THEN "cancelled" ELSE Status(p, i)
            /\ Sound(q)
<1> DEFINE r == Retire(p)
           e == Extend(r, k, additions)
           q == Revised(p, k, additions)
           new == p.listed + 1 .. p.listed + k
<1>1. /\ r \in PlanState /\ r.listed = p.listed /\ r.revision = p.revision
      /\ \A i \in Slots : /\ r.tasks[i].kind = p.tasks[i].kind
                          /\ r.tasks[i].attempts = p.tasks[i].attempts
                          /\ Status(r, i) = IF Status(p, i) \in {"pending", "ready"}
                                            THEN "cancelled" ELSE Status(p, i)
  BY RetireFacts DEF Sound
<1>2. Sound(r)
  BY RetireSound
<1> HIDE DEF r
<1>3. k \in 1 .. MaxListed - r.listed /\ additions \in Additions(r, k)
  BY <1>1 DEF Additions
<1>4. /\ e \in PlanState /\ e.listed = p.listed + k /\ e.revision = p.revision
      /\ new \subseteq Slots /\ DOMAIN additions = new
      /\ \A i \in new : e.tasks[i] = NewTask(additions[i]) /\ additions[i] \in Drafts
      /\ \A i \in Slots \ new : e.tasks[i] = r.tasks[i]
      /\ Sound(e)
  BY <1>1, <1>2, <1>3, ExtendFacts, ExtendSound
<1>5. q = [e EXCEPT !.revision = p.revision + 1, !.status = "running"]
  BY <1>4 DEF Revised, PlanState, r
<1> HIDE DEF e, q
<1>6. p.revision + 1 \in Nat /\ "running" \in PlanStatus
  BY DEF PlanState, PlanStatus
<1>7. /\ q \in PlanState /\ q.status = "running" /\ q.listed = e.listed
      /\ q.revision = p.revision + 1 /\ q.tasks = e.tasks
  BY <1>4, <1>5, <1>6 DEF PlanState
<1>8. Sound(q)
  BY <1>4, <1>7 DEF Sound, Placed, MayStart, OneWaits, DepsComplete, Status, Listed
<1>9. ASSUME NEW i \in new
      PROVE  /\ q.tasks[i].kind = additions[i].kind
             /\ Status(q, i) = "pending" /\ q.tasks[i].attempts = 0
  BY <1>4, <1>7, <1>9, NewTaskType DEF Status
<1>10. ASSUME NEW i \in Slots \ new
       PROVE  /\ q.tasks[i].kind = p.tasks[i].kind
              /\ q.tasks[i].attempts = p.tasks[i].attempts
              /\ Status(q, i) = IF Status(p, i) \in {"pending", "ready"}
                                THEN "cancelled" ELSE Status(p, i)
  BY <1>1, <1>4, <1>7, <1>10 DEF Status
<1>. QED
  BY <1>4, <1>7, <1>8, <1>9, <1>10 DEF q

\* A plan that only changes its own status is the same plan otherwise.
LEMMA StatusOnly ==
  ASSUME NEW p \in PlanState, NEW status \in PlanStatus, NEW q,
         q = [p EXCEPT !.status = status]
  PROVE  /\ q \in PlanState /\ q.status = status /\ q.tasks = p.tasks
         /\ q.listed = p.listed /\ q.revision = p.revision
         /\ Sound(p) => Sound(q)
         /\ \A tools : Accounted(p, tools) => Accounted(q, tools)
         /\ Gaps(q) = Gaps(p)
         /\ \A i \in Slots : Status(q, i) = Status(p, i)
<1>1. /\ q \in PlanState /\ q.status = status /\ q.tasks = p.tasks
      /\ q.listed = p.listed /\ q.revision = p.revision
  BY StatusOfPlan
<1>2. Sound(p) => Sound(q)
  BY <1>1 DEF Sound, Placed, MayStart, OneWaits, DepsComplete, Status, Listed
<1>3. \A tools : Accounted(p, tools) => Accounted(q, tools)
  BY <1>1 DEF Accounted, Stuck, Status, Listed
<1>4. Gaps(q) = Gaps(p)
  BY <1>1 DEF Gaps, Status, Listed
<1>. QED
  BY <1>1, <1>2, <1>3, <1>4 DEF Status

--------------------------------------------------------------------------------
(* The pass of the scheduler *)

\* q is p with its first n tasks refreshed.
Passed(p, q, n, tools) ==
  /\ q \in PlanState /\ Sound(q)
  /\ q.status = p.status /\ q.listed = p.listed /\ q.revision = p.revision
  /\ \A i \in Slots :
       \/ Status(q, i) = Status(p, i)
       \/ /\ Status(p, i) \in {"pending", "ready"}
          /\ Status(q, i) \in {"blocked", "ready", "pending"}
  /\ \A i \in 1 .. n : Status(q, i) = "pending" => Stuck(q, i, tools)

\* A pass over no task changes nothing.
LEMMA PassedNone ==
  ASSUME NEW p \in PlanState, Sound(p), NEW tools
  PROVE  Passed(p, p, 0, tools)
BY DEF Passed

\* A pass goes on by refreshing one more task.
LEMMA PassedNext ==
  ASSUME NEW p, NEW tools, NEW n \in Nat, NEW q, Passed(p, q, n, tools), n + 1 \in Slots
  PROVE  Passed(p, RefreshedAt(q, n + 1, tools), n + 1, tools)
<1> DEFINE i == n + 1
           r == RefreshedAt(q, i, tools)
<1>1. q \in PlanState /\ Sound(q) /\ i \in Slots /\ i \in Nat
  BY DEF Passed, Slots
<1>2. /\ r \in PlanState /\ Sound(r)
      /\ \/ r = q /\ Status(q, i) \notin {"pending", "ready"}
         \/ Moved(q, r, i, Refreshed(q, i, tools)) /\ Status(q, i) \in {"pending", "ready"}
  BY <1>1, RefreshedAtMoves
<1>3. Refreshed(q, i, tools) \in {"blocked", "ready", "pending"}
  BY DEF Refreshed
<1> HIDE DEF r
<1>4. CASE r = q /\ Status(q, i) \notin {"pending", "ready"}
  <2>1. \A j \in 1 .. i : Status(q, j) = "pending" => j \in 1 .. n
    BY <1>1, <1>4
  <2>2. \A j \in 1 .. i : Status(r, j) = "pending" => Stuck(r, j, tools)
    BY <1>4, <2>1 DEF Passed
  <2>. QED
    BY <1>4, <2>2 DEF Passed, r
<1>5. CASE Moved(q, r, i, Refreshed(q, i, tools)) /\ Status(q, i) \in {"pending", "ready"}
  <2>1. /\ r.status = q.status /\ r.listed = q.listed /\ r.revision = q.revision
        /\ \A j \in Slots : /\ r.tasks[j].kind = q.tasks[j].kind
                            /\ r.tasks[j].deps = q.tasks[j].deps
                            /\ Status(r, j) = IF j = i THEN Refreshed(q, i, tools)
                                              ELSE Status(q, j)
    BY <1>5 DEF Moved
  <2>2. \A j \in Slots : \/ Status(r, j) = Status(q, j)
                         \/ /\ Status(q, j) \in {"pending", "ready"}
                            /\ Status(r, j) \in {"blocked", "ready", "pending"}
    BY <1>3, <1>5, <2>1
  <2>3. \A j \in Slots : \/ Status(r, j) = Status(p, j)
                         \/ /\ Status(p, j) \in {"pending", "ready"}
                            /\ Status(r, j) \in {"blocked", "ready", "pending"}
    BY <2>2 DEF Passed
  <2>4. ASSUME NEW j \in 1 .. i, Status(r, j) = "pending" PROVE Stuck(r, j, tools)
    <3>1. j \in Slots
      BY <1>1, PlanAssumption DEF Slots
    <3>2. Stuck(q, j, tools)
      <4>1. CASE j = i
        BY <2>1, <2>4, <3>1, <4>1 DEF Refreshed, Stuck, DepsComplete
      <4>2. CASE j # i
        <5>1. j \in 1 .. n /\ Status(q, j) = "pending"
          BY <1>1, <2>1, <2>4, <3>1, <4>2
        <5>. QED
          BY <5>1 DEF Passed
      <4>. QED
        BY <4>1, <4>2
    <3>3. q.tasks[j].deps \subseteq Slots
      BY <1>1, <3>1, TaskFields
    <3>. QED
      BY <2>1, <2>2, <3>1, <3>2, <3>3 DEF Stuck
  <2>. QED
    BY <1>2, <2>1, <2>3, <2>4 DEF Passed, r
<1>. QED
  BY <1>2, <1>4, <1>5

================================================================================
