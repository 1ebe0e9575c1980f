-------------------------- MODULE ManagerAgentProofs --------------------------
(***************************************************************************)
(* TLAPS proofs about ManagerAgent: for any limits, what the manager       *)
(* decides upon is current, the counters keep their limits and add up, and *)
(* the recursion limit of the graph is never met.                          *)
(***************************************************************************)
EXTENDS ManagerAgent, TLAPS

\* The decision's node, and what the decision needs.
LEMMA DecisionRoutes ==
  ASSUME TypeOK
  PROVE  /\ Decision \in ManagerAction
         /\ NextNode[Decision] \in Specialists \union {"finalize"}
         /\ NextNode[Decision] \in Specialists => delegations < MaxDelegations
         /\ Decision = "revise" => revisions < MaxRevisions
         /\ NextNode[Decision] = "reviewer" => result["writer"] = "completed"
         /\ NextNode[Decision] = "finalize" <=> Decision = "finish"
<1>1. CASE delegations >= MaxDelegations
  BY <1>1, TeamAssumption DEF Decision, NextNode, ManagerAction, Specialists
<1>2. CASE ~(delegations >= MaxDelegations)
  <2>1. delegations < MaxDelegations
    BY <1>2, TeamAssumption DEF TypeOK
  <2>2. "reviewer" \in Open => result["writer"] = "completed"
    BY DEF Open
  <2>3. SentBack => revisions < MaxRevisions
    BY DEF SentBack
  <2>. QED
    BY <1>2, <2>1, <2>2, <2>3 DEF Decision, NextNode, ManagerAction, Specialists
<1>. QED
  BY <1>1, <1>2

\* What it means that the manager finishes before the delegations are used up.
LEMMA FinishMeans ==
  ASSUME TypeOK, WithinLimits, Decision = "finish", delegations < MaxDelegations
  PROVE  /\ \A a \in needs : result[a] = "failed" =>
                \/ attempts[a] > MaxRetries
                \/ a = "reviewer" /\ result["writer"] # "completed"
         /\ \A a \in needs \ {"reviewer"} : result[a] # "none"
         /\ "reviewer" \in needs /\ result["writer"] = "completed" =>
              /\ result["reviewer"] # "none"
              /\ result["reviewer"] \in Rejections => revisions = MaxRevisions
<1>1. /\ "researcher" \notin Open /\ "writer" \notin Open /\ "reviewer" \notin Open
      /\ ~SentBack
  <2>1. ~(delegations >= MaxDelegations)
    BY TeamAssumption DEF TypeOK
  <2>. QED
    BY <2>1 DEF Decision
<1>2. \A a \in needs : a # "reviewer" \/ result["writer"] = "completed" => ~NeedsWork(a)
  BY <1>1 DEF Open, TypeOK, Specialists
<1>3. \A a \in needs : attempts[a] \in Nat
  BY DEF TypeOK
<1>4. "reviewer" \in needs /\ result["writer"] = "completed" =>
        (result["reviewer"] \in Rejections => revisions = MaxRevisions)
  BY <1>1, TeamAssumption DEF SentBack, TypeOK, WithinLimits
<1>5. \A a \in needs : ~NeedsWork(a) =>
        result[a] # "none" /\ (result[a] = "failed" => attempts[a] > MaxRetries)
  BY <1>3, TeamAssumption DEF NeedsWork
<1>6. \A a \in needs : a # "reviewer" \/ result["writer"] = "completed" =>
        result[a] # "none" /\ (result[a] = "failed" => attempts[a] > MaxRetries)
  BY <1>2, <1>5
<1>. QED
  BY <1>4, <1>6

--------------------------------------------------------------------------------
(* Each node keeps the invariant *)

\* While the delegations are within their limit, so are the nodes.
LEMMA NodesWithinLimit ==
  ASSUME NEW n \in Nat, NEW d \in Nat, d <= MaxDelegations, n <= 2 * d + 1
  PROVE  n + 1 < RecursionLimit
BY TeamAssumption DEF RecursionLimit

\* The manager node keeps the invariant.
LEMMA ManagerInv == ASSUME IInv, Manager PROVE IInv'
<1>. USE DEF IInv
<1>0. /\ TypeOK /\ WithinLimits /\ steps <= 2 * delegations /\ steps \in Nat
      /\ delegations \in Nat /\ delegations <= MaxDelegations
  BY DEF Manager, At, RoutesHold, TypeOK, WithinLimits
<1>1. /\ node' = NextNode[Decision] /\ action' = Decision /\ steps' = steps + 1
      /\ UNCHANGED <<needs, result, attempts, delegations, revisions, basis>>
  <2>1. steps + 1 < RecursionLimit
    BY <1>0, NodesWithinLimit
  <2>. QED
    BY <2>1 DEF Manager, At, Goto, counters
<1>2. TypeOK'
  BY <1>0, <1>1, DecisionRoutes DEF TypeOK, Nodes
<1>3. RoutesHold'
  <2>1. (node \in Specialists => /\ node = NextNode[action]
                                 /\ delegations < MaxDelegations
                                 /\ steps <= 2 * delegations + 1)'
    BY <1>0, <1>1, DecisionRoutes DEF NextNode
  <2>2. (node = "writer" /\ action = "revise" => revisions < MaxRevisions)'
    BY <1>0, <1>1, DecisionRoutes
  <2>3. (node = "reviewer" => result["writer"] = "completed")'
    BY <1>0, <1>1, DecisionRoutes
  <2>4. node' # "manager"
    BY <1>0, <1>1, DecisionRoutes DEF Specialists
  <2>5. (node = "finalize" => steps <= 2 * delegations + 1)'
    BY <1>0, <1>1
  <2>. QED
    BY <2>1, <2>2, <2>3, <2>4, <2>5 DEF RoutesHold
<1>4. NothingStale' /\ WithinLimits'
  BY <1>1 DEF NothingStale, WithinLimits
<1>5. RecursionLimitUnmet'
  BY <1>0, <1>1, DecisionRoutes DEF RecursionLimitUnmet, Specialists
<1>6. FinishJustified'
  <2>. SUFFICES ASSUME node' = "finalize", delegations < MaxDelegations
                PROVE  FinishJustified'
    BY <1>1 DEF FinishJustified
  <2>1. Decision = "finish"
    BY <1>0, <1>1, DecisionRoutes
  <2>2. "reviewer" \in needs /\ result["reviewer"] = "failed" =>
          result["writer"] = "completed"
    BY DEF NothingStale
  <2>. QED
    BY <1>0, <1>1, <2>1, <2>2, FinishMeans DEF FinishJustified
<1>. QED
  BY <1>2, <1>3, <1>4, <1>5, <1>6

\* A specialist's return: the counters move together.
LEMMA ReturnEffect ==
  ASSUME IInv, NEW a \in Specialists, node = a, At(a), Return(a)
  PROVE  /\ attempts' \in [Specialists -> Nat]
         /\ attempts'[a] = attempts[a] + 1
         /\ \A b \in Specialists \ {a} : attempts'[b] = attempts[b]
         /\ delegations' = attempts'["researcher"] + attempts'["writer"]
                             + attempts'["reviewer"]
         /\ delegations' \in Nat /\ delegations' <= MaxDelegations
         /\ steps' \in Nat /\ steps' <= 2 * delegations'
         /\ node' = "manager" /\ UNCHANGED <<needs, action>>
<1>1. /\ TypeOK /\ steps <= 2 * delegations + 1 /\ delegations < MaxDelegations
      /\ delegations = attempts["researcher"] + attempts["writer"] + attempts["reviewer"]
  BY DEF IInv, RoutesHold, WithinLimits
<1>2. /\ steps \in Nat /\ delegations \in Nat /\ attempts \in [Specialists -> Nat]
  BY <1>1 DEF TypeOK
<1>3. /\ attempts' = [attempts EXCEPT ![a] = @ + 1]
      /\ delegations' = delegations + 1 /\ steps' = steps + 1
      /\ UNCHANGED <<needs, action>>
  BY DEF Return, At
<1>4. node' = "manager"
  <2>1. steps + 1 < RecursionLimit
    BY <1>1, <1>2, TeamAssumption, NodesWithinLimit
  <2>. QED
    BY <2>1 DEF Return, Goto
<1>5. \A b \in Specialists : attempts'[b] = IF b = a THEN attempts[b] + 1 ELSE attempts[b]
  BY <1>2, <1>3
<1>6. attempts' \in [Specialists -> Nat]
  BY <1>2, <1>3
<1>7. delegations' = attempts'["researcher"] + attempts'["writer"] + attempts'["reviewer"]
  BY <1>1, <1>2, <1>3, <1>5 DEF Specialists
<1>8. delegations' \in Nat /\ delegations' <= MaxDelegations /\ steps' <= 2 * delegations'
  BY <1>1, <1>2, <1>3, TeamAssumption
<1>. QED
  BY <1>2, <1>3, <1>4, <1>5, <1>6, <1>7, <1>8

\* The invariant after a return, from what is special to the specialist.
LEMMA ReturnInv ==
  ASSUME IInv, NEW a \in Specialists, node = a, At(a), Return(a),
         result' \in [Specialists -> Artifacts],
         result'["researcher"] \notin Verdicts, result'["writer"] \notin Verdicts,
         result'["reviewer"] # "completed",
         revisions' \in Nat, revisions' <= MaxRevisions,
         revisions' <= attempts'["writer"],
         basis' \in [draft : Nat, evidence : Nat, reviewed : Nat],
         NothingStale'
  PROVE  IInv'
<1>1. TypeOK'
  BY ReturnEffect DEF TypeOK, IInv, Nodes
<1>2. RoutesHold' /\ RecursionLimitUnmet' /\ FinishJustified'
  BY ReturnEffect DEF RoutesHold, RecursionLimitUnmet, FinishJustified, Specialists
<1>3. WithinLimits'
  BY ReturnEffect DEF WithinLimits
<1>. QED
  BY <1>1, <1>2, <1>3 DEF IInv

\* The researcher node keeps the invariant.
LEMMA ResearcherInv == ASSUME IInv, Researcher PROVE IInv'
<1>0. /\ TypeOK /\ WithinLimits /\ "researcher" \in Specialists
      /\ node = "researcher" /\ At("researcher") /\ Return("researcher")
      /\ UNCHANGED <<revisions, basis>>
  BY DEF IInv, Researcher, At, Specialists
<1>1. PICK outcome \in ResearchOutcomes :
        result' = [researcher |-> outcome, writer |-> "none", reviewer |-> "none"]
  BY DEF Researcher
<1>2. /\ result'["researcher"] = outcome /\ result'["writer"] = "none"
      /\ result'["reviewer"] = "none"
      /\ result' \in [Specialists -> Artifacts]
  BY <1>1 DEF Specialists, Artifacts, ResearchOutcomes
<1>3. NothingStale'
  BY <1>2 DEF NothingStale
<1>4. revisions <= attempts'["writer"]
  BY <1>0, ReturnEffect DEF WithinLimits, Specialists
<1>. QED
  BY <1>0, <1>2, <1>3, <1>4, ReturnInv
     DEF TypeOK, WithinLimits, Verdicts, Rejections, ResearchOutcomes

\* The writer node keeps the invariant.
LEMMA WriterInv == ASSUME IInv, Writer PROVE IInv'
<1>0. /\ TypeOK /\ WithinLimits /\ RoutesHold /\ "writer" \in Specialists
      /\ node = "writer" /\ At("writer") /\ Return("writer")
  BY DEF IInv, Writer, At, Specialists
<1>1. PICK outcome \in DraftOutcomes :
        result' = [result EXCEPT !["writer"] = outcome, !["reviewer"] = "none"]
  BY DEF Writer
<1>2. /\ result'["researcher"] = result["researcher"]
      /\ result'["writer"] = outcome /\ result'["reviewer"] = "none"
      /\ result' \in [Specialists -> Artifacts]
  BY <1>0, <1>1 DEF TypeOK, Specialists, Artifacts, DraftOutcomes
<1>3. /\ basis' \in [draft : Nat, evidence : Nat, reviewed : Nat]
      /\ basis'.draft = attempts["researcher"]
      /\ attempts'["researcher"] = attempts["researcher"]
  BY <1>0, ReturnEffect DEF Writer, TypeOK, Specialists
<1>4. NothingStale'
  BY <1>2, <1>3 DEF NothingStale
<1>5. /\ revisions' \in Nat /\ revisions' <= MaxRevisions
      /\ revisions' <= attempts'["writer"]
  <2>1. attempts'["writer"] = attempts["writer"] + 1 /\ attempts["writer"] \in Nat
    BY <1>0, ReturnEffect DEF TypeOK
  <2>2. CASE action = "revise"
    BY <1>0, <2>1, <2>2, TeamAssumption DEF Writer, TypeOK, WithinLimits, RoutesHold
  <2>3. CASE action # "revise"
    BY <1>0, <2>1, <2>3, TeamAssumption DEF Writer, TypeOK, WithinLimits
  <2>. QED
    BY <2>2, <2>3
<1>. QED
  BY <1>0, <1>2, <1>3, <1>4, <1>5, ReturnInv
     DEF TypeOK, Verdicts, Rejections, DraftOutcomes

\* The reviewer node keeps the invariant.
LEMMA ReviewerInv == ASSUME IInv, Reviewer PROVE IInv'
<1>0. /\ TypeOK /\ WithinLimits /\ NothingStale /\ "reviewer" \in Specialists
      /\ node = "reviewer" /\ At("reviewer") /\ result["writer"] = "completed"
  BY DEF IInv, Reviewer, At, RoutesHold, Specialists
<1>1. /\ Return("reviewer") /\ UNCHANGED revisions
      /\ basis' = [basis EXCEPT !.evidence = attempts["researcher"],
                                !.reviewed = attempts["writer"]]
      /\ \E outcome \in ReviewOutcomes :
           result' = [result EXCEPT !["reviewer"] = outcome]
  BY <1>0 DEF Reviewer
<1>2. PICK outcome \in ReviewOutcomes : result' = [result EXCEPT !["reviewer"] = outcome]
  BY <1>1
<1>3. /\ result'["researcher"] = result["researcher"]
      /\ result'["writer"] = result["writer"] /\ result'["reviewer"] = outcome
      /\ result' \in [Specialists -> Artifacts]
  BY <1>0, <1>2 DEF TypeOK, Specialists, Artifacts, ReviewOutcomes
<1>4. /\ basis' \in [draft : Nat, evidence : Nat, reviewed : Nat]
      /\ basis'.draft = basis.draft /\ basis'.evidence = attempts["researcher"]
      /\ basis'.reviewed = attempts["writer"]
  BY <1>0, <1>1 DEF TypeOK, Specialists
<1>5. /\ attempts'["researcher"] = attempts["researcher"]
      /\ attempts'["writer"] = attempts["writer"]
  BY <1>0, <1>1, ReturnEffect DEF Specialists
<1>6. NothingStale'
  BY <1>0, <1>3, <1>4, <1>5 DEF NothingStale
<1>. QED
  BY <1>0, <1>1, <1>3, <1>4, <1>5, <1>6, ReturnInv
     DEF TypeOK, WithinLimits, ReviewOutcomes, Verdicts, Rejections

\* The final node keeps the invariant.
LEMMA FinalizeInv == ASSUME IInv, Finalize PROVE IInv'
<1>1. /\ node = "finalize" /\ node' = "end" /\ steps' = steps + 1
      /\ UNCHANGED <<needs, result, attempts, delegations, revisions, action, basis>>
  BY DEF Finalize, At, counters
<1>2. /\ steps \in Nat /\ delegations \in Nat /\ steps <= 2 * delegations + 1
  BY <1>1 DEF IInv, TypeOK, RoutesHold
<1>3. TypeOK'
  BY <1>1, <1>2 DEF IInv, TypeOK, Final
<1>4. RoutesHold' /\ FinishJustified' /\ RecursionLimitUnmet'
  BY <1>1, <1>2 DEF RoutesHold, FinishJustified, RecursionLimitUnmet, Specialists
<1>5. NothingStale' /\ WithinLimits'
  BY <1>1 DEF IInv, NothingStale, WithinLimits
<1>. QED
  BY <1>3, <1>4, <1>5 DEF IInv

\* An aborted run keeps the invariant.
LEMMA AbortInv == ASSUME IInv, Abort PROVE IInv'
<1>1. /\ node' = "aborted"
      /\ UNCHANGED <<needs, result, attempts, delegations, revisions, action, steps, basis>>
  BY DEF Abort, counters
<1>2. TypeOK'
  BY <1>1 DEF IInv, TypeOK, Final
<1>3. RoutesHold' /\ FinishJustified' /\ RecursionLimitUnmet'
  BY <1>1 DEF IInv, RoutesHold, FinishJustified, RecursionLimitUnmet, Specialists
<1>4. NothingStale' /\ WithinLimits'
  BY <1>1 DEF IInv, NothingStale, WithinLimits
<1>. QED
  BY <1>2, <1>3, <1>4 DEF IInv

--------------------------------------------------------------------------------
(* Theorems *)

\* The invariant holds at the start of a run.
LEMMA InitIInv == Init => IInv
<1>. SUFFICES ASSUME Init PROVE IInv
  OBVIOUS
<1>1. TypeOK
  BY DEF Init, TypeOK, Specialists, Artifacts, Verdicts, Rejections, ManagerAction, Nodes
<1>2. RoutesHold /\ NothingStale /\ RecursionLimitUnmet /\ FinishJustified
  BY DEF Init, RoutesHold, NothingStale, RecursionLimitUnmet, FinishJustified, Specialists
<1>3. WithinLimits
  BY TeamAssumption DEF Init, WithinLimits, Specialists
<1>. QED
  BY <1>1, <1>2, <1>3 DEF IInv

\* The invariant is inductive.
LEMMA NextIInv == IInv /\ [Next]_vars => IInv'
<1>1. ASSUME IInv, UNCHANGED vars PROVE IInv'
  BY <1>1 DEF IInv, vars, counters, TypeOK, RoutesHold, NothingStale, WithinLimits,
     RecursionLimitUnmet, FinishJustified
<1>. QED
  BY <1>1, ManagerInv, ResearcherInv, WriterInv, ReviewerInv, FinalizeInv, AbortInv
     DEF Next, Work, Over

\* The invariant of the team, for any limits.
THEOREM Invariance == Spec => []IInv
BY InitIInv, NextIInv, PTL DEF Spec

\* Drafts and verdicts the manager decides upon are about the newest evidence
\* and the newest draft (nodes.py:77-109).
THEOREM DecisionsAreCurrent == Spec => []NothingStale
<1>1. IInv => NothingStale
  BY DEF IInv
<1>. QED
  BY <1>1, Invariance, PTL

\* Delegations and revisions keep their limits, and delegations are counted
\* once each.
THEOREM LimitsHold == Spec => []WithinLimits
<1>1. IInv => WithinLimits
  BY DEF IInv
<1>. QED
  BY <1>1, Invariance, PTL

\* For no configuration does LangGraph cut a run off (runtime.py:203).
THEOREM NeverCutOff == Spec => []RecursionLimitUnmet
<1>1. IInv => RecursionLimitUnmet
  BY DEF IInv
<1>. QED
  BY <1>1, Invariance, PTL

\* A run that finishes with delegations left has nothing left to do.
THEOREM FinishesForAReason == Spec => []FinishJustified
<1>1. IInv => FinishJustified
  BY DEF IInv
<1>. QED
  BY <1>1, Invariance, PTL

===============================================================================
