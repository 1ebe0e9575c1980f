----------------------------- MODULE ManagerAgent -----------------------------
(***************************************************************************)
(* The manager-led team of multi_agent: the manager picks the next         *)
(* delegation from the artifacts in the state, a specialist leaves its     *)
(* artifact and returns to the manager, and the last node writes the       *)
(* answer.  The three counters that are to stop the loops of retries,      *)
(* revisions and renewed research are kept; an artifact is its status and, *)
(* for a review, the verdict.                                              *)
(***************************************************************************)
EXTENDS Naturals

CONSTANTS
  MaxDelegations,  \* max_delegations
  MaxRetries,      \* max_agent_retries
  MaxRevisions     \* max_review_revisions

ASSUME TeamAssumption ==
  /\ MaxDelegations \in Nat
  /\ MaxRetries \in Nat
  /\ MaxRevisions \in Nat

Specialists == {"researcher", "writer", "reviewer"}

Rejections == {"revision_required", "research_required"}
Verdicts == {"approved"} \union Rejections

\* What a specialist leaves in the state.
Artifacts == {"none", "failed", "completed"} \union Verdicts

ManagerAction ==
  {"delegate_research", "delegate_writing", "delegate_review", "revise", "finish"}

Nodes == Specialists \union {"manager", "finalize"}

VARIABLES
  needs,        \* specialists the goal asks for
  result,       \* research_result, draft_result, review_result
  attempts,     \* agent_attempts
  delegations,  \* delegation_count
  revisions,    \* revision_count
  action,       \* the manager's last decision
  node,         \* node the graph runs next
  steps,        \* nodes that ran, counted by LangGraph
  basis         \* history: attempts the draft and the review are about

counters == <<attempts, delegations, revisions>>
vars == <<needs, result, counters, action, node, steps, basis>>

\* classify_goal looks for three independent sets of words.
Init ==
  /\ needs \in SUBSET Specialists
  /\ result = [a \in Specialists |-> "none"]
  /\ attempts = [a \in Specialists |-> 0]
  /\ delegations = 0
  /\ revisions = 0
  /\ action = "finish"
  /\ node = "manager"
  /\ steps = 0
  /\ basis = [draft |-> 0, evidence |-> 0, reviewed |-> 0]

--------------------------------------------------------------------------------
(* The manager *)

\* Mutant: one retry less.
NeedsLess(a) ==
  \/ result[a] = "none"
  \/ result[a] = "failed" /\ attempts[a] < MaxRetries

\* _needs_retry_or_work
NeedsWork(a) ==
  \/ result[a] = "none"
  \/ result[a] = "failed" /\ attempts[a] <= MaxRetries

\* Mutant: a review is asked for without a draft.
OpenUndrafted == {a \in needs : NeedsWork(a)}

\* Work the goal asks for and nobody has done; only a draft can be reviewed.
Open ==
  {a \in needs : NeedsWork(a) /\ (a = "reviewer" => result["writer"] = "completed")}

\* The reviewer sent the draft back and there are revisions left.
SentBack ==
  /\ "reviewer" \in needs
  /\ result["writer"] = "completed"
  /\ result["reviewer"] \in Rejections
  /\ revisions < MaxRevisions

\* decide: limit first, then the open work in the order of the team, then what
\* the reviewer asks for.
Decision ==
  IF delegations >= MaxDelegations THEN "finish"
  ELSE IF "researcher" \in Open THEN "delegate_research"
  ELSE IF "writer" \in Open THEN "delegate_writing"
  ELSE IF "reviewer" \in Open THEN "delegate_review"
  ELSE IF ~SentBack THEN "finish"
  ELSE IF result["reviewer"] = "research_required" THEN "delegate_research"
  ELSE "revise"

NextNode ==
  [delegate_research |-> "researcher", delegate_writing |-> "writer",
   delegate_review |-> "reviewer", revise |-> "writer", finish |-> "finalize"]

\* LangGraph's limit on the nodes of one run, as runtime.py sets it.
RecursionLimit ==
  IF 4 * MaxDelegations + 8 > 40 THEN 4 * MaxDelegations + 8 ELSE 40

At(n) == node = n /\ steps' = steps + 1

Goto(n) == node' = IF steps + 1 < RecursionLimit THEN n ELSE "exceeded"

Manager ==
  /\ At("manager")
  /\ action' = Decision
  /\ Goto(NextNode[Decision])
  /\ UNCHANGED <<needs, result, counters, basis>>

--------------------------------------------------------------------------------
(* The specialists *)

\* What their run methods return.  Evidence comes from documents or the search
\* tool, the answer of the model from one request and bounded repairs; errors
\* of either, and answers that stay invalid, are a failed artifact.
ResearchOutcomes == {"completed", "failed"}
DraftOutcomes == {"completed", "failed"}
ReviewOutcomes == Verdicts \union {"failed"}

\* _specialist_update
Return(a) ==
  /\ attempts' = [attempts EXCEPT ![a] = @ + 1]
  /\ delegations' = delegations + 1
  /\ Goto("manager")
  /\ UNCHANGED <<needs, action>>

\* New evidence invalidates draft and review.
Researcher ==
  /\ At("researcher")
  /\ \E outcome \in ResearchOutcomes :
       result' = [researcher |-> outcome, writer |-> "none", reviewer |-> "none"]
  /\ Return("researcher")
  /\ UNCHANGED <<revisions, basis>>

\* Mutant: the review of the previous draft survives.
WriterKeepsReview ==
  /\ At("writer")
  /\ \E outcome \in DraftOutcomes :
       result' = [result EXCEPT !["writer"] = outcome]
  /\ revisions' = revisions + (IF action = "revise" THEN 1 ELSE 0)
  /\ basis' = [basis EXCEPT !.draft = attempts["researcher"]]
  /\ Return("writer")

\* A new draft invalidates the review; only what the reviewer asked for counts
\* as a revision.
Writer ==
  /\ At("writer")
  /\ \E outcome \in DraftOutcomes :
       result' = [result EXCEPT !["writer"] = outcome, !["reviewer"] = "none"]
  /\ revisions' = revisions + (IF action = "revise" THEN 1 ELSE 0)
  /\ basis' = [basis EXCEPT !.draft = attempts["researcher"]]
  /\ Return("writer")

\* Without a draft the reviewer only reports an error.
Reviewer ==
  /\ At("reviewer")
  /\ IF result["writer"] = "completed"
     THEN /\ \E outcome \in ReviewOutcomes :
               result' = [result EXCEPT !["reviewer"] = outcome]
          /\ basis' = [basis EXCEPT !.evidence = attempts["researcher"],
                                    !.reviewed = attempts["writer"]]
          /\ Return("reviewer")
          /\ UNCHANGED revisions
     ELSE /\ Goto("manager")
          /\ UNCHANGED <<needs, result, counters, action, basis>>

\* The answer is written; a failing model call falls back to the artifacts.
Finalize ==
  /\ At("finalize")
  /\ node' = "end"
  /\ UNCHANGED <<needs, result, counters, action, basis>>

\* An exception leaves the graph: the run was cancelled at the trace event of the
\* last node, or a node raised what it does not handle.
Abort ==
  /\ node \in Nodes \union {"end"}
  /\ node' = "aborted"
  /\ UNCHANGED <<needs, result, counters, action, steps, basis>>

Final == {"end", "aborted", "exceeded"}

Over == node \in Final /\ UNCHANGED vars

Work == Manager \/ Researcher \/ Writer \/ Reviewer \/ Finalize

Next == Work \/ Abort \/ Over

Spec == Init /\ [][Next]_vars

\* Calls of the model return; each has a timeout.
FairSpec == Spec /\ WF_vars(Work)

--------------------------------------------------------------------------------
(* Properties *)

\* Type correctness of the state of the graph.
TypeOK ==
  /\ needs \in SUBSET Specialists
  /\ result \in [Specialists -> Artifacts]
  /\ result["researcher"] \notin Verdicts /\ result["writer"] \notin Verdicts
  /\ result["reviewer"] # "completed"
  /\ attempts \in [Specialists -> Nat]
  /\ delegations \in Nat
  /\ revisions \in Nat
  /\ action \in ManagerAction
  /\ node \in Nodes \union Final
  /\ steps \in Nat
  /\ basis \in [draft : Nat, evidence : Nat, reviewed : Nat]

\* What the manager decides upon is about what is in the state: the draft was
\* written from the newest evidence, and the verdict is on that draft and that
\* evidence, through retries, revisions and renewed research (nodes.py:77-79).
NothingStale ==
  /\ result["writer"] = "completed" => basis.draft = attempts["researcher"]
  /\ result["reviewer"] # "none" =>
       /\ result["writer"] = "completed"
       /\ basis.evidence = attempts["researcher"]
       /\ basis.reviewed = attempts["writer"]

\* Delegations are counted once each, so that task ids (manager.py:102,120,136)
\* are unique, and stay within the limits with the revisions.
WithinLimits ==
  /\ delegations = attempts["researcher"] + attempts["writer"] + attempts["reviewer"]
  /\ delegations <= MaxDelegations
  /\ revisions <= MaxRevisions /\ revisions <= attempts["writer"]

\* The run is never cut off by LangGraph's limit: every second node is a counted
\* delegation (runtime.py:203).
RecursionLimitUnmet == node # "exceeded" /\ steps <= 2 * delegations + 2

\* The run ends early only for its limits: otherwise asked-for work is done or
\* failed on its last retry, and a draft sent back has used its revisions
\* (docs/STAGE10_MULTI_AGENT.md:91-100).
FinishJustified ==
  node = "finalize" /\ delegations < MaxDelegations =>
    /\ \A a \in needs : result[a] = "failed" => attempts[a] > MaxRetries
    /\ \A a \in needs \ {"reviewer"} : result[a] # "none"
    /\ "reviewer" \in needs /\ result["writer"] = "completed" =>
         /\ result["reviewer"] # "none"
         /\ result["reviewer"] \in Rejections => revisions = MaxRevisions

\* Every run comes to an end by its own limits (docs/STAGE10_MULTI_AGENT.md:93-94).
RunEnds == <>(node \in {"end", "aborted"})

\* Where the graph goes is where the manager sent it, within the limits.
RoutesHold ==
  /\ node \in Specialists => /\ node = NextNode[action]
                             /\ delegations < MaxDelegations
                             /\ steps <= 2 * delegations + 1
  /\ node = "writer" /\ action = "revise" => revisions < MaxRevisions
  /\ node = "reviewer" => result["writer"] = "completed"
  /\ node = "manager" => steps <= 2 * delegations
  /\ node = "finalize" => steps <= 2 * delegations + 1

\* The inductive invariant of the proofs.
IInv ==
  /\ TypeOK /\ RoutesHold
  /\ NothingStale /\ WithinLimits /\ RecursionLimitUnmet /\ FinishJustified

================================================================================
