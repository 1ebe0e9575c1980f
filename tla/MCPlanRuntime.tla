---------------------------- MODULE MCPlanRuntime ----------------------------
(* PlanRuntime on a small instance: the drafts the LLM may write. *)
EXTENDS PlanRuntime

MCDraft(kind, deps) ==
  [kind |-> kind, deps |-> deps, retries |-> IF kind = "rag" THEN 0 ELSE 1,
   required |-> deps # {3}]

\* A plain task needs nothing, the second or the third task, and is optional if
\* that is the third one; a tool task needs nothing; document
\* retrieval needs the first task.
MCDrafts ==
  {MCDraft("plain", deps) : deps \in {{}, {2}, {3}}}
  \union {MCDraft(tool, {}) : tool \in Tools}
  \union {MCDraft("rag", {1})}
==============================================================================
