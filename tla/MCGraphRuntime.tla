---------------------------- MODULE MCGraphRuntime ----------------------------
(* GraphRuntime on a small instance: the drafts the LLM may write. *)
EXTENDS GraphRuntime

MCDraft(kind, deps, required) ==
  [kind |-> kind, deps |-> deps, retries |-> IF kind = "plain" THEN 1 ELSE 0,
   required |-> required]

\* A plain task needs nothing; a tool task needs the first task; document
\* retrieval needs it too and is optional.
MCDrafts ==
  {MCDraft("plain", {}, TRUE)}
  \union {MCDraft(tool, {1}, TRUE) : tool \in Tools}
  \union {MCDraft("rag", {1}, FALSE)}
==============================================================================
