---------------------------- MODULE AssistantSession ---------------------------
(***************************************************************************)
(* The script runs of app.py outside plans: a prompt is searched for facts *)
(* to remember and then answered by the agent loop; memory commands, the   *)
(* Memory Center and the knowledge base call their services directly.      *)
(* Several sessions share the memories, the index and the request gate.    *)
(***************************************************************************)
EXTENDS MemoryStore, KnowledgeIndex, AgentLoop

CONSTANTS
  Texts,        \* candidates the extractor may find in a text, in order
  MaxScripts    \* bound on the number of script runs

ASSUME SessionAssumption == Texts \subseteq Seq(Candidates) /\ MaxScripts \in Nat

VARIABLES
  script,     \* what the script run of each session does
  started     \* number of script runs

vars == <<memoryVars, indexVars, loopVars, script, started>>

\* rest: candidates that are still to be remembered.
Script ==
  [kind : {"idle", "prompt", "answer", "service"}, rest : Seq(Candidates)]

NoScript == [kind |-> "idle", rest |-> <<>>]

Init ==
  /\ MemoryInit /\ IndexInit /\ LoopInit
  /\ script = [s \in Sessions |-> NoScript]
  /\ started = 0

Running(s) == script[s].kind # "idle"

Begin(s, kind, rest) ==
  /\ ~Running(s) /\ started < MaxScripts
  /\ started' = started + 1
  /\ script' = [script EXCEPT ![s] = [kind |-> kind, rest |-> rest]]

--------------------------------------------------------------------------------
(* What the user starts *)

Prompt(s, text) ==
  /\ Begin(s, "prompt", text)
  /\ UNCHANGED <<memoryVars, indexVars, loopVars>>

\* "Remember ..." and the form of the Memory Center.
RememberCommand(s, text) ==
  /\ text # <<>>
  /\ Begin(s, "service", text)
  /\ UNCHANGED <<memoryVars, indexVars, loopVars>>

ForgetCommand(s, ids) ==
  /\ Begin(s, "service", <<>>)
  /\ Select(s, ids)
  /\ UNCHANGED <<indexVars, loopVars>>

IndexCommand(s, d, at) ==
  /\ Begin(s, "service", <<>>)
  /\ Call(s, d, at)
  /\ UNCHANGED <<memoryVars, loopVars>>

--------------------------------------------------------------------------------
(* The script run *)

\* extract_and_remember takes the next candidate.
RememberNext(s) ==
  /\ script[s].rest # <<>>
  /\ Remember(s, Head(script[s].rest))
  /\ script' = [script EXCEPT ![s].rest = Tail(@)]
  /\ UNCHANGED <<indexVars, loopVars, started>>

\* An error of the service ends extract_and_remember; a prompt goes on.
MemoryError(s) ==
  /\ MemoryFails(s)
  /\ script' = [script EXCEPT ![s].rest = <<>>]
  /\ UNCHANGED <<indexVars, loopVars, started>>

MemoryDone(s) == script[s].rest = <<>> /\ MemoryIdle(s)

AnswerPrompt(s) ==
  /\ script[s].kind = "prompt" /\ MemoryDone(s)
  /\ StartLoop(s)
  /\ script' = [script EXCEPT ![s].kind = "answer"]
  /\ UNCHANGED <<memoryVars, indexVars, started>>

EndScript(s) ==
  /\ script[s].kind \in {"answer", "service"}
  /\ MemoryDone(s) /\ IndexIdle(s) /\ LoopIdle(s)
  /\ script' = [script EXCEPT ![s] = NoScript]
  /\ UNCHANGED <<memoryVars, indexVars, loopVars, started>>

\* The process dies, or the user does something else before the script has ended:
\* what was under way is dropped where it stands.
Abandon(s) ==
  /\ Running(s)
  /\ script' = [script EXCEPT ![s] = NoScript]
  /\ memory' = [memory EXCEPT ![s] = NoMemoryCall]
  /\ IF IndexIdle(s) THEN UNCHANGED <<job, told>> ELSE Finish(s, "nothing")
  /\ EndLoop(s)
  /\ UNCHANGED <<rows, file, temporary, originals, contested, started>>

Work(s) ==
  \/ RememberNext(s) \/ MemoryError(s) \/ AnswerPrompt(s) \/ EndScript(s)
  \/ MemoryStep(s) /\ UNCHANGED <<indexVars, loopVars, script, started>>
  \/ IndexStep(s) /\ UNCHANGED <<memoryVars, loopVars, script, started>>
  \/ LoopStep(s) /\ UNCHANGED <<memoryVars, indexVars, script, started>>

User(s) ==
  \/ \E text \in Texts : Prompt(s, text) \/ RememberCommand(s, text)
  \/ \E ids \in Forgettable : ForgetCommand(s, ids)
  \/ \E d \in Docs, at \in {"look", "check", "find"} : IndexCommand(s, d, at)
  \/ Abandon(s)

Over ==
  /\ started = MaxScripts /\ \A s \in Sessions : ~Running(s)
  /\ UNCHANGED vars

Next == Over \/ \E s \in Sessions : User(s) \/ Work(s)

Spec == Init /\ [][Next]_vars

\* The thread of a script is scheduled: calls of the provider, the embedder and
\* the database end.
FairSpec == Spec /\ \A s \in Sessions : WF_vars(Work(s))

--------------------------------------------------------------------------------
(* Properties *)

\* Type correctness of the memories, the index, the loops and the scripts.
TypeOK ==
  /\ MemoryTypeOK /\ IndexTypeOK /\ LoopTypeOK
  /\ script \in [Sessions -> Script]
  /\ started \in 0 .. MaxScripts

\* Every script run ends, whatever the model decides, however often the provider
\* limits the rate and whoever holds the gate (agent_loop.py:49-94,
\* groq_client.py:257-352).
PromptAnswered == \A s \in Sessions : Running(s) ~> ~Running(s)

================================================================================
