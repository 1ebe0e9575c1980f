------------------------------- MODULE AgentLoop -------------------------------
(***************************************************************************)
(* The agent loop of agent/agent_loop.py and the LLM client it calls: one  *)
(* request at a time in the whole process, retries of rate-limited         *)
(* requests within a budget of waiting, and a bounded number of decisions. *)
(***************************************************************************)
EXTENDS Sessions, Naturals

CONSTANTS
  MaxIterations,     \* max_agent_iterations
  RateLimitRetries,  \* rate_limit_max_retries
  MaxWait,           \* rate_limit_max_wait_seconds
  Delays,            \* values of the retry-after header
  Nobody

ASSUME LoopAssumption ==
  /\ MaxIterations \in Nat /\ RateLimitRetries \in Nat /\ MaxWait \in Nat
  /\ Delays \subseteq Nat
  /\ Nobody \notin Sessions

VARIABLES
  gate,      \* holder of _REQUEST_GATE
  loop       \* the agent loop of each session

loopVars == <<gate, loop>>

Loop ==
  [at : {"idle", "decide", "queue", "post", "sleep", "stream", "route"},
   iteration : 0 .. MaxIterations, retries : Nat, waited : Nat]

NoLoop == [at |-> "idle", iteration |-> 0, retries |-> 0, waited |-> 0]

LoopInit ==
  /\ gate = Nobody
  /\ loop = [s \in Sessions |-> NoLoop]

LoopIdle(s) == loop[s].at = "idle"

\* Parts of a request that need the gate.
Requesting == {"post", "sleep", "stream"}

GoTo(s, at) == loop' = [loop EXCEPT ![s].at = at]

\* The loop returns or raises; the with statement frees the gate.
EndLoop(s) ==
  /\ loop' = [loop EXCEPT ![s] = NoLoop]
  /\ gate' = IF gate = s THEN Nobody ELSE gate

--------------------------------------------------------------------------------

StartLoop(s) ==
  /\ LoopIdle(s)
  /\ GoTo(s, "decide")
  /\ UNCHANGED gate

\* Mutant: the bound is met one decision too late.
IterateOnceMore(s) ==
  /\ loop[s].at = "decide"
  /\ IF loop[s].iteration > MaxIterations
     THEN EndLoop(s)
     ELSE /\ loop' = [loop EXCEPT ![s].iteration = @ + 1, ![s].at = "queue"]
          /\ UNCHANGED gate

\* Mutant: the loop runs until the model finishes.
IterateUncounted(s) ==
  /\ loop[s].at = "decide"
  /\ GoTo(s, "queue")
  /\ UNCHANGED gate

\* The head of the loop: one more decision, if any is left.
Iterate(s) ==
  /\ loop[s].at = "decide"
  /\ IF loop[s].iteration >= MaxIterations
     THEN EndLoop(s)
     ELSE /\ loop' = [loop EXCEPT ![s].iteration = @ + 1, ![s].at = "queue"]
          /\ UNCHANGED gate

Acquire(s) ==
  /\ loop[s].at = "queue" /\ gate = Nobody
  /\ gate' = s
  /\ loop' = [loop EXCEPT ![s].at = "post", ![s].retries = 0, ![s].waited = 0]

\* Mutant: the delay is not counted before it is slept.
WaitsTooLong(s, delay) ==
  /\ loop[s].at = "post"
  /\ loop[s].retries < RateLimitRetries /\ loop[s].waited <= MaxWait
  /\ loop' = [loop EXCEPT ![s].at = "sleep", ![s].retries = @ + 1, ![s].waited = @ + delay]
  /\ UNCHANGED gate

\* Status 429 with a delay the budget allows: sleep, holding the gate.
RateLimited(s, delay) ==
  /\ loop[s].at = "post"
  /\ loop[s].retries < RateLimitRetries
  /\ loop[s].waited + delay <= MaxWait
  /\ loop' = [loop EXCEPT ![s].at = "sleep", ![s].retries = @ + 1, ![s].waited = @ + delay]
  /\ UNCHANGED gate

WakeUp(s) ==
  /\ loop[s].at = "sleep"
  /\ GoTo(s, "post")
  /\ UNCHANGED gate

Respond(s) ==
  /\ loop[s].at = "post"
  /\ GoTo(s, "stream")
  /\ UNCHANGED gate

\* The knowledge base cannot be read for the context; or any other response, a
\* timeout, a lost connection, a stream that breaks or is empty.  The loop lets
\* these exceptions through.
RequestFails(s) ==
  /\ loop[s].at \in {"queue", "post", "stream"}
  /\ EndLoop(s)

StreamEnds(s) ==
  /\ loop[s].at = "stream"
  /\ gate' = Nobody
  /\ GoTo(s, "route")

\* The decision is acted on; FINISH and an unreadable one end the loop.
Route(s, final) ==
  /\ loop[s].at = "route"
  /\ IF final THEN EndLoop(s) ELSE GoTo(s, "decide") /\ UNCHANGED gate

LoopStep(s) ==
  \/ Iterate(s) \/ Acquire(s) \/ WakeUp(s) \/ Respond(s) \/ RequestFails(s) \/ StreamEnds(s)
  \/ \E delay \in Delays : RateLimited(s, delay)
  \/ \E final \in BOOLEAN : Route(s, final)

--------------------------------------------------------------------------------
(* Properties *)

LoopTypeOK ==
  /\ gate \in Sessions \union {Nobody}
  /\ loop \in [Sessions -> Loop]

\* No request waits longer, or is repeated more often, than the configuration
\* allows, whatever delays the provider asks for, and only the holder of the
\* gate has a request under way (groq_client.py:257-350).
WaitWithinBudget ==
  \A s \in Sessions :
    /\ loop[s].waited <= MaxWait /\ loop[s].retries <= RateLimitRetries
    /\ loop[s].at \in Requesting <=> gate = s

================================================================================
