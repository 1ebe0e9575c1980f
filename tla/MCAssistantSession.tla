--------------------------- MODULE MCAssistantSession ---------------------------
(* AssistantSession on a small instance: what the user may state. *)
EXTENDS AssistantSession

MCCandidate(key, content) ==
  [key |-> key, content |-> content, explicit |-> TRUE, confidence |-> 99]

Ada == MCCandidate("name", "ada")
Bob == MCCandidate("name", "bob")
Eve == MCCandidate("name", "eve")

\* An inference, of the highest confidence the policy leaves one.
Guess == [key |-> "name", content |-> "guess", explicit |-> FALSE, confidence |-> 65]

MCCandidates == {Ada, Bob, Eve, Guess}

\* Nothing to remember, one fact, an inference, a fact and its correction.
MCTexts == {<<>>, <<Ada>>, <<Guess>>, <<Bob, Eve>>}
================================================================================
