-------------------------- MODULE MCApprovalService --------------------------
(* Instances of ApprovalService for TLC.  Nothing but the versions, requests *)
(* and faults is bounded, and the guards of ApprovalService name the bounds. *)
EXTENDS ApprovalService, TLC

\* Tabs and payloads are interchangeable; no run that uses this set checks a
\* liveness property.
Symmetry == Permutations(Tabs) \union Permutations(Payloads)

===============================================================================
