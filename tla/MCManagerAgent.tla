---------------------------- MODULE MCManagerAgent ----------------------------
(* ManagerAgent with the limits of a configuration; nothing else is bounded. *)
EXTENDS ManagerAgent
===============================================================================
