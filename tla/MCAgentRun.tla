----------------------------- MODULE MCAgentRun -----------------------------
(***************************************************************************)
(* Instances of AgentRun for TLC: the resume requests are interchangeable.  *)
(***************************************************************************)
EXTENDS AgentRun, TLC

CallSymmetry == Permutations(ARCalls)
=============================================================================
