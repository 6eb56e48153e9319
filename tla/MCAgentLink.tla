---------------------------- MODULE MCAgentLink ----------------------------
(* A small instance of AgentLink for TLC. *)
EXTENDS AgentLink, TLC

MCDistinct == [id \in IDs |-> id]

\* The history of StopIsHeeded, which tells no behaviour from another, is not
\* looked at where that property is not checked.
MCView ==
    <<agentVars, netVars, serverVars, calls, mode,
      IF preflight = "overtaken" THEN "checked" ELSE preflight>>

MCSymmetry == Permutations(IDs) \cup Permutations(Calls)
=============================================================================
