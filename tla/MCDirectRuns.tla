---------------------------- MODULE MCDirectRuns ----------------------------
(* A spec the orchestrator may have proposed, the agent acquired in a run  *)
(* of it, and a teammate, which the direct surfaces refuse.                *)
EXTENDS DirectRuns, TLC

CONSTANTS agent, acquired, mate

MCDerived  == [k \in {agent} |-> acquired]
MCSymmetry == Permutations(Caller)
=============================================================================
