---------------------------- MODULE MCAgentPool ----------------------------
(* One process with two threads over one pool: the lock serialises them.   *)
EXTENDS AgentPool, TLC
CONSTANTS p1, t1, t2
MCProcess == {p1}
MCThread  == {t1, t2}
MCProcOf  == [t \in MCThread |-> p1]
Symmetry  == Permutations(MCThread)
=============================================================================
