--------------------------- MODULE MCTwoProcesses ---------------------------
(* Two processes with one thread each over one pool: two locks, one file.  *)
EXTENDS AgentPool
CONSTANTS p1, p2, t1, t2
MCProcess == {p1, p2}
MCThread  == {t1, t2}
MCProcOf  == [t \in MCThread |-> IF t = t1 THEN p1 ELSE p2]
=============================================================================
