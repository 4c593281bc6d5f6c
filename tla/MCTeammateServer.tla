-------------------------- MODULE MCTeammateServer --------------------------
(* A teammate server over one pool.  Each cfg names its budget: the events *)
(* that may happen, and how often.                                         *)
EXTENDS TeammateServer

CONSTANTS lead, helper

\* No event but calls, unless a budget says so.
Budget(calls) == [e \in Event |-> IF e = "call" THEN calls ELSE 0]

Solo == [k \in {lead} |-> {}]
Team == [k \in {lead, helper} |-> IF k = lead THEN {helper} ELSE {}]

\* Everything that leaves a run behind, and no dismissal.
Mishaps    == [Budget(3) EXCEPT !["reset"] = 1, !["drift"] = 1, !["cancel"] = 1,
                                !["crash"] = 1]
\* A dismissal at any point; the SDK honours every session it is given.
Dismissals == [Budget(2) EXCEPT !["reset"] = 1, !["dismiss"] = 1, !["unwired"] = 1]
\* The shortest budgets under which a documented promise is broken.
ResetOnce  == [Budget(2) EXCEPT !["reset"] = 1]
LateRepin  == [Budget(4) EXCEPT !["drift"] = 1, !["dismiss"] = 1]
=============================================================================
