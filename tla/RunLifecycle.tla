---------------------------- MODULE RunLifecycle ----------------------------
(***************************************************************************)
(* What a teammate server promises of the runs it opens, with the tables,  *)
(* the segments, the registry and the streams left out: the one life every *)
(* run has.  A run is opened, is wired up and started, and ends in one of  *)
(* three ways: `finished`, `failed`, or abandoned, which is read as        *)
(* `stale` (TeammateRunStatus, models/agent/teammate.py).  An ending is    *)
(* final.  Dismissing the teammate forgets its runs, whatever they are at. *)
(* TeammateServer is shown to implement this for a server that has its     *)
(* pool to itself.                                                         *)
(***************************************************************************)
EXTENDS Naturals

CONSTANTS Key,     \* teammates
          MaxRun,  \* bound: runs opened
          NoKey    \* the key of a run that is not stored

Run    == 1 .. MaxRun
Ending == {"finished", "failed", "abandoned"}
Phase  == {"unopened", "opening", "live", "forgotten"} \cup Ending

VARIABLES phase,  \* where each run is in its life
          of      \* the teammate it is stored under

life == <<phase, of>>

Begin == /\ phase = [r \in Run |-> "unopened"]
         /\ of    = [r \in Run |-> NoKey]

Busy(k) == \E r \in Run : of[r] = k /\ phase[r] \in {"opening", "live"}

\* A run is opened only on a teammate that has none under way, in id order.
Open(r, k) ==
    /\ phase[r] = "unopened"
    /\ \A q \in Run : q < r => phase[q] # "unopened"
    /\ ~Busy(k)
    /\ phase' = [phase EXCEPT ![r] = "opening"]
    /\ of'    = [of EXCEPT ![r] = k]

Start(r) ==
    /\ phase[r] = "opening"
    /\ phase' = [phase EXCEPT ![r] = "live"]
    /\ UNCHANGED of

End(r, ending) ==
    /\ phase[r] = "live"
    /\ phase' = [phase EXCEPT ![r] = ending]
    /\ UNCHANGED of

\* The runs of a server that dies, or one that cannot be wired up.
Abandon(lost) ==
    /\ lost # {} /\ \A r \in lost : phase[r] \in {"opening", "live"}
    /\ phase' = [r \in Run |-> IF r \in lost THEN "abandoned" ELSE phase[r]]
    /\ UNCHANGED of

Forget(k) ==
    /\ \E r \in Run : of[r] = k
    /\ phase' = [r \in Run |-> IF of[r] = k THEN "forgotten" ELSE phase[r]]
    /\ of'    = [r \in Run |-> IF of[r] = k THEN NoKey ELSE of[r]]

Continue(r) == Start(r) \/ \E ending \in Ending : End(r, ending)

Proceed ==
    \/ \E r \in Run : \/ \E k \in Key : Open(r, k)
                      \/ Continue(r)
    \/ \E lost \in SUBSET Run : Abandon(lost)
    \/ \E k \in Key : Forget(k)

Lifecycle     == Begin /\ [][Proceed]_life

\* No run stays under way for ever, whatever becomes of it.
FairLifecycle == Lifecycle /\ \A r \in Run : WF_life(Continue(r) \/ Abandon({r}))
=============================================================================
