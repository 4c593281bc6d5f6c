------------------------- MODULE CodexProcessProofs -------------------------
(***************************************************************************)
(* Proofs about CodexProcess, for any number of helpers and of             *)
(* cancellations.  The leader is never restarted, so whatever shows it is  *)
(* gone when the call returns (its returncode, or the end of communicate)  *)
(* keeps showing it.                                                       *)
(***************************************************************************)
EXTENDS CodexProcess, TLAPS

ReapedIsGone == reaped => Leader \notin alive

ProcessInv == ProcessTypeOK /\ ReapedIsGone /\ LeaderIsStopped

\* The call starts in the inductive invariant.
LEMMA ProcessInitInv == ProcessInit => ProcessInv
<1> SUFFICES ASSUME ProcessInit PROVE ProcessInv
  OBVIOUS
<1>1. 0 \in 0 .. MaxCancels
  BY CancelsAssumption
<1>2. ProcessTypeOK
  BY <1>1 DEF ProcessInit, ProcessTypeOK, Member
<1>3. ReapedIsGone /\ LeaderIsStopped
  BY DEF ProcessInit, ReapedIsGone, LeaderIsStopped
<1> QED BY <1>2, <1>3 DEF ProcessInv

\* What the members do of themselves keeps the invariant: none of it starts
\* the leader again.
LEMMA MembersKeepInv ==
  ASSUME ProcessInv, NEW p \in Member,
         (\E h \in Helper : Fork(p, h)) \/ ClosePipes(p) \/ Exit(p)
  PROVE  ProcessInv'
<1> USE DEF ProcessInv
<1>1. ASSUME NEW h \in Helper, Fork(p, h)
      PROVE  ProcessInv'
  <2>1. alive' = alive \cup {h} /\ h # Leader /\ h \in Member
    BY <1>1, LeaderAssumption DEF Fork, Member
  <2>2. ProcessTypeOK'
    BY <1>1, <2>1 DEF Fork, ProcessTypeOK, fixed
  <2> QED BY <1>1, <2>1, <2>2 DEF Fork, ReapedIsGone, LeaderIsStopped
<1>2. CASE ClosePipes(p)
  BY <1>2 DEF ClosePipes, ProcessTypeOK, ReapedIsGone, LeaderIsStopped, fixed
<1>3. CASE Exit(p)
  BY <1>3 DEF Exit, ProcessTypeOK, ReapedIsGone, LeaderIsStopped, fixed
<1> QED BY <1>1, <1>2, <1>3

\* Both ways of signalling leave the members as they are, and doom only
\* members that run.
LEMMA SignalsKeepMembers ==
  ASSUME ProcessTypeOK, Interrupt \/ Kill \/ UNCHANGED group
  PROVE  alive' = alive /\ holding' = holding /\ doomed' \subseteq alive
BY DEF Interrupt, Kill, group, ProcessTypeOK

\* The tool's steps: it returns only on a set returncode, or cut short.
LEMMA ToolKeepsInv ==
  ASSUME ProcessInv,
         ToolCompletes \/ ToolTimesOut \/ ToolOverLimit \/ ToolIsCancelled
           \/ ToolWaitReturns \/ ToolGraceEnds \/ StopIsCancelled
  PROVE  ProcessInv'
<1> USE DEF ProcessInv
<1>1. ASSUME NEW reason \in {"timeout", "limit", "cancelled"}, ToolGivesUp(reason),
             cancels' = cancels \/ Cancelled
      PROVE  ProcessInv'
  <2>1. alive' = alive /\ holding' = holding /\ doomed' \subseteq alive
    BY <1>1, SignalsKeepMembers DEF ToolGivesUp
  <2>2. cancels' \in 0 .. MaxCancels
    BY <1>1, CancelsAssumption DEF Cancelled, ProcessTypeOK
  <2>3. ProcessTypeOK'
    BY <1>1, <2>1, <2>2 DEF ToolGivesUp, ProcessTypeOK, Return, fixed
  <2> QED BY <1>1, <2>1, <2>3 DEF ToolGivesUp, ReapedIsGone, LeaderIsStopped
<1>2. CASE ToolCompletes
  BY <1>2 DEF ToolCompletes, ProcessTypeOK, ReapedIsGone, LeaderIsStopped, Return, fixed, group
<1>3. CASE ToolWaitReturns
  BY <1>3 DEF ToolWaitReturns, ProcessTypeOK, ReapedIsGone, LeaderIsStopped, Return, fixed, group
<1>4. CASE ToolGraceEnds
  <2>1. alive' = alive /\ holding' = holding /\ doomed' \subseteq alive
    BY <1>4, SignalsKeepMembers DEF ToolGraceEnds
  <2>2. ProcessTypeOK'
    BY <1>4, <2>1 DEF ToolGraceEnds, ProcessTypeOK, Return, fixed
  <2> QED BY <1>4, <2>1, <2>2 DEF ToolGraceEnds, ReapedIsGone, LeaderIsStopped
<1>5. CASE StopIsCancelled
  <2>1. cancels' \in 0 .. MaxCancels
    BY <1>5, CancelsAssumption DEF StopIsCancelled, Cancelled, ProcessTypeOK
  <2> QED
    BY <1>5, <2>1
    DEF StopIsCancelled, ProcessTypeOK, ReapedIsGone, LeaderIsStopped, Return, fixed, group
<1> QED
  BY <1>1, <1>2, <1>3, <1>4, <1>5 DEF ToolTimesOut, ToolOverLimit, ToolIsCancelled

\* The provider's steps: communicate() ends with a leader that has exited.
LEMMA ProviderKeepsInv ==
  ASSUME ProcessInv, ProviderStep
  PROVE  ProcessInv'
<1> USE DEF ProcessInv
<1>1. CASE ProviderCommunicates
  BY <1>1 DEF ProviderCommunicates, ProcessTypeOK, ReapedIsGone, LeaderIsStopped, Return,
              fixed, group
<1>2. CASE ProviderTimesOut
  BY <1>2, SignalsKeepMembers
  DEF ProviderTimesOut, ProcessTypeOK, ReapedIsGone, LeaderIsStopped, fixed
<1>3. CASE ProviderGraceEnds
  BY <1>3, SignalsKeepMembers
  DEF ProviderGraceEnds, ProcessTypeOK, ReapedIsGone, LeaderIsStopped, fixed
<1> QED BY <1>1, <1>2, <1>3 DEF ProviderStep

\* Every step, or a stutter, keeps the invariant.
LEMMA ProcessStepKeepsInv == ProcessInv /\ [ProcessNext]_vars => ProcessInv'
<1> SUFFICES ASSUME ProcessInv, [ProcessNext]_vars
             PROVE  ProcessInv'
  OBVIOUS
<1>1. CASE Reap
  BY <1>1 DEF Reap, ProcessInv, ProcessTypeOK, ReapedIsGone, LeaderIsStopped, fixed, group
<1>2. CASE UNCHANGED vars
  BY <1>2 DEF vars, fixed, group, ProcessInv, ProcessTypeOK, ReapedIsGone, LeaderIsStopped
<1> QED
  BY <1>1, <1>2, MembersKeepInv, ToolKeepsInv, ProviderKeepsInv DEF ProcessNext, ToolStep

(***************************************************************************)
(* The supervision keeps its state well typed: no signal dooms a member    *)
(* that is not running.                                                    *)
(***************************************************************************)
THEOREM ProcessTypeCorrect == ProcessSpec => []ProcessTypeOK
<1>1. ProcessInv => ProcessTypeOK
  BY DEF ProcessInv
<1> QED BY <1>1, ProcessInitInv, ProcessStepKeepsInv, PTL DEF ProcessSpec

(***************************************************************************)
(* However a call of the tool or of the provider ends, the codex process   *)
(* is gone, unless a cancellation cut the stop short.                      *)
(***************************************************************************)
THEOREM CallsStopTheLeader == ProcessSpec => []LeaderIsStopped
<1>1. ProcessInv => LeaderIsStopped
  BY DEF ProcessInv
<1> QED BY <1>1, ProcessInitInv, ProcessStepKeepsInv, PTL DEF ProcessSpec
=============================================================================
