---------------------------- MODULE CodexProcess ----------------------------
(***************************************************************************)
(* How a codex run is supervised.  Two callers start the same CLI as the   *)
(* leader of a process group of its own and read its output pipes:         *)
(*   "tool"     `_execute` of engine/codex_tool.py, on the event loop      *)
(*              (asyncio.subprocess), cancellable, with a size limit;      *)
(*   "provider" `_run_codex_sync` of engine/providers/codex.py, on a       *)
(*              worker thread (subprocess.Popen.communicate).              *)
(* Both give up with a polite signal to the group, a grace period, then    *)
(* SIGKILL.  The processes are the environment: the leader forks helpers,  *)
(* which inherit the pipes; a member may close its pipes, exit, or ignore  *)
(* the polite signal (SIGINT or SIGTERM).                                  *)
(***************************************************************************)
EXTENDS Naturals

CONSTANTS Leader,     \* the codex process: its pid is the group's id
          Helper,     \* the processes it may start, directly or not
          MaxCancels  \* bound: cancellations of one tool call

ASSUME LeaderAssumption  == Leader \notin Helper
ASSUME CancelsAssumption == MaxCancels \in Nat

Member == Helper \cup {Leader}

VARIABLES via,      \* which caller supervises
          prompt,   \* proc.wait() returns on exit (else once the pipes close too)
          stubborn, \* members that ignore the polite signal
          alive,    \* members that run
          holding,  \* members that have the output pipes open
          doomed,   \* members that got a signal they die of
          reaped,   \* the leader was waited for: its returncode is set
          at,       \* where the call is
          ending,   \* why it ends
          cancels   \* cancellations so far

group == <<alive, holding, doomed>>
fixed == <<via, prompt, stubborn>>
vars  == <<fixed, group, reaped, at, ending, cancels>>

ProcessTypeOK ==
    /\ via \in {"tool", "provider"} /\ prompt \in BOOLEAN /\ stubborn \subseteq Member
    /\ alive \subseteq Member /\ holding \subseteq alive /\ doomed \subseteq alive
    /\ reaped \in BOOLEAN
    /\ at \in {"running", "grace", "killed", "done"}
    /\ ending \in {"none", "ok", "timeout", "limit", "cancelled", "interrupted"}
    /\ cancels \in 0 .. MaxCancels

ProcessInit ==
    /\ via \in {"tool", "provider"} /\ prompt \in BOOLEAN /\ stubborn \in SUBSET Member
    /\ alive = {Leader} /\ holding = {Leader} /\ doomed = {}
    /\ reaped = FALSE
    /\ at = "running" /\ ending = "none" /\ cancels = 0

-----------------------------------------------------------------------------
\* A member starts a helper, unless a signal is about to end it.
Fork(p, h) ==
    /\ p \in alive \ doomed /\ h \notin alive
    /\ alive' = alive \cup {h}
    /\ holding' = IF p \in holding THEN holding \cup {h} ELSE holding
    /\ UNCHANGED <<fixed, doomed, reaped, at, ending, cancels>>

ClosePipes(p) ==
    /\ p \in holding
    /\ holding' = holding \ {p}
    /\ UNCHANGED <<fixed, alive, doomed, reaped, at, ending, cancels>>

Exit(p) ==
    /\ p \in alive
    /\ alive' = alive \ {p} /\ holding' = holding \ {p} /\ doomed' = doomed \ {p}
    /\ UNCHANGED <<fixed, reaped, at, ending, cancels>>

\* asyncio's child watcher collects the leader; Popen only does in wait().
Reap ==
    /\ via = "tool" /\ Leader \notin alive /\ ~reaped
    /\ reaped' = TRUE
    /\ UNCHANGED <<fixed, group, at, ending, cancels>>

-----------------------------------------------------------------------------
Interrupt == doomed' = doomed \cup (alive \ stubborn) /\ UNCHANGED <<alive, holding>>

\* Mutant: only the leader is killed, not its group.
Kill_LeaderOnly == doomed' = doomed \cup (alive \cap {Leader}) /\ UNCHANGED <<alive, holding>>

\* Mutant: the signal goes to members that are gone.
Kill_Gone == doomed' = Member /\ UNCHANGED <<alive, holding>>

Kill == doomed' = alive /\ UNCHANGED <<alive, holding>>

Return == at' = "done"

\* All four local tasks are done: exit, end of stdin, end of both streams.
ToolCompletes ==
    /\ via = "tool" /\ at = "running"
    /\ reaped /\ holding = {}
    /\ Return /\ ending' = "ok"
    /\ UNCHANGED <<fixed, group, reaped, cancels>>

\* The timeout, a stream over its limit or a cancellation: _terminate, whose
\* first line returns when the leader's returncode is already set.
ToolGivesUp(reason) ==
    /\ via = "tool" /\ at = "running"
    /\ \/ reaped /\ Return /\ UNCHANGED group
       \/ ~reaped /\ at' = "grace" /\ Interrupt
    /\ ending' = reason
    /\ UNCHANGED <<fixed, reaped>>

ToolTimesOut  == ToolGivesUp("timeout") /\ UNCHANGED cancels
ToolOverLimit == ToolGivesUp("limit") /\ UNCHANGED cancels

Cancelled == cancels < MaxCancels /\ cancels' = cancels + 1

ToolIsCancelled == ToolGivesUp("cancelled") /\ Cancelled

\* proc.wait() returns, in the grace period or after SIGKILL; the local tasks
\* are then cancelled and drained.
ToolWaitReturns ==
    /\ via = "tool" /\ at \in {"grace", "killed"}
    /\ reaped /\ (prompt \/ holding = {})
    /\ Return
    /\ UNCHANGED <<fixed, group, reaped, ending, cancels>>

\* Mutant: the grace period ends without SIGKILL.
ToolGraceEnds_NoKill ==
    /\ via = "tool" /\ at = "grace"
    /\ Return
    /\ UNCHANGED <<fixed, group, reaped, ending, cancels>>

\* SIGKILL to the group, unless the leader is gone (ProcessLookupError).
ToolGraceEnds ==
    /\ via = "tool" /\ at = "grace"
    /\ \/ reaped /\ Return /\ UNCHANGED group
       \/ ~reaped /\ at' = "killed" /\ Kill
    /\ UNCHANGED <<fixed, reaped, ending, cancels>>

\* A cancellation during the stop leaves _terminate where it waits.
StopIsCancelled ==
    /\ via = "tool" /\ at \in {"grace", "killed"}
    /\ Cancelled
    /\ Return /\ ending' = "interrupted"
    /\ UNCHANGED <<fixed, group, reaped>>

\* communicate() reads both streams to their end, then waits for the leader.
ProviderCommunicates ==
    /\ via = "provider" /\ at # "done"
    /\ holding = {} /\ Leader \notin alive
    /\ reaped' = TRUE
    /\ Return /\ ending' = IF at = "running" THEN "ok" ELSE ending
    /\ UNCHANGED <<fixed, group, cancels>>

ProviderTimesOut ==
    /\ via = "provider" /\ at = "running"
    /\ at' = "grace" /\ ending' = "timeout" /\ Interrupt
    /\ UNCHANGED <<fixed, reaped, cancels>>

ProviderGraceEnds ==
    /\ via = "provider" /\ at = "grace"
    /\ at' = "killed" /\ Kill
    /\ UNCHANGED <<fixed, reaped, ending, cancels>>

-----------------------------------------------------------------------------
ToolStep     == ToolCompletes \/ ToolTimesOut \/ ToolWaitReturns \/ ToolGraceEnds
ProviderStep == ProviderCommunicates \/ ProviderTimesOut \/ ProviderGraceEnds

ProcessNext ==
    \/ \E p \in Member : (\E h \in Helper : Fork(p, h)) \/ ClosePipes(p) \/ Exit(p)
    \/ Reap
    \/ ToolStep \/ ToolOverLimit \/ ToolIsCancelled \/ StopIsCancelled
    \/ ProviderStep

(***************************************************************************)
(* A member dies of a signal it cannot ignore, the watcher collects the    *)
(* leader, timers fire and what they wake runs.  No member exits, forks or *)
(* closes a pipe because it should, and nobody has to cancel.              *)
(***************************************************************************)
Fairness == /\ \A p \in Member : WF_vars(p \in doomed /\ Exit(p))
            /\ WF_vars(Reap) /\ WF_vars(ToolStep) /\ WF_vars(ProviderStep)

ProcessSpec     == ProcessInit /\ [][ProcessNext]_vars
FairProcessSpec == ProcessSpec /\ Fairness

-----------------------------------------------------------------------------
(***************************************************************************)
(* "Cancellation and unexpected stream failures must not orphan a writable *)
(* agent process" (codex_tool.py:567): however a call ends, with the       *)
(* answer, a timeout, too much output or a cancellation, the codex process *)
(* itself is gone, unless a cancellation cut the stop short.               *)
(***************************************************************************)
LeaderIsStopped == at = "done" /\ ending # "interrupted" => Leader \notin alive

(***************************************************************************)
(* Every call ends, whatever the members ignore and whoever still holds    *)
(* the pipes the call reads ("runtime/output are bounded", README.md:112). *)
(***************************************************************************)
CallReturns == <>(at = "done")

(***************************************************************************)
(* "Terminate the whole child process group" (_stop_process,               *)
(* codex_tool.py:519): a call that gave up leaves no member behind with    *)
(* the pipes it was reading open.                                          *)
(***************************************************************************)
GroupIsTerminated == at = "done" /\ ending \in {"timeout", "limit", "cancelled"} => holding = {}
=============================================================================
