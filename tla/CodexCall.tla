----------------------------- MODULE CodexCall ------------------------------
(***************************************************************************)
(* What is decided around one `codex exec`: whether it may start           *)
(* (engine/codex_tool.py, engine/providers/codex.py, engine/worktree.py)   *)
(* and what its JSONL output means.  Codex is reachable in two ways, the   *)
(* tool mounted on a Claude run (run_codex) and the codex provider         *)
(* (run_codex_capture); each has a gate and a parser of its own, over one  *)
(* policy and one stream format.                                           *)
(*                                                                         *)
(* Directories, policies, requests and lines are records of the facts the  *)
(* code asks about them.  The supervision of the process is CodexProcess,  *)
(* the check of its changes WorktreeScope.                                 *)
(***************************************************************************)
EXTENDS Naturals, Sequences, FiniteSets

CONSTANTS Root,    \* directories an operator may list as allowed roots
          Id,      \* thread ids
          Text,    \* texts of agent messages
          Absent   \* null, or the field left out

ASSUME AbsentAssumption == Absent \notin Id \cup Text

\* What a listed root turns out to be once it is resolved.
RootKind  == {"directory", "relative", "filesystem", "home", "missing"}
Policy    == [enabled : BOOLEAN, roots : SUBSET Root, kind : [Root -> RootKind],
              allow_write : BOOLEAN, max_timeout : Nat]
Directory == [absolute : BOOLEAN, exists : BOOLEAN,
              inside   : SUBSET Root,               \* roots it is, or lies beneath
              git      : {"none", "beneath", "top"},
              clean    : BOOLEAN, detached : BOOLEAN, linked : BOOLEAN]
Request   == [cwd : Directory, write : BOOLEAN, timeout : Nat,
              resume : BOOLEAN, long_prompt : BOOLEAN]

\* _validate_allowed_roots: one unusable entry refuses every call.
AllowedRootsValid(policy) ==
    /\ policy.roots # {}
    /\ \A root \in policy.roots : policy.kind[root] = "directory"

\* _canonical_git_root.
CanonicalRoot(cwd, policy) ==
    /\ cwd.absolute /\ cwd.exists
    /\ AllowedRootsValid(policy)
    /\ cwd.inside \cap policy.roots # {}
    /\ cwd.git = "top"

\* _require_isolated_write_worktree and worktree.require_isolated_worktree.  Of
\* the two only the first refuses a worktree whose symbolic-ref errs with a code
\* other than 0 and 1: git fails at nothing here.
Isolated(cwd) == cwd.clean /\ cwd.detached /\ cwd.linked

\* _validate_request, under the policy the tool was mounted with (with_codex_tool
\* mounts nothing when Codex is disabled).
ToolAdmits(request, policy) ==
    /\ policy.enabled
    /\ request.timeout <= policy.max_timeout
    /\ ~(request.resume /\ request.long_prompt)
    /\ CanonicalRoot(request.cwd, policy)
    /\ request.write => policy.allow_write /\ Isolated(request.cwd)

\* Mutant: the worktree need not be isolated.
ProviderAdmits_AnyWorktree(request, policy) ==
    policy.enabled /\ CanonicalRoot(request.cwd, policy)

\* enforce_codex_policy and require_isolated_worktree: reading or writing, and
\* with no look at allow_write.
ProviderAdmits(request, policy) ==
    /\ policy.enabled
    /\ CanonicalRoot(request.cwd, policy)
    /\ Isolated(request.cwd)

\* enforce_codex_policy clamps where the tool refuses.
ProviderTimeout(request, policy) ==
    IF request.timeout <= policy.max_timeout THEN request.timeout ELSE policy.max_timeout

-----------------------------------------------------------------------------
(***************************************************************************)
(* The stream.  A line is an event or noise; `strict` says whether its     *)
(* fields have the types CodexEvent gives them (a UUID for the thread id,  *)
(* integers for the usage).  The provider's own event model asks for less. *)
(***************************************************************************)
Line == [type  : {"thread.started", "turn.completed", "turn.failed", "error",
                  "agent_message", "command_execution", "noise"},
         value : Id \cup Text \cup {Absent}, strict : BOOLEAN]

Has(lines, type)  == \E i \in DOMAIN lines : lines[i].type = type
Valued(lines, type) == {i \in DOMAIN lines : lines[i].type = type /\ lines[i].value # Absent}

\* The value of the last line among the positions `at`.
Last(lines, at) ==
    IF at = {} THEN Absent
    ELSE lines[CHOOSE i \in at : \A j \in at : j <= i].value

\* Where the lines are that CodexEvent.model_validate_json accepts; the others
\* are skipped.
ToolReads(lines) == {i \in DOMAIN lines : lines[i].type # "noise" /\ lines[i].strict}

\* _parse_stream: a later thread.started counts even when it carries no id.
ToolTranscript(lines) ==
    LET read     == ToolReads(lines)
        of(type) == {i \in read : lines[i].type = type}
    IN  [thread_id     |-> Last(lines, of("thread.started")),
         final_message |-> Last(lines, read \cap Valued(lines, "agent_message")),
         completed     |-> of("turn.completed") # {},
         failed        |-> of("turn.failed") \cup of("error") # {}]

\* _parse_jsonl.
ProviderStream(lines) ==
    [thread_count   |-> Cardinality(Valued(lines, "thread.started")),
     thread_id      |-> Last(lines, Valued(lines, "thread.started")),
     final_message  |-> Last(lines, Valued(lines, "agent_message")),
     turn_completed |-> Has(lines, "turn.completed"),
     turn_failed    |-> Has(lines, "turn.failed")]

\* run_codex's verdict: it raises only when there is nothing to hand back.
ToolOk(exit, lines) ==
    exit = 0 /\ ToolTranscript(lines).completed /\ ~ToolTranscript(lines).failed

ToolRaises(exit, lines) ==
    ~ToolOk(exit, lines) /\ ToolTranscript(lines).final_message = Absent

\* Mutant: a turn that failed after it completed is let through.
ProviderAccepts_Completed(exit, lines) ==
    LET parsed == ProviderStream(lines)
    IN  exit = 0 /\ parsed.thread_count = 1 /\ parsed.turn_completed

\* run_codex_capture's checks of the exit code and the parsed stream.  A thread
\* id and an answer are within the lengths their models allow.
ProviderAccepts(exit, lines) ==
    LET parsed == ProviderStream(lines)
    IN  /\ exit = 0
        /\ parsed.thread_count = 1
        /\ parsed.turn_completed /\ ~parsed.turn_failed
=============================================================================
