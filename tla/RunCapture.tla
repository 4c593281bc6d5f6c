----------------------------- MODULE RunCapture -----------------------------
(***************************************************************************)
(* One run being captured: run_with_capture's loop over the messages of    *)
(* the Claude SDK (engine/dispatch.py), run_codex_capture's one turn of    *)
(* the codex CLI (engine/providers/codex.py), and the codex tool's         *)
(* run_codex, which reads the same CLI and records nothing.                *)
(*                                                                         *)
(* The SDK and the CLI are external.  The SDK may interleave the main      *)
(* agent, its subagents and background tasks, move the main agent to       *)
(* another session, and leave the session of an assistant message out; a   *)
(* subagent speaks, and starts, only after the call that dispatched it.    *)
(* Every message handler is one step: it has no await.  A dismissal, on a  *)
(* worker thread, falls between two of them (TeammateServer has it fall    *)
(* between two pool calls).                                                *)
(***************************************************************************)
EXTENDS CodexCall

CONSTANTS Tool,        \* ids of tool calls, dispatching or not
          Dispatch,    \* those that are a Task or Agent call
          TaskId,      \* the harness's ids of started tasks
          NoTool,      \* no parent, or a message about no tool call
          NoTask,      \* a main row has no task
          Calls,       \* <<policy, request>> a codex call is made with
          Messages,    \* messages the SDK may send
          Lines,       \* lines the CLI may print
          MaxSession,  \* sessions are numbered; 0 is None
          MaxMessages, \* bound: messages of one stream
          MaxLines     \* bound: lines of one codex turn

ASSUME ToolAssumption  == Dispatch \subseteq Tool /\ NoTool \notin Tool /\ NoTask \notin TaskId
ASSUME SessionAssumption == MaxSession \in Nat \ {0}
ASSUME BoundAssumption == MaxMessages \in Nat /\ MaxLines \in Nat

VARIABLES consumer,        \* who reads: run_with_capture, the provider or the tool
          at,              \* where the run is
          entry,           \* the pool entry's session; 0: dismissed
          expected,        \* what the options pinned; the entry when codex looked
          rows,            \* table agent_runs, as inserted
          open_dispatches, \* the locals of run_with_capture
          recorded_main, seen_tasks, main_session_id, main_recorded,
          call,            \* the policy and request of a codex call
          timeout,         \* what the CLI is given
          stdout,          \* what it printed
          exited,          \* history: its exit code and whether its changes were in scope
          sent             \* history: the messages of the SDK so far

locals == <<open_dispatches, recorded_main, seen_tasks, main_session_id, main_recorded>>
codex  == <<call, timeout, stdout, exited>>
vars   == <<consumer, at, entry, expected, rows, locals, codex, sent>>

Session == 1 .. MaxSession
Row     == [session : Session, task : TaskId \cup {NoTask}, tool : Tool \cup {NoTool}]
Message == [type : {"assistant", "task_started", "result"}, session : 0 .. MaxSession,
            parent : Tool \cup {NoTool}, calls : SUBSET Tool,
            tool : Tool \cup {NoTool}, task : TaskId \cup {NoTask}]

ASSUME AlphabetAssumption ==
    /\ Messages \subseteq Message /\ Lines \subseteq Line
    /\ \A c \in Calls : c[1] \in Policy /\ c[2] \in Request

\* A field that no handler of a message reads says nothing.
ASSUME BlankAssumption ==
    \A message \in Messages :
        /\ message.type = "assistant" \/ message.calls = {}
        /\ message.type = "task_started" => message.task \in TaskId /\ message.session = 0
        /\ message.type = "result" => message.parent = NoTool

CaptureTypeOK ==
    /\ consumer \in {"claude", "provider", "tool"}
    /\ at \in {"start", "streaming", "returned", "raised"}
    /\ entry \in 0 .. MaxSession /\ expected \in 0 .. MaxSession
    /\ rows \in Seq(Row)
    /\ open_dispatches \subseteq Dispatch
    /\ recorded_main \subseteq Session
    /\ seen_tasks \subseteq TaskId
    /\ main_session_id \in 0 .. MaxSession
    /\ main_recorded \in BOOLEAN
    /\ call \in Calls
    /\ timeout \in Nat
    /\ stdout \in Seq(Lines)
    /\ exited \in {<< >>} \cup ({0, 1} \X BOOLEAN)
    /\ sent \in Seq(Messages)

CaptureInit ==
    /\ consumer \in {"claude", "provider", "tool"}
    /\ at = "start"
    /\ entry = 1 /\ expected = 1
    /\ rows = << >>
    /\ open_dispatches = {} /\ recorded_main = {} /\ seen_tasks = {}
    /\ main_session_id = 0 /\ main_recorded = FALSE
    /\ call \in Calls /\ (consumer = "claude" => call = CHOOSE c \in Calls : TRUE)
    /\ timeout = 0
    /\ stdout = << >> /\ exited = << >> /\ sent = << >>

Raise == at' = "raised"
AddRow(session, task, tool) ==
    rows' = Append(rows, [session |-> session, task |-> task, tool |-> tool])

-----------------------------------------------------------------------------
(***************************************************************************)
(* run_with_capture.                                                       *)
(***************************************************************************)
QueryStarts ==
    /\ consumer = "claude" /\ at = "start"
    /\ at' = "streaming"
    /\ UNCHANGED <<consumer, entry, expected, rows, locals, codex, sent>>

\* What the stream has established: which calls were made, and whether it had
\* its one result.
Dispatched  == {t \in Dispatch : \E i \in DOMAIN sent : t \in sent[i].calls}
StreamEnded == \E i \in DOMAIN sent : sent[i].type = "result"

Send(message, type) ==
    /\ consumer = "claude" /\ at = "streaming"
    /\ message.type = type
    /\ ~StreamEnded /\ Len(sent) < MaxMessages
    /\ sent' = Append(sent, message)
    /\ UNCHANGED <<consumer, expected, codex>>

\* Mutant: a subagent's message is taken for the main agent's.
Hear_AnyParent(session, parent) ==
    IF session = 0
    THEN UNCHANGED <<at, entry, rows, recorded_main, main_session_id, main_recorded>>
    ELSE /\ main_session_id' = session
         /\ recorded_main' = recorded_main \cup {session}
         /\ IF session \in recorded_main \/ parent # NoTool
            THEN UNCHANGED rows ELSE AddRow(session, NoTask, NoTool)
         /\ main_recorded' = TRUE
         /\ UNCHANGED <<at, entry>>

\* Mutant: every new main session moves the entry, not the first alone.
Hear_EveryMain(session, parent) ==
    IF session = 0 \/ parent # NoTool
    THEN UNCHANGED <<at, entry, rows, recorded_main, main_session_id, main_recorded>>
    ELSE /\ main_session_id' = session
         /\ recorded_main' = recorded_main \cup {session}
         /\ IF session \in recorded_main THEN UNCHANGED rows
                                         ELSE AddRow(session, NoTask, NoTool)
         /\ main_recorded' = TRUE
         /\ IF session = expected THEN UNCHANGED <<at, entry>>
            ELSE IF entry = 0 THEN Raise /\ UNCHANGED entry
            ELSE entry' = session /\ UNCHANGED at

\* The end of the loop body: a message of the main agent that has a session
\* names it, records it once, and, if it is the first, moves the entry to it
\* (reconcile_session: a KeyError when the entry was dismissed).
Hear(session, parent) ==
    IF session = 0 \/ parent # NoTool
    THEN UNCHANGED <<at, entry, rows, recorded_main, main_session_id, main_recorded>>
    ELSE /\ main_session_id' = session
         /\ recorded_main' = recorded_main \cup {session}
         /\ IF session \in recorded_main THEN UNCHANGED rows
                                         ELSE AddRow(session, NoTask, NoTool)
         /\ main_recorded' = TRUE
         /\ IF main_recorded \/ session = expected THEN UNCHANGED <<at, entry>>
            ELSE IF entry = 0 THEN Raise /\ UNCHANGED entry
            ELSE entry' = session /\ UNCHANGED at

\* Mutant: the name of the called tool is not looked at.
Assistant_AnyCall(message) ==
    /\ Send(message, "assistant")
    /\ message.parent \in Dispatched \cup {NoTool}
    /\ open_dispatches' = open_dispatches \cup message.calls
    /\ Hear(message.session, message.parent)
    /\ UNCHANGED seen_tasks

\* AssistantMessage, with the tool calls it makes (_track_dispatches).
Assistant(message) ==
    /\ Send(message, "assistant")
    /\ message.parent \in Dispatched \cup {NoTool}
    /\ open_dispatches' = open_dispatches \cup (message.calls \cap Dispatch)
    /\ Hear(message.session, message.parent)
    /\ UNCHANGED seen_tasks

\* Mutant: the dispatching call is what is remembered, not the task.
TaskStarted_OncePerCall(message) ==
    /\ Send(message, "task_started")
    /\ message.tool \in Dispatch => message.tool \in Dispatched
    /\ IF /\ message.tool \in open_dispatches /\ main_session_id # 0
          /\ \A i \in DOMAIN rows : rows[i].tool # message.tool
       THEN /\ seen_tasks' = seen_tasks \cup {message.task}
            /\ AddRow(main_session_id, message.task, message.tool)
       ELSE UNCHANGED <<seen_tasks, rows>>
    /\ UNCHANGED <<at, entry, open_dispatches, recorded_main, main_session_id, main_recorded>>

\* TaskStartedMessage: recorded once per task, and only for a tracked dispatch
\* of a run whose session is known.
TaskStarted(message) ==
    /\ Send(message, "task_started")
    /\ message.tool \in Dispatch => message.tool \in Dispatched
    /\ IF /\ message.tool \in open_dispatches /\ main_session_id # 0
          /\ message.task \notin seen_tasks
       THEN /\ seen_tasks' = seen_tasks \cup {message.task}
            /\ AddRow(main_session_id, message.task, message.tool)
       ELSE UNCHANGED <<seen_tasks, rows>>
    /\ UNCHANGED <<at, entry, open_dispatches, recorded_main, main_session_id, main_recorded>>

\* ResultMessage: one, at the end, always with the top-level session.
Result(message) ==
    /\ Send(message, "result")
    /\ Hear(message.session, NoTool)
    /\ UNCHANGED <<open_dispatches, seen_tasks>>

\* After the loop: finish_run, a KeyError when the run was dismissed with its
\* key.  A stream may also end without a result.
QueryEnds ==
    /\ consumer = "claude" /\ at = "streaming"
    /\ IF entry = 0 THEN Raise ELSE at' = "returned"
    /\ UNCHANGED <<consumer, entry, expected, rows, locals, codex, sent>>

QueryRaises ==
    /\ consumer = "claude" /\ at = "streaming"
    /\ Raise
    /\ UNCHANGED <<consumer, entry, expected, rows, locals, codex, sent>>

-----------------------------------------------------------------------------
(***************************************************************************)
(* run_codex_capture and run_codex.                                        *)
(***************************************************************************)
policy  == call[1]
request == call[2]

\* The gate.  The provider looks the entry up first (KeyError) and keeps it.
CodexStarts ==
    /\ consumer # "claude" /\ at = "start"
    /\ IF consumer = "tool"
       THEN /\ at' = IF ToolAdmits(request, policy) THEN "streaming" ELSE "raised"
            /\ timeout' = request.timeout
       ELSE /\ at' = IF entry # 0 /\ ProviderAdmits(request, policy)
                     THEN "streaming" ELSE "raised"
            /\ timeout' = ProviderTimeout(request, policy)
    /\ expected' = IF consumer = "provider" THEN entry ELSE expected
    /\ UNCHANGED <<consumer, entry, rows, locals, call, stdout, exited, sent>>

CodexPrints(line) ==
    /\ consumer # "claude" /\ at = "streaming"
    /\ Len(stdout) < MaxLines
    /\ stdout' = Append(stdout, line)
    /\ UNCHANGED <<consumer, at, entry, expected, rows, locals, call, timeout, exited, sent>>

\* Mutant: the row is written on the stream alone, before the exit code and the
\* changes are judged.
CodexExits_OnStreamAlone(exit, in_scope) ==
    /\ consumer # "claude" /\ at = "streaming"
    /\ CASE consumer = "tool" ->
              at' = (IF ToolRaises(exit, stdout) THEN "raised" ELSE "returned")
              /\ UNCHANGED rows
         [] consumer = "provider" ->
              /\ IF ProviderAccepts(0, stdout) THEN AddRow(expected, NoTask, NoTool)
                                               ELSE UNCHANGED rows
              /\ at' = IF in_scope /\ ProviderAccepts(exit, stdout) /\ entry # 0
                       THEN "returned" ELSE "raised"
    /\ exited' = <<exit, in_scope>>
    /\ UNCHANGED <<consumer, entry, expected, locals, call, timeout, stdout, sent>>

\* The CLI exits.  The tool hands back what there is; the provider checks the
\* changes, the exit code and the stream, then writes its one row and finishes
\* the run (a KeyError when it was dismissed).
CodexExits(exit, in_scope) ==
    /\ consumer # "claude" /\ at = "streaming"
    /\ CASE consumer = "tool" ->
              at' = (IF ToolRaises(exit, stdout) THEN "raised" ELSE "returned")
              /\ UNCHANGED rows
         [] consumer = "provider" ->
              IF in_scope /\ ProviderAccepts(exit, stdout)
              THEN /\ AddRow(expected, NoTask, NoTool)
                   /\ at' = IF entry = 0 THEN "raised" ELSE "returned"
              ELSE Raise /\ UNCHANGED rows
    /\ exited' = <<exit, in_scope>>
    /\ UNCHANGED <<consumer, entry, expected, locals, call, timeout, stdout, sent>>

\* A timeout, an output limit, a missing binary.
CodexFails ==
    /\ consumer # "claude" /\ at = "streaming"
    /\ Raise
    /\ UNCHANGED <<consumer, entry, expected, rows, locals, codex, sent>>

\* dismiss_teammate or delete_agent: the entry, the run and its rows go.  A
\* later message still inserts its row.
Dismissed ==
    /\ at \in {"start", "streaming"} /\ entry # 0 /\ consumer # "tool"
    /\ entry' = 0
    /\ rows' = << >>
    /\ UNCHANGED <<consumer, at, expected, locals, codex, sent>>

CaptureNext ==
    \/ QueryStarts
    \/ \E message \in Messages : Assistant(message) \/ TaskStarted(message) \/ Result(message)
    \/ QueryEnds
    \/ QueryRaises
    \/ CodexStarts
    \/ \E line \in Lines : CodexPrints(line)
    \/ \E exit \in {0, 1}, in_scope \in BOOLEAN : CodexExits(exit, in_scope)
    \/ CodexFails
    \/ Dismissed

CaptureSpec == CaptureInit /\ [][CaptureNext]_vars

-----------------------------------------------------------------------------
Positions(type) == {i \in DOMAIN sent : sent[i].type = type}
FromMain(i)     == sent[i].session # 0 /\ sent[i].parent = NoTool

\* Message i starts a subagent that a message before it dispatched, in a run
\* whose main agent has been heard with a session.
Starts(i, task) ==
    /\ i \in Positions("task_started") /\ sent[i].task = task
    /\ \E j \in 1 .. i - 1 : sent[i].tool \in sent[j].calls \cap Dispatch
    /\ \E j \in 1 .. i - 1 : FromMain(j)

(***************************************************************************)
(* "One agent_runs row is persisted per agent" (run_with_capture,          *)
(* dispatch.py:133): every session the main agent spoke under and every    *)
(* task started once the main agent was known has exactly one row, however *)
(* often and in whatever order the stream repeats them, and nothing else   *)
(* has one.  Also while the stream is under way, and when it raises.       *)
(***************************************************************************)
OneRowPerAgent ==
    consumer = "claude" /\ entry # 0 =>
        /\ \A session \in Session :
             Cardinality({i \in DOMAIN rows : rows[i].task = NoTask /\ rows[i].session = session})
               = IF \E i \in DOMAIN sent : FromMain(i) /\ sent[i].session = session THEN 1 ELSE 0
        /\ \A task \in TaskId :
             Cardinality({i \in DOMAIN rows : rows[i].task = task})
               = IF \E i \in DOMAIN sent : Starts(i, task) THEN 1 ELSE 0

(***************************************************************************)
(* A subagent's row never stands alone: the main row of the session it is  *)
(* filed under was inserted before it, so the session of every row of the  *)
(* run is one the main agent was on (run_with_capture's docstring,         *)
(* dispatch.py:122-124: every agent of a run shares its session).          *)
(***************************************************************************)
MainRowComesFirst ==
    entry # 0 =>
        \A i \in DOMAIN rows : rows[i].task # NoTask =>
            \E j \in 1 .. i - 1 : rows[j].task = NoTask /\ rows[j].session = rows[i].session

(***************************************************************************)
(* The standing conversation after a run is the one the run opened on:     *)
(* unless the run was dismissed, the entry is on the first session its     *)
(* main agent spoke under, and a run that never spoke left it where it was *)
(* (reconcile_session by run_with_capture, dispatch.py:214-217).           *)
(***************************************************************************)
EntryFollowsTheFirstMain ==
    consumer = "claude" /\ entry # 0 =>
        entry = LET main == {i \in DOMAIN sent : FromMain(i)}
                IN  IF main = {} THEN expected
                    ELSE sent[CHOOSE i \in main : \A j \in main : i <= j].session

\* The CLI exited with code 0, its changes were in scope and its stream is one
\* completed turn.
TurnAccepted == exited # << >> /\ exited[2] /\ ProviderAccepts(exited[1], stdout)

(***************************************************************************)
(* A codex run gets its one agent_runs row exactly when its turn was       *)
(* accepted: the changes, the exit code and the stream all were            *)
(* (run_codex_capture's "exactly one agent_runs row is written",           *)
(* codex.py:231-233, and what it raises on, :251-253).  A run that is      *)
(* finished has that row, on the session of the entry; the tool writes     *)
(* none.                                                                   *)
(***************************************************************************)
CodexRowIsEarned ==
    consumer # "claude" =>
        /\ Len(rows) <= 1
        /\ rows # << >> <=> consumer = "provider" /\ TurnAccepted
        /\ rows # << >> /\ entry # 0 => at = "returned" /\ rows[1].session = entry
        /\ consumer = "provider" /\ at = "returned" => rows # << >>

(***************************************************************************)
(* The two readers of one stream agree where both can read it: a turn the  *)
(* provider accepts, and in which every line has the fields' types and no  *)
(* `error` event occurs, is `ok` for the tool, with the same answer and    *)
(* with the same thread or, when a later event names none, without one;    *)
(* and what is `ok` for the tool the provider accepts if it names one      *)
(* thread.  (An `error` event the turn recovers from is a failure for the  *)
(* tool only, codex_tool.py:287; providers/codex.py:125.)                  *)
(***************************************************************************)
ReadersAgree ==
    LET tool     == ToolTranscript(stdout)
        provider == ProviderStream(stdout)
        plain    == \A i \in DOMAIN stdout : stdout[i].strict
    IN  /\ (plain /\ ProviderAccepts(0, stdout) /\ ~Has(stdout, "error")) =>
              /\ ToolOk(0, stdout)
              /\ tool.final_message = provider.final_message
              /\ tool.thread_id \in {provider.thread_id, Absent}
        /\ ToolOk(0, stdout) /\ plain =>
              /\ provider.thread_count = 1 => ProviderAccepts(0, stdout)
              /\ provider.turn_completed /\ ~provider.turn_failed
        /\ ~plain /\ ToolOk(0, stdout) => provider.turn_completed

\* A codex CLI was started.
CodexRuns == consumer # "claude" /\ at \in {"streaming", "returned"}

(***************************************************************************)
(* "A run that enters through run_teammate(provider=codex) must be held to *)
(* the same AGENT_FLEET_CODEX_* settings as one that enters through the    *)
(* mounted tool" (enforce_codex_policy, codex_tool.py:350-354): leaving    *)
(* the permission to write aside, the tool would have admitted what the    *)
(* provider starts, with the timeout it gives it; and the provider would   *)
(* have admitted every writing call of the tool.                           *)
(***************************************************************************)
OnePolicyForBoth ==
    CodexRuns =>
        IF consumer = "provider"
        THEN ToolAdmits([request EXCEPT !.timeout = timeout, !.resume = FALSE],
                        [policy EXCEPT !.allow_write = TRUE])
        ELSE request.write => ProviderAdmits(request, policy) /\ timeout = ProviderTimeout(request, policy)

(***************************************************************************)
(* The same sentence for AGENT_FLEET_CODEX_ALLOW_WORKSPACE_WRITE: a codex  *)
(* run writes only where the operator permits it.                          *)
(***************************************************************************)
WritesArePermitted == CodexRuns /\ request.write => policy.allow_write
=============================================================================
