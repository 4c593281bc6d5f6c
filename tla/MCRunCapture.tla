---------------------------- MODULE MCRunCapture ----------------------------
(* Two dispatching calls and one that is not, two tasks, two sessions; for *)
(* codex, a policy and its variants against a fitting directory and its    *)
(* variants.                                                               *)
EXTENDS RunCapture

CONSTANTS home, work, agent, other, shell, t1, t2, id, text, text2

MCKinds == [root \in Root |-> "directory"]
MCPolicy == [enabled |-> TRUE, roots |-> {work}, kind |-> MCKinds,
             allow_write |-> TRUE, max_timeout |-> 2]
Policies == {MCPolicy,
             [MCPolicy EXCEPT !.enabled = FALSE],
             [MCPolicy EXCEPT !.roots = {}],
             [MCPolicy EXCEPT !.roots = Root, !.kind[home] = "home"],
             [MCPolicy EXCEPT !.allow_write = FALSE]}

MCCwd == [absolute |-> TRUE, exists |-> TRUE, inside |-> {work}, git |-> "top",
          clean |-> TRUE, detached |-> TRUE, linked |-> TRUE]
Directories == {MCCwd}
    \cup {[MCCwd EXCEPT !.absolute = FALSE], [MCCwd EXCEPT !.exists = FALSE]}
    \cup {[MCCwd EXCEPT !.inside = {home}], [MCCwd EXCEPT !.git = "beneath"]}
    \cup {[MCCwd EXCEPT !.clean = FALSE], [MCCwd EXCEPT !.detached = FALSE],
          [MCCwd EXCEPT !.linked = FALSE]}

Ask == [cwd |-> MCCwd, write |-> FALSE, timeout |-> 1, resume |-> FALSE, long_prompt |-> FALSE]
Asks == [cwd : Directories, write : BOOLEAN, timeout : {1}, resume : {FALSE}, long_prompt : {FALSE}]
        \cup {[Ask EXCEPT !.timeout = 3], [Ask EXCEPT !.long_prompt = TRUE],
              [Ask EXCEPT !.resume = TRUE, !.long_prompt = TRUE]}

\* The fitting policy with every request, every policy with a fitting request.
MCCalls == ({MCPolicy} \X Asks) \cup (Policies \X {[Ask EXCEPT !.write = TRUE]})

Main(session, calls) == [type |-> "assistant", session |-> session, parent |-> NoTool,
                         calls |-> calls, tool |-> NoTool, task |-> NoTask]
Sub(parent, session, calls) == [Main(session, calls) EXCEPT !.parent = parent]
Started(tool, task) == [Main(0, {}) EXCEPT !.type = "task_started", !.tool = tool, !.task = task]
Ends(session) == [Main(session, {}) EXCEPT !.type = "result"]

MCMessages == {Main(0, {agent}), Main(1, {agent}), Main(1, {other, shell}), Main(2, {}),
               Sub(agent, 1, {other}), Sub(agent, 2, {}),
               Started(agent, t1), Started(agent, t2), Started(other, t2),
               Started(shell, t1), Started(NoTool, t2),
               Ends(1), Ends(2)}

Event(type, value) == [type |-> type, value |-> value, strict |-> TRUE]
MCLines == {Event("thread.started", id), Event("thread.started", Absent),
            [Event("thread.started", id) EXCEPT !.strict = FALSE],
            Event("turn.completed", Absent),
            [Event("turn.completed", Absent) EXCEPT !.strict = FALSE],
            Event("turn.failed", Absent), Event("error", Absent),
            Event("agent_message", text), Event("agent_message", text2)}
=============================================================================
