--------------------------- MODULE TeammateServer ---------------------------
(***************************************************************************)
(* The teammate server: run_teammate and dismiss_teammate                  *)
(* (agent_fleet_mcp/teammate_server.py), the accessors they are made of    *)
(* (context.py), the registry of background runs (runner.py), and the run  *)
(* itself from prepare_provider_run to finish_run (engine/dispatch.py,     *)
(* engine/providers/codex.py), over the pool of PoolTables.                *)
(*                                                                         *)
(* Each server process has one asyncio loop.  run_teammate has no await    *)
(* before the spawn, and the capture coroutine awaits only its stream, so  *)
(* a stretch of code between two awaits (a segment) excludes every other   *)
(* coroutine of that server: `loop` says which segment is under way.  A    *)
(* segment makes several pool calls, and worker threads (dismiss_teammate, *)
(* delete_agent are synchronous tools) and the other servers sharing       *)
(* pool.db do run between two of them: each pool call is a step.           *)
(*                                                                         *)
(* The SDK stream of a run (external: the claude or codex CLI) attaches to *)
(* a session, then yields messages, then ends or raises.                   *)
(***************************************************************************)
EXTENDS PoolTables

CONSTANTS Server,   \* teammate-mcp processes sharing pool.db
          Crew,     \* for each teammate, the agents its toolkits wire in
          NoTask,   \* a run no task was spawned for
          Limit     \* how often each Event may happen

Event == {"call",     \* a run_teammate that opens a segment
          "reset",    \* ... with resume=False
          "drift",    \* the SDK answers a resume with a session of its own
          "dismiss",  \* dismiss_teammate, delete_agent
          "cancel",   \* the client of a waiting call goes away
          "unwired",  \* prepare_run raises after begin_run
          "crash"}    \* a server process dies

ASSUME CrewAssumption  == Crew \in [Key -> SUBSET Key]
ASSUME LimitAssumption == Limit \in [Event -> Nat]
ASSUME NoEntryAssumption == NoEntry \notin Key

VARIABLES loop,        \* the segment each server's event loop is inside
          tasks,       \* the asyncio task of each run, with what it is wired to
          registered,  \* TeammateRunner._tasks of each server
          awaited,     \* runs a client call is waiting for
          created,     \* sessions the SDK has created (their history exists)
          spent        \* events so far

serving == <<loop, tasks, registered, awaited, created, spent>>
vars    == <<tables, serving>>

Provider == {"claude", "codex"}
Options  == {"fresh", "resume", "plain"}
Segment  == [at : {"idle", "ensure", "crew", "begin", "wire", "repin", "settle"},
             key : Key, provider : Provider, reset : BOOLEAN, wait : BOOLEAN,
             left : SUBSET Key, session : 0 .. MaxSession,
             run : 0 .. MaxRun, options : Options]
Task     == [server : Server, key : Key, provider : Provider, options : Options,
             expect : 0 .. MaxSession,   \* entry.session_id at wiring time
             session : 0 .. MaxSession,  \* the session its stream is on; 0: not yet
             state : {"starting", "attached", "streaming",
                      "returned", "raised", "cancelled", "lost"}]

ASSUME TaskAssumption == NoTask \notin Task

TeammateTypeOK ==
    /\ TypeOK
    /\ loop       \in [Server -> Segment]
    /\ tasks      \in [Run -> Task \cup {NoTask}]
    /\ registered \in [Server -> SUBSET Run]
    /\ awaited    \in SUBSET Run
    /\ created    \in SUBSET Session
    /\ spent      \in [Event -> Nat]

Idle == [at |-> "idle", key |-> CHOOSE k \in Key : TRUE, provider |-> "claude",
         reset |-> FALSE, wait |-> FALSE, left |-> {}, session |-> 0, run |-> 0,
         options |-> "plain"]

TeammateInit ==
    /\ Init
    /\ loop       = [s \in Server |-> Idle]
    /\ tasks      = [r \in Run |-> NoTask]
    /\ registered = [s \in Server |-> {}]
    /\ awaited    = {}
    /\ created    = {}
    /\ spent      = [e \in Event |-> 0]

-----------------------------------------------------------------------------
Live(r)  == tasks[r] # NoTask /\ tasks[r].state \in {"starting", "attached", "streaming"}
Ended(r) == tasks[r] # NoTask /\ ~Live(r)

\* run_status and teammate_status: what check_teammate answers on server s.
\* It asks get_by_key, latest_run and is_running in turn, on a worker thread;
\* here all three see one state, and an answer mixed of several is not modelled.
Status(s, k) ==
    CASE agents[k] = NoEntry                    -> "unspawned"
      [] agents[k] # NoEntry /\ ~HasRuns(k)     -> "idle"
      [] agents[k] # NoEntry /\ HasRuns(k)      ->
           IF runs[LatestRun(k)].state # "open"      THEN runs[LatestRun(k)].state
           ELSE IF LatestRun(k) \in registered[s] THEN "running" ELSE "stale"

\* Mutant: the oldest run is looked at, not the latest.
LiveRun_Oldest(s, k) ==
    \E r \in RunsOf(k) \cap registered[s] :
        runs[r].state = "open" /\ \A q \in RunsOf(k) : r <= q

\* live_run: the latest run of k is unfinished and registered on this server.
LiveRun(s, k) == /\ HasRuns(k)
                 /\ runs[LatestRun(k)].state = "open"
                 /\ LatestRun(k) \in registered[s]

Spend(event) == /\ spent[event] < Limit[event]
                /\ spent' = [spent EXCEPT ![event] = @ + 1]

Go(s, segment) == loop' = [loop EXCEPT ![s] = segment]
Yield(s)       == Go(s, Idle)

OpenSegment(s, k, provider, reset, wait) ==
    /\ spent["call"] < Limit["call"]
    /\ reset => spent["reset"] < Limit["reset"]
    /\ spent' = [spent EXCEPT !["call"] = @ + 1, !["reset"] = @ + IF reset THEN 1 ELSE 0]
    /\ Go(s, [Idle EXCEPT !.at = "ensure", !.key = k, !.provider = provider,
                          !.reset = reset, !.wait = wait, !.left = Crew[k]])
    /\ UNCHANGED <<tables, tasks, registered, awaited, created>>

\* Mutant: the live run is looked for only when the session is to be kept.
Call_ResetFirst(s, k, provider, reset, wait) ==
    /\ loop[s].at = "idle"
    /\ ~reset => ~LiveRun(s, k)
    /\ OpenSegment(s, k, provider, reset, wait)

\* run_teammate with no live run: the segment up to the spawn begins.
Call(s, k, provider, reset, wait) ==
    /\ loop[s].at = "idle"
    /\ ~LiveRun(s, k)
    /\ OpenSegment(s, k, provider, reset, wait)

\* run_teammate(wait=True) on a busy teammate: gather over the live task.
Join(s, k) ==
    /\ loop[s].at = "idle"
    /\ LiveRun(s, k)
    /\ awaited' = awaited \cup {LatestRun(k)}
    /\ UNCHANGED <<tables, loop, tasks, registered, created, spent>>

\* ensure_teammate: an entry that exists is left alone unless it is reset.
Ensure(s) ==
    /\ loop[s].at = "ensure"
    /\ Save(loop[s].key, NoCwd, loop[s].reset)
    /\ Go(s, [loop[s] EXCEPT !.at = "crew"])
    /\ UNCHANGED <<tasks, registered, awaited, created, spent>>

\* Mutant: fresh_session is passed on to the agents.
EnsureCrew_PassesReset(s) ==
    /\ loop[s].at = "crew"
    /\ \E m \in loop[s].left :
         /\ Save(m, NoCwd, loop[s].reset)
         /\ Go(s, [loop[s] EXCEPT !.left = @ \ {m}])
    /\ UNCHANGED <<tasks, registered, awaited, created, spent>>

\* subagent_keys stands every granted agent's entry up, one by one.
EnsureCrew(s) ==
    /\ loop[s].at = "crew"
    /\ \E m \in loop[s].left :
         /\ Save(m, NoCwd, FALSE)
         /\ Go(s, [loop[s] EXCEPT !.left = @ \ {m}])
    /\ UNCHANGED <<tasks, registered, awaited, created, spent>>

\* prepare_provider_run up to get_by_key: the entry's session is a snapshot
\* from here on.  ValueError: codex with subagents or without its settings.
\* KeyError: the entry is gone.
Prepare(s) ==
    LET c == loop[s]
    IN  /\ c.at = "crew" /\ c.left = {}
        /\ \/ /\ c.provider = "codex" => Crew[c.key] = {}
              /\ agents[c.key] # NoEntry
              /\ Go(s, [c EXCEPT !.at = "begin", !.session = agents[c.key].session])
           \/ /\ c.provider = "codex" \/ agents[c.key] = NoEntry
              /\ Yield(s)
        /\ UNCHANGED <<tables, tasks, registered, awaited, created, spent>>

Begin(s) ==
    LET c == loop[s]
    IN  /\ c.at = "begin"
        /\ IF c.provider = "codex" THEN StartRun(c.key) ELSE BeginRun(c.key, c.session)
        /\ Go(s, [c EXCEPT !.at = "wire", !.run = lastRun',
                           !.options = runs'[lastRun'].options])
        /\ UNCHANGED <<tasks, registered, awaited, created, spent>>

\* The rest of prepare_run raises: a subagent entry is gone, or the settings
\* file cannot be written.  No one stamps the row.
WireFails(s) ==
    LET c == loop[s]
    IN  /\ c.at = "wire" /\ c.provider = "claude"
        /\ IF \E m \in Crew[c.key] : agents[m] = NoEntry THEN UNCHANGED spent
                                                       ELSE Spend("unwired")
        /\ Yield(s)
        /\ UNCHANGED <<tables, tasks, registered, awaited, created>>

NewTask(s) ==
    LET c == loop[s]
    IN  /\ c.at = "wire"
        /\ c.provider = "claude" => \A m \in Crew[c.key] : agents[m] # NoEntry
        /\ tasks' = [tasks EXCEPT ![c.run] =
               [server |-> s, key |-> c.key, provider |-> c.provider,
                options |-> c.options, expect |-> c.session, session |-> 0,
                state |-> "starting"]]
        /\ awaited' = IF c.wait THEN awaited \cup {c.run} ELSE awaited
        /\ Yield(s)
        /\ UNCHANGED <<tables, created, spent>>

\* Mutant: a waiting call awaits its coroutine directly, outside the registry.
Spawn_Unregistered(s) ==
    /\ NewTask(s)
    /\ registered' = IF loop[s].wait THEN registered
                     ELSE [registered EXCEPT ![s] = @ \cup {loop[s].run}]

\* TeammateRunner.spawn; with wait=True the call then awaits the task.
Spawn(s) ==
    /\ NewTask(s)
    /\ registered' = [registered EXCEPT ![s] = @ \cup {loop[s].run}]

-----------------------------------------------------------------------------
\* A task of a run steps when its server's loop is between two segments.
Turn(r) == Live(r) /\ loop[tasks[r].server].at = "idle"

Becomes(r, state) == tasks' = [tasks EXCEPT ![r].state = state]

\* The SDK puts the stream of r on a session: the one its options pin or
\* resume, or, for a resume, one of its own (the only outcome, short of an
\* error, when the session to resume was never created).
Attach(r) ==
    LET t == tasks[r]
    IN  /\ Live(r) /\ t.state = "starting" /\ t.provider = "claude"
        /\ \/ /\ t.options = "fresh" \/ t.expect \in created
              /\ tasks'   = [tasks EXCEPT ![r].state = "attached", ![r].session = t.expect]
              /\ created' = created \cup {t.expect}
              /\ UNCHANGED <<tables, spent>>
           \/ /\ t.options = "resume"
              /\ Spend("drift")
              /\ ObserveSession
              /\ tasks'   = [tasks EXCEPT ![r].state = "attached", ![r].session = lastSession']
              /\ created' = created \cup {lastSession'}
        /\ UNCHANGED <<loop, registered, awaited>>

\* run_codex_capture looks the entry up again, then waits for the CLI: its
\* one agent_runs row will carry the entry's session.
CodexStarts(r) ==
    /\ Turn(r) /\ tasks[r].state = "starting" /\ tasks[r].provider = "codex"
    /\ agents[tasks[r].key] # NoEntry
    /\ tasks' = [tasks EXCEPT ![r].state = "attached",
                              ![r].session = agents[tasks[r].key].session]
    /\ UNCHANGED <<tables, loop, registered, awaited, created, spent>>

\* The first main message of the stream (for codex, the parsed answer): one
\* agent_runs row, before the repin or the finish of the same segment.
FirstRow(r) ==
    LET t    == tasks[r]
        next == IF t.provider = "codex" THEN "settle"
                ELSE IF t.session # t.expect THEN "repin" ELSE "idle"
    IN  /\ Turn(r) /\ t.state = "attached"
        /\ RecordAgentRun(r, t.session)
        /\ Becomes(r, "streaming")
        /\ Go(t.server, IF next = "idle" THEN Idle ELSE [Idle EXCEPT !.at = next, !.run = r])
        /\ UNCHANGED <<registered, awaited, created, spent>>

\* Mutant: no record_failure around the capture coroutine.
Fail_Unrecorded(r) == Becomes(r, "raised") /\ UNCHANGED tables

\* record_failure: stamp the row, unless it was deleted, and re-raise.
Fail(r) ==
    /\ Becomes(r, "raised")
    /\ \/ FinishRun(r, "failed")
       \/ runs[r] = NoRun /\ UNCHANGED tables

\* run_with_capture moves the entry to the observed session; a dismissed
\* entry is a KeyError, raised in the stream's loop.
Repin(s) ==
    LET r == loop[s].run
    IN  /\ loop[s].at = "repin"
        /\ \/ Reconcile(tasks[r].key, tasks[r].session) /\ UNCHANGED tasks
           \/ agents[tasks[r].key] = NoEntry /\ Fail(r)
        /\ Yield(s)
        /\ UNCHANGED <<registered, awaited, created, spent>>

\* The findings tool writes under the session known when it was wired.
WriteFinding(r) ==
    /\ Turn(r) /\ tasks[r].state = "streaming" /\ tasks[r].provider = "claude"
    /\ RecordFinding(tasks[r].key, r, tasks[r].expect)
    /\ UNCHANGED serving

\* finish_run, and the KeyError it raises when the row was deleted.
Finish(r) ==
    \/ FinishRun(r, "finished") /\ Becomes(r, "returned")
    \/ runs[r] = NoRun /\ Becomes(r, "raised") /\ UNCHANGED tables

\* The stream of a Claude run ends, heard or not: run_with_capture finishes the
\* run even when no main message of it carried a session.
StreamEnds(r) ==
    /\ Turn(r) /\ tasks[r].provider = "claude"
    /\ Finish(r)
    /\ UNCHANGED <<loop, registered, awaited, created, spent>>

\* The last pool call of run_codex_capture.
Settle(s) ==
    /\ loop[s].at = "settle"
    /\ Finish(loop[s].run)
    /\ Yield(s)
    /\ UNCHANGED <<registered, awaited, created, spent>>

\* The stream, the CLI or codex's policy raises, at any point.
StreamRaises(r) ==
    /\ Turn(r)
    /\ Fail(r)
    /\ UNCHANGED <<loop, registered, awaited, created, spent>>

\* A cancelled wait cancels the task it awaits.  CancelledError is not an
\* Exception: record_failure stamps nothing.
Cancel(r) ==
    /\ Turn(r) /\ r \in awaited
    /\ Spend("cancel")
    /\ Becomes(r, "cancelled")
    /\ UNCHANGED <<tables, loop, registered, awaited, created>>

\* Mutant: the callback returns early when the task raised.
Deregister_NotAfterError(r) ==
    /\ Ended(r) /\ tasks[r].state # "raised" /\ r \in registered[tasks[r].server]
    /\ loop[tasks[r].server].at = "idle"
    /\ registered' = [registered EXCEPT ![tasks[r].server] = @ \ {r}]
    /\ awaited' = awaited \ {r}
    /\ UNCHANGED <<tables, loop, tasks, created, spent>>

\* The done callback, a loop turn of its own after the task ended.
Deregister(r) ==
    /\ Ended(r) /\ r \in registered[tasks[r].server]
    /\ loop[tasks[r].server].at = "idle"
    /\ registered' = [registered EXCEPT ![tasks[r].server] = @ \ {r}]
    /\ awaited' = awaited \ {r}
    /\ UNCHANGED <<tables, loop, tasks, created, spent>>

\* dismiss_teammate or delete_agent, on a worker thread of any process.
Dismiss(k) ==
    /\ agents[k] # NoEntry \/ HasRuns(k)
    /\ Spend("dismiss")
    /\ Delete(k)
    /\ UNCHANGED <<loop, tasks, registered, awaited, created>>

\* The process dies with work under way: its segment, tasks and registry go,
\* the tables stay.  (The restart of an idle server changes nothing here.)
Crash(s) ==
    /\ loop[s].at # "idle" \/ registered[s] # {}
    /\ Spend("crash")
    /\ Yield(s)
    /\ tasks' = [r \in Run |-> IF Live(r) /\ tasks[r].server = s
                               THEN [tasks[r] EXCEPT !.state = "lost"] ELSE tasks[r]]
    /\ registered' = [registered EXCEPT ![s] = {}]
    /\ awaited' = awaited \ registered[s]
    /\ UNCHANGED <<tables, created>>

-----------------------------------------------------------------------------
SegmentStep(s) == \/ Ensure(s) \/ EnsureCrew(s) \/ Prepare(s) \/ Begin(s)
                  \/ Spawn(s) \/ WireFails(s) \/ Repin(s) \/ Settle(s)

StreamStep(r) == \/ Attach(r) \/ CodexStarts(r) \/ FirstRow(r)
                 \/ StreamEnds(r) \/ StreamRaises(r)

TeammateNext ==
    \/ \E s \in Server :
         \/ \E k \in Key : \/ \E p \in Provider, reset, wait \in BOOLEAN : Call(s, k, p, reset, wait)
                           \/ Join(s, k)
         \/ SegmentStep(s)
         \/ Crash(s)
    \/ \E r \in Run : StreamStep(r) \/ WriteFinding(r) \/ Cancel(r) \/ Deregister(r)
    \/ \E k \in Key : Dismiss(k)

(***************************************************************************)
(* asyncio's ready queue is FIFO, so a segment under way, and a done       *)
(* callback, eventually run; a stream eventually yields, ends or raises    *)
(* (the CLI exits; codex has a timeout).  No call, dismissal, finding or   *)
(* crash has to happen.                                                    *)
(***************************************************************************)
Fairness == /\ \A s \in Server : WF_vars(SegmentStep(s))
            /\ \A r \in Run : WF_vars(StreamStep(r)) /\ WF_vars(Deregister(r))

TeammateSpec     == TeammateInit /\ [][TeammateNext]_vars
FairTeammateSpec == TeammateSpec /\ Fairness

-----------------------------------------------------------------------------
Stored(r) == runs[r] # NoRun

\* The session a live run is on, or is about to attach to.
SessionOf(r) == IF tasks[r].session # 0 THEN tasks[r].session ELSE tasks[r].expect

(***************************************************************************)
(* run_teammate never opens "a second one against the same session"        *)
(* (teammate_server.py:89-91): no two live Claude runs are on one session. *)
(***************************************************************************)
NoSharedSession ==
    \A r, q \in Run :
        (/\ Live(r) /\ tasks[r].provider = "claude"
         /\ Live(q) /\ tasks[q].provider = "claude"
         /\ SessionOf(r) = SessionOf(q)) => r = q

(***************************************************************************)
(* While a run that was not dismissed is live, check_teammate on its       *)
(* server says `running`, of that very run: never `stale`, never the       *)
(* outcome of an older one (spawn's docstring, runner.py:24-29).           *)
(***************************************************************************)
LiveRunReadsRunning ==
    \A r \in Run : Live(r) /\ Stored(r) /\ agents[tasks[r].key] # NoEntry =>
        /\ Status(tasks[r].server, tasks[r].key) = "running"
        /\ LatestRun(tasks[r].key) = r

(***************************************************************************)
(* The row says how the task ended: a run that returned is `finished`, one *)
(* that raised is `failed` (record_failure, context.py:161-170), a live or *)
(* cancelled or lost one is open; or the row was deleted meanwhile.        *)
(***************************************************************************)
RowTellsTheEnding ==
    \A r \in Run : tasks[r] # NoTask /\ Stored(r) =>
        CASE tasks[r].state = "returned" -> runs[r].state = "finished"
          [] tasks[r].state = "raised"   -> runs[r].state = "failed"
          [] OTHER                       -> runs[r].state = "open"

(***************************************************************************)
(* A dismissed run's conversation never becomes the standing one again:    *)
(* "the next `run_teammate` rebuilds the teammate from its template with a *)
(* clean session" (dismiss_teammate, teammate_server.py:167-168).          *)
(***************************************************************************)
DismissedStaysForgotten ==
    \A r \in Run :
        (/\ tasks[r] # NoTask /\ tasks[r].provider = "claude" /\ ~Stored(r)
         /\ agents[tasks[r].key] # NoEntry)
            => agents[tasks[r].key].session \notin {tasks[r].session, tasks[r].expect}

(***************************************************************************)
(* "A live run's session can't be silently reset out from under it"        *)
(* (live_run, context.py:201-203): while a Claude run of k is live and     *)
(* stored, the entry moves only to the session that run itself is on.      *)
(***************************************************************************)
NoResetUnderALiveRun ==
    [][\A r \in Run :
          LET k == tasks[r].key
          IN  (/\ tasks[r] # NoTask /\ Live(r) /\ Stored(r)
               /\ tasks[r].provider = "claude"
               /\ agents[k] # NoEntry /\ agents'[k] # NoEntry
               /\ agents'[k].session # agents[k].session)
                 => agents'[k].session = tasks[r].session]_vars

(***************************************************************************)
(* Every spawned run ends, leaves the registry, and its row, if it is      *)
(* still there, carries an outcome: no teammate stays busy for ever, and   *)
(* none is left `stale` by a run that merely raised.                       *)
(***************************************************************************)
RunsSettle ==
    \A r \in Run : Live(r) ~>
        /\ Ended(r)
        /\ r \notin registered[tasks[r].server]
        /\ Stored(r) => runs[r].state \in Outcome

(***************************************************************************)
(* One life per run (TeammateRunStatus, models/agent/teammate.py:28-40,    *)
(* "derived, never stored, so it cannot lie after a crash"): the rows, the *)
(* tasks and the segments together make the life of RunLifecycle.          *)
(***************************************************************************)
Opening(r) == \E s \in Server : loop[s].at = "wire" /\ loop[s].run = r

PhaseOf(r) ==
    IF runs[r] = NoRun THEN IF r <= lastRun THEN "forgotten" ELSE "unopened"
    ELSE IF runs[r].state # "open" THEN runs[r].state
    ELSE IF Live(r) THEN "live"
    ELSE IF Opening(r) THEN "opening" ELSE "abandoned"

StoredUnder(r) == IF runs[r] = NoRun THEN NoEntry ELSE runs[r].key

Life == INSTANCE RunLifecycle WITH
            phase <- [r \in Run |-> PhaseOf(r)],
            of    <- [r \in Run |-> StoredUnder(r)],
            NoKey <- NoEntry

(***************************************************************************)
(* Every run has one life, and its ending is final: none is opened on a    *)
(* busy teammate, none ends before it was started, no row that carries an  *)
(* outcome or that a crash left behind is ever running again, and only a   *)
(* dismissal takes a run's row, then all of the teammate's at once.        *)
(***************************************************************************)
ImplementsLifecycle == Life!Lifecycle

(***************************************************************************)
(* And none stays under way for ever, be it one whose wiring raised.       *)
(***************************************************************************)
ImplementsFairLifecycle == Life!FairLifecycle

(***************************************************************************)
(* Resume options "RESUME an entry's session, loading its conversation     *)
(* history" (to_resume_options, pool.py:662): at the least when every      *)
(* earlier run of the key was a Claude run that was heard and returned.    *)
(***************************************************************************)
CleanRunsCanBeResumed ==
    \A r \in Run :
        (/\ Live(r) /\ tasks[r].options = "resume"
         /\ \A q \in RunsOf(tasks[r].key) \ {r} :
              /\ tasks[q] # NoTask /\ tasks[q].provider = "claude" /\ tasks[q].state = "returned"
              /\ \E a \in agentRuns : a.run = q)
            => tasks[r].expect \in created

(***************************************************************************)
(* "`stale` means an unfinished run this server process doesn't own: this  *)
(* process died mid-run, or another process is running it"                 *)
(* (check_teammate, teammate_server.py:55-56).                             *)
(***************************************************************************)
StaleMeansLostOrElsewhere ==
    \A s \in Server, k \in Key :
        Status(s, k) = "stale" /\ loop[s].at = "idle" =>
            LET t == tasks[LatestRun(k)]
            IN  t # NoTask /\ (t.state = "lost" \/ t.server # s)
=============================================================================
