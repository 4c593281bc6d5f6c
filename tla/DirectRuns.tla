----------------------------- MODULE DirectRuns -----------------------------
(***************************************************************************)
(* The runs nobody supervises: run_agent of the pool MCP server and the    *)
(* run route of the HTTP API, the acquire tool, and the orchestrator's     *)
(* spawn, with the entry points that store and delete what they run.       *)
(* None of them looks for a live run, and none stamps a run that failed.   *)
(*                                                                         *)
(* A caller is one call under way.  Callers interleave at every pool call, *)
(* as those of different servers and of worker threads do; two calls on    *)
(* one event loop interleave less.  A pool method is one step: AgentPool   *)
(* shows it of one process, and what is lost between two processes is      *)
(* said there.  The SDK stream is external, as in TeammateServer.          *)
(***************************************************************************)
EXTENDS PoolTables

CONSTANTS Caller,
          Reserved,      \* keys under TEAMMATE_KEY_PREFIX
          Orchestrated,  \* keys spawn stores proposed specs under
          Derived,       \* Derived[k]: what acquire_capability makes of key k
          MaxDisturbing  \* bound: resets and deletions

ASSUME SurfaceAssumption == /\ Reserved \subseteq Key /\ Orchestrated \subseteq Key \ Reserved
                            /\ \A k \in DOMAIN Derived : k \in Key /\ Derived[k] \in Key \ {k}
ASSUME DisturbingAssumption == MaxDisturbing \in Nat

VARIABLES calls,      \* what each caller is doing
          opened,     \* for each run, the options its stream was started with
          created,    \* sessions the SDK has created
          disturbed   \* keys reset or deleted, in order (history)

direct == <<calls, opened, created, disturbed>>
vars   == <<tables, direct>>

Idle == [at |-> "idle", key |-> CHOOSE k \in Key : TRUE, expect |-> 0,
         options |-> "plain", run |-> 0, session |-> 0]

Call == [at : {"idle", "begin", "wire", "list", "start", "query", "first", "repin", "stream"},
         key     : Key,
         expect  : 0 .. MaxSession,   \* session_id of the entry the call holds
         options : {"fresh", "resume", "plain"},
         run     : 0 .. MaxRun,
         session : 0 .. MaxSession]   \* what its stream is on; 0: not yet

DirectTypeOK ==
    /\ TypeOK
    /\ calls \in [Caller -> Call]
    /\ opened \in [Run -> {"fresh", "resume", "plain"}]
    /\ created \subseteq Session
    /\ disturbed \in SUBSET (Key \X (1 .. MaxDisturbing))

DirectInit ==
    /\ Init
    /\ calls = [c \in Caller |-> Idle]
    /\ opened = [r \in Run |-> "plain"]
    /\ created = {} /\ disturbed = {}

Goes(c, call)   == calls' = [calls EXCEPT ![c] = call]
Disturbed(k)    == \E n \in 1 .. MaxDisturbing : <<k, n>> \in disturbed
Disturb(k)      == /\ Cardinality(disturbed) < MaxDisturbing
                   /\ disturbed' = disturbed \cup {<<k, Cardinality(disturbed) + 1>>}

-----------------------------------------------------------------------------
\* create_agent and POST /pool/{key}: never a teammate's key.
CreateAgent(k, reset) ==
    /\ k \notin Reserved
    /\ Save(k, NoCwd, reset)
    /\ IF reset /\ agents[k] # NoEntry THEN Disturb(k) ELSE UNCHANGED disturbed
    /\ UNCHANGED <<calls, opened, created>>

\* delete_agent and DELETE /pool/{key}: a teammate's key too.
DeleteAgent(k) ==
    /\ agents[k] # NoEntry \/ HasRuns(k)
    /\ Disturb(k)
    /\ Delete(k)
    /\ UNCHANGED <<calls, opened, created>>

\* run_agent and run_pool_entry up to prepare_run's get_by_key; an absent entry
\* (ValueError, 404) leaves no trace.
RunAgent(c, k) ==
    /\ calls[c].at = "idle" /\ k \notin Reserved
    /\ agents[k] # NoEntry
    /\ Goes(c, [Idle EXCEPT !.at = "begin", !.key = k, !.expect = agents[k].session])
    /\ UNCHANGED <<tables, opened, created, disturbed>>

\* Orchestrator.spawn: the proposed spec is saved over what is there.
Spawn(c, k) ==
    /\ calls[c].at = "idle" /\ k \in Orchestrated
    /\ Save(k, NoCwd, FALSE)
    /\ Goes(c, [Idle EXCEPT !.at = "begin", !.key = k,
                            !.expect = agents'[k].session])
    /\ UNCHANGED <<opened, created, disturbed>>

\* Mutant: the acquired agent is stored under its caller's session.
Acquire_SharedSession(c, k) ==
    /\ calls[c].at = "idle" /\ k \in DOMAIN Derived /\ agents[k] # NoEntry
    /\ agents' = [agents EXCEPT ![Derived[k]] = agents[k]]
    /\ Goes(c, [Idle EXCEPT !.at = "list", !.key = Derived[k],
                            !.expect = agents[k].session])
    /\ UNCHANGED <<runs, agentRuns, findings, lastRun, lastSession, opened, created, disturbed>>

\* acquire_capability inside a run of k (a run some other process serves): the
\* equipped spec is saved under the derived key.
Acquire(c, k) ==
    /\ calls[c].at = "idle" /\ k \in DOMAIN Derived
    /\ agents[k] # NoEntry
    /\ Save(Derived[k], NoCwd, FALSE)
    /\ Goes(c, [Idle EXCEPT !.at = "list", !.key = Derived[k],
                            !.expect = agents'[Derived[k]].session])
    /\ UNCHANGED <<opened, created, disturbed>>

\* list_runs, and the choice between to_resume_options and to_new_run_options.
ListRuns(c) ==
    LET call == calls[c]
    IN  /\ call.at = "list"
        /\ Goes(c, [call EXCEPT !.at = "start",
                                !.options = IF HasRuns(call.key) THEN "resume" ELSE "fresh"])
        /\ UNCHANGED <<tables, opened, created, disturbed>>

\* run_with_capture without a run record: start_run.
StartAcquired(c) ==
    LET call == calls[c]
    IN  /\ call.at = "start"
        /\ StartRun(call.key)
        /\ opened' = [opened EXCEPT ![lastRun'] = call.options]
        /\ Goes(c, [call EXCEPT !.at = "query", !.run = lastRun'])
        /\ UNCHANGED <<created, disturbed>>

\* Mutant: the surfaces decide for themselves, from the latest run alone.
Begin_OpenOnly(c) ==
    LET call == calls[c]
    IN  /\ call.at = "begin"
        /\ BeginRun_OpenOnly(call.key, call.expect)
        /\ opened' = [opened EXCEPT ![lastRun'] = runs'[lastRun'].options]
        /\ Goes(c, [call EXCEPT !.at = "wire", !.run = lastRun', !.options = runs'[lastRun'].options])
        /\ UNCHANGED <<created, disturbed>>

\* begin_run on the entry the call holds.
Begin(c) ==
    LET call == calls[c]
    IN  /\ call.at = "begin"
        /\ BeginRun(call.key, call.expect)
        /\ opened' = [opened EXCEPT ![lastRun'] = runs'[lastRun'].options]
        /\ Goes(c, [call EXCEPT !.at = "wire", !.run = lastRun', !.options = runs'[lastRun'].options])
        /\ UNCHANGED <<created, disturbed>>

\* The rest of prepare_run: one get_by_key per subagent to wire.  A key that is
\* found leaves no trace; one that is not ends the call.
Wire(c) ==
    LET call == calls[c]
    IN  /\ call.at = "wire"
        /\ \/ Goes(c, [call EXCEPT !.at = "query"])
           \/ \E m \in Key : agents[m] = NoEntry /\ Goes(c, Idle)
        /\ UNCHANGED <<tables, opened, created, disturbed>>

-----------------------------------------------------------------------------
\* The stream: the session it was pinned to or resumes, or, for a resume, one
\* of the SDK's own.
Attach(c) ==
    LET call == calls[c]
    IN  /\ call.at = "query"
        /\ \/ /\ call.options = "fresh" \/ call.expect \in created
              /\ Goes(c, [call EXCEPT !.at = "first", !.session = call.expect])
              /\ created' = created \cup {call.expect}
              /\ UNCHANGED tables
           \/ /\ call.options = "resume"
              /\ ObserveSession
              /\ Goes(c, [call EXCEPT !.at = "first", !.session = lastSession'])
              /\ created' = created \cup {lastSession'}
        /\ UNCHANGED <<opened, disturbed>>

\* Mutant: a session that is not the expected one is recorded, nothing more.
FirstRow_NoRepin(c) ==
    LET call == calls[c]
    IN  /\ call.at = "first"
        /\ RecordAgentRun(call.run, call.session)
        /\ Goes(c, [call EXCEPT !.at = "stream"])
        /\ UNCHANGED <<opened, created, disturbed>>

\* The first main message.
FirstRow(c) ==
    LET call == calls[c]
    IN  /\ call.at = "first"
        /\ RecordAgentRun(call.run, call.session)
        /\ Goes(c, [call EXCEPT !.at = IF call.session = call.expect THEN "stream" ELSE "repin"])
        /\ UNCHANGED <<opened, created, disturbed>>

\* reconcile_session; a KeyError ("vanished during run") when the entry is gone.
Repin(c) ==
    LET call == calls[c]
    IN  /\ call.at = "repin"
        /\ \/ Reconcile(call.key, call.session) /\ Goes(c, [call EXCEPT !.at = "stream"])
           \/ agents[call.key] = NoEntry /\ Goes(c, Idle) /\ UNCHANGED tables
        /\ UNCHANGED <<opened, created, disturbed>>

\* The end of the stream: finish_run, whatever the stream held.  One whose main
\* messages carried no session ends with no row and no repin.  A KeyError when
\* the run's record is gone.
Finish(c) ==
    LET call == calls[c]
    IN  /\ call.at \in {"query", "first", "stream"}
        /\ \/ FinishRun(call.run, "finished")
           \/ runs[call.run] = NoRun /\ UNCHANGED tables
        /\ Goes(c, Idle)
        /\ UNCHANGED <<opened, created, disturbed>>

\* Anything raises, the call is cancelled, or its process dies: the row of its
\* run, if it opened one, stays as it is.
Ends(c) ==
    /\ calls[c].at # "idle"
    /\ Goes(c, Idle)
    /\ UNCHANGED <<tables, opened, created, disturbed>>

DirectNext ==
    \/ \E k \in Key : DeleteAgent(k) \/ \E reset \in BOOLEAN : CreateAgent(k, reset)
    \/ \E c \in Caller :
         \/ \E k \in Key : RunAgent(c, k) \/ Spawn(c, k) \/ Acquire(c, k)
         \/ ListRuns(c) \/ StartAcquired(c) \/ Begin(c) \/ Wire(c)
         \/ Attach(c) \/ FirstRow(c) \/ Repin(c) \/ Finish(c) \/ Ends(c)

DirectSpec == DirectInit /\ [][DirectNext]_vars

-----------------------------------------------------------------------------
(***************************************************************************)
(* A conversation belongs to one key: whatever runs concurrently, drifts,  *)
(* is acquired or is rebuilt, no two entries are on one session, and no    *)
(* session recorded for a run of one key is the standing session of        *)
(* another (the acquired agent gets its OWN resumable pool entry,          *)
(* acquire_tool.py:108-111).                                               *)
(***************************************************************************)
OneKeyPerSession ==
    \A k \in Key : agents[k] # NoEntry =>
        /\ \A j \in Key \ {k} : agents[j] # NoEntry => agents[j].session # agents[k].session
        /\ \A a \in agentRuns : a.session = agents[k].session /\ runs[a.run] # NoRun
                                   => runs[a.run].key = k

(***************************************************************************)
(* run_agent's promise "the entry's first-ever run starts a fresh session; *)
(* later runs resume it" (pool_server.py:227-228), for concurrent callers: *)
(* of the stored runs that begin_run opened, only the first stored run of  *)
(* its key was started fresh.  (Runs the acquire tool opened are not       *)
(* covered: it lists and starts in two calls.  Nor is a begin_run between  *)
(* whose two statements another process begins a run.)                     *)
(***************************************************************************)
LaterRunsResume ==
    \A r \in Run : runs[r] # NoRun /\ runs[r].options # "plain" /\ opened[r] = "fresh" =>
        \A q \in RunsOf(runs[r].key) : r <= q

(***************************************************************************)
(* After a run of a key was heard (it has an agent_runs row) and finished, *)
(* the key can be resumed where it stands: unless it was reset or deleted  *)
(* meanwhile, the entry is on a session the SDK has created, the recorded  *)
(* session of one of its stored runs, whichever of several concurrent runs *)
(* pinned it there.  This is what the repin to the observed session is for *)
(* (dispatch.py:141-143).  A run whose stream carried no session finishes  *)
(* too, and leaves its key on a session nobody has heard of.               *)
(***************************************************************************)
HeardKeysCanResume ==
    \A k \in Key :
        (/\ agents[k] # NoEntry /\ ~Disturbed(k)
         /\ \E r \in RunsOf(k) : runs[r].state = "finished" /\ \E a \in agentRuns : a.run = r)
            => /\ agents[k].session \in created
               /\ \E a \in agentRuns : a.session = agents[k].session /\ a.run \in RunsOf(k)
=============================================================================
