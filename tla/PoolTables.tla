----------------------------- MODULE PoolTables -----------------------------
(***************************************************************************)
(* The four tables of pool.db and the effect every AgentPool method has on *)
(* them when the method is taken as ONE step: the contract the callers of  *)
(* the pool rely on.  AgentPool.tla models the same methods as the code    *)
(* runs them (a read, then a write, under a per-process lock) and is shown *)
(* to implement this module; TeammateServer.tla is built on these actions. *)
(*                                                                         *)
(* Ids are numbers in the order they are minted: a run id therefore also   *)
(* carries its started_at order, and session 0 is "no session".            *)
(***************************************************************************)
EXTENDS Naturals, FiniteSets

CONSTANTS Key,         \* agent keys
          Cwd,         \* working directories an entry can be pinned to
          Home,        \* Path.cwd() of the process that first saves an entry
          NoCwd,       \* the cwd argument left out
          NoEntry,     \* "no row" in agents
          NoRun,       \* "no row" in runs
          MaxRun,      \* bound: run ids minted
          MaxSession,  \* bound: session ids minted
          MaxRows      \* bound: rows in agent_runs and findings together

Run      == 1 .. MaxRun
Session  == 1 .. MaxSession
Entry    == [session : Session, cwd : Cwd]
Outcome  == {"finished", "failed"}
RunRow   == [key     : Key,
             state   : {"open"} \cup Outcome,
             options : {"fresh", "resume", "plain"},
             session : 0 .. MaxSession]
AgentRun == [run : Run, session : Session]
Finding  == [key : Key, run : Run, session : Session]

ASSUME BoundsAssumption == MaxRun \in Nat /\ MaxSession \in Nat /\ MaxRows \in Nat
ASSUME CwdAssumption    == Home \in Cwd /\ NoCwd \notin Cwd
ASSUME RowAssumption    == NoEntry \notin Entry /\ NoRun \notin RunRow
ASSUME KeyAssumption    == Key # {}

VARIABLES agents,       \* table agents: the entry stored under each key
          runs,         \* table runs, with the options its opener was given
          agentRuns,    \* table agent_runs
          findings,     \* table findings
          lastRun,      \* run ids 1..lastRun have been minted
          lastSession   \* session ids 1..lastSession have been minted

tables == <<agents, runs, agentRuns, findings, lastRun, lastSession>>

TypeOK ==
    /\ agents      \in [Key -> Entry \cup {NoEntry}]
    /\ runs        \in [Run -> RunRow \cup {NoRun}]
    /\ agentRuns   \in SUBSET AgentRun
    /\ findings    \in SUBSET Finding
    /\ lastRun     \in 0 .. MaxRun
    /\ lastSession \in 0 .. MaxSession

-----------------------------------------------------------------------------
Init ==
    /\ agents      = [k \in Key |-> NoEntry]
    /\ runs        = [r \in Run |-> NoRun]
    /\ agentRuns   = {}
    /\ findings    = {}
    /\ lastRun     = 0
    /\ lastSession = 0

RunsOf(k)  == {r \in Run : runs[r] # NoRun /\ runs[r].key = k}
HasRuns(k) == RunsOf(k) # {}

\* latest_run: the most recently started row of k (k has one).
LatestRun(k) == CHOOSE r \in RunsOf(k) : \A q \in RunsOf(k) : q <= r

\* A session id the SDK mints for itself, outside the pool.
ObserveSession ==
    /\ lastSession < MaxSession
    /\ lastSession' = lastSession + 1
    /\ UNCHANGED <<agents, runs, agentRuns, findings, lastRun>>

\* Mutant: the working directory is stored as given, with no default.
SaveOver_NoHome(k, existing, cwd, reset) ==
    /\ existing = NoEntry /\ lastSession < MaxSession
    /\ agents' = [agents EXCEPT ![k] = [session |-> lastSession + 1, cwd |-> cwd]]
    /\ lastSession' = lastSession + 1
    /\ UNCHANGED <<runs, agentRuns, findings, lastRun>>

\* The INSERT OR REPLACE of save, computed from the row `existing` it read.
SaveOver(k, existing, cwd, reset) ==
    LET kept == existing # NoEntry /\ ~reset
        sid  == IF kept THEN existing.session ELSE lastSession + 1
        dir  == IF cwd # NoCwd THEN cwd
                ELSE IF existing # NoEntry THEN existing.cwd ELSE Home
    IN  /\ sid <= MaxSession
        /\ agents' = [agents EXCEPT ![k] = [session |-> sid, cwd |-> dir]]
        /\ lastSession' = IF kept THEN lastSession ELSE sid
        /\ UNCHANGED <<runs, agentRuns, findings, lastRun>>

Save(k, cwd, reset) == SaveOver(k, agents[k], cwd, reset)

\* reconcile_session: only the session moves; an absent entry is a KeyError.
Reconcile(k, s) ==
    /\ agents[k] # NoEntry
    /\ agents' = [agents EXCEPT ![k] = [session |-> s, cwd |-> agents[k].cwd]]
    /\ UNCHANGED <<runs, agentRuns, findings, lastRun, lastSession>>

\* _start_run_locked: no check that k still has an entry.
OpenRun(k, options, s) ==
    /\ lastRun < MaxRun
    /\ runs' = [runs EXCEPT ![lastRun + 1] =
                   [key |-> k, state |-> "open", options |-> options, session |-> s]]
    /\ lastRun' = lastRun + 1
    /\ UNCHANGED <<agents, agentRuns, findings, lastSession>>

StartRun(k) == OpenRun(k, "plain", 0)

\* Mutant: only the latest run is looked at, and only while it is open.
BeginRun_OpenOnly(k, s) ==
    OpenRun(k, IF \E r \in RunsOf(k) : runs[r].state = "open" THEN "resume" ELSE "fresh", s)

\* begin_run on the caller's snapshot of the entry, whose session is s.
BeginRun(k, s) == OpenRun(k, IF HasRuns(k) THEN "resume" ELSE "fresh", s)

\* finish_run: one UPDATE of the whole outcome; an unknown id is a KeyError.
FinishRun(r, outcome) ==
    /\ runs[r] # NoRun
    /\ runs' = [runs EXCEPT ![r].state = outcome]
    /\ UNCHANGED <<agents, agentRuns, findings, lastRun, lastSession>>

Rows == Cardinality(agentRuns) + Cardinality(findings)

RecordAgentRun(r, s) ==
    /\ Rows < MaxRows
    /\ agentRuns' = agentRuns \cup {[run |-> r, session |-> s]}
    /\ UNCHANGED <<agents, runs, findings, lastRun, lastSession>>

RecordFinding(k, r, s) ==
    /\ Rows < MaxRows
    /\ findings' = findings \cup {[key |-> k, run |-> r, session |-> s]}
    /\ UNCHANGED <<agents, runs, agentRuns, lastRun, lastSession>>

\* Mutant: the runs go first, so the agent_runs subselect finds none.
Delete_RunsFirst(k) ==
    /\ findings'  = {f \in findings : f.key # k}
    /\ runs'      = [r \in Run |-> IF r \in RunsOf(k) THEN NoRun ELSE runs[r]]
    /\ agents'    = [agents EXCEPT ![k] = NoEntry]
    /\ UNCHANGED <<agentRuns, lastRun, lastSession>>

\* Mutant: the history goes, the entry and its session stay.
Delete_KeepsEntry(k) ==
    /\ agentRuns' = {a \in agentRuns : a.run \notin RunsOf(k)}
    /\ findings'  = {f \in findings : f.key # k}
    /\ runs'      = [r \in Run |-> IF r \in RunsOf(k) THEN NoRun ELSE runs[r]]
    /\ UNCHANGED <<agents, lastRun, lastSession>>

\* delete: agent_runs through the key's runs, then findings, runs, agents,
\* in one transaction.
Delete(k) ==
    /\ agentRuns' = {a \in agentRuns : a.run \notin RunsOf(k)}
    /\ findings'  = {f \in findings : f.key # k}
    /\ runs'      = [r \in Run |-> IF r \in RunsOf(k) THEN NoRun ELSE runs[r]]
    /\ agents'    = [agents EXCEPT ![k] = NoEntry]
    /\ UNCHANGED <<lastRun, lastSession>>

Next ==
    \/ ObserveSession
    \/ \E k \in Key : \/ \E cwd \in Cwd \cup {NoCwd}, reset \in BOOLEAN : Save(k, cwd, reset)
                      \/ \E s \in 1 .. lastSession : Reconcile(k, s) \/ BeginRun(k, s)
                      \/ StartRun(k)
                      \/ Delete(k)
    \/ \E r \in 1 .. lastRun :
         \/ \E outcome \in Outcome : FinishRun(r, outcome)
         \/ \E s \in 1 .. lastSession :
              RecordAgentRun(r, s) \/ \E k \in Key : RecordFinding(k, r, s)

Spec == Init /\ [][Next]_tables

-----------------------------------------------------------------------------
(***************************************************************************)
(* What begin_run promises (its docstring, pool.py:359-368): a run gets    *)
(* options pinning a NEW session only when it is the first stored run of   *)
(* its key; everyone after it resumes.  Two fresh runs of one key would be *)
(* two live SDK sessions racing for one id.                                *)
(***************************************************************************)
FreshRunIsFirst ==
    \A k \in Key : \A r, q \in RunsOf(k) : runs[r].options = "fresh" => r <= q

(***************************************************************************)
(* The race begin_run's docstring describes and says is closed: no two     *)
(* stored runs of a key were both given options that CREATE the same       *)
(* session.                                                                *)
(***************************************************************************)
OneRunCreatesASession ==
    \A k \in Key : \A r, q \in RunsOf(k) :
        (/\ runs[r].options = "fresh"
         /\ runs[q].options = "fresh"
         /\ runs[r].session = runs[q].session) => r = q

(***************************************************************************)
(* Deleting a key (AgentPool.delete, pool.py:597-619) leaves nothing of    *)
(* the runs it had: no agent_runs row that could never be reached again,   *)
(* no finding for a later entry of the same key to inherit.  The other     *)
(* keys lose nothing.                                                      *)
(***************************************************************************)
DeleteIsComplete ==
    [][\A k \in Key : agents[k] # NoEntry /\ agents'[k] = NoEntry =>
          /\ \A r \in RunsOf(k) : runs'[r] = NoRun /\ \A a \in agentRuns' : a.run # r
          /\ \A f \in findings' : f.key # k
          /\ \A r \in Run \ RunsOf(k) : runs'[r] = runs[r]
          /\ {a \in agentRuns : a.run \notin RunsOf(k)} \subseteq agentRuns']_tables
=============================================================================
