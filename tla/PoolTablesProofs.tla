-------------------------- MODULE PoolTablesProofs --------------------------
(***************************************************************************)
(* Theorems about the contract of the pool, for any number of keys, ids    *)
(* and rows, and the lemmas, one per pool method, that the proofs of the   *)
(* modules built on the contract cite.                                     *)
(***************************************************************************)
EXTENDS PoolTables, TLAPS

USE BoundsAssumption DEF Run, Session, AgentRun, Finding, Outcome

(***************************************************************************)
(* RowsAreMinted: a stored run was minted, and so was the session of every *)
(* stored entry.  It is what makes the type invariant and FreshRunIsFirst  *)
(* inductive: a run opened now is numbered above every stored one.         *)
(***************************************************************************)
RowsAreMinted ==
    /\ \A r \in Run : runs[r] # NoRun => r <= lastRun
    /\ \A k \in Key : agents[k] # NoEntry => agents[k].session <= lastSession

TablesInv == TypeOK /\ RowsAreMinted /\ FreshRunIsFirst

-----------------------------------------------------------------------------
(* One lemma per operation: what it does to TypeOK and RowsAreMinted.      *)

\* save's INSERT OR REPLACE writes a well-typed entry on a minted session,
\* whatever row of the key, or none, it was computed from.
LEMMA SaveOverPreserves ==
  ASSUME TypeOK, RowsAreMinted,
         NEW k \in Key, NEW e \in Entry \cup {NoEntry},
         e # NoEntry => e.session <= lastSession,
         NEW cwd \in Cwd \cup {NoCwd}, NEW reset \in BOOLEAN,
         SaveOver(k, e, cwd, reset)
  PROVE  TypeOK' /\ RowsAreMinted'
<1> DEFINE kept == e # NoEntry /\ ~reset
           sid  == IF kept THEN e.session ELSE lastSession + 1
           dir  == IF cwd # NoCwd THEN cwd ELSE IF e # NoEntry THEN e.cwd ELSE Home
<1>1. /\ sid <= MaxSession
      /\ agents' = [agents EXCEPT ![k] = [session |-> sid, cwd |-> dir]]
      /\ lastSession' = IF kept THEN lastSession ELSE sid
      /\ UNCHANGED <<runs, agentRuns, findings, lastRun>>
  BY DEF SaveOver
<1>2. sid \in Session /\ sid <= lastSession' /\ lastSession' \in 0 .. MaxSession
      /\ lastSession <= lastSession'
  BY <1>1 DEF TypeOK, Entry
<1>3. dir \in Cwd
  BY CwdAssumption DEF Entry
<1> HIDE DEF kept, sid, dir
<1>4. TypeOK'
  BY <1>1, <1>2, <1>3 DEF TypeOK, Entry
<1>5. RowsAreMinted'
  <2>1. ASSUME NEW j \in Key, agents'[j] # NoEntry
        PROVE  agents'[j].session <= lastSession'
    <3>1. CASE j = k
      BY <3>1, <1>1, <1>2 DEF TypeOK
    <3>2. CASE j # k
      <4>1. agents'[j] = agents[j]
        BY <3>2, <1>1 DEF TypeOK
      <4>2. agents[j] \in Entry /\ agents[j].session <= lastSession
        BY <4>1, <2>1 DEF TypeOK, RowsAreMinted
      <4>3. agents[j].session \in Nat /\ lastSession \in Nat /\ lastSession' \in Nat
        BY <4>2, <1>2 DEF TypeOK, Entry
      <4> QED BY <4>1, <4>2, <4>3, <1>2
    <3> QED BY <3>1, <3>2
  <2> QED BY <2>1, <1>1 DEF RowsAreMinted
<1> QED BY <1>4, <1>5

\* reconcile_session moves the entry to a session that was minted.
LEMMA ReconcilePreserves ==
  ASSUME TypeOK, RowsAreMinted, NEW k \in Key, NEW s \in 1 .. lastSession, Reconcile(k, s)
  PROVE  TypeOK' /\ RowsAreMinted'
<1>1. agents[k] \in Entry
  BY DEF Reconcile, TypeOK
<1>2. [session |-> s, cwd |-> agents[k].cwd] \in Entry
  BY <1>1 DEF Entry, TypeOK
<1>3. TypeOK'
  BY <1>2 DEF Reconcile, TypeOK
<1>4. RowsAreMinted'
  BY DEF Reconcile, TypeOK, RowsAreMinted
<1> QED BY <1>3, <1>4

\* _start_run_locked stores its row under the next run id.
LEMMA OpenRunPreserves ==
  ASSUME TypeOK, RowsAreMinted, NEW k \in Key,
         NEW options \in {"fresh", "resume", "plain"}, NEW s \in 0 .. MaxSession,
         OpenRun(k, options, s)
  PROVE  TypeOK' /\ RowsAreMinted'
<1>1. [key |-> k, state |-> "open", options |-> options, session |-> s] \in RunRow
  BY DEF RunRow
<1>2. TypeOK'
  BY <1>1 DEF OpenRun, TypeOK
<1>3. RowsAreMinted'
  BY DEF OpenRun, TypeOK, RowsAreMinted
<1> QED BY <1>2, <1>3

\* finish_run changes the outcome of a stored row and nothing else of it.
LEMMA FinishRunPreserves ==
  ASSUME TypeOK, RowsAreMinted, NEW r \in Run, NEW outcome \in Outcome, FinishRun(r, outcome)
  PROVE  TypeOK' /\ RowsAreMinted'
<1>1. runs[r] \in RunRow
  BY DEF FinishRun, TypeOK
<1>2. [runs[r] EXCEPT !.state = outcome] \in RunRow
  BY <1>1 DEF RunRow
<1>3. runs' = [runs EXCEPT ![r] = [runs[r] EXCEPT !.state = outcome]]
  BY DEF FinishRun
<1>4. TypeOK'
  BY <1>2, <1>3 DEF FinishRun, TypeOK
<1>5. RowsAreMinted'
  BY <1>3 DEF FinishRun, TypeOK, RowsAreMinted
<1> QED BY <1>4, <1>5

\* record_agent_run and record_finding add a well-typed row.
LEMMA RecordPreserves ==
  ASSUME TypeOK, RowsAreMinted, NEW k \in Key, NEW r \in Run, NEW s \in Session,
         RecordAgentRun(r, s) \/ RecordFinding(k, r, s)
  PROVE  TypeOK' /\ RowsAreMinted'
BY DEF RecordAgentRun, RecordFinding, TypeOK, RowsAreMinted

\* delete only takes rows away.
LEMMA DeletePreserves ==
  ASSUME TypeOK, RowsAreMinted, NEW k \in Key, Delete(k)
  PROVE  TypeOK' /\ RowsAreMinted'
BY DEF Delete, TypeOK, RowsAreMinted

\* A session the SDK mints leaves every stored session a minted one.
LEMMA ObserveSessionPreserves ==
  ASSUME TypeOK, RowsAreMinted, ObserveSession
  PROVE  TypeOK' /\ RowsAreMinted'
<1>1. TypeOK' /\ lastSession' = lastSession + 1
  BY DEF ObserveSession, TypeOK
<1>2. \A k \in Key : agents[k] # NoEntry => agents[k].session \in Nat
  BY DEF TypeOK, Entry
<1> QED BY <1>1, <1>2 DEF ObserveSession, TypeOK, RowsAreMinted

-----------------------------------------------------------------------------
(* Which runs are stored, and with which options, after each operation.    *)

\* A run opened with options that create the session is the first stored run
\* of its key: this is what begin_run's look at the history is for.
LEMMA OpenRunKeepsFresh ==
  ASSUME TypeOK, RowsAreMinted, FreshRunIsFirst,
         NEW k \in Key, NEW options \in {"fresh", "resume", "plain"}, NEW s \in 0 .. MaxSession,
         options = "fresh" => ~HasRuns(k),
         OpenRun(k, options, s)
  PROVE  FreshRunIsFirst'
<1> DEFINE new == lastRun + 1
           opened == [key |-> k, state |-> "open", options |-> options, session |-> s]
<1>1. new \in Run /\ runs' = [runs EXCEPT ![new] = opened]
  BY DEF OpenRun, TypeOK
<1>2. \A r \in Run : runs[r] # NoRun => r < new
  BY DEF TypeOK, RowsAreMinted
<1>3. opened \in RunRow
  BY DEF RunRow
<1>4. runs'[new] = opened /\ \A r \in Run \ {new} : runs'[r] = runs[r]
  BY <1>1 DEF TypeOK
<1>5. opened.key = k /\ opened.options = options
  OBVIOUS
<1> HIDE DEF opened, new
<1>6. ASSUME NEW j \in Key, NEW r \in RunsOf(j)', NEW q \in RunsOf(j)',
             runs'[r].options = "fresh"
      PROVE  r <= q
  <2>1. r \in Run /\ q \in Run /\ runs'[r] # NoRun /\ runs'[q] # NoRun
        /\ runs'[r].key = j /\ runs'[q].key = j
    BY <1>6 DEF RunsOf
  <2>2. CASE r # new /\ q # new
    BY <2>1, <2>2, <1>4, <1>6 DEF FreshRunIsFirst, RunsOf
  <2>3. CASE r # new /\ q = new
    BY <2>1, <2>3, <1>1, <1>2, <1>4
  <2>4. CASE r = new /\ q # new
    <3>1. j = k /\ options = "fresh"
      BY <2>4, <2>1, <1>4, <1>5, <1>6
    <3>2. q \in RunsOf(k)
      BY <2>4, <2>1, <1>4, <3>1 DEF RunsOf
    <3> QED BY <3>1, <3>2 DEF HasRuns
  <2>5. CASE r = new /\ q = new
    BY <2>5, <1>1
  <2> QED BY <2>2, <2>3, <2>4, <2>5
<1> QED BY <1>6 DEF FreshRunIsFirst

\* Whatever adds no run and changes no stored run's key or options keeps the
\* guarantee on fresh runs.
LEMMA OthersKeepFresh ==
  ASSUME TypeOK, FreshRunIsFirst,
         \A r \in Run : runs'[r] # NoRun =>
             runs[r] # NoRun /\ runs'[r].key = runs[r].key /\ runs'[r].options = runs[r].options
  PROVE  FreshRunIsFirst'
<1>1. \A k \in Key : RunsOf(k)' \subseteq RunsOf(k)
  BY DEF RunsOf
<1>2. \A k \in Key : \A r \in RunsOf(k)' : runs'[r].options = runs[r].options
  BY DEF RunsOf
<1> QED BY <1>1, <1>2 DEF FreshRunIsFirst

\* finish_run keeps the guarantee on fresh runs.
LEMMA FinishRunKeepsFresh ==
  ASSUME TypeOK, FreshRunIsFirst, NEW r \in Run, NEW outcome \in Outcome, FinishRun(r, outcome)
  PROVE  FreshRunIsFirst'
<1>1. runs[r] \in RunRow /\ runs[r] # NoRun
  BY DEF FinishRun, TypeOK
<1>2. runs' = [runs EXCEPT ![r] = [runs[r] EXCEPT !.state = outcome]]
  BY DEF FinishRun
<1>3. ASSUME NEW q \in Run, runs'[q] # NoRun
      PROVE  runs[q] # NoRun /\ runs'[q].key = runs[q].key /\ runs'[q].options = runs[q].options
  <2>1. CASE q = r
    BY <2>1, <1>1, <1>2 DEF TypeOK, RunRow
  <2>2. CASE q # r
    BY <2>2, <1>2, <1>3 DEF TypeOK
  <2> QED BY <2>1, <2>2
<1> QED BY <1>3, OthersKeepFresh

\* delete keeps the guarantee on fresh runs.
LEMMA DeleteKeepsFresh ==
  ASSUME TypeOK, FreshRunIsFirst, NEW k \in Key, Delete(k)
  PROVE  FreshRunIsFirst'
<1>1. \A r \in Run : runs'[r] # NoRun => runs'[r] = runs[r]
  BY DEF Delete
<1> QED BY <1>1, OthersKeepFresh

\* The methods that leave the runs table alone keep it too.
LEMMA SameRunsKeepFresh ==
  ASSUME FreshRunIsFirst, UNCHANGED runs
  PROVE  FreshRunIsFirst'
BY DEF FreshRunIsFirst, RunsOf

-----------------------------------------------------------------------------
\* An empty pool.db satisfies the inductive invariant of the atomic pool.
LEMMA TablesInit == Init => TablesInv
<1> SUFFICES ASSUME Init PROVE TablesInv
  OBVIOUS
<1>1. TypeOK
  BY DEF Init, TypeOK
<1>2. RowsAreMinted
  BY DEF Init, RowsAreMinted
<1>3. FreshRunIsFirst
  BY DEF Init, FreshRunIsFirst, RunsOf
<1> QED BY <1>1, <1>2, <1>3 DEF TablesInv

\* Every method of the atomic pool preserves its inductive invariant.
LEMMA TablesStep == TablesInv /\ [Next]_tables => TablesInv'
<1> SUFFICES ASSUME TablesInv, [Next]_tables
             PROVE  TablesInv'
  OBVIOUS
<1> USE DEF TablesInv
<1>a. lastRun \in 0 .. MaxRun /\ lastSession \in 0 .. MaxSession
  BY DEF TypeOK
<1>1. CASE ObserveSession
  BY <1>1, ObserveSessionPreserves, SameRunsKeepFresh DEF ObserveSession
<1>2. ASSUME NEW k \in Key, NEW cwd \in Cwd \cup {NoCwd}, NEW reset \in BOOLEAN,
             Save(k, cwd, reset)
      PROVE  TablesInv'
  <2>1. agents[k] \in Entry \cup {NoEntry}
        /\ (agents[k] # NoEntry => agents[k].session <= lastSession)
    BY DEF TypeOK, RowsAreMinted
  <2>2. SaveOver(k, agents[k], cwd, reset) /\ UNCHANGED runs
    BY <1>2 DEF Save, SaveOver
  <2> QED BY <2>1, <2>2, SaveOverPreserves, SameRunsKeepFresh
<1>3. ASSUME NEW k \in Key, NEW s \in 1 .. lastSession, Reconcile(k, s)
      PROVE  TablesInv'
  BY <1>3, ReconcilePreserves, SameRunsKeepFresh DEF Reconcile
<1>4. ASSUME NEW k \in Key, NEW s \in 1 .. lastSession, BeginRun(k, s)
      PROVE  TablesInv'
  <2> DEFINE o == IF HasRuns(k) THEN "resume" ELSE "fresh"
  <2>1. o \in {"fresh", "resume", "plain"} /\ (o = "fresh" => ~HasRuns(k))
    OBVIOUS
  <2>2. s \in 0 .. MaxSession
    BY <1>a
  <2>3. OpenRun(k, o, s)
    BY <1>4 DEF BeginRun
  <2> HIDE DEF o
  <2> QED BY <2>1, <2>2, <2>3, OpenRunPreserves, OpenRunKeepsFresh
<1>5. ASSUME NEW k \in Key, StartRun(k)
      PROVE  TablesInv'
  <2>1. OpenRun(k, "plain", 0) /\ 0 \in 0 .. MaxSession
    BY <1>5 DEF StartRun
  <2> QED BY <2>1, OpenRunPreserves, OpenRunKeepsFresh
<1>6. ASSUME NEW k \in Key, Delete(k)
      PROVE  TablesInv'
  BY <1>6, DeletePreserves, DeleteKeepsFresh
<1>7. ASSUME NEW r \in 1 .. lastRun, NEW outcome \in Outcome, FinishRun(r, outcome)
      PROVE  TablesInv'
  <2>1. r \in Run
    BY <1>a
  <2> QED BY <2>1, <1>7, FinishRunPreserves, FinishRunKeepsFresh
<1>8. ASSUME NEW r \in 1 .. lastRun, NEW s \in 1 .. lastSession, NEW k \in Key,
             RecordAgentRun(r, s) \/ RecordFinding(k, r, s)
      PROVE  TablesInv'
  <2>1. r \in Run /\ s \in Session
    BY <1>a
  <2>2. UNCHANGED runs
    BY <1>8 DEF RecordAgentRun, RecordFinding
  <2> QED BY <2>1, <2>2, <1>8, RecordPreserves, SameRunsKeepFresh
<1>9. CASE UNCHANGED tables
  BY <1>9, SameRunsKeepFresh DEF tables, TypeOK, RowsAreMinted
<1>10. \E k \in Key : TRUE
  BY KeyAssumption
<1> QED
  BY <1>1, <1>2, <1>3, <1>4, <1>5, <1>6, <1>7, <1>8, <1>9, <1>10 DEF Next

(***************************************************************************)
(* The atomic pool is type correct.                                        *)
(***************************************************************************)
THEOREM TablesTypeCorrect == Spec => []TypeOK
<1>1. TablesInv => TypeOK
  BY DEF TablesInv
<1> QED BY TablesInit, TablesStep, <1>1, PTL DEF Spec

(***************************************************************************)
(* Under atomic methods, only the first stored run of a key is given       *)
(* options that create a session (begin_run's promise, pool.py:359-368).   *)
(***************************************************************************)
THEOREM TablesFreshRunIsFirst == Spec => []FreshRunIsFirst
<1>1. TablesInv => FreshRunIsFirst
  BY DEF TablesInv
<1> QED BY TablesInit, TablesStep, <1>1, PTL DEF Spec

\* Only a delete takes an entry away: every other method leaves one where it
\* finds one.
LEMMA EntriesStay ==
  ASSUME TypeOK, NEW k \in Key, agents[k] # NoEntry, agents'[k] = NoEntry, [Next]_tables
  PROVE  Delete(k)
<1>1. ASSUME NEW j \in Key, NEW e, agents' = [agents EXCEPT ![j] = e], e # NoEntry
      PROVE  FALSE
  BY <1>1 DEF TypeOK
<1>2. ASSUME NEW s, NEW dir, [session |-> s, cwd |-> dir] = NoEntry, s \in Session, dir \in Cwd
      PROVE  FALSE
  BY <1>2, RowAssumption DEF Entry
<1>3. ASSUME NEW j \in Key, NEW cwd \in Cwd \cup {NoCwd}, NEW reset \in BOOLEAN, Save(j, cwd, reset)
      PROVE  FALSE
  <2> DEFINE kept == agents[j] # NoEntry /\ ~reset
             sid  == IF kept THEN agents[j].session ELSE lastSession + 1
             dir  == IF cwd # NoCwd THEN cwd
                     ELSE IF agents[j] # NoEntry THEN agents[j].cwd ELSE Home
  <2>1. sid <= MaxSession /\ agents' = [agents EXCEPT ![j] = [session |-> sid, cwd |-> dir]]
    BY <1>3 DEF Save, SaveOver
  <2>2. sid \in Session
    BY <2>1 DEF TypeOK, Entry
  <2>3. dir \in Cwd
    BY CwdAssumption DEF TypeOK, Entry
  <2> HIDE DEF sid, dir
  <2> QED BY <2>1, <2>2, <2>3, <1>1, <1>2
<1>4. ASSUME NEW j \in Key, NEW s \in 1 .. lastSession, Reconcile(j, s)
      PROVE  FALSE
  <2>1. agents[j].cwd \in Cwd /\ s \in Session
    BY <1>4 DEF Reconcile, TypeOK, Entry
  <2>2. agents' = [agents EXCEPT ![j] = [session |-> s, cwd |-> agents[j].cwd]]
    BY <1>4 DEF Reconcile
  <2> QED BY <2>1, <2>2, <1>1, <1>2
<1>5. ASSUME NEW j \in Key, Delete(j)
      PROVE  j = k
  BY <1>5 DEF Delete, TypeOK
<1>6. ASSUME NEW j \in Key, NEW s \in 1 .. lastSession, BeginRun(j, s) \/ StartRun(j)
      PROVE  FALSE
  BY <1>6 DEF BeginRun, StartRun, OpenRun
<1>7. ASSUME NEW j \in Key, StartRun(j)
      PROVE  FALSE
  BY <1>7 DEF StartRun, OpenRun
<1>8. ASSUME NEW r \in 1 .. lastRun, NEW outcome \in Outcome, FinishRun(r, outcome)
      PROVE  FALSE
  BY <1>8 DEF FinishRun
<1>9. ASSUME NEW r \in 1 .. lastRun, NEW s \in 1 .. lastSession, NEW j \in Key,
             RecordAgentRun(r, s) \/ RecordFinding(j, r, s)
      PROVE  FALSE
  BY <1>9 DEF RecordAgentRun, RecordFinding
<1>10. ~ObserveSession /\ ~UNCHANGED tables
  BY DEF ObserveSession, tables
<1> QED BY <1>3, <1>4, <1>5, <1>6, <1>7, <1>8, <1>9, <1>10 DEF Next

(***************************************************************************)
(* A step that takes an entry away takes everything of its key and nothing *)
(* of another's (AgentPool.delete, pool.py:597-619).                       *)
(***************************************************************************)
THEOREM TablesDeleteIsComplete == Spec => DeleteIsComplete
<1>1. ASSUME TablesInv, [Next]_tables, NEW k \in Key, agents[k] # NoEntry, agents'[k] = NoEntry
      PROVE  /\ \A r \in RunsOf(k) : runs'[r] = NoRun /\ \A a \in agentRuns' : a.run # r
             /\ \A f \in findings' : f.key # k
             /\ \A r \in Run \ RunsOf(k) : runs'[r] = runs[r]
             /\ {a \in agentRuns : a.run \notin RunsOf(k)} \subseteq agentRuns'
  <2>1. Delete(k)
    BY <1>1, EntriesStay DEF TablesInv
  <2>2. RunsOf(k) \subseteq Run
    BY DEF RunsOf
  <2> HIDE DEF Run
  <2> QED BY <2>1, <2>2 DEF Delete
<1>2. TablesInv /\ [Next]_tables =>
         [\A k \in Key : agents[k] # NoEntry /\ agents'[k] = NoEntry =>
             /\ \A r \in RunsOf(k) : runs'[r] = NoRun /\ \A a \in agentRuns' : a.run # r
             /\ \A f \in findings' : f.key # k
             /\ \A r \in Run \ RunsOf(k) : runs'[r] = runs[r]
             /\ {a \in agentRuns : a.run \notin RunsOf(k)} \subseteq agentRuns']_tables
  BY <1>1
<1> QED BY TablesInit, TablesStep, <1>2, PTL DEF Spec, DeleteIsComplete

-----------------------------------------------------------------------------
\* Ids are only ever minted.
LEMMA IdsGrow ==
  ASSUME TypeOK, [Next]_tables
  PROVE  /\ lastRun \in Nat /\ lastRun' \in Nat /\ lastRun <= lastRun'
         /\ lastSession \in Nat /\ lastSession' \in Nat /\ lastSession <= lastSession'
<1>1. lastRun \in Nat /\ lastSession \in Nat
  BY DEF TypeOK
<1>2. /\ lastRun' = lastRun \/ lastRun' = lastRun + 1
      /\ lastSession' = lastSession \/ lastSession' = lastSession + 1
  <2>1. CASE ObserveSession
    BY <2>1 DEF ObserveSession
  <2>2. ASSUME NEW k \in Key, NEW cwd \in Cwd \cup {NoCwd}, NEW reset \in BOOLEAN,
               Save(k, cwd, reset)
        PROVE  lastRun' = lastRun /\ (lastSession' = lastSession \/ lastSession' = lastSession + 1)
    BY <2>2 DEF Save, SaveOver
  <2>3. ASSUME NEW k \in Key, NEW s \in 1 .. lastSession, Reconcile(k, s)
        PROVE  UNCHANGED <<lastRun, lastSession>>
    BY <2>3 DEF Reconcile
  <2>4. ASSUME NEW k \in Key, NEW s \in 1 .. lastSession, BeginRun(k, s) \/ StartRun(k)
        PROVE  lastRun' = lastRun + 1 /\ lastSession' = lastSession
    BY <2>4 DEF BeginRun, StartRun, OpenRun
  <2>5. ASSUME NEW k \in Key, StartRun(k)
        PROVE  lastRun' = lastRun + 1 /\ lastSession' = lastSession
    BY <2>5 DEF StartRun, OpenRun
  <2>6. ASSUME NEW k \in Key, Delete(k)
        PROVE  UNCHANGED <<lastRun, lastSession>>
    BY <2>6 DEF Delete
  <2>7. ASSUME NEW r \in 1 .. lastRun, NEW outcome \in Outcome, FinishRun(r, outcome)
        PROVE  UNCHANGED <<lastRun, lastSession>>
    BY <2>7 DEF FinishRun
  <2>8. ASSUME NEW r \in 1 .. lastRun, NEW s \in 1 .. lastSession, NEW k \in Key,
               RecordAgentRun(r, s) \/ RecordFinding(k, r, s)
        PROVE  UNCHANGED <<lastRun, lastSession>>
    BY <2>8 DEF RecordAgentRun, RecordFinding
  <2>9. CASE UNCHANGED tables
    BY <2>9 DEF tables
  <2> QED
    BY <2>1, <2>2, <2>3, <2>4, <2>5, <2>6, <2>7, <2>8, <2>9, KeyAssumption DEF Next
<1> QED BY <1>1, <1>2

\* A stored run keeps its key, its options and its agent_runs rows until it is
\* deleted, and no row is ever put below the ids minted.
LEMMA RunsKeepTheirKey ==
  ASSUME TablesInv, [Next]_tables, NEW r \in Run, runs'[r] # NoRun, r <= lastRun
  PROVE  /\ runs[r] # NoRun /\ runs'[r].key = runs[r].key /\ runs'[r].options = runs[r].options
         /\ \A a \in agentRuns : a.run = r => a \in agentRuns'
<1>0. TypeOK /\ lastRun \in Nat
  BY DEF TablesInv, TypeOK
<1>1. CASE UNCHANGED runs /\ agentRuns \subseteq agentRuns'
  BY <1>1
<1>2. ASSUME NEW k \in Key, NEW options, NEW s, OpenRun(k, options, s)
      PROVE  runs'[r] = runs[r] /\ agentRuns' = agentRuns
  <2>1. r # lastRun + 1
    BY <1>0
  <2> QED BY <1>0, <1>2, <2>1 DEF OpenRun, TypeOK
<1>3. ASSUME NEW q \in Run, NEW outcome \in Outcome, FinishRun(q, outcome)
      PROVE  /\ runs[r] # NoRun /\ runs'[r].key = runs[r].key /\ runs'[r].options = runs[r].options
             /\ agentRuns' = agentRuns
  <2>1. runs[q] \in RunRow /\ runs' = [runs EXCEPT ![q] = [runs[q] EXCEPT !.state = outcome]]
        /\ runs[q] # NoRun /\ agentRuns' = agentRuns
    BY <1>0, <1>3 DEF FinishRun, TypeOK
  <2>2. CASE q = r
    BY <1>0, <2>1, <2>2 DEF RunRow, TypeOK
  <2>3. CASE q # r
    BY <1>0, <2>1, <2>3 DEF TypeOK
  <2> QED BY <2>2, <2>3
<1>4. ASSUME NEW k \in Key, Delete(k)
      PROVE  runs'[r] = runs[r] /\ \A a \in agentRuns : a.run = r => a \in agentRuns'
  BY <1>4 DEF Delete
<1>5. 1 .. lastRun \subseteq Run
  BY <1>0 DEF TypeOK
<1>6. CASE UNCHANGED tables \/ ObserveSession
  BY <1>1, <1>6 DEF tables, ObserveSession
<1>7. ASSUME NEW k \in Key,
             \/ \E cwd \in Cwd \cup {NoCwd}, reset \in BOOLEAN : Save(k, cwd, reset)
             \/ \E s \in 1 .. lastSession : Reconcile(k, s)
      PROVE  UNCHANGED <<runs, agentRuns>>
  BY <1>7 DEF Save, SaveOver, Reconcile
<1>8. ASSUME NEW k \in Key, StartRun(k) \/ \E s \in 1 .. lastSession : BeginRun(k, s)
      PROVE  runs'[r] = runs[r] /\ agentRuns' = agentRuns
  BY <1>2, <1>8 DEF StartRun, BeginRun
<1>9. ASSUME NEW q \in 1 .. lastRun, NEW s, RecordAgentRun(q, s)
       PROVE  UNCHANGED runs /\ agentRuns \subseteq agentRuns'
  BY <1>9 DEF RecordAgentRun
<1>10. ASSUME NEW k, NEW q, NEW s, RecordFinding(k, q, s)
       PROVE  UNCHANGED <<runs, agentRuns>>
  BY <1>10 DEF RecordFinding
<1> HIDE DEF Run
<1> QED BY <1>1, <1>3, <1>4, <1>5, <1>6, <1>7, <1>8, <1>9, <1>10 DEF Next
=============================================================================
