-------------------------- MODULE AgentPoolProofs --------------------------
(***************************************************************************)
(* Theorems about the locked pool, for any number of keys, ids, rows,      *)
(* processes and threads.  That of one process is shown to implement the   *)
(* contract of PoolTables.  SingleProcess is the deployment the code's     *)
(* comments argue about: every caller is a thread of the process that owns *)
(* the lock.  With two processes the theorems that assume it are false     *)
(* (the two-process instance of MCTwoProcesses shows how).                 *)
(***************************************************************************)
EXTENDS AgentPool, PoolTablesProofs

USE BoundsAssumption DEF Run, Session, AgentRun, Finding, Outcome

SingleProcess == \A t, u \in Thread : ProcOf[t] = ProcOf[u]

\* Who is inside a method holds the lock of its process.
InsideHoldsLock == \A t \in Thread : pc[t] # "idle" => lock[ProcOf[t]] = t

\* Every session a caller still carries was minted.
CallersAreMinted ==
    \A t \in Thread :
        /\ pc[t] \in {"reconcile", "begin"} => call[t].session \in 1 .. lastSession
        /\ snap[t] # NoEntry => snap[t].session \in 1 .. lastSession
        /\ row[t] # NoEntry => row[t].session <= lastSession

PoolInv ==
    /\ PoolTypeOK
    /\ RowsAreMinted
    /\ CallersAreMinted
    /\ InsideHoldsLock

\* The arguments of a thread outside every method are well typed.
LEMMA NoCallType == NoCall \in Call /\ NoCall.session = 0
BY KeyAssumption DEF NoCall, Call

\* The locked pool starts in its inductive invariant, with nothing read.
LEMMA PoolInitInv == PoolInit => PoolInv /\ ReadIsStillCurrent
<1> SUFFICES ASSUME PoolInit PROVE PoolInv /\ ReadIsStillCurrent
  OBVIOUS
<1>1. TypeOK /\ RowsAreMinted
  BY TablesInit DEF PoolInit, TablesInv
<1>2. PoolTypeOK
  BY <1>1, NoCallType DEF PoolInit, PoolTypeOK
<1>3. CallersAreMinted /\ InsideHoldsLock /\ ReadIsStillCurrent
  BY DEF PoolInit, CallersAreMinted, InsideHoldsLock, ReadIsStillCurrent
<1> QED BY <1>1, <1>2, <1>3 DEF PoolInv

(***************************************************************************)
(* The methods, one lemma for the ways in, one for the way out: what they  *)
(* do to the callers' variables, whatever happens to the tables.           *)
(***************************************************************************)
CallersInv ==
    /\ lock \in [Process -> Thread \cup {Free}]
    /\ pc   \in [Thread -> {"idle", "save", "reconcile", "begin"}]
    /\ call \in [Thread -> Call]
    /\ row  \in [Thread -> Entry \cup {NoEntry}]
    /\ ran  \in [Thread -> BOOLEAN]
    /\ snap \in [Thread -> Snapshot \cup {NoEntry}]
    /\ CallersAreMinted
    /\ InsideHoldsLock

\* The inductive invariant splits into what the tables and the callers owe.
LEMMA PoolInvParts ==
    /\ PoolInv <=> TypeOK /\ RowsAreMinted /\ CallersInv
    /\ PoolInv' <=> TypeOK' /\ RowsAreMinted' /\ CallersInv'
BY DEF PoolInv, PoolTypeOK, CallersInv

\* A step that leaves the callers alone may mint sessions.
LEMMA SessionsOnlyGrow ==
  ASSUME CallersInv, UNCHANGED callers, lastSession \in Nat, lastSession' \in Nat,
         lastSession <= lastSession'
  PROVE  CallersInv'
<1>1. CallersAreMinted'
  <2> SUFFICES ASSUME NEW t \in Thread
               PROVE  /\ pc[t] \in {"reconcile", "begin"} => call[t].session \in 1 .. lastSession'
                      /\ snap[t] # NoEntry => snap[t].session \in 1 .. lastSession'
                      /\ row[t] # NoEntry => row[t].session <= lastSession'
    BY DEF callers, CallersAreMinted
  <2>1. row[t] # NoEntry => row[t].session \in Nat
    BY DEF CallersInv, Entry
  <2> QED BY <2>1 DEF CallersInv, CallersAreMinted
<1> QED BY <1>1 DEF CallersInv, InsideHoldsLock, callers

\* Entering save, reconcile_session or begin_run (lock, then SELECT) keeps
\* the callers' invariant and writes nothing.
LEMMA EnterKeepsCallers ==
  ASSUME TypeOK, RowsAreMinted, CallersInv, NEW t \in Thread,
         \/ \E k \in Key, cwd \in Cwd \cup {NoCwd}, reset \in BOOLEAN : EnterSave(t, k, cwd, reset)
         \/ \E k \in Key, s \in 1 .. lastSession : EnterReconcile(t, k, s)
         \/ EnterBegin(t)
  PROVE  CallersInv' /\ UNCHANGED tables
<1>1. PICK m \in {"save", "reconcile", "begin"}, c \in Call :
         /\ Enter(t, m, c)
         /\ m \in {"reconcile", "begin"} => c.session \in 1 .. lastSession
  <2>1. ASSUME NEW k \in Key, NEW cwd \in Cwd \cup {NoCwd}, NEW reset \in BOOLEAN,
               EnterSave(t, k, cwd, reset)
        PROVE  \E c \in Call : Enter(t, "save", c)
    <3>1. [NoCall EXCEPT !.key = k, !.cwd = cwd, !.reset = reset] \in Call
      BY NoCallType DEF Call
    <3> QED BY <3>1, <2>1 DEF EnterSave
  <2>2. ASSUME NEW k \in Key, NEW s \in 1 .. lastSession, EnterReconcile(t, k, s)
        PROVE  \E c \in Call : Enter(t, "reconcile", c) /\ c.session \in 1 .. lastSession
    <3> DEFINE c == [NoCall EXCEPT !.key = k, !.session = s]
    <3>1. s \in 0 .. MaxSession
      BY DEF TypeOK
    <3>2. c \in Call /\ c.session = s
      BY <3>1, NoCallType DEF Call
    <3>3. Enter(t, "reconcile", c)
      BY <2>2 DEF EnterReconcile
    <3> HIDE DEF c
    <3> QED BY <3>2, <3>3
  <2>3. ASSUME EnterBegin(t)
        PROVE  \E c \in Call : Enter(t, "begin", c) /\ c.session \in 1 .. lastSession
    <3>1. snap[t] \in Snapshot /\ snap[t].session \in 1 .. lastSession
      BY <2>3 DEF EnterBegin, CallersInv, CallersAreMinted
    <3> DEFINE c == [NoCall EXCEPT !.key = snap[t].key, !.session = snap[t].session]
    <3>2. snap[t].key \in Key /\ snap[t].session \in 0 .. MaxSession
      BY <3>1 DEF Snapshot
    <3>3. c \in Call /\ c.session = snap[t].session
      BY <3>2, NoCallType DEF Call
    <3>4. Enter(t, "begin", c)
      BY <2>3 DEF EnterBegin
    <3> HIDE DEF c
    <3> QED BY <3>1, <3>3, <3>4
  <2> QED BY <2>1, <2>2, <2>3
<1>2. UNCHANGED <<tables, snap>>
      /\ row' \in [Thread -> Entry \cup {NoEntry}] /\ ran' \in [Thread -> BOOLEAN]
      /\ \A u \in Thread : row'[u] = row[u] \/ \E k \in Key : row'[u] = agents[k]
  BY DEF EnterSave, EnterReconcile, EnterBegin, HasRuns, TypeOK, CallersInv
<1>3. UNCHANGED <<agents, lastSession>>
  BY <1>2 DEF tables
<1>4. ProcOf[t] \in Process /\ lock[ProcOf[t]] = Free /\ pc[t] = "idle"
  BY <1>1, ProcOfAssumption DEF Enter, CanLock
<1>5. lock' = [lock EXCEPT ![ProcOf[t]] = t] /\ pc' = [pc EXCEPT ![t] = m]
      /\ call' = [call EXCEPT ![t] = c]
  BY <1>1 DEF Enter
<1>6. InsideHoldsLock'
  BY <1>4, <1>5, FreeAssumption, ProcOfAssumption DEF InsideHoldsLock, CallersInv
<1>7. CallersAreMinted'
  <2> SUFFICES ASSUME NEW u \in Thread
               PROVE  /\ pc'[u] \in {"reconcile", "begin"} => call'[u].session \in 1 .. lastSession
                      /\ snap[u] # NoEntry => snap[u].session \in 1 .. lastSession
                      /\ row'[u] # NoEntry => row'[u].session <= lastSession
    BY <1>2, <1>3 DEF CallersAreMinted
  <2>1. row'[u] # NoEntry => row'[u].session <= lastSession
    BY <1>2 DEF RowsAreMinted, CallersInv, CallersAreMinted
  <2>2. pc'[u] \in {"reconcile", "begin"} => call'[u].session \in 1 .. lastSession
    BY <1>1, <1>5 DEF CallersInv, CallersAreMinted
  <2> QED BY <2>1, <2>2 DEF CallersInv, CallersAreMinted
<1> QED BY <1>2, <1>5, <1>6, <1>7 DEF CallersInv

\* Leaving a method (commit, then release) keeps the callers' invariant.
LEMMA LeaveKeepsCallers ==
  ASSUME CallersInv, NEW t \in Thread, pc[t] # "idle", Leave(t),
         snap' = snap \/ snap' = [snap EXCEPT ![t] = NoEntry],
         lastSession \in Nat, lastSession' \in Nat, lastSession <= lastSession'
  PROVE  CallersInv'
<1>1. InsideHoldsLock'
  BY ProcOfAssumption DEF Leave, InsideHoldsLock, CallersInv
<1>2. CallersAreMinted'
  <2> SUFFICES ASSUME NEW u \in Thread
               PROVE  /\ pc'[u] \in {"reconcile", "begin"} => call'[u].session \in 1 .. lastSession'
                      /\ snap'[u] # NoEntry => snap'[u].session \in 1 .. lastSession'
                      /\ row'[u] # NoEntry => row'[u].session <= lastSession'
    BY DEF CallersAreMinted
  <2>1. row[u] # NoEntry => row[u].session \in Nat
    BY DEF CallersInv, Entry
  <2>2. row'[u] # NoEntry => row'[u] = row[u]
    BY DEF Leave, CallersInv
  <2>3. snap'[u] # NoEntry => snap'[u] = snap[u]
    BY DEF CallersInv
  <2>4. pc'[u] # "idle" => pc'[u] = pc[u] /\ call'[u] = call[u]
    BY DEF Leave, CallersInv
  <2> QED BY <2>1, <2>2, <2>3, <2>4 DEF CallersInv, CallersAreMinted
<1>3. /\ lock' \in [Process -> Thread \cup {Free}]
      /\ pc'   \in [Thread -> {"idle", "save", "reconcile", "begin"}]
      /\ call' \in [Thread -> Call]
      /\ row'  \in [Thread -> Entry \cup {NoEntry}]
      /\ ran'  \in [Thread -> BOOLEAN]
      /\ snap' \in [Thread -> Snapshot \cup {NoEntry}]
  BY NoCallType DEF Leave, CallersInv
<1> QED BY <1>1, <1>2, <1>3 DEF CallersInv

\* A process that dies keeps the callers' invariant and writes nothing.
LEMMA DeathKeepsCallers ==
  ASSUME TypeOK, CallersInv, NEW p \in Process, ProcessDies(p)
  PROVE  CallersInv' /\ UNCHANGED tables
<1>1. UNCHANGED <<tables, lastSession>>
  BY DEF ProcessDies, tables
<1>2. InsideHoldsLock'
  BY ProcOfAssumption DEF ProcessDies, InsideHoldsLock, CallersInv
<1>3. CallersAreMinted'
  <2> SUFFICES ASSUME NEW u \in Thread
               PROVE  /\ pc'[u] \in {"reconcile", "begin"} => call'[u].session \in 1 .. lastSession
                      /\ snap'[u] # NoEntry => snap'[u].session \in 1 .. lastSession
                      /\ row'[u] # NoEntry => row'[u].session <= lastSession
    BY <1>1 DEF CallersAreMinted
  <2>1. CASE ProcOf[u] = p
    BY <2>1 DEF ProcessDies
  <2>2. CASE ProcOf[u] # p
    BY <2>2 DEF ProcessDies, CallersInv, CallersAreMinted
  <2> QED BY <2>1, <2>2
<1>4. /\ lock' \in [Process -> Thread \cup {Free}]
      /\ pc'   \in [Thread -> {"idle", "save", "reconcile", "begin"}]
      /\ call' \in [Thread -> Call]
      /\ row'  \in [Thread -> Entry \cup {NoEntry}]
      /\ ran'  \in [Thread -> BOOLEAN]
      /\ snap' \in [Thread -> Snapshot \cup {NoEntry}]
  BY NoCallType DEF ProcessDies, CallersInv
<1> QED BY <1>1, <1>2, <1>3, <1>4 DEF CallersInv

-----------------------------------------------------------------------------
(***************************************************************************)
(* The tables' side of a step, whoever takes it.  The ways in write        *)
(* nothing; a Commit writes from what was read, current or not.            *)
(***************************************************************************)
TableStep ==
    \/ ObserveSession
    \/ \E k \in Key : \/ \E e \in Entry \cup {NoEntry}, cwd \in Cwd \cup {NoCwd}, reset \in BOOLEAN :
                             /\ e # NoEntry => e.session <= lastSession
                             /\ SaveOver(k, e, cwd, reset)
                      \/ \E s \in 1 .. lastSession : Reconcile(k, s)
                      \/ \E o \in {"fresh", "resume", "plain"}, s \in 0 .. MaxSession : OpenRun(k, o, s)
                      \/ Delete(k)
                      \/ \E r \in Run, s \in Session : RecordAgentRun(r, s) \/ RecordFinding(k, r, s)
    \/ \E r \in Run, outcome \in Outcome : FinishRun(r, outcome)
    \/ UNCHANGED tables

\* Every write any method makes keeps the tables well typed and minted.
LEMMA TableStepPreserves ==
  ASSUME TypeOK, RowsAreMinted, TableStep
  PROVE  TypeOK' /\ RowsAreMinted' /\ lastSession <= lastSession'
<1>1. TypeOK' /\ RowsAreMinted'
  <2>1. CASE UNCHANGED tables
    BY <2>1 DEF tables, TypeOK, RowsAreMinted
  <2> QED
    BY <2>1, ObserveSessionPreserves, SaveOverPreserves, ReconcilePreserves, OpenRunPreserves,
       DeletePreserves, RecordPreserves, FinishRunPreserves
    DEF TableStep
<1>2. lastSession \in Nat /\ \A e \in Entry : e.session \in Nat
  BY DEF TypeOK, Entry
<1>3. lastSession <= lastSession'
  <2>1. ASSUME NEW k \in Key, NEW e \in Entry \cup {NoEntry}, NEW cwd \in Cwd \cup {NoCwd},
               NEW reset \in BOOLEAN, SaveOver(k, e, cwd, reset)
        PROVE  lastSession' \in {lastSession, lastSession + 1}
    BY <2>1 DEF SaveOver
  <2>2. lastSession' \in {lastSession, lastSession + 1}
    BY <2>1 DEF TableStep, ObserveSession, Reconcile, OpenRun, Delete, RecordAgentRun,
                RecordFinding, FinishRun, tables
  <2> QED BY <1>2, <2>2
<1> QED BY <1>1, <1>3

\* The write of save, reconcile_session and begin_run is one of those writes.
LEMMA CommitIsTableStep ==
  ASSUME TypeOK, CallersInv, NEW t \in Thread,
         CommitSave(t) \/ CommitReconcile(t) \/ CommitBegin(t)
  PROVE  /\ TableStep
         /\ pc[t] # "idle" /\ Leave(t)
         /\ snap' = snap \/ snap' = [snap EXCEPT ![t] = NoEntry]
<1>1. call[t] \in Call /\ call[t].key \in Key /\ call[t].cwd \in Cwd \cup {NoCwd}
      /\ call[t].reset \in BOOLEAN /\ call[t].session \in 0 .. MaxSession
      /\ row[t] \in Entry \cup {NoEntry} /\ ran[t] \in BOOLEAN
  BY DEF CallersInv, Call
<1>2. CASE CommitSave(t)
  BY <1>1, <1>2 DEF CommitSave, TableStep, CallersInv, CallersAreMinted
<1>3. CASE CommitReconcile(t)
  BY <1>1, <1>3 DEF CommitReconcile, TableStep, CallersInv, CallersAreMinted
<1>4. CASE CommitBegin(t)
  <2>1. (IF ran[t] THEN "resume" ELSE "fresh") \in {"fresh", "resume", "plain"}
    OBVIOUS
  <2>2. TableStep
    BY <1>1, <1>4, <2>1 DEF CommitBegin, TableStep
  <2> QED BY <1>4, <2>2 DEF CommitBegin
<1> QED BY <1>2, <1>3, <1>4

\* So is the single statement of each of the other methods.
LEMMA OneStatementIsTableStep ==
  ASSUME TypeOK, NEW t \in Thread, OneStatement(t)
  PROVE  TableStep /\ UNCHANGED callers
<1>1. lastRun \in 0 .. MaxRun /\ lastSession \in 0 .. MaxSession
  BY DEF TypeOK
<1>2. 0 \in 0 .. MaxSession /\ \A r \in 1 .. lastRun : r \in Run
      /\ \A s \in 1 .. lastSession : s \in Session
  BY <1>1
<1>3. \E k \in Key : TRUE
  BY KeyAssumption
<1> QED BY <1>2, <1>3 DEF OneStatement, StartRun, TableStep

\* Every step of the locked pool preserves its inductive invariant.
LEMMA PoolStep == PoolInv /\ [PoolNext]_vars => PoolInv'
<1> SUFFICES ASSUME PoolInv, [PoolNext]_vars
             PROVE  PoolInv'
  OBVIOUS
<1>1. TypeOK /\ RowsAreMinted /\ CallersInv /\ lastSession \in Nat
  BY PoolInvParts DEF TypeOK
<1>2. ASSUME TableStep
      PROVE  TypeOK' /\ RowsAreMinted' /\ lastSession <= lastSession' /\ lastSession' \in Nat
  BY <1>1, <1>2, TableStepPreserves DEF TypeOK
<1>3. CASE ObserveSession /\ UNCHANGED callers
  <2>1. TableStep
    BY <1>3 DEF TableStep
  <2> QED BY <1>1, <1>2, <1>3, <2>1, SessionsOnlyGrow, PoolInvParts
<1>4. ASSUME NEW t \in Thread,
             \/ \E k \in Key, cwd \in Cwd \cup {NoCwd}, reset \in BOOLEAN : EnterSave(t, k, cwd, reset)
             \/ \E k \in Key, s \in 1 .. lastSession : EnterReconcile(t, k, s)
             \/ EnterBegin(t)
      PROVE  PoolInv'
  <2>1. CallersInv' /\ UNCHANGED tables
    BY <1>1, <1>4, EnterKeepsCallers
  <2>2. TableStep
    BY <2>1 DEF TableStep
  <2> QED BY <1>2, <2>1, <2>2, PoolInvParts
<1>5. ASSUME NEW t \in Thread, CommitSave(t) \/ CommitReconcile(t) \/ CommitBegin(t)
      PROVE  PoolInv'
  BY <1>1, <1>2, <1>5, CommitIsTableStep, LeaveKeepsCallers, PoolInvParts
<1>6. ASSUME NEW t \in Thread, OneStatement(t)
      PROVE  PoolInv'
  BY <1>1, <1>2, <1>6, OneStatementIsTableStep, SessionsOnlyGrow, PoolInvParts
<1>7. ASSUME NEW t \in Thread, NEW k \in Key, GetByKey(t, k)
      PROVE  PoolInv'
  <2>1. UNCHANGED <<tables, lastSession, lock, pc, call, row, ran>>
    BY <1>7 DEF GetByKey, tables
  <2>2. agents[k] # NoEntry =>
           /\ [key |-> k, session |-> agents[k].session] \in Snapshot
           /\ agents[k].session \in 1 .. lastSession
    BY <1>1 DEF TypeOK, RowsAreMinted, Entry, Snapshot
  <2>3. snap' \in [Thread -> Snapshot \cup {NoEntry}]
    BY <1>1, <1>7, <2>2 DEF GetByKey, CallersInv
  <2>4. CallersAreMinted'
    BY <1>1, <1>7, <2>1, <2>2 DEF GetByKey, CallersInv, CallersAreMinted
  <2>5. CallersInv'
    BY <1>1, <2>1, <2>3, <2>4 DEF CallersInv, InsideHoldsLock
  <2>6. TableStep
    BY <2>1 DEF TableStep
  <2> QED BY <1>2, <2>5, <2>6, PoolInvParts
<1>8. ASSUME NEW p \in Process, ProcessDies(p)
      PROVE  PoolInv'
  <2>1. CallersInv' /\ UNCHANGED tables
    BY <1>1, <1>8, DeathKeepsCallers
  <2>2. TableStep
    BY <2>1 DEF TableStep
  <2> QED BY <1>2, <2>1, <2>2, PoolInvParts
<1>9. CASE UNCHANGED vars
  <2>1. TableStep /\ UNCHANGED callers
    BY <1>9 DEF vars, TableStep
  <2> QED BY <1>1, <1>2, <2>1, SessionsOnlyGrow, PoolInvParts
<1> QED BY <1>3, <1>4, <1>5, <1>6, <1>7, <1>8, <1>9 DEF PoolNext

(***************************************************************************)
(* The locked pool is type correct, with any number of processes.          *)
(***************************************************************************)
THEOREM PoolTypeCorrect == PoolSpec => []PoolTypeOK
<1>1. PoolInit => PoolInv
  BY PoolInitInv
<1>2. PoolInv => PoolTypeOK
  BY DEF PoolInv
<1> QED BY <1>1, <1>2, PoolStep, PTL DEF PoolSpec

-----------------------------------------------------------------------------
(***************************************************************************)
(* One process: at most one thread is inside a method, and while it is, no *)
(* other thread touches the tables.                                        *)
(***************************************************************************)
LEMMA OneInside ==
  ASSUME SingleProcess, CallersInv, NEW t \in Thread, pc[t] # "idle" \/ CanLock(t),
         NEW u \in Thread, u # t
  PROVE  pc[u] = "idle"
BY FreeAssumption, ProcOfAssumption DEF SingleProcess, CallersInv, InsideHoldsLock, CanLock

\* With every other thread outside the methods, only t's own read can be stale.
LEMMA AllIdleReadsAreCurrent ==
  ASSUME CallersInv', NEW t \in Thread,
         \A u \in Thread \ {t} : pc'[u] = "idle",
         pc'[t] = "save"  => row'[t] = agents'[call'[t].key],
         pc'[t] = "begin" => (ran'[t] <=> HasRuns(call[t].key)')
  PROVE  ReadIsStillCurrent'
BY DEF ReadIsStillCurrent

\* A read stays current while neither the tables nor the readers change.
LEMMA SameTablesSameReads ==
  ASSUME ReadIsStillCurrent, UNCHANGED <<agents, runs, pc, call, row, ran>>
  PROVE  ReadIsStillCurrent'
BY DEF ReadIsStillCurrent, HasRuns, RunsOf

\* With one process, no step makes a pending read stale: whoever could write
\* is kept out by the lock.
LEMMA ReadStep ==
  ASSUME SingleProcess, PoolInv, ReadIsStillCurrent, [PoolNext]_vars
  PROVE  ReadIsStillCurrent'
<1>1. TypeOK /\ CallersInv /\ CallersInv'
  BY PoolInvParts, PoolStep
<1>2. CASE ObserveSession /\ UNCHANGED callers
  BY <1>2, SameTablesSameReads DEF ObserveSession, callers
<1>3. ASSUME NEW t \in Thread,
             \/ \E k \in Key, cwd \in Cwd \cup {NoCwd}, reset \in BOOLEAN : EnterSave(t, k, cwd, reset)
             \/ \E k \in Key, s \in 1 .. lastSession : EnterReconcile(t, k, s)
             \/ EnterBegin(t)
      PROVE  ReadIsStillCurrent'
  <2>1. CanLock(t) /\ UNCHANGED <<agents, runs>>
    BY <1>3 DEF EnterSave, EnterReconcile, EnterBegin, Enter, tables
  <2>2. \A u \in Thread \ {t} : pc[u] = "idle"
    BY <1>1, <2>1, OneInside
  <2>3. \A u \in Thread \ {t} : pc'[u] = "idle"
    BY <1>1, <1>3, <2>2 DEF EnterSave, EnterReconcile, EnterBegin, Enter, CallersInv
  <2>4. ASSUME NEW k \in Key, NEW cwd \in Cwd \cup {NoCwd}, NEW reset \in BOOLEAN,
               EnterSave(t, k, cwd, reset)
        PROVE  pc'[t] = "save" /\ row'[t] = agents[call'[t].key]
    <3> DEFINE c == [NoCall EXCEPT !.key = k, !.cwd = cwd, !.reset = reset]
    <3>1. c.key = k
      BY NoCallType DEF Call
    <3>2. Enter(t, "save", c)
      BY <2>4 DEF EnterSave
    <3> HIDE DEF c
    <3> QED BY <1>1, <2>4, <3>1, <3>2 DEF EnterSave, Enter, CallersInv
  <2>5. ASSUME NEW k \in Key, NEW s \in 1 .. lastSession, EnterReconcile(t, k, s)
        PROVE  pc'[t] = "reconcile"
    BY <1>1, <2>5 DEF EnterReconcile, Enter, CallersInv
  <2>6. ASSUME EnterBegin(t)
        PROVE  pc'[t] = "begin" /\ (ran'[t] <=> HasRuns(call'[t].key))
    <3> DEFINE c == [NoCall EXCEPT !.key = snap[t].key, !.session = snap[t].session]
    <3>1. c.key = snap[t].key
      BY NoCallType DEF Call
    <3>2. Enter(t, "begin", c)
      BY <2>6 DEF EnterBegin
    <3>3. HasRuns(snap[t].key) \in BOOLEAN
      BY DEF HasRuns
    <3> HIDE DEF c
    <3>4. call'[t] = c /\ pc'[t] = "begin"
      BY <1>1, <3>2 DEF Enter, CallersInv
    <3>5. ran'[t] = HasRuns(snap[t].key)
      BY <1>1, <2>6 DEF EnterBegin, CallersInv
    <3> QED BY <3>1, <3>3, <3>4, <3>5
  <2>7. /\ pc'[t] = "save" => row'[t] = agents'[call'[t].key]
        /\ pc'[t] = "begin" => (ran'[t] <=> HasRuns(call[t].key)')
    <3>1. HasRuns(call[t].key)' <=> HasRuns(call'[t].key)
      BY <2>1 DEF HasRuns, RunsOf
    <3> QED BY <1>3, <2>1, <2>4, <2>5, <2>6, <3>1
  <2> QED BY <1>1, <2>3, <2>7, AllIdleReadsAreCurrent
<1>4. ASSUME NEW t \in Thread, CommitSave(t) \/ CommitReconcile(t) \/ CommitBegin(t)
      PROVE  ReadIsStillCurrent'
  <2>1. pc[t] # "idle" /\ Leave(t)
    BY <1>1, <1>4, CommitIsTableStep
  <2>2. \A u \in Thread \ {t} : pc[u] = "idle"
    BY <1>1, <2>1, OneInside
  <2>3. pc'[t] = "idle" /\ \A u \in Thread \ {t} : pc'[u] = "idle"
    BY <1>1, <2>1, <2>2 DEF Leave, CallersInv
  <2> QED BY <2>3 DEF ReadIsStillCurrent
<1>5. ASSUME NEW t \in Thread, OneStatement(t)
      PROVE  ReadIsStillCurrent'
  <2>1. CanLock(t) /\ UNCHANGED pc
    BY <1>5 DEF OneStatement, callers
  <2>2. \A u \in Thread : pc[u] = "idle"
    BY <1>1, <2>1, OneInside DEF CanLock
  <2> QED BY <2>1, <2>2 DEF ReadIsStillCurrent
<1>6. ASSUME NEW t \in Thread, NEW k \in Key, GetByKey(t, k)
      PROVE  ReadIsStillCurrent'
  BY <1>6, SameTablesSameReads DEF GetByKey, tables
<1>7. ASSUME NEW p \in Process, ProcessDies(p)
      PROVE  ReadIsStillCurrent'
  <2>1. UNCHANGED <<agents, runs>>
    BY <1>7 DEF ProcessDies, tables
  <2>2. ASSUME NEW u \in Thread, pc'[u] # "idle"
        PROVE  pc'[u] = pc[u] /\ call'[u] = call[u] /\ row'[u] = row[u] /\ ran'[u] = ran[u]
    BY <1>1, <1>7, <2>2 DEF ProcessDies, CallersInv
  <2> QED BY <2>1, <2>2 DEF ReadIsStillCurrent, HasRuns, RunsOf
<1>8. CASE UNCHANGED vars
  BY <1>8, SameTablesSameReads DEF vars, tables, callers
<1> QED BY <1>2, <1>3, <1>4, <1>5, <1>6, <1>7, <1>8 DEF PoolNext

(***************************************************************************)
(* In one process, what a method read is still what is stored when it      *)
(* writes.                                                                 *)
(***************************************************************************)
THEOREM PoolReadIsStillCurrent ==
  ASSUME SingleProcess
  PROVE  PoolSpec => []ReadIsStillCurrent
<1>1. PoolInit => PoolInv /\ ReadIsStillCurrent
  BY PoolInitInv
<1>2. PoolInv /\ ReadIsStillCurrent /\ [PoolNext]_vars => PoolInv' /\ ReadIsStillCurrent'
  BY PoolStep, ReadStep
<1> QED BY <1>1, <1>2, PTL DEF PoolSpec

-----------------------------------------------------------------------------
(***************************************************************************)
(* With current reads a Commit is exactly the atomic method; every other   *)
(* step is an atomic method or leaves the tables alone.                    *)
(***************************************************************************)
LEMMA CommitIsAtomic ==
  ASSUME TypeOK, CallersInv, ReadIsStillCurrent, NEW t \in Thread,
         CommitSave(t) \/ CommitReconcile(t) \/ CommitBegin(t)
  PROVE  [Next]_tables
<1>1. call[t].key \in Key /\ call[t].cwd \in Cwd \cup {NoCwd} /\ call[t].reset \in BOOLEAN
  BY DEF CallersInv, Call
<1>2. CASE CommitSave(t)
  <2>1. Save(call[t].key, call[t].cwd, call[t].reset)
    BY <1>2 DEF CommitSave, Save, ReadIsStillCurrent
  <2> QED BY <1>1, <2>1 DEF Next
<1>3. CASE CommitReconcile(t)
  <2>1. call[t].session \in 1 .. lastSession
    BY <1>3 DEF CommitReconcile, CallersInv, CallersAreMinted
  <2>2. Reconcile(call[t].key, call[t].session) \/ UNCHANGED tables
    BY <1>3 DEF CommitReconcile
  <2> QED BY <1>1, <2>1, <2>2 DEF Next
<1>4. CASE CommitBegin(t)
  <2>1. call[t].session \in 1 .. lastSession
    BY <1>4 DEF CommitBegin, CallersInv, CallersAreMinted
  <2>2. ran[t] <=> HasRuns(call[t].key)
    BY <1>4 DEF CommitBegin, ReadIsStillCurrent
  <2>3. (IF ran[t] THEN "resume" ELSE "fresh")
           = (IF HasRuns(call[t].key) THEN "resume" ELSE "fresh")
    BY <2>2
  <2>4. BeginRun(call[t].key, call[t].session)
    BY <1>4, <2>3 DEF CommitBegin, BeginRun
  <2> QED BY <1>1, <2>1, <2>4 DEF Next
<1> QED BY <1>2, <1>3, <1>4

\* A step whose reads are current is a step of the atomic pool, or a stutter.
LEMMA PoolStepIsAtomic ==
  ASSUME PoolInv, ReadIsStillCurrent, [PoolNext]_vars
  PROVE  [Next]_tables
<1>1. TypeOK /\ RowsAreMinted /\ CallersInv
  BY PoolInvParts
<1>2. CASE ObserveSession /\ UNCHANGED callers
  BY <1>2 DEF Next
<1>3. ASSUME NEW t \in Thread,
             \/ \E k \in Key, cwd \in Cwd \cup {NoCwd}, reset \in BOOLEAN : EnterSave(t, k, cwd, reset)
             \/ \E k \in Key, s \in 1 .. lastSession : EnterReconcile(t, k, s)
             \/ EnterBegin(t)
      PROVE  [Next]_tables
  BY <1>1, <1>3, EnterKeepsCallers
<1>4. ASSUME NEW t \in Thread, CommitSave(t) \/ CommitReconcile(t) \/ CommitBegin(t)
      PROVE  [Next]_tables
  BY <1>1, <1>4, CommitIsAtomic
<1>5. ASSUME NEW t \in Thread, OneStatement(t)
      PROVE  [Next]_tables
  BY <1>5 DEF OneStatement, Next
<1>6. ASSUME NEW t \in Thread, NEW k \in Key, GetByKey(t, k)
      PROVE  [Next]_tables
  BY <1>6 DEF GetByKey
<1>7. ASSUME NEW p \in Process, ProcessDies(p)
      PROVE  [Next]_tables
  BY <1>7 DEF ProcessDies
<1>8. CASE UNCHANGED vars
  BY <1>8 DEF vars
<1> QED BY <1>2, <1>3, <1>4, <1>5, <1>6, <1>7, <1>8 DEF PoolNext

(***************************************************************************)
(* In one process the locked pool implements the atomic one: every method  *)
(* takes effect in a single step on the tables.                            *)
(***************************************************************************)
THEOREM PoolMethodsAreAtomic ==
  ASSUME SingleProcess
  PROVE  PoolSpec => MethodsAreAtomic
<1>1. PoolInit => PoolInv /\ ReadIsStillCurrent /\ Init
  BY PoolInitInv DEF PoolInit
<1>2. PoolInv /\ ReadIsStillCurrent /\ [PoolNext]_vars => PoolInv' /\ ReadIsStillCurrent'
  BY PoolStep, ReadStep
<1>3. PoolInv /\ ReadIsStillCurrent /\ [PoolNext]_vars => [Next]_tables
  BY PoolStepIsAtomic
<1> QED BY <1>1, <1>2, <1>3, PTL DEF PoolSpec, Spec, MethodsAreAtomic

(***************************************************************************)
(* begin_run's promise, for the code as it runs in one process.            *)
(***************************************************************************)
THEOREM PoolFreshRunIsFirst ==
  ASSUME SingleProcess
  PROVE  PoolSpec => []FreshRunIsFirst
<1>1. PoolSpec => Spec
  BY PoolMethodsAreAtomic DEF MethodsAreAtomic
<1> QED BY <1>1, TablesFreshRunIsFirst, PTL

(***************************************************************************)
(* The race begin_run's docstring calls closed is closed in one process:   *)
(* no two stored runs of a key create one session (between two processes   *)
(* it is open).                                                            *)
(***************************************************************************)
THEOREM PoolOneRunCreatesASession ==
  ASSUME SingleProcess
  PROVE  PoolSpec => []OneRunCreatesASession
<1>1. FreshRunIsFirst => OneRunCreatesASession
  <2> SUFFICES ASSUME FreshRunIsFirst, NEW k \in Key, NEW r \in RunsOf(k), NEW q \in RunsOf(k),
                      runs[r].options = "fresh", runs[q].options = "fresh"
               PROVE  r = q
    BY DEF OneRunCreatesASession
  <2>1. r <= q /\ q <= r
    BY DEF FreshRunIsFirst
  <2> QED BY <2>1 DEF RunsOf, Run
<1> QED BY <1>1, PoolFreshRunIsFirst, PTL

(***************************************************************************)
(* save's promise, for the code as it runs in one process.                 *)
(***************************************************************************)
THEOREM PoolSaveKeepsTheSession ==
  ASSUME SingleProcess
  PROVE  PoolSpec => SaveKeepsTheSession
<1> DEFINE Kept ==
      \A t \in Thread :
         pc[t] = "save" /\ pc'[t] = "idle" /\ ~call[t].reset /\ agents[call[t].key] # NoEntry
            => agents'[call[t].key].session = agents[call[t].key].session
<1>1. ASSUME PoolInv, ReadIsStillCurrent, [PoolNext]_vars
      PROVE  Kept
  <2> SUFFICES ASSUME NEW t \in Thread, pc[t] = "save", pc'[t] = "idle",
                      ~call[t].reset, agents[call[t].key] # NoEntry
               PROVE  agents'[call[t].key].session = agents[call[t].key].session
    OBVIOUS
  <2>1. TypeOK /\ CallersInv /\ call[t].key \in Key /\ row[t] = agents[call[t].key]
    BY <1>1, PoolInvParts DEF CallersInv, Call, ReadIsStillCurrent
  <2>2. CASE UNCHANGED agents
    BY <2>2
  <2>3. ASSUME NEW u \in Thread, CommitSave(u) \/ CommitReconcile(u) \/ CommitBegin(u)
        PROVE  agents'[call[t].key].session = agents[call[t].key].session
    <3>1. pc[u] # "idle"
      BY <2>3 DEF CommitSave, CommitReconcile, CommitBegin
    <3>2. u = t
      BY <2>1, <3>1, OneInside
    <3>3. CommitSave(t)
      BY <2>3, <3>2 DEF CommitReconcile, CommitBegin
    <3>4. agents' = [agents EXCEPT ![call[t].key] = agents'[call[t].key]]
          /\ agents'[call[t].key].session = row[t].session
      BY <2>1, <3>3 DEF CommitSave, SaveOver, TypeOK
    <3> QED BY <3>4, <2>1
  <2>4. ASSUME NEW u \in Thread, OneStatement(u)
        PROVE  FALSE
    <3>1. CanLock(u) /\ UNCHANGED pc
      BY <2>4 DEF OneStatement, callers
    <3>2. pc[t] = "idle"
      BY <2>1, <3>1, OneInside DEF CanLock
    <3> QED BY <3>2
  <2> QED
    BY <1>1, <2>2, <2>3, <2>4
    DEF PoolNext, ObserveSession, EnterSave, EnterReconcile, EnterBegin, GetByKey, ProcessDies,
        vars, tables
<1>2. PoolInit => PoolInv /\ ReadIsStillCurrent
  BY PoolInitInv
<1>3. PoolInv /\ ReadIsStillCurrent /\ [PoolNext]_vars => PoolInv' /\ ReadIsStillCurrent'
  BY PoolStep, ReadStep
<1>4. PoolInv /\ ReadIsStillCurrent /\ [PoolNext]_vars => [Kept]_vars
  BY <1>1
<1> HIDE DEF Kept
<1>5. PoolSpec => [][Kept]_vars
  BY <1>2, <1>3, <1>4, PTL DEF PoolSpec
<1> QED BY <1>5 DEF SaveKeepsTheSession, Kept

(***************************************************************************)
(* Whatever the number of processes, only a save brings an entry into      *)
(* being: a late reconcile_session never resurrects a deleted one.         *)
(***************************************************************************)
THEOREM PoolOnlySaveCreates == PoolSpec => OnlySaveCreates
<1> DEFINE BySave ==
      \A k \in Key : agents[k] = NoEntry /\ agents'[k] # NoEntry =>
         \E t \in Thread : pc[t] = "save" /\ call[t].key = k /\ pc'[t] = "idle"
<1>1. ASSUME PoolInv, [PoolNext]_vars
      PROVE  BySave
  <2> SUFFICES ASSUME NEW k \in Key, agents[k] = NoEntry, agents'[k] # NoEntry
               PROVE  \E t \in Thread : pc[t] = "save" /\ call[t].key = k /\ pc'[t] = "idle"
    OBVIOUS
  <2>1. TypeOK /\ CallersInv
    BY <1>1, PoolInvParts
  <2>2. ASSUME NEW t \in Thread, CommitSave(t)
        PROVE  pc[t] = "save" /\ call[t].key = k /\ pc'[t] = "idle"
    BY <2>1, <2>2 DEF CommitSave, SaveOver, Leave, TypeOK, CallersInv
  <2>3. ASSUME NEW t \in Thread, CommitReconcile(t) \/ CommitBegin(t)
        PROVE  FALSE
    BY <2>1, <2>3 DEF CommitReconcile, CommitBegin, Reconcile, OpenRun, TypeOK, tables
  <2>4. ASSUME NEW t \in Thread, OneStatement(t)
        PROVE  FALSE
    BY <2>1, <2>4 DEF OneStatement, StartRun, OpenRun, Delete, FinishRun, RecordAgentRun,
                      RecordFinding, TypeOK
  <2> QED
    BY <1>1, <2>2, <2>3, <2>4
    DEF PoolNext, ObserveSession, EnterSave, EnterReconcile, EnterBegin, GetByKey, ProcessDies,
        vars, tables
<1>2. PoolInit => PoolInv
  BY PoolInitInv
<1>3. PoolInv /\ [PoolNext]_vars => [BySave]_vars
  BY <1>1
<1> HIDE DEF BySave
<1>4. PoolSpec => [][BySave]_vars
  BY <1>2, <1>3, PoolStep, PTL DEF PoolSpec
<1> QED BY <1>4 DEF OnlySaveCreates, BySave
=============================================================================
