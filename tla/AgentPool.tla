----------------------------- MODULE AgentPool ------------------------------
(***************************************************************************)
(* AgentPool (engine/pool.py) as the code runs it.  Every process holds    *)
(* one connection and one `_write_lock`; several processes (pool-mcp, one  *)
(* teammate-mcp per client, the HTTP API) may share one pool.db.           *)
(*                                                                         *)
(* Python's sqlite3 opens a transaction only before an INSERT, UPDATE or   *)
(* DELETE, so a method that reads and then writes (save,                   *)
(* reconcile_session, begin_run) is two database steps: the SELECT commits *)
(* nothing and locks nothing, and only the `_write_lock` keeps others out  *)
(* until the write.  Such a method is an Enter action (acquire the lock,   *)
(* SELECT) and a Commit action (write, commit, release); a method with one *)
(* statement, or one transaction, is a single action that needs the lock   *)
(* to be free.  AsyncAgentPool adds no state: it runs the same methods on  *)
(* worker threads, which is why a process has several.                     *)
(***************************************************************************)
EXTENDS PoolTables

CONSTANTS Process,   \* processes that opened pool.db
          Thread,    \* threads of all of them
          ProcOf,    \* the process of each thread
          Free       \* a lock nobody holds

ASSUME ProcOfAssumption == ProcOf \in [Thread -> Process]
ASSUME FreeAssumption   == Free \notin Thread

VARIABLES lock,   \* _write_lock of each process
          pc,     \* the method each thread is inside, between read and write
          call,   \* the arguments of that method
          row,    \* the agents row its SELECT returned
          ran,    \* whether its SELECT on runs returned any row
          snap    \* the entry a caller got from get_by_key and still holds

callers == <<lock, pc, call, row, ran, snap>>
vars    == <<tables, callers>>

Call     == [key : Key, cwd : Cwd \cup {NoCwd}, reset : BOOLEAN, session : 0 .. MaxSession]
Snapshot == [key : Key, session : Session]

PoolTypeOK ==
    /\ TypeOK
    /\ lock \in [Process -> Thread \cup {Free}]
    /\ pc   \in [Thread -> {"idle", "save", "reconcile", "begin"}]
    /\ call \in [Thread -> Call]
    /\ row  \in [Thread -> Entry \cup {NoEntry}]
    /\ ran  \in [Thread -> BOOLEAN]
    /\ snap \in [Thread -> Snapshot \cup {NoEntry}]

NoCall == [key |-> CHOOSE k \in Key : TRUE, cwd |-> NoCwd, reset |-> FALSE, session |-> 0]

PoolInit ==
    /\ Init
    /\ lock = [p \in Process |-> Free]
    /\ pc   = [t \in Thread |-> "idle"]
    /\ call = [t \in Thread |-> NoCall]
    /\ row  = [t \in Thread |-> NoEntry]
    /\ ran  = [t \in Thread |-> FALSE]
    /\ snap = [t \in Thread |-> NoEntry]

-----------------------------------------------------------------------------
\* Mutant: the method does not wait for the lock.
CanLock_NoWait(t) == pc[t] = "idle"

\* `with self._write_lock`: t may enter a method.
CanLock(t) == pc[t] = "idle" /\ lock[ProcOf[t]] = Free

\* Mutant: the lock is released after the SELECT.
Enter_NoHold(t, method, c) ==
    /\ CanLock(t)
    /\ pc'   = [pc EXCEPT ![t] = method]
    /\ call' = [call EXCEPT ![t] = c]
    /\ UNCHANGED lock

Enter(t, method, c) ==
    /\ CanLock(t)
    /\ lock' = [lock EXCEPT ![ProcOf[t]] = t]
    /\ pc'   = [pc EXCEPT ![t] = method]
    /\ call' = [call EXCEPT ![t] = c]

\* End of the `with` block, normal or by exception.
Leave(t) ==
    /\ lock' = [lock EXCEPT ![ProcOf[t]] = Free]
    /\ pc'   = [pc EXCEPT ![t] = "idle"]
    /\ call' = [call EXCEPT ![t] = NoCall]
    /\ row'  = [row EXCEPT ![t] = NoEntry]
    /\ ran'  = [ran EXCEPT ![t] = FALSE]

EnterSave(t, k, cwd, reset) ==
    /\ Enter(t, "save", [NoCall EXCEPT !.key = k, !.cwd = cwd, !.reset = reset])
    /\ row' = [row EXCEPT ![t] = agents[k]]
    /\ UNCHANGED <<tables, ran, snap>>

\* Mutant: an overwrite mints a new session instead of keeping the stored one.
CommitSave_AlwaysMints(t) ==
    /\ pc[t] = "save"
    /\ SaveOver(call[t].key, row[t], call[t].cwd, TRUE)
    /\ Leave(t)
    /\ UNCHANGED snap

CommitSave(t) ==
    /\ pc[t] = "save"
    /\ SaveOver(call[t].key, row[t], call[t].cwd, call[t].reset)
    /\ Leave(t)
    /\ UNCHANGED snap

\* The observed session s is the argument; KeyError when the entry is absent.
EnterReconcile(t, k, s) ==
    /\ Enter(t, "reconcile", [NoCall EXCEPT !.key = k, !.session = s])
    /\ agents[k] # NoEntry
    /\ row' = [row EXCEPT ![t] = agents[k]]
    /\ UNCHANGED <<tables, ran, snap>>

\* Mutant: an INSERT OR REPLACE of the row read, so a gone entry comes back.
CommitReconcile_Upsert(t) ==
    /\ pc[t] = "reconcile"
    /\ agents' = [agents EXCEPT ![call[t].key] =
                     [session |-> call[t].session, cwd |-> Home]]
    /\ UNCHANGED <<runs, agentRuns, findings, lastRun, lastSession>>
    /\ Leave(t)
    /\ UNCHANGED snap

\* The UPDATE matches no row, and raises, when the entry went in between.
CommitReconcile(t) ==
    /\ pc[t] = "reconcile"
    /\ \/ Reconcile(call[t].key, call[t].session)
       \/ agents[call[t].key] = NoEntry /\ UNCHANGED tables
    /\ Leave(t)
    /\ UNCHANGED snap

\* get_by_key: the caller keeps the snapshot after the lock is released.
GetByKey(t, k) ==
    /\ CanLock(t)
    /\ snap' = [snap EXCEPT ![t] = IF agents[k] = NoEntry THEN NoEntry
                                   ELSE [key |-> k, session |-> agents[k].session]]
    /\ UNCHANGED <<tables, lock, pc, call, row, ran>>

EnterBegin(t) ==
    /\ snap[t] # NoEntry
    /\ Enter(t, "begin", [NoCall EXCEPT !.key = snap[t].key, !.session = snap[t].session])
    /\ ran' = [ran EXCEPT ![t] = HasRuns(snap[t].key)]
    /\ UNCHANGED <<tables, row, snap>>

CommitBegin(t) ==
    /\ pc[t] = "begin"
    /\ OpenRun(call[t].key, IF ran[t] THEN "resume" ELSE "fresh", call[t].session)
    /\ Leave(t)
    /\ snap' = [snap EXCEPT ![t] = NoEntry]

\* The methods that are one statement or one transaction.
OneStatement(t) ==
    /\ CanLock(t)
    /\ \/ \E k \in Key : StartRun(k) \/ Delete(k)
       \/ \E r \in 1 .. lastRun :
            \/ \E outcome \in Outcome : FinishRun(r, outcome)
            \/ \E s \in 1 .. lastSession :
                 RecordAgentRun(r, s) \/ \E k \in Key : RecordFinding(k, r, s)
    /\ UNCHANGED callers

\* A process that dies between a read and its write takes its lock, its
\* pending methods and its snapshots with it; nothing was written yet.
ProcessDies(p) ==
    /\ lock' = [lock EXCEPT ![p] = Free]
    /\ pc'   = [t \in Thread |-> IF ProcOf[t] = p THEN "idle" ELSE pc[t]]
    /\ call' = [t \in Thread |-> IF ProcOf[t] = p THEN NoCall ELSE call[t]]
    /\ row'  = [t \in Thread |-> IF ProcOf[t] = p THEN NoEntry ELSE row[t]]
    /\ ran'  = [t \in Thread |-> IF ProcOf[t] = p THEN FALSE ELSE ran[t]]
    /\ snap' = [t \in Thread |-> IF ProcOf[t] = p THEN NoEntry ELSE snap[t]]
    /\ UNCHANGED tables

PoolNext ==
    \/ ObserveSession /\ UNCHANGED callers
    \/ \E t \in Thread :
         \/ \E k \in Key : \/ \E cwd \in Cwd \cup {NoCwd}, reset \in BOOLEAN :
                                EnterSave(t, k, cwd, reset)
                           \/ \E s \in 1 .. lastSession : EnterReconcile(t, k, s)
                           \/ GetByKey(t, k)
         \/ EnterBegin(t)
         \/ CommitSave(t)
         \/ CommitReconcile(t)
         \/ CommitBegin(t)
         \/ OneStatement(t)
    \/ \E p \in Process : ProcessDies(p)

PoolSpec == PoolInit /\ [][PoolNext]_vars

-----------------------------------------------------------------------------
(***************************************************************************)
(* What a method read under the lock is still what is stored when it       *)
(* writes: save's row and begin_run's run history cannot go stale in       *)
(* between.  This is what holding `_write_lock` across the read and the    *)
(* write buys, and it buys it among the threads of one process only.       *)
(***************************************************************************)
ReadIsStillCurrent ==
    \A t \in Thread :
        /\ pc[t] = "save"  => row[t] = agents[call[t].key]
        /\ pc[t] = "begin" => (ran[t] <=> HasRuns(call[t].key))

(***************************************************************************)
(* save without reset_session keeps the stored session (save's docstring,  *)
(* pool.py:221-222): an entry another caller has repinned meanwhile is     *)
(* never put back on the session it was moved away from.                   *)
(***************************************************************************)
SaveKeepsTheSession ==
    [][\A t \in Thread :
          pc[t] = "save" /\ pc'[t] = "idle" /\ ~call[t].reset /\ agents[call[t].key] # NoEntry
             => agents'[call[t].key].session = agents[call[t].key].session]_vars

(***************************************************************************)
(* Only save creates an entry.  reconcile_session "does not create one"    *)
(* (pool.py:293-294) even when another process deletes the entry between   *)
(* its SELECT and its UPDATE, so a dismissed agent is not brought back by  *)
(* a run that is still ending.                                             *)
(***************************************************************************)
OnlySaveCreates ==
    [][\A k \in Key : agents[k] = NoEntry /\ agents'[k] # NoEntry =>
          \E t \in Thread : pc[t] = "save" /\ call[t].key = k /\ pc'[t] = "idle"]_vars

(***************************************************************************)
(* Each method is one step on the tables: the locked pool implements the   *)
(* specification PoolTables gives, under the identity mapping.  This is    *)
(* the contract begin_run's docstring states for itself ("Atomically       *)
(* decide resume-vs-fresh from run history and open the run").             *)
(***************************************************************************)
MethodsAreAtomic == Spec
=============================================================================
