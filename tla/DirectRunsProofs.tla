-------------------------- MODULE DirectRunsProofs --------------------------
(***************************************************************************)
(* Theorems about the unsupervised runs, for any number of concurrent      *)
(* callers, keys and ids: that they use the pool only through its          *)
(* methods, and what that leaves true of the sessions they run on.         *)
(***************************************************************************)
EXTENDS DirectRuns, PoolTablesProofs, FiniteSetTheorems

USE SurfaceAssumption, DisturbingAssumption, BoundsAssumption DEF Run, Session, AgentRun, Outcome

-----------------------------------------------------------------------------
(* The inductive invariant.                                                *)

HasRun   == {"wire", "query", "first", "repin", "stream"}
HasHeard == {"first", "repin", "stream"}

\* What is true of a call under way.
CallOK(call) ==
    /\ call \in Call
    /\ call.at # "idle" => call.expect \in 1 .. lastSession
    /\ IF call.at \in HasRun
       THEN /\ call.run \in 1 .. lastRun
            /\ runs[call.run] # NoRun => runs[call.run].key = call.key
       ELSE call.run = 0
    /\ call.at \in HasHeard => call.session \in 1 .. lastSession /\ call.session \in created

CallsInv ==
    /\ calls \in [Caller -> Call]
    /\ \A c \in Caller : CallOK(calls[c])
    /\ \A c, d \in Caller : calls[c].run = calls[d].run /\ calls[c].run # 0 => c = d

\* The history variables, and the rows whose run is open for good.
HistoryInv ==
    /\ opened \in [Run -> {"fresh", "resume", "plain"}]
    /\ \A r \in Run : runs[r] # NoRun /\ runs[r].options # "plain" => opened[r] = runs[r].options
    /\ \A a \in agentRuns : a.run <= lastRun /\ a.session <= lastSession
    /\ created \subseteq Session
    /\ disturbed \in SUBSET (Key \X (1 .. MaxDisturbing)) /\ IsFiniteSet(disturbed)

DirectInv == TablesInv /\ CallsInv /\ HistoryInv

-----------------------------------------------------------------------------
\* An idle caller.
LEMMA IdleCall ==
  /\ Idle \in Call /\ Idle.at = "idle" /\ Idle.run = 0
<1> DEFINE key == CHOOSE k \in Key : TRUE
<1>1. key \in Key
  BY KeyAssumption
<1>2. Idle = [at |-> "idle", key |-> key, expect |-> 0,
              options |-> "plain", run |-> 0, session |-> 0]
  BY DEF Idle
<1>3. 0 \in 0 .. MaxRun /\ 0 \in 0 .. MaxSession
  OBVIOUS
<1> HIDE DEF key
<1> QED BY <1>1, <1>2, <1>3 DEF Call

\* Every step uses the pool through one of its methods, or not at all.
LEMMA DirectUsesPoolMethods == DirectInv /\ [DirectNext]_vars => [Next]_tables
<1> SUFFICES ASSUME DirectInv, [DirectNext]_vars PROVE [Next]_tables
  OBVIOUS
<1>1. CASE UNCHANGED vars
  BY <1>1 DEF vars
<1>2. ASSUME NEW k \in Key, NEW reset \in BOOLEAN, CreateAgent(k, reset)
      PROVE  Next
  BY <1>2 DEF CreateAgent, Next
<1>3. ASSUME NEW k \in Key, DeleteAgent(k)
      PROVE  Next
  BY <1>3 DEF DeleteAgent, Next
<1>4. ASSUME NEW c \in Caller, NEW k \in Key,
             Spawn(c, k) \/ Acquire(c, k) \/ RunAgent(c, k)
      PROVE  [Next]_tables
  <2>1. CASE Spawn(c, k)
    BY <2>1 DEF Spawn, Next
  <2>2. CASE Acquire(c, k)
    <3>1. Derived[k] \in Key /\ Save(Derived[k], NoCwd, FALSE)
      BY <2>2 DEF Acquire
    <3> QED BY <3>1 DEF Next
  <2>3. CASE RunAgent(c, k)
    BY <2>3 DEF RunAgent
  <2> QED BY <1>4, <2>1, <2>2, <2>3
<1>5. ASSUME NEW c \in Caller,
             \/ ListRuns(c) \/ StartAcquired(c) \/ Begin(c) \/ Wire(c)
             \/ Attach(c) \/ FirstRow(c) \/ Repin(c) \/ Finish(c) \/ Ends(c)
      PROVE  [Next]_tables
  <2>0. PICK call : call = calls[c]
    OBVIOUS
  <2>1. /\ call \in Call /\ call.key \in Key
        /\ call.at # "idle" => call.expect \in 1 .. lastSession
        /\ call.at \in HasRun => call.run \in 1 .. lastRun
        /\ call.at \in HasHeard => call.session \in 1 .. lastSession
    BY <2>0 DEF DirectInv, CallsInv, CallOK, Call
  <2>2. CASE ListRuns(c) \/ Wire(c) \/ Ends(c)
    BY <2>2 DEF ListRuns, Wire, Ends
  <2>3. CASE StartAcquired(c)
    BY <2>0, <2>1, <2>3 DEF StartAcquired, Next
  <2>4. CASE Begin(c)
    BY <2>0, <2>1, <2>4 DEF Begin, Next
  <2>5. CASE Attach(c)
    BY <2>5 DEF Attach, Next
  <2>6. CASE FirstRow(c)
    BY <2>0, <2>1, <2>6 DEF FirstRow, Next, HasRun, HasHeard
  <2>7. CASE Repin(c)
    BY <2>0, <2>1, <2>7 DEF Repin, Next, HasRun, HasHeard
  <2>8. CASE Finish(c)
    <3>1. call.run \in 1 .. lastRun
      BY <2>0, <2>1, <2>8 DEF Finish, HasRun
    <3>2. CASE FinishRun(call.run, "finished")
      BY <3>1, <3>2 DEF Next
    <3> QED BY <2>0, <2>8, <3>2 DEF Finish
  <2> QED BY <1>5, <2>2, <2>3, <2>4, <2>5, <2>6, <2>7, <2>8
<1> QED BY <1>1, <1>2, <1>3, <1>4, <1>5 DEF DirectNext

-----------------------------------------------------------------------------
(* The calls.                                                              *)

\* What no step takes back.
Grew ==
    /\ lastRun \in Nat /\ lastRun' \in Nat /\ lastRun <= lastRun'
    /\ lastSession \in Nat /\ lastSession' \in Nat /\ lastSession <= lastSession'
    /\ created \subseteq created'
    /\ \A r \in 1 .. lastRun : runs'[r] # NoRun =>
         /\ runs[r] # NoRun /\ runs'[r].key = runs[r].key /\ runs'[r].options = runs[r].options
         /\ \A a \in agentRuns : a.run = r => a \in agentRuns'

LEMMA CreatedGrows ==
  ASSUME [DirectNext]_vars
  PROVE  created \subseteq created'
BY DEF DirectNext, vars, direct, DeleteAgent, CreateAgent, RunAgent, Spawn, Acquire, ListRuns,
       StartAcquired, Begin, Wire, Attach, FirstRow, Repin, Finish, Ends

LEMMA StepGrows ==
  ASSUME DirectInv, [DirectNext]_vars
  PROVE  Grew /\ TablesInv' /\ [Next]_tables
<1>1. TablesInv /\ TypeOK /\ [Next]_tables
  BY DirectUsesPoolMethods DEF DirectInv, TablesInv
<1>2. TablesInv'
  BY <1>1, TablesStep
<1>3. \A r \in 1 .. lastRun : r \in Run /\ r <= lastRun
  BY <1>1 DEF TypeOK
<1>4. \A r \in 1 .. lastRun : runs'[r] # NoRun =>
         /\ runs[r] # NoRun /\ runs'[r].key = runs[r].key /\ runs'[r].options = runs[r].options
         /\ \A a \in agentRuns : a.run = r => a \in agentRuns'
  BY <1>1, <1>3, RunsKeepTheirKey
<1> QED BY <1>1, <1>2, <1>4, IdsGrow, CreatedGrows DEF Grew

LEMMA CallStays ==
  ASSUME Grew, NEW call, CallOK(call)
  PROVE  CallOK(call)'
BY DEF Grew, CallOK

LEMMA CallsRest ==
  ASSUME CallsInv, Grew, UNCHANGED calls
  PROVE  CallsInv'
<1>1. ASSUME NEW c \in Caller PROVE CallOK(calls[c])'
  <2>1. PICK call : call = calls[c]
    OBVIOUS
  <2>2. CallOK(call)'
    BY <2>1, CallStays DEF CallsInv
  <2>3. call = calls'[c]
    BY <2>1
  <2> QED BY <2>2, <2>3 DEF CallOK
<1> QED BY <1>1 DEF CallsInv

\* One caller goes on, with the run it has, with none, or with a new one.
LEMMA CallMoves ==
  ASSUME CallsInv, Grew, NEW c \in Caller, NEW call, CallOK(call)',
         calls' = [calls EXCEPT ![c] = call],
         call.run = 0 \/ call.run = calls[c].run \/ call.run > lastRun
  PROVE  CallsInv'
<1>1. call \in Call /\ calls' \in [Caller -> Call]
  BY DEF CallOK, CallsInv
<1>2. ASSUME NEW d \in Caller PROVE CallOK(calls[d])'
  <2>1. PICK x : x = calls'[d]
    OBVIOUS
  <2>2. CallOK(x)'
    <3>1. CASE d = c
      BY <2>1, <3>1 DEF CallsInv
    <3>2. CASE d # c
      <4>1. x = calls[d]
        BY <2>1, <3>2 DEF CallsInv
      <4> QED BY <4>1, CallStays DEF CallsInv
    <3> QED BY <3>1, <3>2
  <2> QED BY <2>1, <2>2 DEF CallOK
<1>3. \A d \in Caller : calls[d].run \in Nat /\ calls[d].run <= lastRun
  BY DEF CallsInv, CallOK, Grew
<1>4. ASSUME NEW d \in Caller, NEW e \in Caller, calls'[d].run = calls'[e].run, calls'[d].run # 0
      PROVE  d = e
  <2>1. \A x \in Caller : calls'[x] = IF x = c THEN call ELSE calls[x]
    BY DEF CallsInv
  <2>2. call.run \in Nat /\ lastRun \in Nat
    BY <1>1 DEF Call, Grew
  <2> QED BY <1>3, <1>4, <2>1, <2>2 DEF CallsInv
<1> QED BY <1>1, <1>2, <1>4 DEF CallsInv

\* save leaves an entry of the key on a minted session: the one it had, or,
\* for a reset or a new entry, the next.
LEMMA SaveEffect ==
  ASSUME TablesInv, NEW k \in Key, NEW reset \in BOOLEAN, Save(k, NoCwd, reset)
  PROVE  \E e \in Entry :
            /\ agents' = [agents EXCEPT ![k] = e]
            /\ IF agents[k] # NoEntry /\ ~reset
               THEN e.session = agents[k].session /\ lastSession' = lastSession
               ELSE e.session = lastSession + 1 /\ lastSession' = lastSession + 1
            /\ e.session \in 1 .. lastSession'
            /\ UNCHANGED <<runs, agentRuns, findings, lastRun>>
<1>0. TypeOK /\ RowsAreMinted /\ agents[k] \in Entry \cup {NoEntry} /\ lastSession \in Nat
  BY DEF TablesInv, TypeOK
<1> DEFINE kept == agents[k] # NoEntry /\ ~reset
           sid  == IF kept THEN agents[k].session ELSE lastSession + 1
           dir  == IF agents[k] # NoEntry THEN agents[k].cwd ELSE Home
           e    == [session |-> sid, cwd |-> dir]
<1>1. /\ sid <= MaxSession /\ agents' = [agents EXCEPT ![k] = e]
      /\ lastSession' = IF kept THEN lastSession ELSE sid
      /\ UNCHANGED <<runs, agentRuns, findings, lastRun>>
  BY DEF Save, SaveOver
<1>2. kept => agents[k].session \in 1 .. lastSession
  BY <1>0 DEF RowsAreMinted, Entry
<1>3. dir \in Cwd
  BY <1>0, CwdAssumption DEF Entry
<1>4. sid \in Session
  BY <1>0, <1>1, <1>2 DEF Entry
<1>5. e \in Entry /\ e.session = sid
  BY <1>3, <1>4 DEF Entry
<1> HIDE DEF e, dir
<1>6. sid \in 1 .. lastSession'
  BY <1>0, <1>1, <1>2, <1>4
<1> QED BY <1>1, <1>5, <1>6

\* The caller of an action goes on to a call that is sound.
LEMMA ActionsMoveCalls ==
  ASSUME DirectInv, [DirectNext]_vars, NEW c \in Caller,
         \/ \E k \in Key : \/ RunAgent(c, k)
                           \/ Spawn(c, k) \/ Acquire(c, k)
         \/ ListRuns(c) \/ StartAcquired(c) \/ Begin(c) \/ Wire(c)
         \/ Attach(c) \/ FirstRow(c) \/ Repin(c) \/ Finish(c) \/ Ends(c)
  PROVE  CallsInv'
<1>0. Grew /\ TablesInv /\ CallsInv /\ TypeOK /\ TypeOK' /\ RowsAreMinted
  BY StepGrows DEF DirectInv, TablesInv
<1>1. PICK call : call = calls[c]
  OBVIOUS
<1>2. call \in Call /\ CallOK(call)
  BY <1>0, <1>1 DEF CallsInv
<1>3. Idle \in Call /\ Idle.at = "idle" /\ Idle.run = 0
  BY IdleCall
<1>4. CallOK(Idle)'
  BY <1>3 DEF CallOK, HasRun, HasHeard
<1>5. Goes(c, Idle) => CallsInv'
  BY <1>0, <1>3, <1>4, CallMoves DEF Goes
\* A call that begins on an entry's session.
<1>6. ASSUME NEW k \in Key, NEW s \in 1 .. lastSession', NEW at \in {"begin", "list"},
             Goes(c, [Idle EXCEPT !.at = at, !.key = k, !.expect = s])
      PROVE  CallsInv'
  <2>1. PICK new : new = [Idle EXCEPT !.at = at, !.key = k, !.expect = s]
    OBVIOUS
  <2>2. s \in 0 .. MaxSession
    BY <1>0 DEF TypeOK
  <2>3. new \in Call /\ new.at = at /\ new.expect = s /\ new.run = 0
    BY <1>3, <2>1, <2>2 DEF Call
  <2>4. CallOK(new)'
    BY <2>3 DEF CallOK, HasRun, HasHeard
  <2> QED BY <1>0, <1>6, <2>1, <2>3, <2>4, CallMoves DEF Goes
<1>7. ASSUME NEW k \in Key, RunAgent(c, k) PROVE CallsInv'
  <2>1. PICK s : s = agents[k].session
    OBVIOUS
  <2>2. s \in 1 .. lastSession'
    <3>1. agents[k] # NoEntry /\ UNCHANGED tables
      BY <1>7 DEF RunAgent
    <3>2. agents[k] \in Entry /\ agents[k].session <= lastSession
      BY <1>0, <3>1 DEF TypeOK, RowsAreMinted
    <3>3. lastSession' = lastSession /\ lastSession \in Nat
      BY <1>0, <3>1 DEF tables, TypeOK
    <3> QED BY <2>1, <3>2, <3>3 DEF Entry
  <2> QED BY <1>6, <1>7, <2>1, <2>2 DEF RunAgent
<1>8. ASSUME NEW k \in Key, Spawn(c, k) PROVE CallsInv'
  <2>1. PICK s : s = agents'[k].session
    OBVIOUS
  <2>2. s \in 1 .. lastSession'
    <3>1. Save(k, NoCwd, FALSE)
      BY <1>8 DEF Spawn
    <3>2. PICK e \in Entry : agents' = [agents EXCEPT ![k] = e] /\ e.session \in 1 .. lastSession'
      BY <1>0, <3>1, SaveEffect
    <3> QED BY <1>0, <2>1, <3>2 DEF TypeOK
  <2> QED BY <1>6, <1>8, <2>1, <2>2 DEF Spawn
<1>9. ASSUME NEW k \in Key, Acquire(c, k) PROVE CallsInv'
  <2>1. PICK s, j : s = agents'[Derived[k]].session /\ j = Derived[k]
    OBVIOUS
  <2>2. s \in 1 .. lastSession' /\ j \in Key
    <3>1. Save(j, NoCwd, FALSE) /\ j \in Key
      BY <1>9, <2>1 DEF Acquire
    <3>2. PICK e \in Entry : agents' = [agents EXCEPT ![j] = e] /\ e.session \in 1 .. lastSession'
      BY <1>0, <3>1, SaveEffect
    <3> QED BY <1>0, <2>1, <3>1, <3>2 DEF TypeOK
  <2> QED BY <1>6, <1>9, <2>1, <2>2 DEF Acquire
\* A call that goes on with its key, expectation and run.
<1>10. ASSUME NEW new \in Call, new.key = call.key, new.expect = call.expect, new.run = call.run,
              call.at # "idle", new.at # "idle", call.at \in HasRun <=> new.at \in HasRun,
              new.at \in HasHeard => new.session \in 1 .. lastSession' /\ new.session \in created',
              Goes(c, new)
       PROVE  CallsInv'
  <2>1. CallOK(call)'
    BY <1>0, <1>2, CallStays
  <2>2. CallOK(new)'
    BY <1>10, <2>1 DEF CallOK
  <2> QED BY <1>0, <1>1, <1>10, <2>2, CallMoves DEF Goes
<1>11. CASE ListRuns(c)
  <2>1. PICK new : new = [call EXCEPT !.at = "start", !.options = IF HasRuns(call.key) THEN "resume" ELSE "fresh"]
    OBVIOUS
  <2>2. /\ new \in Call /\ new.key = call.key /\ new.expect = call.expect /\ new.run = call.run
        /\ new.at = "start"
    BY <1>2, <2>1 DEF Call
  <2>3. call.at = "list" /\ Goes(c, new)
    BY <1>1, <1>11, <2>1 DEF ListRuns
  <2> QED BY <1>10, <2>2, <2>3 DEF HasRun, HasHeard
\* A call that opens its run.
<1>12. ASSUME NEW at \in {"query", "wire"}, NEW options \in {"fresh", "resume", "plain"},
              NEW kind \in {"fresh", "resume", "plain"}, NEW s,
              OpenRun(call.key, kind, s), call.at # "idle",
              Goes(c, [call EXCEPT !.at = at, !.run = lastRun', !.options = options])
       PROVE  CallsInv'
  <2>1. PICK new : new = [call EXCEPT !.at = at, !.run = lastRun', !.options = options]
    OBVIOUS
  <2>2. /\ new \in Call /\ new.key = call.key /\ new.expect = call.expect /\ new.run = lastRun'
        /\ new.at = at
    BY <1>0, <1>2, <2>1 DEF Call, TypeOK
  <2>3. lastRun' = lastRun + 1 /\ lastRun' \in Run /\ runs'[lastRun'].key = call.key
    BY <1>0, <1>12 DEF OpenRun, TypeOK
  <2>4. CallOK(new)'
    BY <1>0, <1>2, <1>12, <2>2, <2>3 DEF CallOK, HasRun, HasHeard, Grew
  <2>5. new.run > lastRun /\ calls' = [calls EXCEPT ![c] = new]
    BY <1>0, <1>12, <2>1, <2>2, <2>3 DEF Goes, Grew
  <2> QED BY <1>0, <2>4, <2>5, CallMoves
<1>13. CASE StartAcquired(c)
  <2>1. /\ call.at = "start" /\ OpenRun(call.key, "plain", 0)
        /\ Goes(c, [call EXCEPT !.at = "query", !.run = lastRun'])
    BY <1>1, <1>13 DEF StartAcquired, StartRun
  <2>2. /\ [call EXCEPT !.at = "query", !.run = lastRun', !.options = call.options]
             = [call EXCEPT !.at = "query", !.run = lastRun']
        /\ call.options \in {"fresh", "resume", "plain"}
    BY <1>2 DEF Call
  <2> QED BY <1>12, <2>1, <2>2
<1>14. CASE Begin(c)
  <2>1. PICK kind, options : /\ kind = (IF HasRuns(call.key) THEN "resume" ELSE "fresh")
                             /\ options = runs'[lastRun'].options
    OBVIOUS
  <2>2. /\ call.at = "begin" /\ OpenRun(call.key, kind, call.expect)
        /\ Goes(c, [call EXCEPT !.at = "wire", !.run = lastRun', !.options = options])
    BY <1>1, <1>14, <2>1 DEF Begin, BeginRun
  <2>3. lastRun' \in Run /\ runs'[lastRun'].options = kind
    BY <1>0, <2>2 DEF OpenRun, TypeOK
  <2>4. kind \in {"fresh", "resume", "plain"}
    BY <2>1
  <2> QED BY <1>12, <2>1, <2>2, <2>3, <2>4
<1>15. CASE Wire(c)
  <2>1. call.at = "wire"
    BY <1>1, <1>15 DEF Wire
  <2>2. CASE Goes(c, [call EXCEPT !.at = "query"])
    <3>1. PICK new : new = [call EXCEPT !.at = "query"]
      OBVIOUS
    <3>2. /\ new \in Call /\ new.key = call.key /\ new.expect = call.expect /\ new.run = call.run
          /\ new.at = "query"
      BY <1>2, <3>1 DEF Call
    <3> QED BY <1>10, <2>1, <2>2, <3>1, <3>2 DEF HasRun, HasHeard
  <2> QED BY <1>1, <1>5, <1>15, <2>2 DEF Wire
<1>16. CASE Attach(c)
  <2>1. PICK s : /\ call.at = "query" /\ Goes(c, [call EXCEPT !.at = "first", !.session = s])
                 /\ s \in created' /\ s \in 1 .. lastSession'
    <3>1. call.at = "query" /\ call.expect \in 1 .. lastSession /\ lastSession \in Nat
      BY <1>0, <1>1, <1>2, <1>16 DEF Attach, CallOK, Grew
    <3>2. CASE /\ Goes(c, [call EXCEPT !.at = "first", !.session = call.expect])
               /\ created' = created \cup {call.expect} /\ UNCHANGED tables
      BY <3>1, <3>2 DEF tables
    <3>3. CASE /\ Goes(c, [call EXCEPT !.at = "first", !.session = lastSession'])
               /\ created' = created \cup {lastSession'} /\ ObserveSession
      <4>1. lastSession' \in 1 .. lastSession'
        BY <3>1, <3>3 DEF ObserveSession
      <4> QED BY <3>1, <3>3, <4>1
    <3> QED BY <1>1, <1>16, <3>2, <3>3 DEF Attach
  <2>2. PICK new : new = [call EXCEPT !.at = "first", !.session = s]
    OBVIOUS
  <2>3. /\ new \in Call /\ new.key = call.key /\ new.expect = call.expect /\ new.run = call.run
        /\ new.at = "first" /\ new.session = s
    <3>1. s \in 0 .. MaxSession
      BY <1>0, <2>1 DEF TypeOK
    <3> QED BY <1>2, <2>2, <3>1 DEF Call
  <2> QED BY <1>10, <2>1, <2>2, <2>3 DEF HasRun, HasHeard
<1>17. ASSUME NEW at \in {"stream", "repin"}, call.at \in {"first", "repin"},
              Goes(c, [call EXCEPT !.at = at])
       PROVE  CallsInv'
  <2>1. PICK new : new = [call EXCEPT !.at = at]
    OBVIOUS
  <2>2. /\ new \in Call /\ new.key = call.key /\ new.expect = call.expect /\ new.run = call.run
        /\ new.at = at /\ new.session = call.session
    BY <1>2, <2>1 DEF Call
  <2>3. call.session \in 1 .. lastSession' /\ call.session \in created'
    BY <1>0, <1>2, <1>17 DEF CallOK, HasHeard, Grew
  <2> QED BY <1>10, <1>17, <2>1, <2>2, <2>3 DEF HasRun, HasHeard
<1>18. CASE FirstRow(c)
  <2>1. /\ call.at = "first"
        /\ Goes(c, [call EXCEPT !.at = IF call.session = call.expect THEN "stream" ELSE "repin"])
    BY <1>1, <1>18 DEF FirstRow
  <2> QED BY <1>17, <2>1
<1>19. CASE Repin(c)
  BY <1>1, <1>5, <1>17, <1>19 DEF Repin
<1>20. CASE Finish(c) \/ Ends(c)
  BY <1>5, <1>20 DEF Finish, Ends
<1> QED BY <1>7, <1>8, <1>9, <1>11, <1>13, <1>14, <1>15, <1>16, <1>18, <1>19, <1>20

-----------------------------------------------------------------------------
(* The history.                                                            *)

\* A reset or a deletion is noted.
LEMMA DisturbEffect ==
  ASSUME HistoryInv, NEW k \in Key, Disturb(k)
  PROVE  /\ disturbed' \in SUBSET (Key \X (1 .. MaxDisturbing)) /\ IsFiniteSet(disturbed')
         /\ \A j \in Key : Disturbed(j)' <=> Disturbed(j) \/ j = k
<1> DEFINE n == Cardinality(disturbed) + 1
<1>1. Cardinality(disturbed) \in Nat
  BY FS_CardinalityType DEF HistoryInv
<1>2. n \in 1 .. MaxDisturbing /\ disturbed' = disturbed \cup {<<k, n>>}
  BY <1>1 DEF Disturb
<1>3. IsFiniteSet(disturbed')
  BY <1>2, FS_AddElement DEF HistoryInv
<1> HIDE DEF n
<1>4. disturbed' \in SUBSET (Key \X (1 .. MaxDisturbing))
  BY <1>2 DEF HistoryInv
<1>5. ASSUME NEW j \in Key PROVE Disturbed(j)' <=> Disturbed(j) \/ j = k
  <2>1. ASSUME NEW m \in 1 .. MaxDisturbing
        PROVE  <<j, m>> \in disturbed' <=> <<j, m>> \in disturbed \/ (j = k /\ m = n)
    BY <1>2
  <2> QED BY <1>2, <2>1 DEF Disturbed
<1> QED BY <1>3, <1>4, <1>5

\* Only these steps open a run, and only these write the other histories.
LEMMA RunsOpen ==
  ASSUME DirectInv, [DirectNext]_vars
  PROVE  \/ /\ UNCHANGED <<opened, lastRun>>
         \/ \E c \in Caller : StartAcquired(c) \/ Begin(c)
BY DEF DirectNext, vars, direct, tables, DeleteAgent, CreateAgent, RunAgent, Spawn, Acquire,
       ListRuns, Wire, Attach, FirstRow, Repin, Finish, Ends, Save, SaveOver, Delete,
       ObserveSession, RecordAgentRun, Reconcile, FinishRun

LEMMA OpenedIsStored ==
  ASSUME DirectInv, [DirectNext]_vars
  PROVE  /\ opened' \in [Run -> {"fresh", "resume", "plain"}]
         /\ \A r \in Run : runs'[r] # NoRun /\ runs'[r].options # "plain"
                              => opened'[r] = runs'[r].options
<1>0. Grew /\ TypeOK /\ TypeOK' /\ RowsAreMinted /\ RowsAreMinted' /\ HistoryInv /\ CallsInv
  BY StepGrows DEF DirectInv, TablesInv
<1>1. CASE UNCHANGED <<opened, lastRun>>
  <2>1. \A r \in Run : runs'[r] # NoRun => r \in 1 .. lastRun
    BY <1>0, <1>1 DEF RowsAreMinted, Grew
  <2> QED BY <1>0, <1>1, <2>1 DEF Grew, HistoryInv
<1>2. ASSUME NEW c \in Caller, StartAcquired(c) \/ Begin(c)
      PROVE  /\ opened' \in [Run -> {"fresh", "resume", "plain"}]
             /\ \A r \in Run : runs'[r] # NoRun /\ runs'[r].options # "plain"
                                  => opened'[r] = runs'[r].options
  <2>1. PICK call : call = calls[c] /\ call \in Call
    BY <1>0 DEF CallsInv
  <2>2. PICK options, kind : /\ opened' = [opened EXCEPT ![lastRun'] = options]
                             /\ options \in {"fresh", "resume", "plain"}
                             /\ kind \in {"fresh", "resume", "plain"}
                             /\ kind = options \/ kind = "plain"
                             /\ \E k \in Key, s \in 0 .. MaxSession : OpenRun(k, kind, s)
    <3>1. CASE StartAcquired(c)
      <4>1. /\ OpenRun(call.key, "plain", 0) /\ call.key \in Key /\ 0 \in 0 .. MaxSession
            /\ opened' = [opened EXCEPT ![lastRun'] = call.options]
            /\ call.options \in {"fresh", "resume", "plain"}
        BY <2>1, <3>1 DEF StartAcquired, StartRun, Call
      <4> QED BY <4>1
    <3>2. CASE Begin(c)
      <4>1. PICK o : o = IF HasRuns(call.key) THEN "resume" ELSE "fresh"
        OBVIOUS
      <4>2. /\ OpenRun(call.key, o, call.expect) /\ call.key \in Key /\ call.expect \in 0 .. MaxSession
            /\ opened' = [opened EXCEPT ![lastRun'] = runs'[lastRun'].options]
        BY <2>1, <3>2, <4>1 DEF Begin, BeginRun, Call
      <4>3. runs'[lastRun'].options = o
        BY <1>0, <4>2 DEF OpenRun, TypeOK
      <4> QED BY <4>1, <4>2, <4>3
    <3> QED BY <1>2, <3>1, <3>2
  <2>3. PICK k \in Key, s \in 0 .. MaxSession : OpenRun(k, kind, s)
    BY <2>2
  <2>4. /\ lastRun' = lastRun + 1 /\ lastRun' \in Run /\ runs'[lastRun'].options = kind
        /\ \A r \in Run : r # lastRun' => runs'[r] = runs[r]
    BY <1>0, <2>3 DEF OpenRun, TypeOK
  <2>5. opened' \in [Run -> {"fresh", "resume", "plain"}]
    BY <1>0, <2>2 DEF HistoryInv
  <2>6. ASSUME NEW r \in Run, runs'[r] # NoRun, runs'[r].options # "plain"
        PROVE  opened'[r] = runs'[r].options
    <3>1. CASE r = lastRun'
      BY <1>0, <2>2, <2>4, <2>6, <3>1 DEF HistoryInv
    <3>2. CASE r # lastRun'
      BY <1>0, <2>2, <2>4, <2>6, <3>2 DEF HistoryInv
    <3> QED BY <3>1, <3>2
  <2> QED BY <2>5, <2>6
<1> QED BY <1>1, <1>2, RunsOpen

LEMMA HistoryStep ==
  ASSUME DirectInv, [DirectNext]_vars
  PROVE  HistoryInv'
<1>0. Grew /\ TypeOK /\ TypeOK' /\ HistoryInv /\ CallsInv
  BY StepGrows DEF DirectInv, TablesInv
<1>1. ASSUME UNCHANGED agentRuns \/ agentRuns' \subseteq agentRuns
      PROVE  \A a \in agentRuns' : a.run <= lastRun' /\ a.session <= lastSession'
  <2>1. \A a \in agentRuns' : /\ a.run \in Nat /\ a.session \in Nat
                              /\ a.run <= lastRun /\ a.session <= lastSession
    BY <1>0, <1>1 DEF TypeOK, HistoryInv
  <2> QED BY <1>0, <2>1 DEF Grew
<1>2. CASE UNCHANGED <<created, disturbed>> /\ (UNCHANGED agentRuns \/ agentRuns' \subseteq agentRuns)
  BY <1>0, <1>1, <1>2, OpenedIsStored DEF HistoryInv
<1>3. ASSUME NEW k \in Key, NEW reset \in BOOLEAN, CreateAgent(k, reset)
      PROVE  HistoryInv'
  <2>1. UNCHANGED <<created, agentRuns>> /\ (UNCHANGED disturbed \/ Disturb(k))
    BY <1>3 DEF CreateAgent, Save, SaveOver
  <2> QED BY <1>0, <1>1, <1>2, <2>1, OpenedIsStored, DisturbEffect DEF HistoryInv
<1>4. ASSUME NEW k \in Key, DeleteAgent(k)
      PROVE  HistoryInv'
  <2>1. UNCHANGED created /\ agentRuns' \subseteq agentRuns /\ Disturb(k)
    BY <1>4 DEF DeleteAgent, Delete
  <2> QED BY <1>0, <1>1, <2>1, OpenedIsStored, DisturbEffect DEF HistoryInv
<1>5. ASSUME NEW c \in Caller, Attach(c)
      PROVE  HistoryInv'
  <2>1. PICK call : call = calls[c] /\ CallOK(call)
    BY <1>0 DEF CallsInv
  <2>2. call.expect \in Session /\ lastSession \in 0 .. MaxSession
    BY <1>0, <1>5, <2>1 DEF Attach, CallOK, TypeOK
  <2>3. UNCHANGED <<disturbed, agentRuns>> /\ created' \subseteq created \cup {call.expect, lastSession'}
        /\ (lastSession' \in Session \/ created' \subseteq created \cup {call.expect})
    BY <1>0, <1>5, <2>1, <2>2 DEF Attach, ObserveSession, tables
  <2> QED BY <1>0, <1>1, <2>2, <2>3, OpenedIsStored DEF HistoryInv
<1>6. ASSUME NEW c \in Caller, FirstRow(c)
      PROVE  HistoryInv'
  <2>1. PICK call : call = calls[c] /\ CallOK(call)
    BY <1>0 DEF CallsInv
  <2>2. call.run \in 1 .. lastRun /\ call.session \in 1 .. lastSession
    BY <1>6, <2>1 DEF FirstRow, CallOK, HasRun, HasHeard
  <2>3. /\ UNCHANGED <<created, disturbed, lastRun, lastSession>>
        /\ agentRuns' = agentRuns \cup {[run |-> call.run, session |-> call.session]}
    BY <1>6, <2>1 DEF FirstRow, RecordAgentRun
  <2>4. \A a \in agentRuns' : a.run <= lastRun' /\ a.session <= lastSession'
    BY <1>0, <2>2, <2>3 DEF HistoryInv
  <2> QED BY <1>0, <2>3, <2>4, OpenedIsStored DEF HistoryInv
<1>7. CASE UNCHANGED vars
  BY <1>2, <1>7 DEF vars, direct, tables
<1>8. ASSUME NEW c \in Caller, NEW k \in Key,
             Spawn(c, k) \/ Acquire(c, k) \/ RunAgent(c, k)
      PROVE  UNCHANGED <<created, disturbed, agentRuns>>
  BY <1>8 DEF Spawn, Acquire, RunAgent, Save, SaveOver, tables
<1>9. ASSUME NEW c \in Caller, \/ ListRuns(c) \/ StartAcquired(c) \/ Begin(c) \/ Wire(c)
                               \/ Repin(c) \/ Finish(c) \/ Ends(c)
      PROVE  UNCHANGED <<created, disturbed, agentRuns>>
  BY <1>9 DEF ListRuns, StartAcquired, StartRun, Begin, BeginRun, OpenRun, Wire, Repin, Reconcile,
              Finish, FinishRun, Ends, tables
<1> QED BY <1>2, <1>3, <1>4, <1>5, <1>6, <1>7, <1>8, <1>9 DEF DirectNext

-----------------------------------------------------------------------------
LEMMA DirectStarts == DirectInit => DirectInv
<1> SUFFICES ASSUME DirectInit PROVE DirectInv
  OBVIOUS
<1>1. TablesInv
  BY TablesInit DEF DirectInit
<1>2. CallsInv
  BY IdleCall DEF DirectInit, CallsInv, CallOK, HasRun, HasHeard
<1>3. HistoryInv
  BY FS_EmptySet DEF DirectInit, Init, HistoryInv
<1> QED BY <1>1, <1>2, <1>3 DEF DirectInv

LEMMA DirectStep == DirectInv /\ [DirectNext]_vars => DirectInv'
<1> SUFFICES ASSUME DirectInv, [DirectNext]_vars PROVE DirectInv'
  OBVIOUS
<1>1. TablesInv' /\ Grew /\ HistoryInv'
  BY StepGrows, HistoryStep
<1>2. CallsInv'
  <2>1. CASE UNCHANGED calls
    BY <1>1, <2>1, CallsRest DEF DirectInv
  <2>2. CASE \/ UNCHANGED vars
             \/ \E k \in Key : DeleteAgent(k) \/ \E reset \in BOOLEAN : CreateAgent(k, reset)
    BY <2>1, <2>2 DEF vars, direct, DeleteAgent, CreateAgent
  <2>3. ASSUME NEW c \in Caller,
               \/ \E k \in Key : \/ RunAgent(c, k)
                                 \/ Spawn(c, k)
                                 \/ Acquire(c, k)
               \/ ListRuns(c) \/ StartAcquired(c) \/ Begin(c) \/ Wire(c)
               \/ Attach(c) \/ FirstRow(c) \/ Repin(c) \/ Finish(c) \/ Ends(c)
        PROVE  CallsInv'
    BY <2>3, ActionsMoveCalls
  <2> QED BY <2>2, <2>3 DEF DirectNext
<1> QED BY <1>1, <1>2 DEF DirectInv

(***************************************************************************)
(* The direct runs keep their state well typed, for any number of callers. *)
(***************************************************************************)
THEOREM DirectTypeCorrect == DirectSpec => []DirectTypeOK
<1>1. DirectInv => DirectTypeOK
  BY DEF DirectInv, TablesInv, CallsInv, HistoryInv, DirectTypeOK
<1> QED BY <1>1, DirectStarts, DirectStep, PTL DEF DirectSpec

(***************************************************************************)
(* "The entry's first-ever run starts a fresh session; later runs resume   *)
(* it" (pool_server.py:227-228), however many callers run one key at once. *)
(***************************************************************************)
THEOREM DirectLaterRunsResume == DirectSpec => []LaterRunsResume
<1>1. DirectInv => LaterRunsResume
  <2> SUFFICES ASSUME DirectInv, NEW r \in Run, runs[r] # NoRun, runs[r].options # "plain",
                      opened[r] = "fresh", NEW q \in RunsOf(runs[r].key)
               PROVE  r <= q
    BY DEF LaterRunsResume
  <2>1. runs[r].options = "fresh"
    BY DEF DirectInv, HistoryInv
  <2>2. runs[r].key \in Key /\ r \in RunsOf(runs[r].key)
    BY DEF DirectInv, TablesInv, TypeOK, RunRow, RunsOf
  <2> QED BY <2>1, <2>2 DEF DirectInv, TablesInv, FreshRunIsFirst
<1> QED BY <1>1, DirectStarts, DirectStep, PTL DEF DirectSpec

-----------------------------------------------------------------------------
(* Whose a session is.                                                     *)

\* The key's entry is on session x, a call of the key opens or streams on it,
\* or a stored run of the key was heard on it.
Standing(k, x) == agents[k] # NoEntry /\ agents[k].session = x
Carries(c, k, x) ==
    /\ calls[c].at # "idle" /\ calls[c].key = k
    /\ calls[c].expect = x \/ (calls[c].at \in HasHeard /\ calls[c].session = x)
Heard(k, x)    == \E a \in agentRuns : a.session = x /\ runs[a.run] # NoRun /\ runs[a.run].key = k
Uses(k, x)     == Standing(k, x) \/ (\E c \in Caller : Carries(c, k, x)) \/ Heard(k, x)

Apart == \A j, k \in Key : \A x \in Session : Uses(j, x) /\ Uses(k, x) => j = k

LEMMA UsedIsMinted ==
  ASSUME DirectInv, NEW k \in Key, NEW x \in Session, Uses(k, x)
  PROVE  x <= lastSession
<1>0. lastSession \in Nat
  BY DEF DirectInv, TablesInv, TypeOK
<1>1. CASE Standing(k, x)
  BY <1>1 DEF Standing, DirectInv, TablesInv, RowsAreMinted
<1>2. ASSUME NEW c \in Caller, Carries(c, k, x) PROVE x <= lastSession
  BY <1>0, <1>2 DEF Carries, DirectInv, CallsInv, CallOK
<1>3. CASE Heard(k, x)
  BY <1>3 DEF Heard, DirectInv, HistoryInv
<1> QED BY <1>1, <1>2, <1>3 DEF Uses

\* A step gives the session it mints to one key, and no key another's.
GivesTo(k) ==
    \A j \in Key, x \in Session : Uses(j, x)' => Uses(j, x) \/ (j = k /\ x > lastSession)

LEMMA ApartStep ==
  ASSUME DirectInv, Apart, NEW k \in Key, GivesTo(k)
  PROVE  Apart'
<1> SUFFICES ASSUME NEW i \in Key, NEW j \in Key, NEW x \in Session, Uses(i, x)', Uses(j, x)'
             PROVE  i = j
  BY DEF Apart
<1>1. lastSession \in Nat
  BY DEF DirectInv, TablesInv, TypeOK
<1> QED BY <1>1, UsedIsMinted DEF GivesTo, Apart

LEMMA HeardStays ==
  ASSUME DirectInv, [DirectNext]_vars, NEW k \in Key, NEW x \in Session, Heard(k, x)',
         agentRuns' \subseteq agentRuns
  PROVE  Heard(k, x)
<1>1. PICK a \in agentRuns' : a.session = x /\ runs'[a.run] # NoRun /\ runs'[a.run].key = k
  BY DEF Heard
<1>2. a \in agentRuns /\ a.run \in 1 .. lastRun
  BY <1>1 DEF DirectInv, HistoryInv, TablesInv, TypeOK
<1>3. runs[a.run] # NoRun /\ runs'[a.run].key = runs[a.run].key
  BY <1>1, <1>2, StepGrows DEF Grew
<1> QED BY <1>1, <1>2, <1>3 DEF Heard

\* The new call of a caller, of key k, carries what k used, or a session
\* minted just now.
Carriable(new, k) ==
    new.at # "idle" =>
        /\ new.key = k
        /\ \A x \in Session : new.expect = x \/ (new.at \in HasHeard /\ new.session = x)
                               => Uses(k, x) \/ x > lastSession

LEMMA CarryMoves ==
  ASSUME DirectInv, NEW c \in Caller, NEW new, calls' = [calls EXCEPT ![c] = new],
         NEW k \in Key, Carriable(new, k),
         NEW j \in Key, NEW x \in Session, NEW d \in Caller, Carries(d, j, x)'
  PROVE  Uses(j, x) \/ (j = k /\ x > lastSession)
<1>1. CASE d = c
  <2>1. calls'[c] = new
    BY DEF DirectInv, CallsInv
  <2> QED BY <1>1, <2>1 DEF Carries, Carriable
<1>2. CASE d # c
  <2>1. calls'[d] = calls[d]
    BY <1>2 DEF DirectInv, CallsInv
  <2> QED BY <2>1 DEF Carries, Uses
<1> QED BY <1>1, <1>2

LEMMA EntryStays ==
  ASSUME UNCHANGED agents, NEW j \in Key, NEW x \in Session, Standing(j, x)'
  PROVE  Standing(j, x)
BY DEF Standing

\* save gives its key the session it mints.
LEMMA SaveGives ==
  ASSUME DirectInv, NEW k \in Key, NEW reset \in BOOLEAN, Save(k, NoCwd, reset),
         NEW j \in Key, NEW x \in Session, Standing(j, x)'
  PROVE  Standing(j, x) \/ (j = k /\ x > lastSession)
<1>1. PICK e \in Entry :
         /\ agents' = [agents EXCEPT ![k] = e]
         /\ IF agents[k] # NoEntry /\ ~reset
            THEN e.session = agents[k].session ELSE e.session = lastSession + 1
  BY SaveEffect DEF DirectInv
<1>2. \A i \in Key : agents'[i] = IF i = k THEN e ELSE agents[i]
  BY <1>1 DEF DirectInv, TablesInv, TypeOK
<1>3. lastSession \in Nat
  BY DEF DirectInv, TablesInv, TypeOK
<1> QED BY <1>1, <1>2, <1>3 DEF Standing

\* The steps that leave the calls alone.
LEMMA SurfacesGive ==
  ASSUME DirectInv, [DirectNext]_vars, UNCHANGED calls, NEW k \in Key,
         DeleteAgent(k) \/ \E reset \in BOOLEAN : CreateAgent(k, reset)
  PROVE  GivesTo(k)
<1> SUFFICES ASSUME NEW j \in Key, NEW x \in Session, Uses(j, x)'
             PROVE  Uses(j, x) \/ (j = k /\ x > lastSession)
  BY DEF GivesTo
<1>1. (\E c \in Caller : Carries(c, j, x)') => \E c \in Caller : Carries(c, j, x)
  BY DEF Carries
<1>2. agentRuns' \subseteq agentRuns
  BY DEF CreateAgent, DeleteAgent, Delete, Save, SaveOver
<1>3. Standing(j, x)' => Standing(j, x) \/ (j = k /\ x > lastSession)
  <2>1. CASE DeleteAgent(k)
    BY <2>1 DEF DeleteAgent, Delete, Standing, DirectInv, TablesInv, TypeOK
  <2>2. ASSUME NEW reset \in BOOLEAN, CreateAgent(k, reset)
        PROVE  Standing(j, x)' => Standing(j, x) \/ (j = k /\ x > lastSession)
    BY <2>2, SaveGives DEF CreateAgent
  <2> QED BY <2>1, <2>2
<1> QED BY <1>1, <1>2, <1>3, HeardStays DEF Uses

\* A call that opens on the entry's session, be it saved just before or not.
Opens(c, k, new) ==
    /\ calls' = [calls EXCEPT ![c] = new] /\ new.key = k
    /\ new.at \in {"begin", "list"} /\ new.expect = agents'[k].session /\ new.run = 0
    /\ agents'[k] # NoEntry

LEMMA Opening ==
  ASSUME DirectInv, [DirectNext]_vars, NEW c \in Caller, NEW k \in Key,
         \/ RunAgent(c, k)
         \/ Spawn(c, k)
         \/ \E i \in Key : Acquire(c, i) /\ k = Derived[i]
  PROVE  \E new : Opens(c, k, new)
<1>0. TypeOK /\ TypeOK'
  BY StepGrows DEF DirectInv, TablesInv
<1>1. CASE RunAgent(c, k)
  <2>2. PICK new : new = [Idle EXCEPT !.at = "begin", !.key = k, !.expect = agents[k].session]
    OBVIOUS
  <2>3. new.key = k /\ new.at = "begin" /\ new.expect = agents[k].session /\ new.run = 0
    BY <2>2, IdleCall DEF Call
  <2>4. calls' = [calls EXCEPT ![c] = new] /\ agents[k] # NoEntry /\ agents' = agents
    BY <1>1, <2>2 DEF RunAgent, Goes, tables
  <2> QED BY <2>3, <2>4 DEF Opens
<1>2. CASE Spawn(c, k)
  <2>1. PICK new : new = [Idle EXCEPT !.at = "begin", !.key = k,
                                      !.expect = agents'[k].session]
    OBVIOUS
  <2>2. new.key = k /\ new.at = "begin" /\ new.expect = agents'[k].session /\ new.run = 0
    BY <2>1, IdleCall DEF Call
  <2>3. calls' = [calls EXCEPT ![c] = new] /\ Save(k, NoCwd, FALSE)
    BY <1>2, <2>1 DEF Spawn, Goes
  <2>4. agents'[k] # NoEntry
    <3>1. PICK e \in Entry : agents' = [agents EXCEPT ![k] = e]
      BY <2>3, SaveEffect DEF DirectInv
    <3> QED BY <1>0, <3>1, RowAssumption DEF TypeOK
  <2> QED BY <2>2, <2>3, <2>4 DEF Opens
<1>3. CASE \E i \in Key : Acquire(c, i) /\ k = Derived[i]
  <2>1. PICK new : new = [Idle EXCEPT !.at = "list", !.key = k,
                                      !.expect = agents'[k].session]
    OBVIOUS
  <2>2. new.key = k /\ new.at = "list" /\ new.expect = agents'[k].session /\ new.run = 0
    BY <2>1, IdleCall DEF Call
  <2>3. calls' = [calls EXCEPT ![c] = new] /\ Save(k, NoCwd, FALSE)
    BY <1>3, <2>1 DEF Acquire, Goes
  <2>4. agents'[k] # NoEntry
    <3>1. PICK e \in Entry : agents' = [agents EXCEPT ![k] = e]
      BY <2>3, SaveEffect DEF DirectInv
    <3> QED BY <1>0, <3>1, RowAssumption DEF TypeOK
  <2> QED BY <2>2, <2>3, <2>4 DEF Opens
<1> QED BY <1>1, <1>2, <1>3

LEMMA OpeningGives ==
  ASSUME DirectInv, [DirectNext]_vars, NEW c \in Caller, NEW k \in Key,
         \/ RunAgent(c, k)
         \/ Spawn(c, k)
         \/ \E i \in Key : Acquire(c, i) /\ k = Derived[i]
  PROVE  GivesTo(k)
<1>1. PICK new : Opens(c, k, new)
  BY Opening
<1> SUFFICES ASSUME NEW j \in Key, NEW x \in Session, Uses(j, x)'
             PROVE  Uses(j, x) \/ (j = k /\ x > lastSession)
  BY DEF GivesTo
<1>2. \A i \in Key, y \in Session : Standing(i, y)' => Standing(i, y) \/ (i = k /\ y > lastSession)
  <2>1. CASE UNCHANGED agents
    BY <2>1, EntryStays
  <2>2. CASE Save(k, NoCwd, FALSE)
    BY <2>2, SaveGives
  <2> QED BY <2>1, <2>2 DEF RunAgent, Spawn, Acquire, tables
<1>3. \A y \in Session : new.expect = y => Uses(k, y) \/ y > lastSession
  BY <1>1, <1>2 DEF Opens, Standing, Uses
<1>4. \A d \in Caller : Carries(d, j, x)' => Uses(j, x) \/ (j = k /\ x > lastSession)
  <2>1. Carriable(new, k)
    BY <1>1, <1>3 DEF Carriable, HasHeard, Opens
  <2> QED BY <1>1, <2>1, CarryMoves DEF Opens
<1>5. agentRuns' \subseteq agentRuns
  BY DEF RunAgent, Spawn, Acquire, Save, SaveOver, tables
<1> QED BY <1>2, <1>4, <1>5, HeardStays DEF Uses

\* A call that goes on carries what it carried, and the session its stream
\* opened on.
Proceeds(c, new) ==
    /\ calls' = [calls EXCEPT ![c] = new]
    /\ new.at # "idle" =>
         /\ calls[c].at # "idle" /\ new.key = calls[c].key /\ new.expect = calls[c].expect
         /\ new.at \in HasHeard => \/ calls[c].at \in HasHeard /\ new.session = calls[c].session
                                   \/ new.session = calls[c].expect
                                   \/ new.session > lastSession
         /\ new.run = calls[c].run \/ (new.run > lastRun /\ runs'[new.run] # NoRun)
         /\ new.at \in {"wire", "query", "first"} => calls[c].at \notin {"repin", "stream"}
         /\ new.at \in {"repin", "stream"} =>
              /\ \/ calls[c].at = "first" /\ FirstRow(c)
                 \/ calls[c].at = "repin" /\ Reconcile(calls[c].key, calls[c].session)
              /\ new.run = calls[c].run /\ new.session = calls[c].session
              /\ new.at = "stream" /\ calls[c].at = "first" => new.session = new.expect

LEMMA OpenedRow ==
  ASSUME DirectInv, NEW k \in Key, NEW kind \in {"fresh", "resume", "plain"},
         NEW s \in 0 .. MaxSession, OpenRun(k, kind, s)
  PROVE  runs'[lastRun'] # NoRun
<1>1. runs \in [Run -> RunRow \cup {NoRun}] /\ lastRun' = lastRun + 1 /\ lastRun' \in Run
  BY DEF OpenRun, DirectInv, TablesInv, TypeOK
<1>2. runs'[lastRun'] = [key |-> k, state |-> "open", options |-> kind, session |-> s]
  BY <1>1 DEF OpenRun
<1>3. runs'[lastRun'] \in RunRow
  BY <1>2 DEF RunRow
<1> QED BY <1>3, RowAssumption

LEMMA GoingOn ==
  ASSUME DirectInv, NEW c \in Caller, NEW k \in Key, k = calls[c].key,
         \/ ListRuns(c) \/ StartAcquired(c) \/ Begin(c) \/ Wire(c)
         \/ Attach(c) \/ FirstRow(c) \/ Repin(c) \/ Finish(c) \/ Ends(c)
  PROVE  \E new : Proceeds(c, new)
<1>1. PICK call : call = calls[c] /\ call \in Call /\ call.key = k
  BY DEF DirectInv, CallsInv
<1>2. Idle.at = "idle"
  BY IdleCall
<1>3. lastSession \in Nat /\ lastRun \in Nat
  BY DEF DirectInv, TablesInv, TypeOK
<1>4. Goes(c, Idle) => \E new : Proceeds(c, new)
  BY <1>2 DEF Goes, Proceeds
<1>5. CASE ListRuns(c)
  <2>1. PICK new : new = [call EXCEPT !.at = "start", !.options = IF HasRuns(call.key) THEN "resume" ELSE "fresh"]
    OBVIOUS
  <2>2. Proceeds(c, new)
    BY <1>1, <1>5, <2>1 DEF ListRuns, Goes, Call, HasHeard, Proceeds
  <2> QED BY <2>2
<1>6. CASE StartAcquired(c)
  <2>1. PICK new : new = [call EXCEPT !.at = "query", !.run = lastRun']
    OBVIOUS
  <2>2. OpenRun(call.key, "plain", 0) /\ call.at = "start" /\ calls' = [calls EXCEPT ![c] = new]
    BY <1>1, <1>6, <2>1 DEF StartAcquired, StartRun, Goes
  <2>3. /\ new.at = "query" /\ new.key = call.key /\ new.expect = call.expect
        /\ new.run = lastRun' /\ lastRun' = lastRun + 1
    BY <1>1, <2>1, <2>2 DEF Call, OpenRun
  <2>4. runs'[lastRun'] # NoRun
    BY <1>1, <2>2, OpenedRow DEF Call
  <2>5. Proceeds(c, new)
    BY <1>1, <1>3, <2>2, <2>3, <2>4 DEF HasHeard, Proceeds
  <2> QED BY <2>5
<1>7. CASE Begin(c)
  <2>1. PICK new : new = [call EXCEPT !.at = "wire", !.run = lastRun',
                                      !.options = runs'[lastRun'].options]
    OBVIOUS
  <2>2. calls' = [calls EXCEPT ![c] = new] /\ call.at = "begin"
    BY <1>1, <1>7, <2>1 DEF Begin, Goes
  <2>3. /\ new.at = "wire" /\ new.key = call.key /\ new.expect = call.expect
        /\ new.run = lastRun' /\ lastRun' = lastRun + 1
    BY <1>1, <1>3, <1>7, <2>1 DEF Call, Begin, BeginRun, OpenRun
  <2>4. runs'[lastRun'] # NoRun
    <3>1. PICK kind \in {"fresh", "resume", "plain"} : OpenRun(call.key, kind, call.expect)
      BY <1>1, <1>7 DEF Begin, BeginRun
    <3> QED BY <1>1, <3>1, OpenedRow DEF Call
  <2>5. Proceeds(c, new)
    BY <1>1, <1>3, <2>2, <2>3, <2>4 DEF HasHeard, Proceeds
  <2> QED BY <2>5
<1>8. CASE Wire(c)
  <2>1. CASE Goes(c, [call EXCEPT !.at = "query"])
    <3>1. PICK new : new = [call EXCEPT !.at = "query"]
      OBVIOUS
    <3>2. Proceeds(c, new)
      BY <1>1, <1>3, <1>8, <2>1, <3>1 DEF Wire, Goes, Call, HasHeard, Proceeds
    <3> QED BY <3>2
  <2> QED BY <1>1, <1>4, <1>8, <2>1 DEF Wire
<1>9. CASE Attach(c)
  <2>1. PICK s : /\ Goes(c, [call EXCEPT !.at = "first", !.session = s]) /\ call.at = "query"
                 /\ s = call.expect \/ s > lastSession
    <3>1. call.at = "query"
      BY <1>1, <1>9 DEF Attach
    <3>2. CASE Goes(c, [call EXCEPT !.at = "first", !.session = call.expect])
      BY <3>1, <3>2
    <3>3. CASE ObserveSession /\ Goes(c, [call EXCEPT !.at = "first", !.session = lastSession'])
      <4>1. PICK t : t = lastSession'
        OBVIOUS
      <4>2. t > lastSession
        BY <1>3, <3>3, <4>1 DEF ObserveSession
      <4> QED BY <3>1, <3>3, <4>1, <4>2
    <3> QED BY <1>1, <1>9, <3>2, <3>3 DEF Attach
  <2>2. PICK new : new = [call EXCEPT !.at = "first", !.session = s]
    OBVIOUS
  <2>3. Proceeds(c, new)
    BY <1>1, <2>1, <2>2 DEF Goes, Call, Proceeds
  <2> QED BY <2>3
<1>10. ASSUME NEW at \in {"stream", "repin"},
              \/ call.at = "first" /\ FirstRow(c)
              \/ call.at = "repin" /\ Reconcile(call.key, call.session),
              at = "stream" /\ call.at = "first" => call.session = call.expect,
              Goes(c, [call EXCEPT !.at = at])
       PROVE  \E new : Proceeds(c, new)
  <2>1. PICK new : new = [call EXCEPT !.at = at]
    OBVIOUS
  <2>2. Proceeds(c, new)
    BY <1>1, <1>10, <2>1 DEF Goes, Call, HasHeard, Proceeds
  <2> QED BY <2>2
<1>11. CASE FirstRow(c) \/ Repin(c) \/ Finish(c) \/ Ends(c)
  <2>1. CASE FirstRow(c)
    <3>1. PICK at : at = IF call.session = call.expect THEN "stream" ELSE "repin"
      OBVIOUS
    <3>2. call.at = "first" /\ Goes(c, [call EXCEPT !.at = at])
      BY <1>1, <2>1, <3>1 DEF FirstRow
    <3> QED BY <1>10, <2>1, <3>1, <3>2
  <2>2. CASE Repin(c)
    BY <1>1, <1>4, <1>10, <2>2 DEF Repin
  <2> QED BY <1>4, <1>11, <2>1, <2>2 DEF Finish, Ends
<1> QED BY <1>5, <1>6, <1>7, <1>8, <1>9, <1>11

LEMMA RunningGives ==
  ASSUME DirectInv, [DirectNext]_vars, NEW c \in Caller, NEW k \in Key, k = calls[c].key,
         \/ ListRuns(c) \/ StartAcquired(c) \/ Begin(c) \/ Wire(c)
         \/ Attach(c) \/ FirstRow(c) \/ Repin(c) \/ Finish(c) \/ Ends(c)
  PROVE  GivesTo(k)
<1> SUFFICES ASSUME NEW j \in Key, NEW x \in Session, Uses(j, x)'
             PROVE  Uses(j, x) \/ (j = k /\ x > lastSession)
  BY DEF GivesTo
<1>1. PICK call : call = calls[c] /\ call \in Call /\ call.key = k /\ CallOK(call)
  BY DEF DirectInv, CallsInv
<1>2. call.at \in HasHeard => Uses(k, call.session)
  BY <1>1 DEF Uses, Carries, HasHeard
<1>3. \A d \in Caller : Carries(d, j, x)' => Uses(j, x) \/ (j = k /\ x > lastSession)
  <2>1. PICK new : Proceeds(c, new)
    BY GoingOn
  <2>2. Carriable(new, k)
    <3>1. \A y \in Session : Carries(c, k, y) => Uses(k, y)
      BY DEF Uses
    <3>2. ASSUME NEW y \in Session, new.at # "idle",
                 new.expect = y \/ (new.at \in HasHeard /\ new.session = y)
          PROVE  Carries(c, k, y) \/ y > lastSession
      BY <2>1, <3>2 DEF Proceeds, Carries
    <3> QED BY <2>1, <3>1, <3>2 DEF Carriable, Proceeds
  <2>3. calls' = [calls EXCEPT ![c] = new]
    BY <2>1 DEF Proceeds
  <2> QED BY <2>2, <2>3, CarryMoves
<1>4. Standing(j, x)' => Uses(j, x)
  <2>1. CASE UNCHANGED agents
    BY <2>1, EntryStays DEF Uses
  <2>2. CASE call.at = "repin" /\ Reconcile(k, call.session)
    <3>1. \A i \in Key \ {k} : agents'[i] = agents[i]
      BY <2>2 DEF Reconcile
    <3>2. agents'[k].session = call.session
      BY <2>2 DEF Reconcile, DirectInv, TablesInv, TypeOK
    <3>3. CASE j = k
      BY <1>2, <2>2, <3>2, <3>3 DEF Standing, HasHeard
    <3>4. CASE j # k
      BY <3>1, <3>4 DEF Standing, Uses
    <3> QED BY <3>3, <3>4
  <2> QED BY <1>1, <2>1, <2>2 DEF ListRuns, StartAcquired, StartRun, Begin, BeginRun, OpenRun, Wire,
            Attach, ObserveSession, FirstRow, RecordAgentRun, Repin, Finish, FinishRun, Ends, tables
<1>5. Heard(j, x)' => Uses(j, x)
  <2>1. CASE agentRuns' \subseteq agentRuns
    BY <2>1, HeardStays DEF Uses
  <2>2. CASE FirstRow(c)
    <3>1. /\ call.at = "first" /\ agentRuns' = agentRuns \cup {[run |-> call.run, session |-> call.session]}
          /\ UNCHANGED runs
      BY <1>1, <2>2 DEF FirstRow, RecordAgentRun
    <3>2. runs[call.run] # NoRun => runs[call.run].key = k
      BY <1>1, <3>1 DEF CallOK, HasRun
    <3> SUFFICES ASSUME Heard(j, x)' PROVE Uses(j, x)
      OBVIOUS
    <3>3. PICK a \in agentRuns' : a.session = x /\ runs[a.run] # NoRun /\ runs[a.run].key = j
      BY <3>1 DEF Heard
    <3>4. CASE a \in agentRuns
      BY <3>3, <3>4 DEF Heard, Uses
    <3>5. CASE a = [run |-> call.run, session |-> call.session]
      BY <1>2, <3>1, <3>2, <3>3, <3>5 DEF HasHeard
    <3> QED BY <3>1, <3>3, <3>4, <3>5
  <2> QED BY <2>1, <2>2 DEF ListRuns, StartAcquired, StartRun, Begin, BeginRun, OpenRun, Wire,
            Attach, ObserveSession, Repin, Reconcile, Finish, FinishRun, Ends, tables
<1> QED BY <1>3, <1>4, <1>5 DEF Uses

LEMMA DirectStayApart == DirectInv /\ Apart /\ [DirectNext]_vars => Apart'
<1> SUFFICES ASSUME DirectInv, Apart, [DirectNext]_vars PROVE \E k \in Key : GivesTo(k)
  BY ApartStep
<1>1. CASE UNCHANGED vars
  BY <1>1, KeyAssumption DEF vars, direct, tables, GivesTo, Uses, Standing, Carries, Heard
<1>2. ASSUME NEW k \in Key, DeleteAgent(k) \/ \E reset \in BOOLEAN : CreateAgent(k, reset)
      PROVE  GivesTo(k)
  BY <1>2, SurfacesGive DEF DeleteAgent, CreateAgent
<1>3. ASSUME NEW c \in Caller, NEW k \in Key,
             Spawn(c, k) \/ Acquire(c, k) \/ RunAgent(c, k)
      PROVE  \E i \in Key : GivesTo(i)
  <2>1. Acquire(c, k) => Derived[k] \in Key
    BY DEF Acquire
  <2> QED BY <1>3, <2>1, OpeningGives
<1>4. ASSUME NEW c \in Caller,
             \/ ListRuns(c) \/ StartAcquired(c) \/ Begin(c) \/ Wire(c)
             \/ Attach(c) \/ FirstRow(c) \/ Repin(c) \/ Finish(c) \/ Ends(c)
      PROVE  \E k \in Key : GivesTo(k)
  <2>1. calls[c].key \in Key
    BY DEF DirectInv, CallsInv, Call
  <2> QED BY <1>4, <2>1, RunningGives
<1> QED BY <1>1, <1>2, <1>3, <1>4 DEF DirectNext

(***************************************************************************)
(* A conversation belongs to one key, however many calls run, drift to     *)
(* sessions of the SDK's own, are acquired, reset or deleted at once       *)
(* (acquire_tool.py:108-111; reconcile_session by key, pool.py:298).       *)
(***************************************************************************)
THEOREM DirectOneKeyPerSession == DirectSpec => []OneKeyPerSession
<1>1. DirectInit => DirectInv /\ Apart
  <2>1. DirectInit => Apart
    BY IdleCall DEF DirectInit, Init, Apart, Uses, Standing, Carries, Heard
  <2> QED BY <2>1, DirectStarts
<1>2. DirectInv /\ Apart /\ [DirectNext]_vars => (DirectInv /\ Apart)'
  BY DirectStep, DirectStayApart
<1>3. DirectInv /\ Apart => OneKeyPerSession
  <2> SUFFICES ASSUME DirectInv, Apart, NEW k \in Key, agents[k] # NoEntry
               PROVE  /\ \A j \in Key \ {k} : agents[j] # NoEntry => agents[j].session # agents[k].session
                      /\ \A a \in agentRuns : a.session = agents[k].session /\ runs[a.run] # NoRun
                                                => runs[a.run].key = k
    BY DEF OneKeyPerSession
  <2>1. PICK s \in Session : s = agents[k].session
    BY DEF DirectInv, TablesInv, TypeOK, Entry
  <2>2. Uses(k, s)
    BY <2>1 DEF Uses, Standing
  <2>3. ASSUME NEW j \in Key \ {k}, agents[j] # NoEntry PROVE agents[j].session # s
    BY <2>2, <2>3 DEF Uses, Standing, Apart
  <2>4. ASSUME NEW a \in agentRuns, a.session = s, runs[a.run] # NoRun PROVE runs[a.run].key = k
    <3>1. runs[a.run].key \in Key
      BY <2>4 DEF DirectInv, TablesInv, TypeOK, RunRow
    <3>2. Uses(runs[a.run].key, s)
      BY <2>4 DEF Uses, Heard
    <3> QED BY <2>2, <3>1, <3>2 DEF Apart
  <2> QED BY <2>1, <2>3, <2>4
<1> QED BY <1>1, <1>2, <1>3, PTL DEF DirectSpec

-----------------------------------------------------------------------------
(* What a run has heard.                                                   *)

LEMMA CallersMove ==
  ASSUME DirectInv, [DirectNext]_vars, NEW c \in Caller
  PROVE  \/ calls'[c] = calls[c]
         \/ \E new : /\ calls'[c] = new
                     /\ Proceeds(c, new) \/ \E k \in Key : Opens(c, k, new)
<1>0. calls \in [Caller -> Call]
  BY DEF DirectInv, CallsInv
<1>1. CASE UNCHANGED calls
  BY <1>1
<1>2. ASSUME NEW d \in Caller,
             \E new : Proceeds(d, new) \/ \E k \in Key : Opens(d, k, new)
      PROVE  \/ calls'[c] = calls[c]
             \/ \E new : /\ calls'[c] = new
                         /\ Proceeds(c, new) \/ \E k \in Key : Opens(c, k, new)
  <2>1. PICK new : Proceeds(d, new) \/ \E k \in Key : Opens(d, k, new)
    BY <1>2
  <2>2. calls' = [calls EXCEPT ![d] = new]
    BY <2>1 DEF Proceeds, Opens
  <2>3. CASE d = c
    BY <1>0, <2>1, <2>2, <2>3
  <2>4. CASE d # c
    BY <1>0, <2>2, <2>4
  <2> QED BY <2>3, <2>4
<1>3. CASE \/ UNCHANGED vars
           \/ \E k \in Key : DeleteAgent(k) \/ \E reset \in BOOLEAN : CreateAgent(k, reset)
  BY <1>1, <1>3 DEF vars, direct, DeleteAgent, CreateAgent
<1>4. ASSUME NEW d \in Caller, NEW k \in Key,
             Spawn(d, k) \/ Acquire(d, k) \/ RunAgent(d, k)
      PROVE  \E new : Proceeds(d, new) \/ \E j \in Key : Opens(d, j, new)
  <2>1. Acquire(d, k) => Derived[k] \in Key
    BY DEF Acquire
  <2> QED BY <1>4, <2>1, Opening
<1>5. ASSUME NEW d \in Caller,
             \/ ListRuns(d) \/ StartAcquired(d) \/ Begin(d) \/ Wire(d)
             \/ Attach(d) \/ FirstRow(d) \/ Repin(d) \/ Finish(d) \/ Ends(d)
      PROVE  \E new : Proceeds(d, new) \/ \E j \in Key : Opens(d, j, new)
  <2>1. calls[d].key \in Key
    BY <1>0 DEF Call
  <2> QED BY <1>5, <2>1, GoingOn
<1> QED BY <1>2, <1>3, <1>4, <1>5 DEF DirectNext

\* A run that was heard has a row; a call that has been heard has its own.
WasHeard(r) == \E a \in agentRuns : a.run = r
RowOf(call) == [run |-> call.run, session |-> call.session]

\* The run of a call is open; it has a row beyond its first message, on the
\* session of its stream, and none before.
Listens(call) ==
    /\ call.at \in HasRun /\ runs[call.run] # NoRun => runs[call.run].state = "open"
    /\ call.at \in {"repin", "stream"} /\ runs[call.run] # NoRun => RowOf(call) \in agentRuns
    /\ call.at \in {"wire", "query", "first"} => ~WasHeard(call.run)

ListensInv == \A c \in Caller : Listens(calls[c])

\* Only a first main message adds a row, its own.
LEMMA RowsOfMessages ==
  ASSUME [DirectNext]_vars
  PROVE  \/ agentRuns' \subseteq agentRuns
         \/ \E c \in Caller : /\ FirstRow(c)
                              /\ agentRuns' = agentRuns \cup {RowOf(calls[c])}
<1>1. ASSUME NEW c \in Caller, FirstRow(c)
      PROVE  agentRuns' = agentRuns \cup {RowOf(calls[c])}
  BY <1>1 DEF FirstRow, RecordAgentRun, RowOf
<1>2. ASSUME NEW k \in Key, DeleteAgent(k) \/ \E reset \in BOOLEAN : CreateAgent(k, reset)
      PROVE  agentRuns' \subseteq agentRuns
  BY <1>2 DEF DeleteAgent, Delete, CreateAgent, Save, SaveOver
<1>3. ASSUME NEW c \in Caller, NEW k \in Key, RunAgent(c, k) \/ Spawn(c, k) \/ Acquire(c, k)
      PROVE  agentRuns' \subseteq agentRuns
  BY <1>3 DEF RunAgent, Spawn, Acquire, Save, SaveOver, tables
<1>4. ASSUME NEW c \in Caller, \/ ListRuns(c) \/ StartAcquired(c) \/ Begin(c) \/ Wire(c)
                               \/ Attach(c) \/ Repin(c) \/ Finish(c) \/ Ends(c)
      PROVE  agentRuns' \subseteq agentRuns
  BY <1>4 DEF ListRuns, StartAcquired, StartRun, Begin, BeginRun, OpenRun, Wire, Attach,
              ObserveSession, Repin, Reconcile, Finish, FinishRun, Ends, tables
<1>5. CASE UNCHANGED vars
  BY <1>5 DEF vars, tables
<1> QED BY <1>1, <1>2, <1>3, <1>4, <1>5 DEF DirectNext

\* A row is opened, rests, goes, or is finished by its own call.
LEMMA RowsMove ==
  ASSUME DirectInv, [DirectNext]_vars, NEW r \in Run, runs'[r] # NoRun
  PROVE  \/ runs'[r] = runs[r]
         \/ runs'[r].state = "open"
         \/ /\ runs'[r].state = "finished"
            /\ \E c \in Caller : /\ Finish(c) /\ calls[c].run = r /\ runs[r] # NoRun
                                 /\ calls' = [calls EXCEPT ![c] = Idle]
<1>0. runs \in [Run -> RunRow \cup {NoRun}] /\ lastRun \in Nat
  BY DEF DirectInv, TablesInv, TypeOK
<1>1. CASE UNCHANGED runs
  BY <1>1
<1>2. ASSUME NEW k \in Key, Delete(k) PROVE runs'[r] = runs[r]
  BY <1>2 DEF Delete
<1>3. ASSUME NEW k, NEW options, NEW s, OpenRun(k, options, s)
      PROVE  runs'[r] = runs[r] \/ runs'[r].state = "open"
  <2>1. CASE r = lastRun + 1
    BY <1>0, <1>3, <2>1 DEF OpenRun
  <2>2. CASE r # lastRun + 1
    BY <1>0, <1>3, <2>2 DEF OpenRun
  <2> QED BY <2>1, <2>2
<1>4. ASSUME NEW c \in Caller, Finish(c)
      PROVE  \/ runs'[r] = runs[r]
             \/ /\ runs'[r].state = "finished"
                /\ Finish(c) /\ calls[c].run = r /\ runs[r] # NoRun
                /\ calls' = [calls EXCEPT ![c] = Idle]
  <2>1. CASE UNCHANGED tables
    BY <2>1 DEF tables
  <2>2. PICK q : q = calls[c].run
    OBVIOUS
  <2>3. CASE FinishRun(q, "finished")
    <3>1. runs[q] # NoRun /\ runs' = [runs EXCEPT ![q].state = "finished"]
      BY <2>3 DEF FinishRun
    <3>2. CASE r = q
      <4>1. runs[r] \in RunRow
        BY <1>0, <3>1, <3>2
      <4>2. runs'[r].state = "finished"
        BY <1>0, <3>1, <3>2, <4>1 DEF RunRow
      <4> QED BY <1>4, <2>2, <3>1, <3>2, <4>2 DEF Finish, Goes
    <3>3. CASE r # q
      BY <1>0, <3>1, <3>3
    <3> QED BY <3>2, <3>3
  <2> QED BY <1>4, <2>1, <2>2, <2>3 DEF Finish
<1>5. CASE \/ UNCHANGED vars
           \/ \E k \in Key, reset \in BOOLEAN : CreateAgent(k, reset)
           \/ \E c \in Caller : \/ \E k \in Key : \/ RunAgent(c, k)
                                                  \/ Spawn(c, k) \/ Acquire(c, k)
                                \/ ListRuns(c) \/ Wire(c) \/ Attach(c) \/ FirstRow(c) \/ Repin(c)
                                \/ Ends(c)
  BY <1>1, <1>5 DEF vars, tables, CreateAgent, RunAgent, Spawn, Acquire, Save, SaveOver, ListRuns,
                    Wire, Attach, ObserveSession, FirstRow, RecordAgentRun, Repin, Reconcile, Ends
<1>6. ASSUME NEW c \in Caller, StartAcquired(c) \/ Begin(c)
      PROVE  \E k, options, s : OpenRun(k, options, s)
  BY <1>6 DEF StartAcquired, StartRun, Begin, BeginRun
<1>7. ASSUME NEW k \in Key, DeleteAgent(k) PROVE Delete(k)
  BY <1>7 DEF DeleteAgent
<1> QED BY <1>2, <1>3, <1>4, <1>5, <1>6, <1>7 DEF DirectNext

LEMMA ListensStep ==
  ASSUME DirectInv, ListensInv, [DirectNext]_vars
  PROVE  ListensInv'
<1> SUFFICES ASSUME NEW c \in Caller PROVE Listens(calls[c])'
  BY DEF ListensInv
<1>0. /\ Grew /\ CallsInv /\ CallsInv' /\ HistoryInv /\ TypeOK
      /\ RowsAreMinted /\ RowsAreMinted' /\ TypeOK'
  BY StepGrows, DirectStep DEF DirectInv, TablesInv
<1>1. PICK call, new : call = calls[c] /\ new = calls'[c]
  OBVIOUS
<1>2. CallOK(call) /\ Listens(call)
  BY <1>0, <1>1 DEF CallsInv, ListensInv
<1>3. CallOK(new)'
  BY <1>0, <1>1 DEF CallsInv, CallOK
<1>4. new = call \/ Proceeds(c, new) \/ new.at \in {"begin", "list"}
  BY <1>1, CallersMove DEF Opens
<1>5. new.at \in HasRun => /\ new.run \in 1 .. lastRun'
                           /\ \/ new.run = call.run /\ call.at \in HasRun
                              \/ new.run > lastRun
  <2>1. new.at \in HasRun => new.run \in 1 .. lastRun'
    BY <1>3 DEF CallOK
  <2>2. call.at \notin HasRun => call.run = 0
    BY <1>2 DEF CallOK
  <2>3. new.at \in HasRun => new.run = call.run \/ new.run > lastRun
    BY <1>1, <1>4 DEF Proceeds, HasRun
  <2> QED BY <2>1, <2>2, <2>3
\* Its run is open.
<1>6. ASSUME new.at \in HasRun, runs'[new.run] # NoRun
      PROVE  runs'[new.run].state = "open"
  <2>1. PICK r \in Run : r = new.run
    BY <1>0, <1>5, <1>6 DEF TypeOK
  <2>2. CASE runs'[r] = runs[r]
    <3>1. r <= lastRun /\ runs[r] # NoRun
      BY <1>0, <1>6, <2>1, <2>2 DEF RowsAreMinted
    <3>2. r = call.run /\ call.at \in HasRun
      BY <1>0, <1>5, <1>6, <2>1, <3>1 DEF Grew
    <3> QED BY <1>2, <2>1, <2>2, <3>1, <3>2 DEF Listens
  <2>3. ASSUME NEW d \in Caller, Finish(d), calls[d].run = r, runs[r] # NoRun,
               calls' = [calls EXCEPT ![d] = Idle]
        PROVE  FALSE
    <3>1. r <= lastRun /\ r # 0
      BY <1>0, <2>3 DEF RowsAreMinted
    <3>2. call.run = r
      BY <1>0, <1>5, <1>6, <2>1, <3>1 DEF Grew
    <3>3. c = d
      BY <1>0, <1>1, <2>3, <3>1, <3>2 DEF CallsInv
    <3>4. new = Idle
      BY <1>0, <1>1, <2>3, <3>3 DEF CallsInv
    <3> QED BY <1>6, <3>4, IdleCall DEF HasRun
  <2> QED BY <1>6, <2>1, <2>2, <2>3, RowsMove
\* A row it has stays with its run; the first message writes it.
<1>7. ASSUME new.at \in {"repin", "stream"}, runs'[new.run] # NoRun
      PROVE  RowOf(new) \in agentRuns'
  <2>1. /\ new.run = call.run /\ new.session = call.session
        /\ call.at \in {"repin", "stream"} \/ (call.at = "first" /\ FirstRow(c))
    BY <1>1, <1>4, <1>7 DEF Proceeds
  <2>2. RowOf(new) = RowOf(call) /\ call.run \in 1 .. lastRun
    BY <1>2, <2>1 DEF RowOf, CallOK, HasRun
  <2>3. CASE call.at \in {"repin", "stream"}
    <3>1. runs[call.run] # NoRun
      BY <1>0, <1>7, <2>1, <2>2 DEF Grew
    <3>2. RowOf(call) \in agentRuns /\ RowOf(call).run = call.run
      BY <1>2, <2>3, <3>1 DEF Listens, RowOf
    <3> QED BY <1>0, <1>7, <2>1, <2>2, <3>2 DEF Grew
  <2>4. CASE FirstRow(c)
    BY <1>1, <2>2, <2>4 DEF FirstRow, RecordAgentRun, RowOf
  <2> QED BY <2>1, <2>3, <2>4
\* No other call writes a row of its run.
<1>8. ASSUME new.at \in {"wire", "query", "first"}, NEW a \in agentRuns', a.run = new.run
      PROVE  FALSE
  <2>1. /\ new.run \in 1 .. lastRun'
        /\ \/ new.run = call.run /\ call.at \in {"wire", "query", "first"}
           \/ new.run > lastRun
    BY <1>1, <1>4, <1>5, <1>8 DEF HasRun, Proceeds
  <2>2. a \notin agentRuns
    <3>1. new.run = call.run /\ call.at \in {"wire", "query", "first"} => a \notin agentRuns
      BY <1>2, <1>8 DEF Listens, WasHeard
    <3>2. new.run > lastRun => a \notin agentRuns
      <4>1. new.run \in Nat /\ lastRun \in Nat
        BY <1>0, <2>1 DEF Grew
      <4> QED BY <1>0, <1>8, <4>1 DEF HistoryInv
    <3> QED BY <2>1, <3>1, <3>2
  <2>3. PICK d \in Caller : FirstRow(d) /\ a = RowOf(calls[d])
    BY <1>8, <2>2, RowsOfMessages
  <2>4. PICK other, next : other = calls[d] /\ next = calls'[d]
    OBVIOUS
  <2>5. /\ other.at = "first" /\ other.run \in 1 .. lastRun /\ other.run = new.run
        /\ next.at \in {"stream", "repin"}
    <3>1. other.at = "first" /\ other \in Call
      BY <1>0, <2>3, <2>4 DEF FirstRow, CallsInv
    <3>2. calls' = [calls EXCEPT ![d] =
                      [other EXCEPT !.at = IF other.session = other.expect THEN "stream" ELSE "repin"]]
      BY <2>3, <2>4 DEF FirstRow, Goes
    <3>3. next.at \in {"stream", "repin"}
      BY <1>0, <2>4, <3>1, <3>2 DEF CallsInv, Call
    <3>4. other.run \in 1 .. lastRun
      BY <1>0, <2>4, <3>1 DEF CallsInv, CallOK, HasRun
    <3>5. other.run = new.run
      BY <1>8, <2>3, <2>4 DEF RowOf
    <3> QED BY <3>1, <3>3, <3>4, <3>5
  <2>6. new.run = call.run
    BY <1>0, <2>1, <2>5 DEF Grew
  <2>7. d = c
    BY <1>0, <1>1, <2>4, <2>5, <2>6 DEF CallsInv
  <2> QED BY <1>1, <1>8, <2>4, <2>5, <2>7
<1> QED BY <1>1, <1>6, <1>7, <1>8 DEF Listens, WasHeard, RowOf

-----------------------------------------------------------------------------
(* What a heard run leaves to resume.                                      *)

\* The entry is on a session that exists and that a stored run was heard on.
Resumable(k) ==
    /\ agents[k] # NoEntry /\ agents[k].session \in created
    /\ \E a \in agentRuns : a.session = agents[k].session /\ a.run \in RunsOf(k)

\* A call of k still has its run, and expects the session the entry is on until
\* a run of k was heard and pinned the entry.
ExpectsEntry(k, call) ==
    call.at # "idle" /\ call.key = k =>
        /\ agents[k] # NoEntry
        /\ call.at \in HasRun => runs[call.run] # NoRun
        /\ Resumable(k) \/ (call.expect = agents[k].session /\ call.at # "stream")

Undisturbed(k) ==
    /\ agents[k] = NoEntry => ~HasRuns(k)
    /\ \A c \in Caller : ExpectsEntry(k, calls[c])
    /\ (\E r \in RunsOf(k) : runs[r].state = "finished" /\ WasHeard(r)) => Resumable(k)

ResumeInv == \A k \in Key : Undisturbed(k) \/ Disturbed(k)

\* Unless it is reset or deleted, an entry appears, rests on its session, or is
\* pinned to one that exists.
LEMMA EntryMoves ==
  ASSUME DirectInv, ListensInv, ResumeInv, [DirectNext]_vars, NEW k \in Key, ~Disturbed(k)'
  PROVE  /\ ~Disturbed(k)
         /\ \/ agents'[k] = NoEntry /\ agents[k] = NoEntry
            \/ agents'[k] # NoEntry /\ agents[k] = NoEntry
            \/ agents'[k] # NoEntry /\ agents[k] # NoEntry /\ agents'[k].session = agents[k].session
            \/ Resumable(k)'
<1>0. TablesInv /\ TypeOK /\ TypeOK' /\ CallsInv /\ HistoryInv /\ Grew
  BY StepGrows DEF DirectInv, TablesInv
<1> DEFINE Moves == /\ ~Disturbed(k)
                    /\ \/ agents'[k] = NoEntry /\ agents[k] = NoEntry
                       \/ agents'[k] # NoEntry /\ agents[k] = NoEntry
                       \/ /\ agents'[k] # NoEntry /\ agents[k] # NoEntry
                          /\ agents'[k].session = agents[k].session
                       \/ Resumable(k)'
<1>1. CASE UNCHANGED <<agents, disturbed>>
  BY <1>1 DEF Disturbed
<1>2. ASSUME NEW j \in Key, NEW reset \in BOOLEAN, Save(j, NoCwd, reset),
             j = k => ~reset \/ agents[k] = NoEntry,
             ~Disturbed(k)
      PROVE  Moves
  <2>1. PICK e \in Entry :
           /\ agents' = [agents EXCEPT ![j] = e]
           /\ agents[j] # NoEntry /\ ~reset => e.session = agents[j].session
    BY <1>0, <1>2, SaveEffect
  <2>2. e # NoEntry
    BY RowAssumption
  <2>3. CASE j = k
    BY <1>0, <1>2, <2>1, <2>2, <2>3 DEF TypeOK
  <2>4. CASE j # k
    BY <1>0, <1>2, <2>1, <2>4 DEF TypeOK
  <2> QED BY <2>3, <2>4
<1>3. ASSUME NEW j \in Key, NEW reset \in BOOLEAN, CreateAgent(j, reset) PROVE Moves
  <2>1. Save(j, NoCwd, reset)
    BY <1>3 DEF CreateAgent
  <2>2. CASE reset /\ agents[j] # NoEntry
    <3>1. Disturb(j)
      BY <1>3, <2>2 DEF CreateAgent
    <3>2. ~Disturbed(k) /\ j # k
      BY <1>0, <3>1, DisturbEffect
    <3> QED BY <1>2, <2>1, <3>2
  <2>3. CASE ~(reset /\ agents[j] # NoEntry)
    <3>1. disturbed' = disturbed
      BY <1>3, <2>3 DEF CreateAgent
    <3>2. ~Disturbed(k)
      BY <3>1 DEF Disturbed
    <3> QED BY <1>2, <2>1, <2>3, <3>2
  <2> QED BY <2>2, <2>3
<1>4. ASSUME NEW j \in Key, DeleteAgent(j) PROVE Moves
  <2>1. Disturb(j) /\ Delete(j)
    BY <1>4 DEF DeleteAgent
  <2>2. ~Disturbed(k) /\ j # k
    BY <1>0, <2>1, DisturbEffect
  <2>3. agents'[k] = agents[k]
    BY <1>0, <2>1, <2>2 DEF Delete, TypeOK
  <2> QED BY <2>2, <2>3
<1>5. ASSUME NEW c \in Caller, NEW j \in Key,
             Spawn(c, j) \/ Acquire(c, j) \/ RunAgent(c, j)
      PROVE  Moves
  <2>1. CASE RunAgent(c, j)
    BY <1>1, <2>1 DEF RunAgent, tables
  <2>2. CASE Spawn(c, j)
    <3>1. Save(j, NoCwd, FALSE) /\ disturbed' = disturbed
      BY <2>2 DEF Spawn
    <3>2. ~Disturbed(k)
      BY <3>1 DEF Disturbed
    <3> QED BY <1>2, <3>1, <3>2
  <2>3. CASE Acquire(c, j)
    <3>1. Save(Derived[j], NoCwd, FALSE) /\ disturbed' = disturbed /\ Derived[j] \in Key
      BY <2>3 DEF Acquire
    <3>2. ~Disturbed(k)
      BY <3>1 DEF Disturbed
    <3> QED BY <1>2, <3>1, <3>2
  <2> QED BY <1>5, <2>1, <2>2, <2>3
<1>6. ASSUME NEW c \in Caller, Repin(c) PROVE Moves
  <2>1. PICK call : call = calls[c] /\ CallOK(call)
    BY <1>0 DEF CallsInv
  <2>2. disturbed' = disturbed /\ created' = created /\ call.at = "repin"
    BY <1>6, <2>1 DEF Repin
  <2>3. ~Disturbed(k)
    BY <2>2 DEF Disturbed
  <2>4. CASE UNCHANGED tables
    BY <1>1, <2>2, <2>4 DEF tables
  <2>5. CASE Reconcile(call.key, call.session)
    <3>1. PICK e : e = [session |-> call.session, cwd |-> agents[call.key].cwd]
      OBVIOUS
    <3>2. agents' = [agents EXCEPT ![call.key] = e] /\ e.session \in created' /\ call.key \in Key
      BY <2>1, <2>2, <2>5, <3>1 DEF Reconcile, CallOK, HasHeard, Call
    <3>3. CASE call.key = k
      <4>1. agents'[k] = e
        BY <1>0, <3>2, <3>3 DEF TypeOK
      <4>2. agents'[k] # NoEntry
        <5>1. call.session \in Session /\ agents[k] \in Entry
          BY <1>0, <2>1, <2>2, <2>5, <3>3 DEF Reconcile, CallOK, HasHeard, TypeOK
        <5>2. e \in Entry
          BY <3>1, <3>3, <5>1 DEF Entry
        <5> QED BY <4>1, <5>2, RowAssumption
      <4>3. /\ RowOf(call) \in agentRuns /\ call.run \in RunsOf(k)
            /\ UNCHANGED <<agentRuns, runs>>
        <5>1. ExpectsEntry(k, call) /\ Listens(call)
          BY <2>1, <2>3 DEF ResumeInv, Undisturbed, ListensInv
        <5>2. runs[call.run] # NoRun
          BY <2>2, <3>3, <5>1 DEF ExpectsEntry, HasRun
        <5>3. call.run \in Run /\ runs[call.run].key = k
          BY <1>0, <2>1, <2>2, <3>3, <5>2 DEF CallOK, HasRun, TypeOK
        <5>4. UNCHANGED <<agentRuns, runs>>
          BY <2>5 DEF Reconcile
        <5> QED BY <2>2, <5>1, <5>2, <5>3, <5>4 DEF Listens, RunsOf
      <4>4. RowOf(call).run = call.run /\ RowOf(call).session = call.session
        BY DEF RowOf
      <4>5. RunsOf(k)' = RunsOf(k)
        BY <4>3 DEF RunsOf
      <4>6. \E a \in agentRuns' : a.session = agents'[k].session /\ a.run \in RunsOf(k)'
        BY <3>1, <4>1, <4>3, <4>4, <4>5
      <4> QED BY <2>3, <3>2, <4>1, <4>2, <4>6 DEF Resumable
    <3>4. CASE call.key # k
      <4>1. agents'[k] = agents[k]
        BY <1>0, <3>2, <3>4 DEF TypeOK
      <4> QED BY <2>3, <4>1
    <3> QED BY <3>3, <3>4
  <2> QED BY <1>6, <2>1, <2>4, <2>5 DEF Repin
<1>7. ASSUME NEW c \in Caller, \/ ListRuns(c) \/ StartAcquired(c) \/ Begin(c) \/ Wire(c)
                               \/ Attach(c) \/ FirstRow(c) \/ Finish(c) \/ Ends(c)
      PROVE  UNCHANGED <<agents, disturbed>>
  BY <1>7 DEF ListRuns, StartAcquired, StartRun, Begin, BeginRun, OpenRun, Wire, Attach,
              ObserveSession, FirstRow, RecordAgentRun, Finish, FinishRun, Ends, tables
<1>8. CASE UNCHANGED vars
  BY <1>1, <1>8 DEF vars, direct, tables
<1> QED BY <1>1, <1>3, <1>4, <1>5, <1>6, <1>7, <1>8 DEF DirectNext

\* A new row is of a key some call was under way for.
LEMMA RowsAreOpenedByCalls ==
  ASSUME DirectInv, [DirectNext]_vars, NEW r \in Run, runs'[r] # NoRun
  PROVE  \/ runs[r] # NoRun /\ runs[r].key = runs'[r].key
         \/ \E c \in Caller : calls[c].at # "idle" /\ calls[c].key = runs'[r].key
<1>0. TypeOK /\ TypeOK' /\ RowsAreMinted' /\ CallsInv /\ Grew
  BY StepGrows DEF DirectInv, TablesInv
<1>1. CASE r <= lastRun
  BY <1>0, <1>1 DEF Grew
<1>2. CASE r > lastRun
  <2>1. r <= lastRun' /\ lastRun' # lastRun
    BY <1>0, <1>2 DEF RowsAreMinted, Grew
  <2>2. PICK c \in Caller : StartAcquired(c) \/ Begin(c)
    BY <2>1, RunsOpen
  <2>3. PICK call : call = calls[c]
    OBVIOUS
  <2>4. call.at # "idle" /\ \E options, s : OpenRun(call.key, options, s)
    BY <2>2, <2>3 DEF StartAcquired, StartRun, Begin, BeginRun
  <2>5. PICK options, s : OpenRun(call.key, options, s)
    BY <2>4
  <2>6. r = lastRun + 1
    BY <1>0, <1>2, <2>1, <2>5 DEF OpenRun, Grew
  <2>7. runs'[r].key = call.key
    BY <1>0, <2>5, <2>6 DEF OpenRun, TypeOK
  <2> QED BY <2>3, <2>4, <2>7
<1> QED BY <1>0, <1>1, <1>2 DEF Grew

\* A key loses runs only to its deletion.
LEMMA RunsStay ==
  ASSUME DirectInv, [DirectNext]_vars, NEW k \in Key, ~Disturbed(k)', NEW r \in RunsOf(k)
  PROVE  r \in RunsOf(k)'
<1>0. /\ r \in Run /\ r \in 1 .. lastRun /\ runs[r] # NoRun /\ runs[r].key = k /\ Grew
      /\ runs \in [Run -> RunRow \cup {NoRun}] /\ lastRun \in Nat /\ HistoryInv
  BY StepGrows DEF RunsOf, DirectInv, TablesInv, RowsAreMinted, TypeOK
<1>1. runs'[r] # NoRun
  <2>1. CASE UNCHANGED runs
    BY <1>0, <2>1
  <2>2. ASSUME NEW j \in Key, DeleteAgent(j) PROVE runs'[r] # NoRun
    <3>1. Disturb(j) /\ Delete(j)
      BY <2>2 DEF DeleteAgent
    <3>2. j # k
      BY <1>0, <3>1, DisturbEffect
    <3> QED BY <1>0, <3>1, <3>2 DEF Delete, RunsOf
  <2>3. ASSUME NEW j, NEW options, NEW s, OpenRun(j, options, s) PROVE runs'[r] # NoRun
    BY <1>0, <2>3 DEF OpenRun
  <2>4. ASSUME NEW c \in Caller, Finish(c) PROVE runs'[r] # NoRun
    <3>1. PICK q : q = calls[c].run
      OBVIOUS
    <3>2. CASE FinishRun(q, "finished")
      <4>1. r # q => runs'[r] = runs[r]
        BY <1>0, <3>2 DEF FinishRun
      <4>2. r = q => runs'[r] \in RunRow
        BY <1>0, <3>2 DEF FinishRun, RunRow, Outcome
      <4> QED BY <1>0, <4>1, <4>2, RowAssumption
    <3> QED BY <2>1, <2>4, <3>1, <3>2 DEF Finish, tables
  <2>5. ASSUME NEW c \in Caller, StartAcquired(c) \/ Begin(c)
        PROVE  \E j, options, s : OpenRun(j, options, s)
    BY <2>5 DEF StartAcquired, StartRun, Begin, BeginRun
  <2>6. CASE \/ UNCHANGED vars
             \/ \E j \in Key, reset \in BOOLEAN : CreateAgent(j, reset)
             \/ \E c \in Caller : \/ \E j \in Key : RunAgent(c, j) \/ Spawn(c, j) \/ Acquire(c, j)
                                  \/ ListRuns(c) \/ Wire(c) \/ Attach(c) \/ FirstRow(c)
                                  \/ Repin(c) \/ Ends(c)
    BY <2>1, <2>6 DEF vars, tables, CreateAgent, RunAgent, Spawn, Acquire, Save, SaveOver,
                      ListRuns, Wire, Attach, ObserveSession, FirstRow, RecordAgentRun, Repin,
                      Reconcile, Ends
  <2> QED BY <2>2, <2>3, <2>4, <2>5, <2>6 DEF DirectNext
<1> QED BY <1>0, <1>1 DEF RunsOf, Grew

\* What can be resumed stays so while its entry rests.
LEMMA ResumableStays ==
  ASSUME DirectInv, [DirectNext]_vars, NEW k \in Key, ~Disturbed(k)', Resumable(k),
         agents'[k] # NoEntry, agents'[k].session = agents[k].session
  PROVE  Resumable(k)'
<1>0. Grew /\ RowsAreMinted
  BY StepGrows DEF DirectInv, TablesInv
<1>1. PICK a \in agentRuns : a.session = agents[k].session /\ a.run \in RunsOf(k)
  BY DEF Resumable
<1>2. a.run \in RunsOf(k)' /\ a.run \in 1 .. lastRun
  BY <1>0, <1>1, RunsStay DEF RunsOf, RowsAreMinted, Run
<1>3. a \in agentRuns'
  BY <1>0, <1>1, <1>2 DEF Grew, RunsOf
<1> QED BY <1>0, <1>1, <1>2, <1>3 DEF Resumable, Grew

LEMMA CallsStayResumable ==
  ASSUME DirectInv, ListensInv, ResumeInv, [DirectNext]_vars, NEW k \in Key, Undisturbed(k), ~Disturbed(k)',
         NEW c \in Caller
  PROVE  ExpectsEntry(k, calls[c])'
<1> SUFFICES ASSUME calls'[c].at # "idle", calls'[c].key = k
             PROVE  /\ agents'[k] # NoEntry
                    /\ calls'[c].at \in HasRun => runs'[calls'[c].run] # NoRun
                    /\ \/ Resumable(k)'
                       \/ calls'[c].expect = agents'[k].session /\ calls'[c].at # "stream"
  BY DEF ExpectsEntry
<1>0. Grew /\ CallsInv /\ CallsInv' /\ HistoryInv /\ TypeOK
  BY StepGrows, DirectStep DEF DirectInv, TablesInv
<1>1. PICK call, new : call = calls[c] /\ new = calls'[c]
  OBVIOUS
<1>2. /\ CallOK(call) /\ Listens(call) /\ ExpectsEntry(k, call)
      /\ new.at # "idle" /\ new.key = k
  BY <1>0, <1>1 DEF CallsInv, Undisturbed, ListensInv
<1>3. new = call \/ Proceeds(c, new) \/ \E j \in Key : Opens(c, j, new)
  BY <1>1, CallersMove
<1>4. CASE \E j \in Key : Opens(c, j, new)
  BY <1>1, <1>2, <1>4 DEF Opens, HasRun
<1>5. CASE new = call \/ Proceeds(c, new)
  <2>1. /\ call.at # "idle" /\ call.key = k /\ new.expect = call.expect
        /\ agents[k] # NoEntry
        /\ call.at \in HasRun => runs[call.run] # NoRun
        /\ Resumable(k) \/ (call.expect = agents[k].session /\ call.at # "stream")
    BY <1>1, <1>2, <1>5 DEF Proceeds, ExpectsEntry
  <2>2. \/ agents'[k] # NoEntry /\ agents'[k].session = agents[k].session
        \/ Resumable(k)'
    BY <2>1, EntryMoves
  <2>3. call.at \in HasRun => call.run \in RunsOf(k) /\ call.run \in 1 .. lastRun
    BY <1>0, <1>2, <2>1 DEF CallOK, RunsOf, TypeOK
  <2>4. ASSUME new.at \in HasRun PROVE runs'[new.run] # NoRun
    <3>1. new.run = call.run \/ runs'[new.run] # NoRun
      BY <1>1, <1>5 DEF Proceeds
    <3>2. CASE new.run = call.run
      <4>1. call.at \in HasRun
        BY <1>0, <1>1, <1>2, <2>4, <3>2 DEF CallsInv, CallOK
      <4>2. call.run \in RunsOf(k)'
        BY <2>3, <4>1, RunsStay
      <4> QED BY <3>2, <4>2 DEF RunsOf
    <3> QED BY <3>1, <3>2
  <2>5. CASE Resumable(k) \/ Resumable(k)'
    BY <2>2, <2>4, <2>5, ResumableStays, <1>1 DEF Resumable
  <2>6. CASE ~Resumable(k) /\ ~Resumable(k)'
    <3>1. agents'[k] # NoEntry /\ agents'[k].session = agents[k].session /\ new.expect = agents'[k].session
      BY <2>1, <2>2, <2>6
    \* A stream on the entry's session makes it resumable.
    <3>2. ASSUME new.at = "stream" PROVE FALSE
      <4>1. /\ Proceeds(c, new) /\ call.at \in {"first", "repin"}
            /\ \/ call.at = "first" /\ FirstRow(c) /\ call.session = new.expect
               \/ call.at = "repin" /\ Reconcile(call.key, call.session)
        BY <1>1, <1>5, <2>1, <2>6, <3>2 DEF Proceeds
      <4>2. call.session \in created /\ call.session \in created' /\ call.run \in RunsOf(k)'
        BY <1>0, <1>2, <2>3, <4>1, RunsStay DEF CallOK, HasHeard, HasRun, Grew
      <4>3. agents'[k].session = call.session
        BY <1>0, <2>1, <3>1, <4>1 DEF Reconcile, TypeOK
      <4>4. RowOf(call) \in agentRuns'
        <5>1. CASE FirstRow(c)
          BY <1>1, <5>1 DEF FirstRow, RecordAgentRun, RowOf
        <5>2. CASE call.at = "repin" /\ Reconcile(call.key, call.session)
          BY <1>2, <2>1, <5>2 DEF Listens, HasRun, Reconcile
        <5> QED BY <4>1, <5>1, <5>2
      <4>5. RowOf(call).run = call.run /\ RowOf(call).session = call.session
        BY DEF RowOf
      <4> QED BY <2>6, <3>1, <4>2, <4>3, <4>4, <4>5 DEF Resumable
    <3> QED BY <1>1, <2>4, <3>1, <3>2
  <2> QED BY <2>5, <2>6
<1> QED BY <1>3, <1>4, <1>5

LEMMA ResumeStep ==
  ASSUME DirectInv, ListensInv, ResumeInv, [DirectNext]_vars
  PROVE  ResumeInv'
<1> SUFFICES ASSUME NEW k \in Key, ~Disturbed(k)' PROVE Undisturbed(k)'
  BY DEF ResumeInv
<1>0. Grew /\ CallsInv /\ TypeOK /\ RowsAreMinted
  BY StepGrows DEF DirectInv, TablesInv
<1>1. /\ Undisturbed(k)
      /\ \/ agents'[k] = NoEntry /\ agents[k] = NoEntry
         \/ agents'[k] # NoEntry /\ agents[k] = NoEntry
         \/ agents'[k] # NoEntry /\ agents[k] # NoEntry /\ agents'[k].session = agents[k].session
         \/ Resumable(k)'
  BY EntryMoves DEF ResumeInv
<1>2. \A c \in Caller : ExpectsEntry(k, calls[c])'
  BY <1>1, CallsStayResumable
\* A row of k was there, or a call of k opened it.
<1>3. ASSUME NEW r \in Run, runs'[r] # NoRun, runs'[r].key = k
      PROVE  agents[k] # NoEntry
  <2>1. \/ runs[r] # NoRun /\ runs[r].key = k
        \/ \E c \in Caller : calls[c].at # "idle" /\ calls[c].key = k
    BY <1>3, RowsAreOpenedByCalls
  <2> QED BY <1>1, <2>1 DEF Undisturbed, HasRuns, RunsOf, ExpectsEntry
<1>4. agents'[k] = NoEntry => ~HasRuns(k)'
  <2>1. agents'[k] = NoEntry => agents[k] = NoEntry
    BY <1>1 DEF Resumable
  <2> QED BY <1>3, <2>1 DEF HasRuns, RunsOf
<1>5. ASSUME NEW r \in Run, runs'[r] # NoRun, runs'[r].key = k, runs'[r].state = "finished",
             WasHeard(r)'
      PROVE  Resumable(k)'
  <2>1. agents[k] # NoEntry
    BY <1>3, <1>5
  <2>2. CASE runs'[r] = runs[r]
    <3>1. r \in RunsOf(k) /\ runs[r].state = "finished" /\ runs[r] # NoRun
      BY <1>5, <2>2 DEF RunsOf
    <3>2. PICK a \in agentRuns' : a.run = r
      BY <1>5 DEF WasHeard
    \* No call is left to write the row now.
    <3>3. a \in agentRuns
      <4>1. ASSUME NEW c \in Caller, FirstRow(c), a = RowOf(calls[c]) PROVE FALSE
        <5>1. calls[c].run = r /\ calls[c].at \in HasRun /\ Listens(calls[c])
          BY <3>2, <4>1 DEF FirstRow, RowOf, HasRun, ListensInv
        <5> QED BY <3>1, <5>1 DEF Listens
      <4> QED BY <4>1, RowsOfMessages
    <3> QED BY <1>1, <3>1, <3>2, <3>3, <2>1, ResumableStays DEF Undisturbed, WasHeard, Resumable
  <2>3. ASSUME NEW c \in Caller, Finish(c), calls[c].run = r, runs[r] # NoRun
        PROVE  Resumable(k)'
    <3>1. PICK call : call = calls[c]
      OBVIOUS
    <3>2. /\ CallOK(call) /\ ExpectsEntry(k, call) /\ Listens(call) /\ call.run = r
          /\ call.at \in HasRun
      BY <1>0, <1>1, <2>3, <3>1 DEF CallsInv, Undisturbed, ListensInv, Finish, HasRun
    <3>3. runs[r].key = call.key /\ r \in 1 .. lastRun /\ runs[r].state = "open"
      BY <2>3, <3>2 DEF CallOK, Listens
    <3>4. call.key = k
      BY <1>0, <1>5, <3>3 DEF Grew
    <3>5. WasHeard(r) /\ call.at \in {"query", "first", "stream"}
      BY <1>5, <2>3, <3>1 DEF Finish, FinishRun, WasHeard, tables
    <3>6. Resumable(k)
      BY <3>2, <3>4, <3>5 DEF Listens, ExpectsEntry
    <3> QED BY <1>1, <2>1, <3>6, ResumableStays DEF Resumable
  <2> QED BY <1>5, <2>2, <2>3, RowsMove
<1> QED BY <1>2, <1>4, <1>5 DEF Undisturbed, RunsOf

(***************************************************************************)
(* A key one of whose runs was heard and finished can be resumed where it  *)
(* stands until it is reset or deleted: its entry is on a session that     *)
(* exists and that a stored run recorded, whichever of its concurrent runs *)
(* pinned it last (dispatch.py:141-143).                                   *)
(***************************************************************************)
THEOREM DirectHeardKeysCanResume == DirectSpec => []HeardKeysCanResume
<1>1. DirectInit => DirectInv /\ ListensInv /\ ResumeInv
  <2>1. DirectInit => ListensInv
    BY IdleCall DEF DirectInit, ListensInv, Listens, HasRun
  <2>2. DirectInit => ResumeInv
    BY IdleCall DEF DirectInit, Init, ResumeInv, Undisturbed, ExpectsEntry, HasRuns, RunsOf
  <2> QED BY <2>1, <2>2, DirectStarts
<1>2. DirectInv /\ ListensInv /\ ResumeInv /\ [DirectNext]_vars
        => (DirectInv /\ ListensInv /\ ResumeInv)'
  BY DirectStep, ListensStep, ResumeStep
<1>3. DirectInv /\ ResumeInv => HeardKeysCanResume
  BY DEF ResumeInv, Undisturbed, Resumable, WasHeard, HeardKeysCanResume
<1> QED BY <1>1, <1>2, <1>3, PTL DEF DirectSpec
=============================================================================
