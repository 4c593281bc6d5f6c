------------------------ MODULE TeammateServerProofs ------------------------
(***************************************************************************)
(* Theorems about the teammate server, for any teammates, crews, bounds    *)
(* and budgets of events: first those for any number of servers on one     *)
(* pool.db, then those under OneServer, for a server that has its pool to  *)
(* itself, with no dismissal (NoDismissal) or, at the end, with an SDK     *)
(* that resumes what it is asked to (NoDrift).                             *)
(***************************************************************************)
EXTENDS TeammateServer, PoolTablesProofs

USE BoundsAssumption DEF Run, Session, AgentRun, Finding, Outcome

-----------------------------------------------------------------------------
(***************************************************************************)
(* The inductive invariant.  What a segment under way relies on after its  *)
(* last pool call: the session it read was minted; the run it opened has   *)
(* no task yet and, if it is still stored, an open row; the run it repins  *)
(* or settles is its own server's and still streaming, because no other    *)
(* coroutine of that server has a turn.                                    *)
(***************************************************************************)
SegmentOK(s) ==
    LET c == loop[s]
    IN  /\ c.at \in {"begin", "wire"} => c.session \in 1 .. lastSession
        /\ c.at = "wire" =>
              /\ c.run \in 1 .. lastRun
              /\ tasks[c.run] = NoTask
              /\ runs[c.run] # NoRun => runs[c.run].state = "open" /\ runs[c.run].key = c.key
        /\ c.at \in {"repin", "settle"} =>
              /\ c.run \in 1 .. lastRun
              /\ tasks[c.run] # NoTask
              /\ tasks[c.run].state = "streaming"
              /\ tasks[c.run].server = s

\* Two servers are never wiring one run.
WiresApart == \A s, u \in Server :
    loop[s].at = "wire" /\ loop[u].at = "wire" /\ loop[s].run = loop[u].run => s = u

\* A task belongs to a minted run, on minted sessions, and to the key of its
\* row; a live one is in its server's registry.
TaskOK(r) ==
    /\ r <= lastRun
    /\ tasks[r].expect \in 1 .. lastSession
    /\ tasks[r].session \in 0 .. lastSession
    /\ tasks[r].state \in {"attached", "streaming"} => tasks[r].session # 0
    /\ runs[r] # NoRun => runs[r].key = tasks[r].key
    /\ Live(r) => r \in registered[tasks[r].server]

\* RowTellsTheEnding, of one run.
EndingOK(r) ==
    Stored(r) =>
        /\ tasks[r].state = "returned" => runs[r].state = "finished"
        /\ tasks[r].state = "raised" => runs[r].state = "failed"
        /\ tasks[r].state \notin {"returned", "raised"} => runs[r].state = "open"

TasksOK == \A r \in Run : tasks[r] # NoTask => TaskOK(r) /\ EndingOK(r)

ServingTypeOK ==
    /\ loop       \in [Server -> Segment]
    /\ tasks      \in [Run -> Task \cup {NoTask}]
    /\ registered \in [Server -> SUBSET Run]
    /\ awaited    \in SUBSET Run
    /\ created    \in SUBSET Session
    /\ spent      \in [Event -> Nat]

ServingInv ==
    /\ ServingTypeOK
    /\ \A s \in Server : SegmentOK(s)
    /\ WiresApart
    /\ TasksOK

TeammateInv == TablesInv /\ ServingInv

-----------------------------------------------------------------------------
(* Every step of the server is at most one method of the pool.             *)

LEMMA CodexCapturesAndSegments ==
  ASSUME TeammateInv, NEW s \in Server, loop[s].at \in {"repin", "settle"}
  PROVE  /\ loop[s].run \in Run /\ loop[s].run \in 1 .. lastRun
         /\ tasks[loop[s].run] \in Task /\ Live(loop[s].run)
         /\ tasks[loop[s].run].server = s
         /\ tasks[loop[s].run].session \in 1 .. lastSession
<1> DEFINE r == loop[s].run
<1>1. /\ r \in 1 .. lastRun /\ tasks[r] # NoTask
      /\ tasks[r].state = "streaming" /\ tasks[r].server = s
  BY DEF TeammateInv, ServingInv, SegmentOK
<1>2. r \in Run /\ lastSession \in Nat
  BY <1>1 DEF TeammateInv, TablesInv, ServingInv, ServingTypeOK, TypeOK
<1>3. tasks[r] \in Task /\ Live(r)
  BY <1>1, <1>2 DEF TeammateInv, ServingInv, ServingTypeOK, Live
<1>4. TaskOK(r)
  BY <1>1, <1>2 DEF TeammateInv, ServingInv, TasksOK
<1>5. tasks[r].session \in 1 .. lastSession
  BY <1>1, <1>2, <1>4 DEF TaskOK
<1> QED BY <1>1, <1>2, <1>3, <1>5

\* A task that is not gone is one of a minted run, on minted sessions.
LEMMA TaskIsMinted ==
  ASSUME TeammateInv, NEW r \in Run, tasks[r] # NoTask
  PROVE  /\ tasks[r] \in Task /\ TaskOK(r) /\ EndingOK(r)
         /\ r \in 1 .. lastRun
         /\ tasks[r].expect \in 1 .. lastSession /\ tasks[r].expect \in Session
         /\ tasks[r].state \in {"attached", "streaming"} => tasks[r].session \in 1 .. lastSession
<1>1. tasks[r] \in Task /\ lastSession \in 0 .. MaxSession /\ lastRun \in 0 .. MaxRun
  BY DEF TeammateInv, TablesInv, ServingInv, ServingTypeOK, TypeOK
<1>2. TaskOK(r) /\ EndingOK(r)
  BY DEF TeammateInv, ServingInv, TasksOK
<1> QED BY <1>1, <1>2 DEF TaskOK

LEMMA SegmentsUsePoolMethods ==
  ASSUME TeammateInv, NEW s \in Server, SegmentStep(s)
  PROVE  [Next]_tables
<1>t. /\ loop[s] \in Segment
      /\ Crew \in [Key -> SUBSET Key]
  BY CrewAssumption DEF TeammateInv, ServingInv, ServingTypeOK
<1>1. CASE Ensure(s)
  <2>1. loop[s].key \in Key /\ loop[s].reset \in BOOLEAN
    BY <1>t DEF Segment
  <2> QED BY <2>1, <1>1 DEF Ensure, Next
<1>2. CASE EnsureCrew(s)
  <2>1. PICK m \in loop[s].left : Save(m, NoCwd, FALSE)
    BY <1>2 DEF EnsureCrew
  <2>2. m \in Key
    BY <1>t DEF Segment
  <2> QED BY <2>1, <2>2 DEF Next
<1>3. CASE Prepare(s)
  BY <1>3 DEF Prepare
<1>4. CASE Begin(s)
  <2>1. loop[s].key \in Key
    BY <1>t DEF Segment
  <2>2. loop[s].session \in 1 .. lastSession
    BY <1>4 DEF Begin, TeammateInv, ServingInv, SegmentOK
  <2>3. StartRun(loop[s].key) \/ BeginRun(loop[s].key, loop[s].session)
    BY <1>4 DEF Begin
  <2> QED BY <2>1, <2>2, <2>3 DEF Next
<1>5. CASE Spawn(s)
  BY <1>5 DEF Spawn, NewTask
<1>6. CASE WireFails(s)
  BY <1>6 DEF WireFails
<1>7. CASE Repin(s)
  <2>1. loop[s].at = "repin"
    BY <1>7 DEF Repin
  <2>2. /\ loop[s].run \in 1 .. lastRun
        /\ tasks[loop[s].run] \in Task
        /\ tasks[loop[s].run].session \in 1 .. lastSession
    BY <2>1, CodexCapturesAndSegments
  <2>3. tasks[loop[s].run].key \in Key
    BY <2>2 DEF Task
  <2>4. \/ Reconcile(tasks[loop[s].run].key, tasks[loop[s].run].session)
        \/ FinishRun(loop[s].run, "failed")
        \/ UNCHANGED tables
    BY <1>7 DEF Repin, Fail
  <2> QED BY <2>2, <2>3, <2>4 DEF Next
<1>8. CASE Settle(s)
  <2>1. loop[s].at = "settle"
    BY <1>8 DEF Settle
  <2>2. loop[s].run \in 1 .. lastRun
    BY <2>1, CodexCapturesAndSegments
  <2>3. FinishRun(loop[s].run, "finished") \/ UNCHANGED tables
    BY <1>8 DEF Settle, Finish
  <2> QED BY <2>2, <2>3 DEF Next
<1> QED BY <1>1, <1>2, <1>3, <1>4, <1>5, <1>6, <1>7, <1>8 DEF SegmentStep

LEMMA StreamsUsePoolMethods ==
  ASSUME TeammateInv, NEW r \in Run,
         StreamStep(r) \/ WriteFinding(r) \/ Cancel(r) \/ Deregister(r)
  PROVE  [Next]_tables
<1>0. CASE Deregister(r)
  BY <1>0 DEF Deregister
<1>a. CASE ~ Deregister(r)
  <2>1. tasks[r] # NoTask
    BY <1>a DEF StreamStep, WriteFinding, Cancel, Attach, CodexStarts, FirstRow, StreamEnds,
                StreamRaises, Turn, Live
  <2>2. /\ tasks[r] \in Task /\ r \in 1 .. lastRun
        /\ tasks[r].expect \in 1 .. lastSession
        /\ tasks[r].state \in {"attached", "streaming"} => tasks[r].session \in 1 .. lastSession
    BY <2>1, TaskIsMinted
  <2>3. tasks[r].key \in Key
    BY <2>2 DEF Task
  <2>4. CASE Attach(r)
    BY <2>4 DEF Attach, Next
  <2>5. CASE CodexStarts(r)
    BY <2>5 DEF CodexStarts
  <2>6. CASE FirstRow(r)
    <3>1. RecordAgentRun(r, tasks[r].session) /\ tasks[r].state = "attached"
      BY <2>6 DEF FirstRow
    <3> QED BY <3>1, <2>2, KeyAssumption DEF Next
  <2>7. CASE StreamEnds(r)
    <3>1. FinishRun(r, "finished") \/ UNCHANGED tables
      BY <2>7 DEF StreamEnds, Finish
    <3> QED BY <3>1, <2>2 DEF Next
  <2>8. CASE StreamRaises(r)
    <3>1. FinishRun(r, "failed") \/ UNCHANGED tables
      BY <2>8 DEF StreamRaises, Fail
    <3> QED BY <3>1, <2>2 DEF Next
  <2>9. CASE WriteFinding(r)
    <3>1. RecordFinding(tasks[r].key, r, tasks[r].expect)
      BY <2>9 DEF WriteFinding
    <3> QED BY <3>1, <2>2, <2>3 DEF Next
  <2>10. CASE Cancel(r)
    BY <2>10 DEF Cancel
  <2> QED BY <1>a, <2>4, <2>5, <2>6, <2>7, <2>8, <2>9, <2>10 DEF StreamStep
<1> QED BY <1>0, <1>a

LEMMA ServerUsesPoolMethods == TeammateInv /\ [TeammateNext]_vars => [Next]_tables
<1> SUFFICES ASSUME TeammateInv, [TeammateNext]_vars
             PROVE  [Next]_tables
  OBVIOUS
<1>1. ASSUME NEW s \in Server, NEW k \in Key,
             (\E p \in Provider, reset, wait \in BOOLEAN : Call(s, k, p, reset, wait)) \/ Join(s, k)
      PROVE  [Next]_tables
  BY <1>1 DEF Call, OpenSegment, Join
<1>2. ASSUME NEW s \in Server, SegmentStep(s)
      PROVE  [Next]_tables
  BY <1>2, SegmentsUsePoolMethods
<1>3. ASSUME NEW s \in Server, Crash(s)
      PROVE  [Next]_tables
  BY <1>3 DEF Crash
<1>4. ASSUME NEW r \in Run, StreamStep(r) \/ WriteFinding(r) \/ Cancel(r) \/ Deregister(r)
      PROVE  [Next]_tables
  BY <1>4, StreamsUsePoolMethods
<1>5. ASSUME NEW k \in Key, Dismiss(k)
      PROVE  [Next]_tables
  BY <1>5 DEF Dismiss, Next
<1>6. CASE UNCHANGED vars
  BY <1>6 DEF vars
<1> QED BY <1>1, <1>2, <1>3, <1>4, <1>5, <1>6 DEF TeammateNext

-----------------------------------------------------------------------------
(* What keeps the invariant, whichever action does it.                     *)

\* IdsGrow, as a premise.
IdsGrew == /\ lastRun \in Nat /\ lastRun' \in Nat /\ lastRun <= lastRun'
           /\ lastSession \in Nat /\ lastSession' \in Nat /\ lastSession <= lastSession'

\* The tasks stay, and so do their rows unless they are deleted.
LEMMA TasksRest ==
  ASSUME TeammateInv, IdsGrew, UNCHANGED <<tasks, registered>>,
         \A q \in Run : tasks[q] # NoTask => runs'[q] = runs[q] \/ runs'[q] = NoRun
  PROVE  TasksOK'
<1> SUFFICES ASSUME NEW r \in Run, tasks'[r] # NoTask
             PROVE  TaskOK(r)' /\ EndingOK(r)'
  BY DEF TasksOK
<1>1. TaskOK(r) /\ EndingOK(r) /\ tasks[r] \in Task
  BY TaskIsMinted
<1>2. runs'[r] = runs[r] \/ runs'[r] = NoRun
  OBVIOUS
<1>3. TaskOK(r)'
  BY <1>1, <1>2 DEF TaskOK, Task, Live, IdsGrew
<1>4. EndingOK(r)'
  BY <1>1, <1>2 DEF EndingOK, Stored
<1> QED BY <1>3, <1>4

\* One live task moves on, and no row but its own changes.
LEMMA TaskMoves ==
  ASSUME TeammateInv, IdsGrew, UNCHANGED registered,
         NEW r \in Run, Live(r),
         \A q \in Run \ {r} : tasks'[q] = tasks[q] /\ runs'[q] = runs[q],
         tasks'[r] \in Task,
         tasks'[r].server = tasks[r].server, tasks'[r].key = tasks[r].key,
         tasks'[r].expect = tasks[r].expect,
         tasks'[r].session \in 0 .. lastSession',
         tasks'[r].state \in {"attached", "streaming"} => tasks'[r].session # 0,
         runs'[r] # NoRun => runs[r] # NoRun /\ runs'[r].key = runs[r].key,
         EndingOK(r)'
  PROVE  TasksOK'
<1> SUFFICES ASSUME NEW q \in Run, tasks'[q] # NoTask
             PROVE  TaskOK(q)' /\ EndingOK(q)'
  BY DEF TasksOK
<1>1. CASE q = r
  <2>1. tasks[r] # NoTask
    BY DEF Live
  <2>2. TaskOK(r) /\ tasks[r] \in Task
    BY <2>1, TaskIsMinted
  <2>3. TaskOK(r)'
    BY <2>2 DEF TaskOK, Task, IdsGrew
  <2> QED BY <1>1, <2>3
<1>2. CASE q # r
  <2>1. tasks[q] # NoTask /\ tasks'[q] = tasks[q] /\ runs'[q] = runs[q]
    BY <1>2
  <2>2. TaskOK(q) /\ EndingOK(q) /\ tasks[q] \in Task
    BY <2>1, TaskIsMinted
  <2>3. TaskOK(q)'
    BY <2>1, <2>2 DEF TaskOK, Task, Live, IdsGrew
  <2>4. EndingOK(q)'
    BY <2>1, <2>2 DEF EndingOK, Stored
  <2> QED BY <2>3, <2>4
<1> QED BY <1>1, <1>2

\* A segment that does not move keeps what it relies on.
LEMMA SegmentRests ==
  ASSUME TeammateInv, IdsGrew, NEW s \in Server, loop'[s] = loop[s],
         loop[s].at = "wire" =>
            /\ tasks'[loop[s].run] = tasks[loop[s].run]
            /\ runs'[loop[s].run] = runs[loop[s].run] \/ runs'[loop[s].run] = NoRun,
         loop[s].at \in {"repin", "settle"} => tasks'[loop[s].run] = tasks[loop[s].run]
  PROVE  SegmentOK(s)'
<1>1. SegmentOK(s) /\ loop[s] \in Segment
  BY DEF TeammateInv, ServingInv, ServingTypeOK
<1> QED BY <1>1 DEF SegmentOK, Segment, IdsGrew

\* A segment before its first look at the entry relies on nothing.
LEMMA SegmentIsFree ==
  ASSUME NEW s \in Server, loop'[s].at \in {"idle", "ensure", "crew"}
  PROVE  SegmentOK(s)'
BY DEF SegmentOK

\* No segment that opens a run: still no two of them on one run.
LEMMA WiresRest ==
  ASSUME TeammateInv, \A s \in Server : loop'[s].at = "wire" => loop'[s] = loop[s]
  PROVE  WiresApart'
BY DEF TeammateInv, ServingInv, WiresApart

\* A task that moves is in nobody's segment but its own server's.
LEMMA SegmentsElsewhere ==
  ASSUME TeammateInv, IdsGrew, NEW r \in Run, tasks[r] # NoTask,
         \A q \in Run \ {r} : tasks'[q] = tasks[q] /\ runs'[q] = runs[q],
         NEW s \in Server, loop'[s] = loop[s],
         loop[s].at \in {"repin", "settle"} => loop[s].run # r
  PROVE  SegmentOK(s)'
<1>1. SegmentOK(s) /\ lastRun \in 0 .. MaxRun
  BY DEF TeammateInv, ServingInv, TablesInv, TypeOK
<1>2. loop[s].at \in {"wire", "repin", "settle"} => loop[s].run \in Run \ {r}
  BY <1>1 DEF SegmentOK
<1> QED BY <1>2, SegmentRests

LEMMA IdleIsASegment == Idle \in Segment /\ Idle.at = "idle"
<1>1. (CHOOSE k \in Key : TRUE) \in Key
  BY KeyAssumption
<1>2. MaxSession \in Nat /\ MaxRun \in Nat
  OBVIOUS
<1> QED BY <1>1, <1>2 DEF Idle, Segment, Provider, Options

LEMMA SpendIsTyped ==
  ASSUME ServingTypeOK, NEW event \in Event, Spend(event)
  PROVE  spent' \in [Event -> Nat]
<1>1. spent[event] \in Nat
  BY DEF ServingTypeOK
<1> QED BY <1>1 DEF Spend, ServingTypeOK

-----------------------------------------------------------------------------
(* The segments.                                                           *)

LEMMA CallPreserves ==
  ASSUME TeammateInv, IdsGrew, NEW s \in Server, NEW k \in Key, NEW p \in Provider,
         NEW reset \in BOOLEAN, NEW wait \in BOOLEAN, Call(s, k, p, reset, wait)
  PROVE  ServingInv'
<1> DEFINE c == [Idle EXCEPT !.at = "ensure", !.key = k, !.provider = p,
                             !.reset = reset, !.wait = wait, !.left = Crew[k]]
<1>1. /\ loop' = [loop EXCEPT ![s] = c]
      /\ spent' = [spent EXCEPT !["call"] = @ + 1, !["reset"] = @ + IF reset THEN 1 ELSE 0]
      /\ UNCHANGED <<tables, tasks, registered, awaited, created>>
  BY DEF Call, OpenSegment, Go
<1>2. c \in Segment /\ c.at = "ensure"
  <2>1. Crew[k] \in SUBSET Key
    BY CrewAssumption
  <2> QED BY <2>1, IdleIsASegment DEF Segment
<1>3. spent' \in [Event -> Nat]
  <2>1. /\ spent \in [Event -> Nat] /\ "call" \in Event /\ "reset" \in Event
        /\ (IF reset THEN 1 ELSE 0) \in Nat
    BY DEF TeammateInv, ServingInv, ServingTypeOK, Event
  <2> QED BY <1>1, <2>1
<1> HIDE DEF c
<1>4. ServingTypeOK'
  BY <1>1, <1>2, <1>3 DEF TeammateInv, ServingInv, ServingTypeOK
<1>5. loop'[s] = c /\ \A u \in Server \ {s} : loop'[u] = loop[u]
  BY <1>1 DEF TeammateInv, ServingInv, ServingTypeOK
<1>6. ASSUME NEW u \in Server PROVE SegmentOK(u)'
  BY <1>1, <1>2, <1>5, SegmentIsFree, SegmentRests DEF tables
<1>7. WiresApart'
  BY <1>2, <1>5, WiresRest
<1>8. TasksOK'
  BY <1>1, TasksRest DEF tables
<1> QED BY <1>4, <1>6, <1>7, <1>8 DEF ServingInv

LEMMA JoinPreserves ==
  ASSUME TeammateInv, IdsGrew, NEW s \in Server, NEW k \in Key, Join(s, k)
  PROVE  ServingInv'
<1>1. LatestRun(k) \in registered[s]
  BY DEF Join, LiveRun
<1>2. ServingTypeOK'
  BY <1>1 DEF Join, TeammateInv, ServingInv, ServingTypeOK
<1>3. ASSUME NEW u \in Server PROVE SegmentOK(u)'
  BY SegmentRests DEF Join, tables
<1>4. WiresApart'
  BY WiresRest DEF Join
<1>5. TasksOK'
  BY TasksRest DEF Join, tables
<1> QED BY <1>2, <1>3, <1>4, <1>5 DEF ServingInv

\* A step of s's segment that leaves tasks and registry alone and goes on to c,
\* where c relies on nothing yet.
LEMMA SegmentGoesOn ==
  ASSUME TeammateInv, IdsGrew, NEW s \in Server, NEW c \in Segment,
         c.at \in {"idle", "ensure", "crew"},
         loop' = [loop EXCEPT ![s] = c],
         UNCHANGED <<tasks, registered, awaited, created, runs>>,
         spent' \in [Event -> Nat]
  PROVE  ServingInv'
<1>1. loop'[s] = c /\ \A u \in Server \ {s} : loop'[u] = loop[u]
  BY DEF TeammateInv, ServingInv, ServingTypeOK
<1>2. ServingTypeOK'
  BY DEF TeammateInv, ServingInv, ServingTypeOK
<1>3. ASSUME NEW u \in Server PROVE SegmentOK(u)'
  BY <1>1, SegmentIsFree, SegmentRests
<1>4. WiresApart'
  BY <1>1, WiresRest
<1>5. TasksOK'
  BY TasksRest
<1> QED BY <1>2, <1>3, <1>4, <1>5 DEF ServingInv

LEMMA EnsurePreserves ==
  ASSUME TeammateInv, IdsGrew, NEW s \in Server, Ensure(s) \/ EnsureCrew(s) \/ WireFails(s)
  PROVE  ServingInv'
<1>1. loop[s] \in Segment /\ spent \in [Event -> Nat] /\ "unwired" \in Event
  BY DEF TeammateInv, ServingInv, ServingTypeOK, Event
<1>2. CASE Ensure(s)
  <2> DEFINE c == [loop[s] EXCEPT !.at = "crew"]
  <2>1. c \in Segment /\ c.at = "crew"
    BY <1>1 DEF Segment
  <2>2. /\ loop' = [loop EXCEPT ![s] = c]
        /\ UNCHANGED <<tasks, registered, awaited, created, spent, runs>>
    BY <1>2 DEF Ensure, Go, Save, SaveOver
  <2> HIDE DEF c
  <2> QED BY <1>1, <2>1, <2>2, SegmentGoesOn
<1>3. CASE EnsureCrew(s)
  <2>1. PICK m \in loop[s].left :
           /\ Save(m, NoCwd, FALSE)
           /\ loop' = [loop EXCEPT ![s] = [loop[s] EXCEPT !.left = @ \ {m}]]
    BY <1>3 DEF EnsureCrew, Go
  <2>2. [loop[s] EXCEPT !.left = @ \ {m}] \in Segment
        /\ [loop[s] EXCEPT !.left = @ \ {m}].at = "crew"
    BY <1>1, <1>3 DEF Segment, EnsureCrew
  <2>3. UNCHANGED <<tasks, registered, awaited, created, spent, runs>>
    BY <1>3, <2>1 DEF EnsureCrew, Save, SaveOver
  <2> HIDE DEF Segment
  <2> QED BY <1>1, <2>1, <2>2, <2>3, SegmentGoesOn
<1>4. CASE WireFails(s)
  <2>1. spent' \in [Event -> Nat]
    BY <1>1, <1>4, SpendIsTyped DEF WireFails, TeammateInv, ServingInv
  <2> QED BY <1>4, <2>1, IdleIsASegment, SegmentGoesOn DEF WireFails, Yield, Go, tables
<1> QED BY <1>2, <1>3, <1>4

LEMMA PreparePreserves ==
  ASSUME TeammateInv, IdsGrew, NEW s \in Server, Prepare(s)
  PROVE  ServingInv'
<1> DEFINE c == [loop[s] EXCEPT !.at = "begin", !.session = agents[loop[s].key].session]
<1>1. CASE Yield(s)
  <2>1. spent' \in [Event -> Nat]
    BY DEF Prepare, TeammateInv, ServingInv, ServingTypeOK
  <2> QED BY <1>1, <2>1, IdleIsASegment, SegmentGoesOn DEF Prepare, Yield, Go, tables
<1>2. CASE agents[loop[s].key] # NoEntry /\ loop' = [loop EXCEPT ![s] = c]
  <2>1. loop[s] \in Segment /\ loop[s].key \in Key
    BY DEF TeammateInv, ServingInv, ServingTypeOK, Segment
  <2>2. agents[loop[s].key] \in Entry /\ agents[loop[s].key].session <= lastSession
    BY <1>2, <2>1 DEF TeammateInv, TablesInv, TypeOK, RowsAreMinted
  <2>3. agents[loop[s].key].session \in 1 .. lastSession /\ lastSession \in 0 .. MaxSession
    BY <2>2 DEF Entry, TeammateInv, TablesInv, TypeOK
  <2>4. c \in Segment /\ c.at = "begin" /\ c.session \in 1 .. lastSession
    <3>1. PICK f \in Segment : f = loop[s]
      BY <2>1
    <3>2. PICK x \in 1 .. lastSession : x = agents[loop[s].key].session
      BY <2>3
    <3>3. x \in 0 .. MaxSession
      BY <2>3
    <3>4. c = [f EXCEPT !.at = "begin", !.session = x]
      BY <3>1, <3>2
    <3> HIDE DEF c
    <3> QED BY <3>3, <3>4 DEF Segment
  <2>5. UNCHANGED <<tables, tasks, registered, awaited, created, spent>>
    BY DEF Prepare
  <2> HIDE DEF c
  <2>6. loop'[s] = c /\ \A u \in Server \ {s} : loop'[u] = loop[u]
    BY <1>2 DEF TeammateInv, ServingInv, ServingTypeOK
  <2>7. ServingTypeOK'
    BY <1>2, <2>4, <2>5 DEF TeammateInv, ServingInv, ServingTypeOK
  <2>8. ASSUME NEW u \in Server PROVE SegmentOK(u)'
    <3>1. CASE u = s
      BY <3>1, <2>4, <2>5, <2>6 DEF SegmentOK, tables
    <3>2. CASE u # s
      BY <3>2, <2>5, <2>6, SegmentRests DEF tables
    <3> QED BY <3>1, <3>2
  <2>9. WiresApart'
    BY <2>4, <2>6, WiresRest
  <2>10. TasksOK'
    BY <2>5, TasksRest DEF tables
  <2> QED BY <2>7, <2>8, <2>9, <2>10 DEF ServingInv
<1> QED BY <1>1, <1>2 DEF Prepare, Go

LEMMA BeginPreserves ==
  ASSUME TeammateInv, IdsGrew, NEW s \in Server, Begin(s)
  PROVE  ServingInv'
<1> DEFINE new == lastRun + 1
           c   == [loop[s] EXCEPT !.at = "wire", !.run = lastRun',
                                  !.options = runs'[lastRun'].options]
<1>1. loop[s] \in Segment /\ loop[s].key \in Key /\ loop[s].session \in 1 .. lastSession
      /\ lastSession \in 0 .. MaxSession
  <2>1. SegmentOK(s)
    BY DEF TeammateInv, ServingInv
  <2> QED BY <2>1 DEF Begin, TeammateInv, ServingInv, ServingTypeOK, Segment, SegmentOK,
                      TablesInv, TypeOK
<1>2. PICK o \in {"fresh", "resume", "plain"}, x \in 0 .. MaxSession :
         OpenRun(loop[s].key, o, x)
  <2>1. CASE StartRun(loop[s].key)
    BY <2>1 DEF StartRun
  <2>2. CASE BeginRun(loop[s].key, loop[s].session)
    <3>1. loop[s].session \in 0 .. MaxSession
      BY <1>1
    <3> QED BY <2>2, <3>1 DEF BeginRun
  <2> QED BY <2>1, <2>2 DEF Begin
<1> DEFINE opened == [key |-> loop[s].key, state |-> "open", options |-> o, session |-> x]
<1>3. /\ new \in Run /\ lastRun' = new /\ lastRun \in Nat
      /\ runs' = [runs EXCEPT ![new] = opened]
      /\ UNCHANGED <<agents, agentRuns, findings, lastSession>>
  BY <1>2 DEF OpenRun, TeammateInv, TablesInv, TypeOK
<1>4. runs'[new] = opened /\ \A q \in Run \ {new} : runs'[q] = runs[q]
  BY <1>3 DEF TeammateInv, TablesInv, TypeOK
<1>5. /\ loop' = [loop EXCEPT ![s] = c]
      /\ UNCHANGED <<tasks, registered, awaited, created, spent>>
  BY DEF Begin, Go
<1>6. /\ c \in Segment /\ c.at = "wire" /\ c.run = new
      /\ c.key = loop[s].key /\ c.session = loop[s].session
  <2>1. opened.options = o /\ o \in Options /\ new \in 0 .. MaxRun
    BY <1>3 DEF Options
  <2>2. PICK f \in Segment : f = loop[s]
    BY <1>1
  <2>3. PICK r \in 0 .. MaxRun : r = new
    BY <2>1
  <2>4. c = [f EXCEPT !.at = "wire", !.run = r, !.options = o]
    BY <1>3, <1>4, <2>1, <2>2, <2>3
  <2> HIDE DEF opened, c, new
  <2> QED BY <2>1, <2>2, <2>3, <2>4 DEF Segment
<1>7. opened.state = "open" /\ opened.key = loop[s].key
  OBVIOUS
<1> HIDE DEF c, opened, new
<1>8. loop'[s] = c /\ \A u \in Server \ {s} : loop'[u] = loop[u]
  BY <1>5 DEF TeammateInv, ServingInv, ServingTypeOK
<1>9. \A q \in Run : tasks[q] # NoTask => q # new
  <2>1. \A q \in Run : tasks[q] # NoTask => q <= lastRun
    BY DEF TeammateInv, ServingInv, TasksOK, TaskOK
  <2> QED BY <1>3, <2>1 DEF new
<1>10. \A u \in Server : loop[u].at \in {"wire", "repin", "settle"} =>
          loop[u].run \in Run \ {new}
  <2>1. ASSUME NEW u \in Server, loop[u].at \in {"wire", "repin", "settle"}
        PROVE  loop[u].run \in Run \ {new}
    <3>1. SegmentOK(u) /\ lastRun \in 0 .. MaxRun
      BY DEF TeammateInv, ServingInv, TablesInv, TypeOK
    <3>2. loop[u].run \in 1 .. lastRun
      BY <2>1, <3>1 DEF SegmentOK
    <3> QED BY <3>1, <3>2 DEF new
  <2> QED BY <2>1
<1>11. ServingTypeOK'
  BY <1>5, <1>6 DEF TeammateInv, ServingInv, ServingTypeOK
<1>12. ASSUME NEW u \in Server PROVE SegmentOK(u)'
  <2>1. CASE u = s
    <3>1. tasks[new] = NoTask
      BY <1>3, <1>9
    <3>2. new \in 1 .. lastRun'
      BY <1>3
    <3> QED BY <2>1, <3>1, <3>2, <1>1, <1>3, <1>4, <1>5, <1>6, <1>7, <1>8 DEF SegmentOK
  <2>2. CASE u # s
    BY <2>2, <1>4, <1>5, <1>8, <1>10, SegmentRests
  <2> QED BY <2>1, <2>2
<1>13. WiresApart'
  <2> SUFFICES ASSUME NEW u \in Server, NEW v \in Server,
                      loop'[u].at = "wire", loop'[v].at = "wire", loop'[u].run = loop'[v].run
               PROVE  u = v
    BY DEF WiresApart
  <2>1. CASE u # s /\ v # s
    BY <2>1, <1>8 DEF TeammateInv, ServingInv, WiresApart
  <2>2. CASE u = s /\ v # s
    BY <2>2, <1>6, <1>8, <1>10
  <2>3. CASE u # s /\ v = s
    BY <2>3, <1>6, <1>8, <1>10
  <2> QED BY <2>1, <2>2, <2>3
<1>14. TasksOK'
  BY <1>4, <1>5, <1>9, TasksRest
<1> QED BY <1>11, <1>12, <1>13, <1>14 DEF ServingInv

LEMMA SpawnPreserves ==
  ASSUME TeammateInv, IdsGrew, NEW s \in Server, Spawn(s)
  PROVE  ServingInv'
<1> DEFINE r == loop[s].run
           t == [server |-> s, key |-> loop[s].key, provider |-> loop[s].provider,
                 options |-> loop[s].options, expect |-> loop[s].session, session |-> 0,
                 state |-> "starting"]
<1>1. /\ loop[s].at = "wire"
      /\ tasks' = [tasks EXCEPT ![r] = t]
      /\ awaited' = IF loop[s].wait THEN awaited \cup {r} ELSE awaited
      /\ loop' = [loop EXCEPT ![s] = Idle]
      /\ registered' = [registered EXCEPT ![s] = @ \cup {r}]
      /\ UNCHANGED <<tables, created, spent>>
  BY DEF Spawn, NewTask, Yield, Go
<1>2. /\ loop[s] \in Segment /\ r \in 1 .. lastRun /\ lastRun \in 0 .. MaxRun
      /\ loop[s].session \in 1 .. lastSession /\ lastSession \in 0 .. MaxSession
      /\ tasks[r] = NoTask
      /\ runs[r] # NoRun => runs[r].state = "open" /\ runs[r].key = loop[s].key
  BY <1>1 DEF TeammateInv, TablesInv, TypeOK, ServingInv, ServingTypeOK, SegmentOK
<1>3. r \in Run
  BY <1>2
<1>4. t \in Task
  BY <1>2 DEF Task, Segment
<1>5. t # NoTask
  BY <1>4, TaskAssumption
<1>6. /\ t.server = s /\ t.key = loop[s].key /\ t.state = "starting"
      /\ t.expect = loop[s].session /\ t.session = 0
  OBVIOUS
<1> HIDE DEF t, r
<1>7. tasks'[r] = t /\ \A q \in Run \ {r} : tasks'[q] = tasks[q]
  BY <1>1, <1>3 DEF TeammateInv, ServingInv, ServingTypeOK
<1>8. loop'[s] = Idle /\ \A u \in Server \ {s} : loop'[u] = loop[u]
  BY <1>1 DEF TeammateInv, ServingInv, ServingTypeOK
<1>9. ServingTypeOK'
  BY <1>1, <1>3, <1>4, IdleIsASegment DEF TeammateInv, ServingInv, ServingTypeOK
<1>10. ASSUME NEW u \in Server PROVE SegmentOK(u)'
  <2>1. CASE u = s
    BY <2>1, <1>8, IdleIsASegment, SegmentIsFree
  <2>2. CASE u # s
    <3>1. SegmentOK(u) /\ loop'[u] = loop[u]
      BY <2>2, <1>8 DEF TeammateInv, ServingInv
    <3>2. loop[u].at = "wire" => loop[u].run \in Run /\ loop[u].run # r
      BY <2>2, <3>1, <1>1, <1>2 DEF SegmentOK, TeammateInv, ServingInv, WiresApart, r
    <3>3. loop[u].at \in {"repin", "settle"} => loop[u].run \in Run /\ loop[u].run # r
      BY <3>1, <1>2 DEF SegmentOK
    <3> QED BY <3>1, <3>2, <3>3, <1>1, <1>7, SegmentRests DEF tables
  <2> QED BY <2>1, <2>2
<1>11. WiresApart'
  BY <1>8, IdleIsASegment, WiresRest
<1>12. TasksOK'
  <2> SUFFICES ASSUME NEW q \in Run, tasks'[q] # NoTask
               PROVE  TaskOK(q)' /\ EndingOK(q)'
    BY DEF TasksOK
  <2>0. UNCHANGED <<runs, lastRun, lastSession>>
    BY <1>1 DEF tables
  <2>1. CASE q = r
    <3>1. r \in registered'[s]
      BY <1>1, <1>3 DEF TeammateInv, ServingInv, ServingTypeOK
    <3>2. TaskOK(q)'
      BY <2>0, <2>1, <3>1, <1>2, <1>6, <1>7 DEF TaskOK
    <3>3. EndingOK(q)'
      BY <2>0, <2>1, <1>2, <1>6, <1>7 DEF EndingOK, Stored
    <3> QED BY <3>2, <3>3
  <2>2. CASE q # r
    <3>1. tasks[q] # NoTask /\ tasks'[q] = tasks[q]
      BY <2>2, <1>7
    <3>2. TaskOK(q) /\ EndingOK(q) /\ tasks[q] \in Task
      BY <3>1, TaskIsMinted
    <3>3. registered[tasks[q].server] \subseteq registered'[tasks[q].server]
      <4>1. tasks[q].server \in Server
        BY <3>2 DEF Task
      <4> QED BY <4>1, <1>1 DEF TeammateInv, ServingInv, ServingTypeOK
    <3>4. TaskOK(q)'
      BY <2>0, <3>1, <3>2, <3>3 DEF TaskOK, Live
    <3>5. EndingOK(q)'
      BY <2>0, <3>1, <3>2 DEF EndingOK, Stored
    <3> QED BY <3>4, <3>5
  <2> QED BY <2>1, <2>2
<1> QED BY <1>9, <1>10, <1>11, <1>12 DEF ServingInv

-----------------------------------------------------------------------------
(* The tasks.                                                              *)

TaskState == {"starting", "attached", "streaming", "returned", "raised", "cancelled", "lost"}

Moved(r, state, session) ==
    \/ tasks' = [tasks EXCEPT ![r].state = state] /\ session = tasks[r].session
    \/ tasks' = [tasks EXCEPT ![r].state = state, ![r].session = session]

\* What a task becomes, or comes to be on, changes nothing else of it.
LEMMA TaskUpdates ==
  ASSUME ServingTypeOK, NEW r \in Run, tasks[r] # NoTask,
         NEW state \in TaskState, NEW session \in 0 .. MaxSession,
         Moved(r, state, session)
  PROVE  /\ tasks' \in [Run -> Task \cup {NoTask}]
         /\ \A q \in Run \ {r} : tasks'[q] = tasks[q]
         /\ tasks'[r] \in Task /\ tasks'[r] # NoTask
         /\ tasks'[r].state = state /\ tasks'[r].session = session
         /\ tasks'[r].server = tasks[r].server /\ tasks'[r].key = tasks[r].key
         /\ tasks'[r].provider = tasks[r].provider /\ tasks'[r].options = tasks[r].options
         /\ tasks'[r].expect = tasks[r].expect
<1>1. PICK t \in Task : t = tasks[r]
  BY DEF ServingTypeOK
<1>2. PICK u : u = [t EXCEPT !.state = state, !.session = session]
  OBVIOUS
<1>3. /\ u \in Task /\ u.state = state /\ u.session = session
      /\ u.server = t.server /\ u.key = t.key /\ u.provider = t.provider
      /\ u.options = t.options /\ u.expect = t.expect
  BY <1>2 DEF Task, TaskState
<1>4. tasks' = [tasks EXCEPT ![r] = u]
  <2>1. CASE tasks' = [tasks EXCEPT ![r].state = state] /\ session = tasks[r].session
    <3>1. tasks' = [tasks EXCEPT ![r] = [t EXCEPT !.state = state]]
      BY <2>1, <1>1
    <3>2. [t EXCEPT !.state = state] = u
      BY <2>1, <1>1, <1>2 DEF Task
    <3> QED BY <3>1, <3>2
  <2>2. CASE tasks' = [tasks EXCEPT ![r].state = state, ![r].session = session]
    BY <2>2, <1>1, <1>2
  <2> QED BY <2>1, <2>2 DEF Moved
<1>5. u # NoTask
  BY <1>3, TaskAssumption
<1> QED BY <1>1, <1>3, <1>4, <1>5 DEF ServingTypeOK

\* finish_run's UPDATE touches the outcome of its row alone.
LEMMA FinishEffect ==
  ASSUME TypeOK, NEW r \in Run, NEW outcome \in Outcome, FinishRun(r, outcome)
  PROVE  /\ runs'[r].state = outcome /\ runs'[r].key = runs[r].key
         /\ runs[r] # NoRun
         /\ \A q \in Run \ {r} : runs'[q] = runs[q]
<1>1. PICK t \in RunRow : t = runs[r]
  BY DEF FinishRun, TypeOK
<1>2. runs' = [runs EXCEPT ![r] = [t EXCEPT !.state = outcome]]
  BY <1>1 DEF FinishRun
<1> QED BY <1>1, <1>2 DEF FinishRun, TypeOK, RunRow

\* While a task has a turn, or has not been heard, no segment works on its run.
LEMMA TurnIsNobodysSegment ==
  ASSUME TeammateInv, NEW r \in Run, Live(r), Turn(r) \/ tasks[r].state = "starting",
         NEW s \in Server, loop[s].at \in {"repin", "settle"}
  PROVE  loop[s].run # r
<1>1. /\ tasks[loop[s].run].server = s
      /\ tasks[loop[s].run].state = "streaming"
  BY DEF TeammateInv, ServingInv, SegmentOK
<1> QED BY <1>1 DEF Turn

\* One live task moves on.
LEMMA MovePreserves ==
  ASSUME TeammateInv, IdsGrew, NEW r \in Run, Live(r),
         NEW state \in TaskState, NEW session \in 0 .. MaxSession,
         Moved(r, state, session),
         session <= lastSession',
         state \in {"attached", "streaming"} => session # 0,
         \A q \in Run \ {r} : runs'[q] = runs[q],
         \/ runs'[r] = runs[r] /\ state \notin {"returned", "raised"}
         \/ state = "returned" /\ FinishRun(r, "finished")
         \/ state = "raised" /\ FinishRun(r, "failed")
         \/ state \in {"returned", "raised"} /\ runs'[r] = NoRun,
         UNCHANGED <<registered, awaited>>,
         created' \subseteq Session, spent' \in [Event -> Nat],
         loop' \in [Server -> Segment],
         \A s \in Server :
            \/ /\ loop'[s] = loop[s]
               /\ loop[s].at \in {"repin", "settle"} => loop[s].run # r
            \/ loop'[s].at # "wire" /\ SegmentOK(s)'
  PROVE  ServingInv'
<1>1. tasks[r] # NoTask
  BY DEF Live
<1>2. TaskOK(r) /\ EndingOK(r) /\ tasks[r] \in Task
  BY <1>1, TaskIsMinted
<1>0. ServingTypeOK /\ TypeOK
  BY DEF TeammateInv, ServingInv, TablesInv
<1>3. /\ tasks' \in [Run -> Task \cup {NoTask}]
      /\ \A q \in Run \ {r} : tasks'[q] = tasks[q]
      /\ tasks'[r] \in Task /\ tasks'[r] # NoTask
      /\ tasks'[r].state = state /\ tasks'[r].session = session
      /\ tasks'[r].server = tasks[r].server /\ tasks'[r].key = tasks[r].key
      /\ tasks'[r].expect = tasks[r].expect
  BY <1>0, <1>1, TaskUpdates
<1>4. runs'[r] # NoRun => runs[r] # NoRun /\ runs'[r].key = runs[r].key
  BY <1>0, FinishEffect
<1>5. EndingOK(r)'
  <2>1. CASE runs'[r] = runs[r] /\ state \notin {"returned", "raised"}
    BY <2>1, <1>2, <1>3 DEF EndingOK, Stored, Live
  <2>2. CASE state = "returned" /\ FinishRun(r, "finished")
    BY <2>2, <1>0, <1>3, FinishEffect DEF EndingOK
  <2>3. CASE state = "raised" /\ FinishRun(r, "failed")
    BY <2>3, <1>0, <1>3, FinishEffect DEF EndingOK
  <2>4. CASE runs'[r] = NoRun
    BY <2>4 DEF EndingOK, Stored
  <2> QED BY <2>1, <2>2, <2>3, <2>4
<1>6. TasksOK'
  <2>1. session \in 0 .. lastSession'
    BY DEF IdsGrew
  <2> QED BY <2>1, <1>3, <1>4, <1>5, TaskMoves
<1>7. ServingTypeOK'
  BY <1>0, <1>3 DEF ServingTypeOK
<1>8. ASSUME NEW s \in Server PROVE SegmentOK(s)'
  BY <1>1, <1>3, SegmentsElsewhere
<1>9. WiresApart'
  BY WiresRest
<1> QED BY <1>6, <1>7, <1>8, <1>9 DEF ServingInv

LEMMA AttachPreserves ==
  ASSUME TeammateInv, IdsGrew, NEW r \in Run, Attach(r)
  PROVE  ServingInv'
<1>0. /\ Live(r) /\ tasks[r].state = "starting" /\ tasks[r] # NoTask
      /\ UNCHANGED <<loop, registered, awaited>>
  BY DEF Attach, Live
<1>1. ASSUME NEW s \in Server PROVE loop[s].at \in {"repin", "settle"} => loop[s].run # r
  BY <1>0, TurnIsNobodysSegment
<1>2. /\ loop \in [Server -> Segment] /\ created \subseteq Session /\ spent \in [Event -> Nat]
      /\ lastSession \in 0 .. MaxSession /\ lastSession' \in Nat
  BY DEF TeammateInv, ServingInv, ServingTypeOK, TablesInv, TypeOK, IdsGrew
<1>3. CASE /\ tasks' = [tasks EXCEPT ![r].state = "attached", ![r].session = tasks[r].expect]
           /\ created' = created \cup {tasks[r].expect}
           /\ UNCHANGED <<tables, spent>>
  <2>1. PICK x \in Session : x = tasks[r].expect /\ x <= lastSession
    BY <1>0, TaskIsMinted
  <2>2. x \in 0 .. MaxSession /\ x # 0 /\ x <= lastSession' /\ "attached" \in TaskState
        /\ created' \subseteq Session
    BY <2>1, <1>2, <1>3 DEF TaskState, IdsGrew
  <2>3. UNCHANGED <<runs, spent>>
    BY <1>3 DEF tables
  <2>4. Moved(r, "attached", x)
    BY <1>3, <2>1 DEF Moved
  <2> QED BY <1>0, <1>1, <1>2, <2>2, <2>3, <2>4, MovePreserves
<1>4. CASE /\ Spend("drift") /\ ObserveSession
           /\ tasks' = [tasks EXCEPT ![r].state = "attached", ![r].session = lastSession']
           /\ created' = created \cup {lastSession'}
  <2>1. PICK x \in 0 .. MaxSession : x = lastSession' /\ x # 0
    BY <1>2, <1>4 DEF ObserveSession
  <2>2. /\ x <= lastSession' /\ "attached" \in TaskState /\ created' \subseteq Session
        /\ spent' \in [Event -> Nat]
    <3>1. ServingTypeOK /\ "drift" \in Event
      BY DEF TeammateInv, ServingInv, Event
    <3> QED BY <2>1, <3>1, <1>2, <1>4, SpendIsTyped DEF TaskState
  <2>3. UNCHANGED runs
    BY <1>4 DEF ObserveSession
  <2>4. Moved(r, "attached", x)
    BY <1>4, <2>1 DEF Moved
  <2> QED BY <1>0, <1>1, <1>2, <2>1, <2>2, <2>3, <2>4, MovePreserves
<1> QED BY <1>3, <1>4 DEF Attach

\* The same for a task that stays on its session.
LEMMA BecomesPreserves ==
  ASSUME TeammateInv, IdsGrew, NEW r \in Run, Live(r), NEW state \in TaskState,
         Becomes(r, state),
         state \in {"attached", "streaming"} => tasks[r].state = "attached",
         \A q \in Run \ {r} : runs'[q] = runs[q],
         \/ runs'[r] = runs[r] /\ state \notin {"returned", "raised"}
         \/ state = "returned" /\ FinishRun(r, "finished")
         \/ state = "raised" /\ FinishRun(r, "failed")
         \/ state \in {"returned", "raised"} /\ runs'[r] = NoRun,
         UNCHANGED <<registered, awaited, created>>, spent' \in [Event -> Nat],
         loop' \in [Server -> Segment],
         \A s \in Server :
            \/ /\ loop'[s] = loop[s]
               /\ loop[s].at \in {"repin", "settle"} => loop[s].run # r
            \/ loop'[s].at # "wire" /\ SegmentOK(s)'
  PROVE  ServingInv'
<1>1. tasks[r] # NoTask
  BY DEF Live
<1>2. tasks[r] \in Task /\ TaskOK(r)
  BY <1>1, TaskIsMinted
<1>3. PICK x \in 0 .. MaxSession : x = tasks[r].session
  BY <1>2 DEF Task
<1>4. x <= lastSession' /\ (state \in {"attached", "streaming"} => x # 0)
  BY <1>2, <1>3 DEF TaskOK, IdsGrew
<1>5. Moved(r, state, x) /\ created' \subseteq Session
  BY <1>3 DEF Moved, Becomes, TeammateInv, ServingInv, ServingTypeOK
<1>6. x \in 0 .. MaxSession /\ UNCHANGED <<registered, awaited>>
  BY <1>3
<1> QED BY <1>3, <1>4, <1>5, <1>6, MovePreserves

\* Fail and Finish change no row but the one of the run that ends.
LEMMA EndRows ==
  ASSUME TypeOK, NEW r \in Run
  PROVE  /\ Fail(r) => /\ Becomes(r, "raised")
                       /\ \A q \in Run \ {r} : runs'[q] = runs[q]
                       /\ FinishRun(r, "failed") \/ runs'[r] = NoRun
         /\ Finish(r) => /\ \A q \in Run \ {r} : runs'[q] = runs[q]
                         /\ \/ Becomes(r, "returned") /\ FinishRun(r, "finished")
                            \/ Becomes(r, "raised") /\ runs'[r] = NoRun
<1>1. ASSUME NEW outcome \in Outcome, FinishRun(r, outcome)
      PROVE  \A q \in Run \ {r} : runs'[q] = runs[q]
  BY <1>1, FinishEffect
<1>2. ASSUME Fail(r)
      PROVE  /\ Becomes(r, "raised")
             /\ \A q \in Run \ {r} : runs'[q] = runs[q]
             /\ FinishRun(r, "failed") \/ runs'[r] = NoRun
  <2>1. CASE FinishRun(r, "failed")
    BY <1>1, <1>2, <2>1 DEF Fail
  <2>2. CASE runs[r] = NoRun /\ UNCHANGED tables
    BY <1>2, <2>2 DEF Fail, tables
  <2> QED BY <1>2, <2>1, <2>2 DEF Fail
<1>3. ASSUME Finish(r)
      PROVE  /\ \A q \in Run \ {r} : runs'[q] = runs[q]
             /\ \/ Becomes(r, "returned") /\ FinishRun(r, "finished")
                \/ Becomes(r, "raised") /\ runs'[r] = NoRun
  <2>1. CASE FinishRun(r, "finished") /\ Becomes(r, "returned")
    BY <1>1, <2>1
  <2>2. CASE runs[r] = NoRun /\ Becomes(r, "raised") /\ UNCHANGED tables
    BY <2>2 DEF tables
  <2> QED BY <1>3, <2>1, <2>2 DEF Finish
<1> QED BY <1>2, <1>3

LEMMA CodexStartsPreserves ==
  ASSUME TeammateInv, IdsGrew, NEW r \in Run, CodexStarts(r)
  PROVE  ServingInv'
<1>0. /\ Live(r) /\ Turn(r) /\ tasks[r] # NoTask /\ agents[tasks[r].key] # NoEntry
      /\ tasks' = [tasks EXCEPT ![r].state = "attached",
                                ![r].session = agents[tasks[r].key].session]
      /\ UNCHANGED <<tables, loop, registered, awaited, created, spent>>
  BY DEF CodexStarts, Turn, Live
<1>1. ASSUME NEW s \in Server PROVE loop[s].at \in {"repin", "settle"} => loop[s].run # r
  BY <1>0, TurnIsNobodysSegment
<1>2. /\ loop' \in [Server -> Segment] /\ created' \subseteq Session /\ spent' \in [Event -> Nat]
      /\ lastSession \in 0 .. MaxSession /\ UNCHANGED <<runs, lastSession>>
  BY <1>0 DEF TeammateInv, ServingInv, ServingTypeOK, TablesInv, TypeOK, tables
<1>3. tasks[r].key \in Key
  BY <1>0, TaskIsMinted DEF Task
<1>4. /\ agents[tasks[r].key] \in Entry
      /\ agents[tasks[r].key].session <= lastSession
  BY <1>0, <1>3 DEF TeammateInv, TablesInv, TypeOK, RowsAreMinted
<1>5. PICK x \in Session : x = agents[tasks[r].key].session /\ x <= lastSession
  BY <1>4 DEF Entry
<1>6. x \in 0 .. MaxSession /\ x # 0 /\ x <= lastSession' /\ "attached" \in TaskState
  BY <1>2, <1>5 DEF TaskState
<1>7. Moved(r, "attached", x)
  BY <1>0, <1>5 DEF Moved
<1> QED BY <1>0, <1>1, <1>2, <1>6, <1>7, MovePreserves

LEMMA FirstRowPreserves ==
  ASSUME TeammateInv, IdsGrew, NEW r \in Run, FirstRow(r)
  PROVE  ServingInv'
<1> DEFINE t == tasks[r]
           next == IF t.provider = "codex" THEN "settle"
                   ELSE IF t.session # t.expect THEN "repin" ELSE "idle"
           c == IF next = "idle" THEN Idle ELSE [Idle EXCEPT !.at = next, !.run = r]
<1>0. /\ Live(r) /\ Turn(r) /\ tasks[r] # NoTask /\ tasks[r].state = "attached"
      /\ RecordAgentRun(r, tasks[r].session)
      /\ Becomes(r, "streaming")
      /\ loop' = [loop EXCEPT ![tasks[r].server] = c]
      /\ UNCHANGED <<registered, awaited, created, spent>>
  BY DEF FirstRow, Turn, Live, Go
<1>1. /\ tasks[r] \in Task /\ r \in 1 .. lastRun /\ r \in 0 .. MaxRun
      /\ tasks[r].server \in Server
  <2>1. tasks[r] \in Task /\ r \in 1 .. lastRun
    BY <1>0, TaskIsMinted
  <2> QED BY <2>1 DEF Task
<1>2. c \in Segment /\ c.at \in {"idle", "repin", "settle"} /\ (c.at # "idle" => c.run = r)
  <2>1. PICK x \in {"settle", "repin", "idle"} : x = next
    OBVIOUS
  <2>2. c = IF x = "idle" THEN Idle ELSE [Idle EXCEPT !.at = x, !.run = r]
    BY <2>1
  <2> HIDE DEF c, next
  <2>3. CASE x = "idle"
    BY <2>2, <2>3, IdleIsASegment
  <2>4. CASE x # "idle"
    BY <1>1, <2>2, <2>4, IdleIsASegment DEF Segment
  <2> QED BY <2>3, <2>4
<1> HIDE DEF c, next, t
<1>3. /\ loop' \in [Server -> Segment] /\ spent' \in [Event -> Nat] /\ tasks \in [Run -> Task \cup {NoTask}]
      /\ loop'[tasks[r].server] = c
      /\ \A s \in Server \ {tasks[r].server} : loop'[s] = loop[s]
  BY <1>0, <1>1, <1>2 DEF TeammateInv, ServingInv, ServingTypeOK
<1>4. UNCHANGED <<runs, lastRun>>
  BY <1>0 DEF RecordAgentRun
<1>5. PICK v \in Server : v = tasks[r].server
  BY <1>1
<1>6. SegmentOK(v)'
  <2>0. ServingTypeOK /\ "streaming" \in TaskState
    BY DEF TeammateInv, ServingInv, TaskState
  <2>1. PICK x \in 0 .. MaxSession : x = tasks[r].session
    BY <1>1 DEF Task
  <2>2. Moved(r, "streaming", x)
    BY <1>0, <2>1 DEF Becomes, Moved
  <2>3. tasks'[r] # NoTask /\ tasks'[r].state = "streaming" /\ tasks'[r].server = tasks[r].server
    BY <1>0, <2>0, <2>1, <2>2, TaskUpdates
  <2> QED BY <1>1, <1>2, <1>3, <1>4, <1>5, <2>3 DEF SegmentOK
<1>7. ASSUME NEW s \in Server
      PROVE  \/ /\ loop'[s] = loop[s]
                /\ loop[s].at \in {"repin", "settle"} => loop[s].run # r
             \/ loop'[s].at # "wire" /\ SegmentOK(s)'
  <2>1. CASE s = v
    BY <2>1, <1>2, <1>3, <1>5, <1>6
  <2>2. CASE s # v
    BY <2>2, <1>0, <1>3, <1>5, TurnIsNobodysSegment
  <2> QED BY <2>1, <2>2
<1> QED BY <1>0, <1>3, <1>4, <1>7, BecomesPreserves DEF TaskState

\* The end of a stream, by whatever ends it, or a cancelled wait.
LEMMA EndsPreserve ==
  ASSUME TeammateInv, IdsGrew, NEW r \in Run, StreamEnds(r) \/ StreamRaises(r) \/ Cancel(r)
  PROVE  ServingInv'
<1>0. /\ Live(r) /\ Turn(r) /\ UNCHANGED <<loop, registered, awaited, created>>
  BY DEF StreamEnds, StreamRaises, Cancel, Turn
<1>1. ASSUME NEW s \in Server
      PROVE  /\ loop'[s] = loop[s]
             /\ loop[s].at \in {"repin", "settle"} => loop[s].run # r
  BY <1>0, TurnIsNobodysSegment
<1>2. /\ loop' \in [Server -> Segment] /\ spent' \in [Event -> Nat] /\ TypeOK
  <2>1. ServingTypeOK /\ "cancel" \in Event
    BY DEF TeammateInv, ServingInv, Event
  <2>2. spent' \in [Event -> Nat]
    BY <2>1, SpendIsTyped DEF StreamEnds, StreamRaises, Cancel, ServingTypeOK
  <2> QED BY <1>0, <2>1, <2>2 DEF ServingTypeOK, TeammateInv, TablesInv
<1>3. "returned" \in TaskState /\ "raised" \in TaskState /\ "cancelled" \in TaskState
  BY DEF TaskState
<1>4. CASE StreamEnds(r)
  BY <1>0, <1>1, <1>2, <1>3, <1>4, EndRows, BecomesPreserves DEF StreamEnds
<1>5. CASE StreamRaises(r)
  BY <1>0, <1>1, <1>2, <1>3, <1>5, EndRows, BecomesPreserves DEF StreamRaises
<1>6. CASE Cancel(r)
  BY <1>0, <1>1, <1>2, <1>3, <1>6, BecomesPreserves DEF Cancel, tables
<1> QED BY <1>4, <1>5, <1>6

LEMMA RepinPreserves ==
  ASSUME TeammateInv, IdsGrew, NEW s \in Server, Repin(s) \/ Settle(s)
  PROVE  ServingInv'
<1>1. PICK r \in Run : r = loop[s].run
  BY CodexCapturesAndSegments DEF Repin, Settle
<1>2. /\ Live(r) /\ tasks[r].server = s /\ tasks[r].state = "streaming"
      /\ loop[s].at \in {"repin", "settle"}
      /\ loop' = [loop EXCEPT ![s] = Idle]
      /\ UNCHANGED <<registered, awaited, created, spent>>
  <2>1. loop[s].at \in {"repin", "settle"}
    BY DEF Repin, Settle
  <2> QED BY <2>1, <1>1, CodexCapturesAndSegments
          DEF Repin, Settle, Yield, Go, TeammateInv, ServingInv, SegmentOK
<1>3. /\ ServingTypeOK /\ TypeOK
      /\ loop' \in [Server -> Segment] /\ spent' \in [Event -> Nat]
      /\ loop'[s] = Idle /\ \A u \in Server \ {s} : loop'[u] = loop[u]
  BY <1>2, IdleIsASegment DEF TeammateInv, ServingInv, ServingTypeOK, TablesInv
<1>4. ASSUME NEW u \in Server
      PROVE  \/ /\ loop'[u] = loop[u]
                /\ loop[u].at \in {"repin", "settle"} => loop[u].run # r
             \/ loop'[u].at # "wire" /\ SegmentOK(u)'
  <2>1. CASE u = s
    BY <2>1, <1>3, IdleIsASegment, SegmentIsFree
  <2>2. CASE u # s
    <3>1. loop[u].at \in {"repin", "settle"} => tasks[loop[u].run].server = u
      BY DEF TeammateInv, ServingInv, SegmentOK
    <3> QED BY <2>2, <3>1, <1>2, <1>3
  <2> QED BY <2>1, <2>2
<1>5. CASE Reconcile(tasks[r].key, tasks[r].session) /\ UNCHANGED tasks
  <2>1. UNCHANGED <<runs, tasks>>
    BY <1>5 DEF Reconcile
  <2>2. ServingTypeOK'
    BY <1>2, <1>3, <2>1 DEF ServingTypeOK
  <2>3. ASSUME NEW u \in Server PROVE SegmentOK(u)'
    BY <1>4, <2>1, SegmentRests
  <2>4. WiresApart'
    BY <1>4, WiresRest
  <2>5. TasksOK'
    BY <1>2, <2>1, TasksRest
  <2> QED BY <2>2, <2>3, <2>4, <2>5 DEF ServingInv
<1>6. CASE Fail(r)
  BY <1>2, <1>3, <1>4, <1>6, EndRows, BecomesPreserves DEF TaskState
<1>7. CASE Finish(r)
  BY <1>2, <1>3, <1>4, <1>7, EndRows, BecomesPreserves DEF TaskState
<1> QED BY <1>1, <1>5, <1>6, <1>7 DEF Repin, Settle

\* Nothing of the server moves; rows may be deleted, and others written.
LEMMA ServerRests ==
  ASSUME TeammateInv, IdsGrew, UNCHANGED <<loop, tasks, registered, awaited, created>>,
         spent' \in [Event -> Nat],
         \A q \in Run : runs'[q] = runs[q] \/ runs'[q] = NoRun
  PROVE  ServingInv'
<1>1. ServingTypeOK'
  BY DEF TeammateInv, ServingInv, ServingTypeOK
<1>2. ASSUME NEW s \in Server PROVE SegmentOK(s)'
  <2>1. SegmentOK(s) /\ lastRun \in 0 .. MaxRun
    BY DEF TeammateInv, ServingInv, TablesInv, TypeOK
  <2>2. loop[s].at = "wire" => loop[s].run \in Run
    BY <2>1 DEF SegmentOK
  <2> QED BY <2>2, SegmentRests
<1>3. WiresApart'
  BY WiresRest
<1>4. TasksOK'
  BY TasksRest
<1> QED BY <1>1, <1>2, <1>3, <1>4 DEF ServingInv

LEMMA WriteFindingPreserves ==
  ASSUME TeammateInv, IdsGrew, NEW r \in Run, WriteFinding(r)
  PROVE  ServingInv'
BY ServerRests DEF WriteFinding, serving, RecordFinding, TeammateInv, ServingInv, ServingTypeOK

LEMMA DismissPreserves ==
  ASSUME TeammateInv, IdsGrew, NEW k \in Key, Dismiss(k)
  PROVE  ServingInv'
<1>1. spent' \in [Event -> Nat]
  BY SpendIsTyped DEF Dismiss, TeammateInv, ServingInv, Event
<1>2. \A q \in Run : runs'[q] = runs[q] \/ runs'[q] = NoRun
  BY DEF Dismiss, Delete
<1> QED BY <1>1, <1>2, ServerRests DEF Dismiss

LEMMA DeregisterPreserves ==
  ASSUME TeammateInv, IdsGrew, NEW r \in Run, Deregister(r)
  PROVE  ServingInv'
<1>1. /\ tasks[r] # NoTask /\ ~Live(r)
      /\ registered' = [registered EXCEPT ![tasks[r].server] = @ \ {r}]
      /\ awaited' = awaited \ {r}
      /\ UNCHANGED <<runs, loop, tasks, created, spent>>
  BY DEF Deregister, Ended, tables
<1>2. ServingTypeOK'
  BY <1>1 DEF TeammateInv, ServingInv, ServingTypeOK
<1>3. ASSUME NEW s \in Server PROVE SegmentOK(s)'
  BY <1>1, SegmentRests
<1>4. WiresApart'
  BY <1>1, WiresRest
<1>5. TasksOK'
  <2> SUFFICES ASSUME NEW q \in Run, tasks[q] # NoTask
               PROVE  TaskOK(q)' /\ EndingOK(q)'
    BY <1>1 DEF TasksOK
  <2>1. TaskOK(q) /\ EndingOK(q) /\ tasks[q] \in Task /\ tasks[q].server \in Server
    BY TaskIsMinted DEF Task
  <2>2. Live(q) => q \in registered'[tasks[q].server]
    BY <1>1, <2>1 DEF TaskOK, TeammateInv, ServingInv, ServingTypeOK
  <2>3. TaskOK(q)'
    BY <1>1, <2>1, <2>2 DEF TaskOK, Task, Live, IdsGrew
  <2>4. EndingOK(q)'
    BY <1>1, <2>1 DEF EndingOK, Stored
  <2> QED BY <2>3, <2>4
<1> QED BY <1>2, <1>3, <1>4, <1>5 DEF ServingInv

LEMMA CrashPreserves ==
  ASSUME TeammateInv, IdsGrew, NEW s \in Server, Crash(s)
  PROVE  ServingInv'
<1> DEFINE Lost(r) == Live(r) /\ tasks[r].server = s
<1>1. /\ loop' = [loop EXCEPT ![s] = Idle]
      /\ tasks' = [r \in Run |-> IF Lost(r) THEN [tasks[r] EXCEPT !.state = "lost"] ELSE tasks[r]]
      /\ registered' = [registered EXCEPT ![s] = {}]
      /\ awaited' = awaited \ registered[s]
      /\ UNCHANGED <<runs, created>>
  BY DEF Crash, Yield, Go, tables
<1>2. ASSUME NEW r \in Run, Lost(r)
      PROVE  /\ tasks'[r] \in Task /\ tasks'[r] # NoTask /\ tasks[r] # NoTask
             /\ tasks'[r].state = "lost" /\ tasks'[r].session = tasks[r].session
             /\ tasks'[r].server = tasks[r].server /\ tasks'[r].key = tasks[r].key
             /\ tasks'[r].expect = tasks[r].expect
  <2>1. tasks[r] # NoTask
    BY <1>2 DEF Live
  <2>2. PICK t \in Task : t = tasks[r]
    BY <2>1, TaskIsMinted
  <2>3. PICK u : u = [t EXCEPT !.state = "lost"]
    OBVIOUS
  <2>4. tasks'[r] = u
    BY <1>1, <1>2, <2>2, <2>3
  <2>5. /\ u \in Task /\ u.state = "lost" /\ u.session = t.session /\ u.server = t.server
        /\ u.key = t.key /\ u.expect = t.expect
    BY <2>3 DEF Task
  <2>6. u # NoTask
    BY <2>5, TaskAssumption
  <2> QED BY <2>1, <2>2, <2>4, <2>5, <2>6
<1>3. ASSUME NEW r \in Run, ~Lost(r)
      PROVE  tasks'[r] = tasks[r]
  BY <1>1, <1>3
<1>4. /\ loop'[s] = Idle /\ \A u \in Server \ {s} : loop'[u] = loop[u]
      /\ spent' \in [Event -> Nat]
  BY <1>1, SpendIsTyped DEF Crash, TeammateInv, ServingInv, ServingTypeOK, Event
<1>5. tasks' \in [Run -> Task \cup {NoTask}]
  <2>1. ASSUME NEW r \in Run PROVE tasks'[r] \in Task \cup {NoTask}
    BY <1>2, <1>3 DEF TeammateInv, ServingInv, ServingTypeOK
  <2>2. PICK f : f = tasks'
    OBVIOUS
  <2>3. f = [r \in Run |-> f[r]]
    BY <1>1, <2>2
  <2> QED BY <2>1, <2>2, <2>3
<1> HIDE DEF Lost
<1>6. ServingTypeOK'
  BY <1>1, <1>4, <1>5, IdleIsASegment DEF TeammateInv, ServingInv, ServingTypeOK
<1>7. ASSUME NEW u \in Server PROVE SegmentOK(u)'
  <2>1. CASE u = s
    BY <2>1, <1>4, IdleIsASegment, SegmentIsFree
  <2>2. CASE u # s
    <3>1. SegmentOK(u) /\ loop'[u] = loop[u] /\ lastRun \in 0 .. MaxRun
      BY <2>2, <1>4 DEF TeammateInv, TablesInv, TypeOK, ServingInv
    <3>2. loop[u].at = "wire" => loop[u].run \in Run /\ ~Lost(loop[u].run)
      BY <3>1 DEF SegmentOK, Lost, Live
    <3>3. loop[u].at \in {"repin", "settle"} => loop[u].run \in Run /\ ~Lost(loop[u].run)
      BY <2>2, <3>1 DEF SegmentOK, Lost
    <3> QED BY <3>1, <3>2, <3>3, <1>1, <1>3, SegmentRests
  <2> QED BY <2>1, <2>2
<1>8. WiresApart'
  BY <1>4, IdleIsASegment, WiresRest
<1>9. TasksOK'
  <2> SUFFICES ASSUME NEW q \in Run, tasks'[q] # NoTask
               PROVE  TaskOK(q)' /\ EndingOK(q)'
    BY DEF TasksOK
  <2>1. tasks[q] # NoTask
    BY <1>2, <1>3
  <2>2. TaskOK(q) /\ EndingOK(q) /\ tasks[q] \in Task /\ tasks[q].server \in Server
    BY <2>1, TaskIsMinted DEF Task
  <2>3. CASE Lost(q)
    <3>1. Live(q) /\ ~Live(q)'
      BY <2>3, <1>2 DEF Lost, Live
    <3>2. TaskOK(q)'
      BY <2>2, <2>3, <3>1, <1>1, <1>2 DEF TaskOK, Task, IdsGrew
    <3>3. EndingOK(q)'
      BY <2>2, <2>3, <3>1, <1>1, <1>2 DEF EndingOK, Stored, Live
    <3> QED BY <3>2, <3>3
  <2>4. CASE ~Lost(q)
    <3>1. tasks'[q] = tasks[q]
      BY <2>4, <1>3
    <3>2. Live(q) => q \in registered'[tasks[q].server]
      BY <2>2, <2>4, <1>1 DEF TaskOK, Lost, TeammateInv, ServingInv, ServingTypeOK
    <3>3. TaskOK(q)'
      BY <2>2, <3>1, <3>2, <1>1 DEF TaskOK, Task, Live, IdsGrew
    <3>4. EndingOK(q)'
      BY <2>2, <3>1, <1>1 DEF EndingOK, Stored
    <3> QED BY <3>3, <3>4
  <2> QED BY <2>3, <2>4
<1> QED BY <1>6, <1>7, <1>8, <1>9 DEF ServingInv

-----------------------------------------------------------------------------
LEMMA ServerInit == TeammateInit => TeammateInv
<1> SUFFICES ASSUME TeammateInit PROVE TeammateInv
  OBVIOUS
<1>1. TablesInv
  BY TablesInit DEF TeammateInit
<1>2. ServingTypeOK
  <2>1. [e \in Event |-> 0] \in [Event -> Nat]
    OBVIOUS
  <2> QED BY <2>1, IdleIsASegment DEF TeammateInit, ServingTypeOK
<1>3. \A s \in Server : SegmentOK(s) /\ loop[s].at = "idle"
  BY IdleIsASegment DEF TeammateInit, SegmentOK
<1>4. WiresApart
  BY <1>3 DEF WiresApart
<1>5. TasksOK
  BY DEF TeammateInit, TasksOK
<1> QED BY <1>1, <1>2, <1>3, <1>4, <1>5 DEF TeammateInv, ServingInv

\* Every action of the server, of the streams and of the world around them.
LEMMA ServerStep == TeammateInv /\ [TeammateNext]_vars => TeammateInv'
<1> SUFFICES ASSUME TeammateInv, [TeammateNext]_vars
             PROVE  TeammateInv'
  OBVIOUS
<1>1. [Next]_tables
  BY ServerUsesPoolMethods
<1>2. TablesInv' /\ IdsGrew
  BY <1>1, TablesStep, IdsGrow DEF TeammateInv, TablesInv, IdsGrew
<1>3. ASSUME NEW s \in Server, NEW k \in Key, NEW p \in Provider, NEW reset \in BOOLEAN,
             NEW wait \in BOOLEAN, Call(s, k, p, reset, wait)
      PROVE  ServingInv'
  BY <1>2, <1>3, CallPreserves
<1>4. ASSUME NEW s \in Server, NEW k \in Key, Join(s, k)
      PROVE  ServingInv'
  BY <1>2, <1>4, JoinPreserves
<1>5. ASSUME NEW s \in Server, SegmentStep(s)
      PROVE  ServingInv'
  BY <1>2, <1>5, EnsurePreserves, PreparePreserves, BeginPreserves, SpawnPreserves,
     RepinPreserves DEF SegmentStep
<1>6. ASSUME NEW s \in Server, Crash(s)
      PROVE  ServingInv'
  BY <1>2, <1>6, CrashPreserves
<1>7. ASSUME NEW r \in Run, StreamStep(r)
      PROVE  ServingInv'
  BY <1>2, <1>7, AttachPreserves, CodexStartsPreserves, FirstRowPreserves, EndsPreserve
     DEF StreamStep
<1>8. ASSUME NEW r \in Run, WriteFinding(r) \/ Cancel(r) \/ Deregister(r)
      PROVE  ServingInv'
  BY <1>2, <1>8, WriteFindingPreserves, EndsPreserve, DeregisterPreserves
<1>9. ASSUME NEW k \in Key, Dismiss(k)
      PROVE  ServingInv'
  BY <1>2, <1>9, DismissPreserves
<1>10. CASE UNCHANGED vars
  <2>1. UNCHANGED <<loop, tasks, registered, awaited, created, spent, runs>>
    BY <1>10 DEF vars, serving, tables
  <2> QED BY <2>1, <1>2, ServerRests DEF TeammateInv, ServingInv, ServingTypeOK
<1> QED
  BY <1>2, <1>3, <1>4, <1>5, <1>6, <1>7, <1>8, <1>9, <1>10 DEF TeammateNext, TeammateInv

(***************************************************************************)
(* The server, with any number of processes on one pool.db, is type        *)
(* correct: in particular no segment and no task ever carries an id that   *)
(* was not minted.                                                         *)
(***************************************************************************)
THEOREM ServerTypeCorrect == TeammateSpec => []TeammateTypeOK
<1>1. TeammateInv => TeammateTypeOK
  BY DEF TeammateInv, TablesInv, ServingInv, ServingTypeOK, TeammateTypeOK
<1> QED BY ServerInit, ServerStep, <1>1, PTL DEF TeammateSpec

(***************************************************************************)
(* The row of every run tells how its task ended, unless it was deleted,   *)
(* for any number of servers, calls, crashes, cancellations and dismissals *)
(* (record_failure, context.py:161-170, and finish_run).                   *)
(***************************************************************************)
THEOREM ServerRowTellsTheEnding == TeammateSpec => []RowTellsTheEnding
<1>1. TeammateInv => RowTellsTheEnding
  <2> SUFFICES ASSUME TeammateInv, NEW r \in Run, tasks[r] # NoTask, Stored(r)
               PROVE  CASE tasks[r].state = "returned" -> runs[r].state = "finished"
                        [] tasks[r].state = "raised"   -> runs[r].state = "failed"
                        [] OTHER                       -> runs[r].state = "open"
    BY DEF RowTellsTheEnding
  <2>1. EndingOK(r)
    BY TaskIsMinted
  <2> QED BY <2>1 DEF EndingOK
<1> QED BY ServerInit, ServerStep, <1>1, PTL DEF TeammateSpec

(***************************************************************************)
(* Whatever the servers do to pool.db, they do it by one method of the     *)
(* pool at a time, with arguments the contract allows: the teammate server *)
(* implements PoolTables, and keeps what it promises of fresh runs.        *)
(***************************************************************************)
THEOREM ServerUsesThePool == TeammateSpec => Spec /\ []FreshRunIsFirst
<1>1. TeammateInit => Init
  BY DEF TeammateInit
<1>2. TeammateInv => FreshRunIsFirst
  BY DEF TeammateInv, TablesInv
<1> QED
  BY <1>1, <1>2, ServerInit, ServerStep, ServerUsesPoolMethods, PTL DEF TeammateSpec, Spec

(***************************************************************************)
(* A dismissal on any server deletes all of a teammate's history, and no   *)
(* other step takes an entry away (AgentPool.delete, pool.py:597-619).     *)
(***************************************************************************)
THEOREM ServerDeleteIsComplete == TeammateSpec => DeleteIsComplete
BY ServerUsesThePool, TablesDeleteIsComplete, PTL

-----------------------------------------------------------------------------
(***************************************************************************)
(* Sessions.  A session is one teammate's: whatever mentions it (the       *)
(* entry, a segment that has read the entry, a task wired to it or         *)
(* streaming on it) is that teammate's.                                    *)
(***************************************************************************)
Entered(k, x) == agents[k] # NoEntry /\ agents[k].session = x
Held(k, x)    == \E s \in Server : /\ loop[s].at \in {"begin", "wire"}
                                   /\ loop[s].key = k /\ loop[s].session = x
Wired(k, x)   == \E r \in Run : /\ tasks[r] # NoTask /\ tasks[r].key = k
                                /\ tasks[r].expect = x \/ tasks[r].session = x
Mentions(k, x) == Entered(k, x) \/ Held(k, x) \/ Wired(k, x)

SessionsApart ==
    \A j, k \in Key : \A x \in Session : Mentions(j, x) /\ Mentions(k, x) => j = k

LEMMA MentionedIsMinted ==
  ASSUME TeammateInv, NEW k \in Key, NEW x \in Session, Mentions(k, x)
  PROVE  x <= lastSession
<1>1. CASE Entered(k, x)
  BY <1>1 DEF Entered, TeammateInv, TablesInv, RowsAreMinted
<1>2. CASE Held(k, x)
  BY <1>2 DEF Held, TeammateInv, ServingInv, SegmentOK
<1>3. CASE Wired(k, x)
  <2>1. PICK r \in Run : tasks[r] # NoTask /\ (tasks[r].expect = x \/ tasks[r].session = x)
    BY <1>3 DEF Wired
  <2> QED BY <2>1, TaskIsMinted DEF TaskOK
<1> QED BY <1>1, <1>2, <1>3 DEF Mentions

\* A step gives the sessions it mints to one teammate, and moves no other.
GivesTo(k) ==
    \A j \in Key, x \in Session :
        Mentions(j, x)' => Mentions(j, x) \/ (j = k /\ x > lastSession)

LEMMA ApartStep ==
  ASSUME TeammateInv, SessionsApart, NEW k \in Key, GivesTo(k)
  PROVE  SessionsApart'
<1> SUFFICES ASSUME NEW i \in Key, NEW j \in Key, NEW x \in Session,
                    Mentions(i, x)', Mentions(j, x)'
             PROVE  i = j
  BY DEF SessionsApart
<1>1. lastSession \in Nat
  BY DEF TeammateInv, TablesInv, TypeOK
<1> QED BY <1>1, MentionedIsMinted DEF GivesTo, SessionsApart

\* save mints one session at most, for the key it stores; reconcile and
\* delete mint none.
LEMMA EntriesMove ==
  ASSUME TypeOK, NEW k \in Key, NEW cwd, NEW reset \in BOOLEAN, Save(k, cwd, reset)
  PROVE  \A j \in Key, x \in Session :
             Entered(j, x)' => Entered(j, x) \/ (j = k /\ x > lastSession)
<1>1. PICK y : /\ agents'[k].session = y
               /\ y = lastSession + 1 \/ (agents[k] # NoEntry /\ y = agents[k].session)
  BY DEF Save, SaveOver, TypeOK
<1>2. \A j \in Key \ {k} : agents'[j] = agents[j]
  BY DEF Save, SaveOver
<1> QED BY <1>1, <1>2 DEF Entered, TypeOK

\* Whoever moves an entry saves, repins or dismisses.
LEMMA EntriesRest ==
  ASSUME [TeammateNext]_vars
  PROVE  \/ \E s \in Server : Ensure(s) \/ EnsureCrew(s)
         \/ \E s \in Server : Repin(s)
         \/ \E k \in Key : Dismiss(k)
         \/ UNCHANGED agents
<1>1. ASSUME NEW s \in Server, Prepare(s) \/ Begin(s) \/ Spawn(s) \/ WireFails(s) \/ Settle(s)
      PROVE  UNCHANGED agents
  BY <1>1 DEF Prepare, Begin, StartRun, BeginRun, OpenRun, Spawn, NewTask, WireFails, Settle,
              Finish, FinishRun, tables
<1>2. ASSUME NEW r \in Run, StreamStep(r) \/ WriteFinding(r) \/ Cancel(r) \/ Deregister(r)
      PROVE  UNCHANGED agents
  BY <1>2 DEF StreamStep, Attach, ObserveSession, CodexStarts, FirstRow, RecordAgentRun, StreamEnds,
              StreamRaises, Finish, Fail, FinishRun, WriteFinding, RecordFinding, Cancel,
              Deregister, tables
<1>3. ASSUME NEW s \in Server,
             \/ \E k \in Key : \/ Join(s, k)
                             \/ \E p \in Provider, reset, wait \in BOOLEAN : Call(s, k, p, reset, wait)
             \/ Crash(s)
      PROVE  UNCHANGED agents
  BY <1>3 DEF Join, Call, OpenSegment, Crash, tables
<1>4. CASE UNCHANGED vars
  BY <1>4 DEF vars, tables
<1> QED BY <1>1, <1>2, <1>3, <1>4 DEF TeammateNext, SegmentStep

\* Segments that do not read an entry hold nothing new; nor do tasks that
\* stay on their sessions.
LEMMA HoldsNothingNew ==
  ASSUME \A s \in Server : \/ loop'[s] = loop[s] \/ loop'[s].at \notin {"begin", "wire"}
                           \/ /\ loop[s].at = "begin" /\ loop'[s].key = loop[s].key
                              /\ loop'[s].session = loop[s].session,
         NEW k \in Key, NEW x \in Session, Held(k, x)'
  PROVE  Held(k, x)
BY DEF Held

LEMMA WiresNothingNew ==
  ASSUME \A r \in Run : \/ tasks'[r] = tasks[r] \/ tasks'[r] = NoTask
                        \/ /\ tasks[r] # NoTask /\ tasks'[r].key = tasks[r].key
                           /\ tasks'[r].expect = tasks[r].expect
                           /\ tasks'[r].session \in {tasks[r].session, tasks[r].expect},
         NEW k \in Key, NEW x \in Session, Wired(k, x)'
  PROVE  Wired(k, x)
BY DEF Wired

LEMMA SegmentsGive ==
  ASSUME TeammateInv, NEW s \in Server,
         Ensure(s) \/ EnsureCrew(s) \/ Prepare(s) \/ Begin(s) \/ Spawn(s) \/ WireFails(s)
  PROVE  \E k \in Key : GivesTo(k)
<1>1. PICK c \in Segment : c = loop[s]
  BY DEF TeammateInv, ServingInv, ServingTypeOK
<1>2. /\ loop \in [Server -> Segment] /\ tasks \in [Run -> Task \cup {NoTask}]
      /\ TypeOK /\ c.key \in Key
  BY <1>1 DEF TeammateInv, TablesInv, ServingInv, ServingTypeOK, Segment
<1>3. CASE Ensure(s) \/ EnsureCrew(s)
  <2>1. PICK k \in Key, reset \in BOOLEAN : Save(k, NoCwd, reset)
    BY <1>1, <1>2, <1>3, CrewAssumption DEF Ensure, EnsureCrew, Segment
  <2>2. PICK d : loop' = [loop EXCEPT ![s] = d] /\ d.at = "crew" /\ UNCHANGED tasks
    <3>1. CASE Ensure(s)
      <4>1. [c EXCEPT !.at = "crew"].at = "crew"
        BY <1>1 DEF Segment
      <4> QED BY <3>1, <4>1, <1>1 DEF Ensure, Go
    <3>2. CASE EnsureCrew(s)
      <4>1. PICK m : loop' = [loop EXCEPT ![s] = [c EXCEPT !.left = @ \ {m}]]
        BY <3>2, <1>1 DEF EnsureCrew, Go
      <4>2. [c EXCEPT !.left = @ \ {m}].at = "crew"
        BY <3>2, <1>1 DEF EnsureCrew, Segment
      <4> QED BY <3>2, <4>1, <4>2 DEF EnsureCrew
    <3> QED BY <1>3, <3>1, <3>2
  <2>3. \A u \in Server : loop'[u] = loop[u] \/ loop'[u].at \notin {"begin", "wire"}
    BY <1>2, <2>2
  <2> QED BY <1>2, <2>1, <2>2, <2>3, EntriesMove, HoldsNothingNew DEF GivesTo, Mentions, Wired
<1>4. CASE Prepare(s)
  <2>1. UNCHANGED <<agents, tasks>>
    BY <1>4 DEF Prepare, tables
  <2>2. \/ /\ agents[c.key] # NoEntry
           /\ loop' = [loop EXCEPT ![s] = [c EXCEPT !.at = "begin", !.session = agents[c.key].session]]
        \/ loop' = [loop EXCEPT ![s] = Idle]
    BY <1>1, <1>4 DEF Prepare, Go, Yield
  <2>3. ASSUME NEW u \in Server
        PROVE  \/ loop'[u] = loop[u] \/ loop'[u].at \notin {"begin", "wire"}
               \/ loop'[u].key = c.key /\ Entered(c.key, loop'[u].session)
    <3>1. CASE loop' = [loop EXCEPT ![s] = Idle]
      BY <3>1, <1>2, IdleIsASegment
    <3>2. CASE /\ agents[c.key] # NoEntry
               /\ loop' = [loop EXCEPT ![s] = [c EXCEPT !.at = "begin", !.session = agents[c.key].session]]
      <4>1. PICK e : e = agents[c.key].session
        OBVIOUS
      <4>2. PICK d : d = [c EXCEPT !.at = "begin", !.session = e]
        OBVIOUS
      <4>3. d.key = c.key /\ d.session = e
        BY <4>2 DEF Segment
      <4>4. loop' = [loop EXCEPT ![s] = d]
        BY <3>2, <4>1, <4>2
      <4> QED BY <1>2, <3>2, <4>1, <4>3, <4>4 DEF Entered
    <3> QED BY <2>2, <3>1, <3>2
  <2>4. \A j \in Key, x \in Session : Held(j, x)' => Held(j, x) \/ Entered(j, x)
    BY <2>3 DEF Held
  <2> QED BY <1>2, <2>1, <2>4 DEF GivesTo, Mentions, Entered, Wired
<1>5. CASE Begin(s)
  <2>1. UNCHANGED <<agents, tasks>> /\ c.at = "begin"
    BY <1>1, <1>5 DEF Begin, StartRun, BeginRun, OpenRun
  <2>2. PICK n, o : loop' = [loop EXCEPT ![s] = [c EXCEPT !.at = "wire", !.run = n, !.options = o]]
    BY <1>1, <1>5 DEF Begin, Go
  <2>3. \A u \in Server : \/ loop'[u] = loop[u]
                          \/ /\ loop[u].at = "begin" /\ loop'[u].key = loop[u].key
                             /\ loop'[u].session = loop[u].session
    BY <1>1, <1>2, <2>1, <2>2 DEF Segment
  <2> QED BY <1>2, <2>1, <2>3, HoldsNothingNew DEF GivesTo, Mentions, Entered, Wired
<1>6. CASE WireFails(s)
  <2>1. UNCHANGED <<agents, tasks>> /\ loop' = [loop EXCEPT ![s] = Idle]
    BY <1>6 DEF WireFails, Yield, Go, tables
  <2>2. \A u \in Server : loop'[u] = loop[u] \/ loop'[u].at \notin {"begin", "wire"}
    BY <1>2, <2>1, IdleIsASegment
  <2> QED BY <1>2, <2>1, <2>2, HoldsNothingNew DEF GivesTo, Mentions, Entered, Wired
<1>7. CASE Spawn(s)
  <2>1. UNCHANGED agents /\ loop' = [loop EXCEPT ![s] = Idle] /\ c.at = "wire"
    BY <1>1, <1>7 DEF Spawn, NewTask, Yield, Go, tables
  <2>2. PICK t : /\ t = [server |-> s, key |-> c.key, provider |-> c.provider,
                         options |-> c.options, expect |-> c.session, session |-> 0,
                         state |-> "starting"]
                 /\ tasks' = [tasks EXCEPT ![c.run] = t]
    BY <1>1, <1>7 DEF Spawn, NewTask
  <2>3. t.key = c.key /\ t.expect = c.session /\ t.session = 0
    BY <2>2
  <2>4. \A u \in Server : loop'[u] = loop[u] \/ loop'[u].at \notin {"begin", "wire"}
    BY <1>2, <2>1, IdleIsASegment
  <2>5. \A r \in Run : tasks'[r] = tasks[r] \/ tasks'[r] = t
    BY <1>2, <2>2
  <2>6. ASSUME NEW j \in Key, NEW x \in Session, Wired(j, x)'
        PROVE  Wired(j, x) \/ Held(j, x)
    <3>1. PICK r \in Run : /\ tasks'[r] # NoTask /\ tasks'[r].key = j
                           /\ tasks'[r].expect = x \/ tasks'[r].session = x
      BY <2>6 DEF Wired
    <3>2. CASE tasks'[r] = tasks[r]
      BY <3>1, <3>2 DEF Wired
    <3>3. CASE tasks'[r] = t
      BY <3>1, <3>3, <1>1, <2>1, <2>3 DEF Held
    <3> QED BY <3>2, <3>3, <2>5
  <2> QED BY <1>2, <2>1, <2>4, <2>6, HoldsNothingNew DEF GivesTo, Mentions, Entered
<1> QED BY <1>3, <1>4, <1>5, <1>6, <1>7

\* A task that stays on its session, or goes on the one it was wired to.
LEMMA TasksGiveNothing ==
  ASSUME ServingTypeOK, NEW r \in Run, tasks[r] # NoTask, NEW state \in TaskState,
         NEW session \in 0 .. MaxSession, Moved(r, state, session),
         session \in {tasks[r].session, tasks[r].expect},
         NEW k \in Key, NEW x \in Session, Wired(k, x)'
  PROVE  Wired(k, x)
<1>1. /\ \A q \in Run \ {r} : tasks'[q] = tasks[q]
      /\ tasks'[r].session = session /\ tasks'[r].key = tasks[r].key
      /\ tasks'[r].expect = tasks[r].expect
  BY TaskUpdates
<1> QED BY <1>1, WiresNothingNew

LEMMA BecomingGivesNothing ==
  ASSUME ServingTypeOK, NEW r \in Run, tasks[r] # NoTask, NEW state \in TaskState,
         Becomes(r, state), NEW k \in Key, NEW x \in Session, Wired(k, x)'
  PROVE  Wired(k, x)
<1>1. PICK y \in 0 .. MaxSession : y = tasks[r].session
  BY DEF ServingTypeOK, Task
<1>2. Moved(r, state, y)
  BY <1>1 DEF Moved, Becomes
<1> QED BY <1>1, <1>2, TasksGiveNothing

LEMMA StreamsGive ==
  ASSUME TeammateInv, NEW r \in Run,
         Attach(r) \/ CodexStarts(r) \/ FirstRow(r) \/ StreamEnds(r) \/ StreamRaises(r) \/ Cancel(r)
  PROVE  \E k \in Key : GivesTo(k)
<1>1. Live(r) /\ tasks[r] # NoTask
  BY DEF Attach, CodexStarts, FirstRow, StreamEnds, StreamRaises, Cancel, Turn, Live
<1>2. PICK t \in Task : t = tasks[r]
  BY <1>1, TaskIsMinted
<1>3. t.key \in Key /\ t.server \in Server /\ ServingTypeOK /\ TypeOK
  BY <1>2 DEF Task, TeammateInv, ServingInv, TablesInv
<1>4. CASE Attach(r) \/ CodexStarts(r)
  <2>1. UNCHANGED <<loop, agents>>
    BY <1>4 DEF Attach, CodexStarts, ObserveSession, tables
  <2>2. PICK y \in 0 .. MaxSession : /\ Moved(r, "attached", y)
                                     /\ y = t.expect \/ Entered(t.key, y) \/ y > lastSession
    <3>1. CASE CodexStarts(r)
      <4>1. agents[t.key] # NoEntry /\ agents[t.key].session \in 0 .. MaxSession
        BY <3>1, <1>2, <1>3 DEF CodexStarts, TypeOK, Entry
      <4>2. PICK y \in 0 .. MaxSession : y = agents[t.key].session
        BY <4>1
      <4>3. Moved(r, "attached", y)
        BY <3>1, <4>2, <1>2 DEF CodexStarts, Moved
      <4> QED BY <4>1, <4>2, <4>3 DEF Entered
    <3>2. CASE tasks' = [tasks EXCEPT ![r].state = "attached", ![r].session = t.expect]
      <4>1. Moved(r, "attached", t.expect) /\ t.expect \in 0 .. MaxSession
        BY <3>2, <1>2 DEF Moved, Task
      <4> QED BY <4>1
    <3>3. CASE /\ ObserveSession
               /\ tasks' = [tasks EXCEPT ![r].state = "attached", ![r].session = lastSession']
      <4>1. PICK y \in 0 .. MaxSession : y = lastSession' /\ y > lastSession
        BY <3>3, <1>3 DEF ObserveSession, TypeOK
      <4> QED BY <3>3, <4>1 DEF Moved
    <3> QED BY <1>2, <1>4, <3>1, <3>2, <3>3 DEF Attach
  <2>3. /\ \A q \in Run \ {r} : tasks'[q] = tasks[q]
        /\ tasks'[r].session = y /\ tasks'[r].key = t.key /\ tasks'[r].expect = t.expect
    BY <1>1, <1>2, <1>3, <2>2, TaskUpdates DEF TaskState
  <2>4. ASSUME NEW j \in Key, NEW x \in Session, Wired(j, x)'
        PROVE  Wired(j, x) \/ Entered(j, x) \/ (j = t.key /\ x > lastSession)
    BY <1>1, <1>2, <2>2, <2>3, <2>4 DEF Wired
  <2> QED BY <1>3, <2>1, <2>4 DEF GivesTo, Mentions, Entered, Held
<1>5. CASE FirstRow(r) \/ StreamEnds(r) \/ StreamRaises(r) \/ Cancel(r)
  <2>1. /\ UNCHANGED agents
        /\ \E state \in TaskState : Becomes(r, state)
    BY <1>5 DEF FirstRow, StreamEnds, StreamRaises, Cancel, Finish, Fail, FinishRun,
                RecordAgentRun, tables, TaskState
  <2>2. \A j \in Key, x \in Session : Wired(j, x)' => Wired(j, x)
    BY <1>1, <1>3, <2>1, BecomingGivesNothing
  <2>3. \A u \in Server : loop'[u] = loop[u] \/ loop'[u].at \notin {"begin", "wire"}
    <3>1. CASE FirstRow(r)
      <4>1. PICK z \in {"settle", "repin", "idle"} :
               loop' = [loop EXCEPT ![t.server] = IF z = "idle" THEN Idle
                                                  ELSE [Idle EXCEPT !.at = z, !.run = r]]
        <5>1. \E z \in {"settle", "repin", "idle"} :
               loop' = [loop EXCEPT ![t.server] = IF z = "idle" THEN Idle
                                                  ELSE [Idle EXCEPT !.at = z, !.run = r]]
          BY <3>1, <1>2 DEF FirstRow, Go
        <5> QED BY <5>1
      <4>2. loop'[t.server].at = z
        BY <1>3, <4>1, IdleIsASegment DEF Segment, ServingTypeOK
      <4> QED BY <1>3, <4>1, <4>2 DEF ServingTypeOK
    <3> QED BY <3>1, <1>5 DEF StreamEnds, StreamRaises, Cancel
  <2> QED BY <1>3, <2>1, <2>2, <2>3, HoldsNothingNew DEF GivesTo, Mentions, Entered
<1> QED BY <1>4, <1>5

\* The repin moves the entry to a session of its own teammate; the rest
\* takes mentions away, or nothing.
LEMMA TheRestGives ==
  ASSUME TeammateInv,
         \/ \E s \in Server : Repin(s) \/ Settle(s) \/ Crash(s)
         \/ \E s \in Server, k \in Key :
               \/ Join(s, k)
               \/ \E p \in Provider, reset, wait \in BOOLEAN : Call(s, k, p, reset, wait)
         \/ \E r \in Run : WriteFinding(r) \/ Deregister(r)
         \/ \E k \in Key : Dismiss(k)
         \/ UNCHANGED vars
  PROVE  \E k \in Key : GivesTo(k)
<1>0. TypeOK /\ ServingTypeOK /\ loop \in [Server -> Segment]
  BY DEF TeammateInv, TablesInv, ServingInv, ServingTypeOK
<1>1. CASE \E s \in Server : Repin(s) \/ Settle(s)
  <2>1. PICK s \in Server : Repin(s) \/ Settle(s)
    BY <1>1
  <2>2. PICK r \in Run, t \in Task : r = loop[s].run /\ t = tasks[r] /\ tasks[r] # NoTask
    BY <2>1, CodexCapturesAndSegments DEF Repin, Settle, Live
  <2>3. \A j \in Key, x \in Session : Held(j, x)' => Held(j, x)
    <3>1. loop' = [loop EXCEPT ![s] = Idle]
      BY <2>1 DEF Repin, Settle, Yield, Go
    <3> QED BY <3>1, <1>0, IdleIsASegment, HoldsNothingNew
  <2>4. \/ UNCHANGED tasks
        \/ \E state \in TaskState : Becomes(r, state)
    BY <2>1, <2>2 DEF Repin, Settle, Fail, Finish, TaskState
  <2>5. \A j \in Key, x \in Session : Wired(j, x)' => Wired(j, x)
    BY <2>2, <2>4, <1>0, BecomingGivesNothing DEF Wired
  <2>6. t.key \in Key
    BY <2>2 DEF Task
  <2>7. CASE UNCHANGED agents
    BY <2>3, <2>5, <2>6, <2>7 DEF GivesTo, Mentions, Entered
  <2>8. CASE Reconcile(t.key, t.session)
    <3>1. agents'[t.key].session = t.session /\ \A j \in Key \ {t.key} : agents'[j] = agents[j]
      BY <2>6, <2>8, <1>0 DEF Reconcile, TypeOK
    <3>2. \A j \in Key, x \in Session : Entered(j, x)' => Entered(j, x) \/ Wired(j, x)
      BY <3>1, <2>2 DEF Entered, Wired
    <3> QED BY <2>3, <2>5, <2>6, <3>2 DEF GivesTo, Mentions
  <2> QED BY <2>1, <2>2, <2>7, <2>8 DEF Repin, Settle, Fail, Finish, FinishRun, tables
<1>2. CASE \E s \in Server : Crash(s)
  <2>1. PICK s \in Server : Crash(s)
    BY <1>2
  <2>2. UNCHANGED agents /\ loop' = [loop EXCEPT ![s] = Idle]
    BY <2>1 DEF Crash, Yield, Go, tables
  <2>3. \A j \in Key, x \in Session : Held(j, x)' => Held(j, x)
    BY <2>2, <1>0, IdleIsASegment, HoldsNothingNew
  <2>4. ASSUME NEW r \in Run
        PROVE  \/ tasks'[r] = tasks[r]
               \/ /\ tasks[r] # NoTask /\ tasks'[r].key = tasks[r].key
                  /\ tasks'[r].expect = tasks[r].expect
                  /\ tasks'[r].session = tasks[r].session
    <3>1. tasks' = [q \in Run |-> IF Live(q) /\ tasks[q].server = s
                                  THEN [tasks[q] EXCEPT !.state = "lost"] ELSE tasks[q]]
      BY <2>1 DEF Crash
    <3>2. CASE Live(r) /\ tasks[r].server = s
      <4>1. PICK t \in Task : t = tasks[r] /\ tasks[r] # NoTask
        BY <3>2, TaskIsMinted DEF Live
      <4>2. PICK u : u = [t EXCEPT !.state = "lost"]
        OBVIOUS
      <4>3. u.key = t.key /\ u.expect = t.expect /\ u.session = t.session
        BY <4>2 DEF Task
      <4>4. tasks'[r] = u
        BY <3>1, <3>2, <4>1, <4>2
      <4> QED BY <4>1, <4>3, <4>4
    <3>3. CASE ~(Live(r) /\ tasks[r].server = s)
      BY <3>1, <3>3
    <3> QED BY <3>2, <3>3
  <2>5. \A j \in Key, x \in Session : Wired(j, x)' => Wired(j, x)
    BY <2>4, WiresNothingNew
  <2> QED BY <2>2, <2>3, <2>5, KeyAssumption DEF GivesTo, Mentions, Entered
<1>3. CASE \E s \in Server, k \in Key, p \in Provider, reset, wait \in BOOLEAN :
               Call(s, k, p, reset, wait)
  <2>1. PICK s \in Server, k \in Key, p \in Provider, reset \in BOOLEAN, wait \in BOOLEAN :
             Call(s, k, p, reset, wait)
    BY <1>3
  <2>2. /\ UNCHANGED <<agents, tasks>>
        /\ loop' = [loop EXCEPT ![s] = [Idle EXCEPT !.at = "ensure", !.key = k, !.provider = p,
                                            !.reset = reset, !.wait = wait, !.left = Crew[k]]]
    BY <2>1 DEF Call, OpenSegment, Go, tables
  <2>3. \A u \in Server : loop'[u] = loop[u] \/ loop'[u].at \notin {"begin", "wire"}
    BY <2>2, <1>0, IdleIsASegment DEF Segment
  <2>4. \A j \in Key, x \in Session : Held(j, x)' => Held(j, x)
    BY <2>3, HoldsNothingNew
  <2> QED BY <2>2, <2>4 DEF GivesTo, Mentions, Entered, Wired
<1>4. CASE \E k \in Key : Dismiss(k)
  <2>1. PICK k \in Key : Dismiss(k)
    BY <1>4
  <2>2. agents' = [agents EXCEPT ![k] = NoEntry] /\ UNCHANGED <<loop, tasks>>
    BY <2>1 DEF Dismiss, Delete
  <2>3. \A j \in Key : agents'[j] = agents[j] \/ agents'[j] = NoEntry
    BY <2>2, <1>0 DEF TypeOK
  <2> QED BY <2>2, <2>3 DEF GivesTo, Mentions, Entered, Held, Wired
<1>5. CASE UNCHANGED <<agents, loop, tasks>>
  BY <1>5, KeyAssumption DEF GivesTo, Mentions, Entered, Held, Wired
<1> QED BY <1>1, <1>2, <1>3, <1>4, <1>5
        DEF Join, WriteFinding, Deregister, RecordFinding, serving, tables, vars

LEMMA SessionsStayApart ==
  TeammateInv /\ SessionsApart /\ [TeammateNext]_vars => SessionsApart'
<1> SUFFICES ASSUME TeammateInv, SessionsApart, [TeammateNext]_vars
             PROVE  \E k \in Key : GivesTo(k)
  BY ApartStep
<1>1. CASE \E s \in Server : SegmentStep(s)
  BY <1>1, SegmentsGive, TheRestGives DEF SegmentStep
<1>2. CASE \E r \in Run : StreamStep(r) \/ Cancel(r)
  BY <1>2, StreamsGive DEF StreamStep
<1> QED BY <1>1, <1>2, TheRestGives DEF TeammateNext

(***************************************************************************)
(* No two teammates ever share a session, for any number of servers and    *)
(* whatever is reset, dismissed, cancelled or lost: a conversation is one  *)
(* teammate's, be it in its entry, in a segment that has read the entry,   *)
(* or in a run wired to it or streaming on it (AgentPool.save mints them,  *)
(* reconcile_session moves them, pool.py).                                 *)
(***************************************************************************)
THEOREM ServerKeepsSessionsApart == TeammateSpec => []SessionsApart
<1>1. TeammateInit => TeammateInv /\ SessionsApart
  <2>1. TeammateInit => SessionsApart
    BY IdleIsASegment DEF TeammateInit, Init, SessionsApart, Mentions, Entered, Held, Wired
  <2> QED BY <2>1, ServerInit
<1>2. TeammateInv /\ SessionsApart /\ [TeammateNext]_vars => (TeammateInv /\ SessionsApart)'
  BY ServerStep, SessionsStayApart
<1> QED BY <1>1, <1>2, PTL DEF TeammateSpec

-----------------------------------------------------------------------------
(***************************************************************************)
(* One server.  The registry of another process is invisible to the check  *)
(* for a live run: between two servers each of the following is false.     *)
(***************************************************************************)
OneServer == \A s, u \in Server : s = u

(***************************************************************************)
(* What the check is worth: a live run that is still stored is the latest  *)
(* of its teammate; while a segment is on its way to opening a run, no     *)
(* stored run of its teammate is live; and the run it has opened is then   *)
(* the latest, and still the only one under way.                           *)
(***************************************************************************)
BusyInv ==
    /\ \A r \in Run : Live(r) /\ Stored(r) => \A q \in RunsOf(tasks[r].key) : q <= r
    /\ \A s \in Server :
         /\ loop[s].at \in {"ensure", "crew", "begin"} =>
               \A q \in RunsOf(loop[s].key) : ~Live(q)
         /\ loop[s].at = "wire" /\ Stored(loop[s].run) =>
               \A q \in RunsOf(loop[s].key) : q <= loop[s].run /\ ~Live(q)

LEMMA LatestRunIs ==
  ASSUME NEW k \in Key, NEW r \in RunsOf(k), \A q \in RunsOf(k) : q <= r
  PROVE  LatestRun(k) = r
<1>1. \A x \in RunsOf(k) : (\A q \in RunsOf(k) : q <= x) => x = r
  <2>1. RunsOf(k) \subseteq Nat
    BY DEF RunsOf
  <2> QED BY <2>1
<1> QED BY <1>1 DEF LatestRun

\* A stored run with a task is one of its task's teammate.
LEMMA StoredTask ==
  ASSUME TeammateInv, NEW r \in Run, tasks[r] # NoTask, Stored(r)
  PROVE  r \in RunsOf(tasks[r].key) /\ tasks[r].key \in Key /\ runs[r].key = tasks[r].key
<1>1. TaskOK(r) /\ tasks[r] \in Task
  BY TaskIsMinted
<1> QED BY <1>1 DEF TaskOK, RunsOf, Stored, Task

\* The check sees every live run of its teammate that is still stored.
LEMMA CheckSeesLiveRuns ==
  ASSUME OneServer, TeammateInv, BusyInv, NEW s \in Server, NEW k \in Key,
         NEW r \in RunsOf(k), Live(r)
  PROVE  /\ LatestRun(k) = r /\ runs[r].state = "open" /\ r \in registered[s]
         /\ tasks[r].key = k /\ HasRuns(k) /\ LiveRun(s, k)
<1>1. r \in Run /\ Stored(r) /\ runs[r].key = k /\ tasks[r] # NoTask
  BY DEF RunsOf, Stored, Live
<1>2. tasks[r].key = k
  BY <1>1, StoredTask
<1>3. LatestRun(k) = r
  BY <1>1, <1>2, LatestRunIs DEF BusyInv
<1>4. TaskOK(r) /\ EndingOK(r) /\ tasks[r] \in Task
  BY <1>1, TaskIsMinted
<1>5. runs[r].state = "open"
  BY <1>1, <1>4 DEF EndingOK, Live
<1>6. tasks[r].server = s
  BY <1>4 DEF Task, OneServer
<1>7. r \in registered[s]
  BY <1>4, <1>6 DEF TaskOK
<1> QED BY <1>2, <1>3, <1>5, <1>7 DEF LiveRun, HasRuns

\* A task that is still live is the one it was.
StaysLive(r) == /\ Live(r) /\ tasks'[r].key = tasks[r].key
                /\ tasks'[r].provider = tasks[r].provider
                /\ tasks'[r].expect = tasks[r].expect

\* What a step does that opens no run, spawns none and begins no segment.
Quiet ==
    /\ \A r \in Run : Live(r)' => StaysLive(r)
    /\ \A r \in Run : runs'[r] # NoRun => runs[r] # NoRun /\ runs'[r].key = runs[r].key
    /\ \A s \in Server :
         \/ loop'[s] = loop[s]
         \/ loop'[s].at \in {"idle", "repin", "settle"}
         \/ /\ loop[s].at \in {"ensure", "crew", "begin"}
            /\ loop'[s].at \in {"ensure", "crew", "begin"}
            /\ loop'[s].key = loop[s].key

LEMMA NobodyGetsBusy ==
  ASSUME TeammateInv, BusyInv, Quiet
  PROVE  BusyInv'
<1>1. ASSUME NEW k, NEW q \in Run, runs'[q] # NoRun, runs'[q].key = k
      PROVE  q \in RunsOf(k)
  BY <1>1 DEF RunsOf, Quiet, StaysLive
<1>2. \A r \in Run : Stored(r)' => Stored(r)
  BY DEF Stored, Quiet, StaysLive
<1>3. ASSUME NEW r \in Run, Live(r)', Stored(r)', NEW q \in RunsOf(tasks[r].key)'
      PROVE  q <= r
  <2>1. /\ q \in Run /\ runs'[q] # NoRun /\ runs'[q].key = tasks[r].key
        /\ Live(r) /\ Stored(r)
    BY <1>2, <1>3 DEF RunsOf, Quiet, StaysLive
  <2>2. q \in RunsOf(tasks[r].key)
    BY <2>1, <1>1
  <2> QED BY <2>1, <2>2 DEF BusyInv
<1>4. ASSUME NEW s \in Server, loop'[s].at \in {"ensure", "crew", "begin"},
             NEW q \in RunsOf(loop[s].key)'
      PROVE  ~Live(q)'
  <2>1. q \in Run /\ q \in RunsOf(loop[s].key) /\ loop[s].at \in {"ensure", "crew", "begin"}
    BY <1>1, <1>4 DEF RunsOf, Quiet, StaysLive
  <2> QED BY <2>1 DEF BusyInv, Quiet, StaysLive
<1>5. ASSUME NEW s \in Server, loop'[s].at = "wire", Stored(loop[s].run)',
             NEW q \in RunsOf(loop[s].key)'
      PROVE  q <= loop'[s].run /\ ~Live(q)'
  <2>1. loop'[s] = loop[s] /\ q \in Run /\ q \in RunsOf(loop[s].key)
    BY <1>1, <1>5 DEF RunsOf, Quiet, StaysLive
  <2>2. loop[s].run \in Run
    BY <1>5, <2>1 DEF TeammateInv, TablesInv, TypeOK, ServingInv, SegmentOK
  <2>3. Stored(loop[s].run)
    BY <1>2, <1>5, <2>1, <2>2 DEF Stored
  <2> QED BY <1>5, <2>1, <2>3 DEF BusyInv, Quiet, StaysLive
<1> QED BY <1>3, <1>4, <1>5 DEF BusyInv

-----------------------------------------------------------------------------
(* What each step does to the runs that are live.                          *)

\* A segment up to the run it opens.
LEMMA SegmentsAreQuiet ==
  ASSUME TeammateInv, NEW s \in Server,
         Ensure(s) \/ EnsureCrew(s) \/ Prepare(s) \/ WireFails(s)
  PROVE  /\ Quiet /\ UNCHANGED <<runs, tasks, lastRun>>
         /\ \A u \in Server \ {s} : loop'[u] = loop[u]
         /\ loop'[s].at \in {"idle", "ensure", "crew", "begin"}
         /\ loop[s].at = "wire" => WireFails(s)
<1>1. loop \in [Server -> Segment] /\ loop[s] \in Segment
  BY DEF TeammateInv, ServingInv, ServingTypeOK
<1>2. UNCHANGED <<runs, tasks, lastRun>>
  BY DEF Ensure, EnsureCrew, Prepare, WireFails, Save, SaveOver, tables
<1>3. PICK c \in Segment : c = loop[s]
  BY <1>1
<1>4. PICK d : loop' = [loop EXCEPT ![s] = d] /\ d = loop'[s]
  <2>1. \E d : loop' = [loop EXCEPT ![s] = d]
    BY DEF Ensure, EnsureCrew, Prepare, WireFails, Go, Yield
  <2> QED BY <2>1, <1>1
<1>5. \/ d = [c EXCEPT !.at = "crew"] /\ c.at = "ensure"
      \/ (\E m : d = [c EXCEPT !.left = @ \ {m}]) /\ c.at = "crew"
      \/ (\E x : d = [c EXCEPT !.at = "begin", !.session = x]) /\ c.at = "crew"
      \/ d = Idle /\ (c.at = "wire" => WireFails(s))
  BY <1>1, <1>3, <1>4 DEF Ensure, EnsureCrew, Prepare, WireFails, Go, Yield
<1>6. \/ /\ c.at \in {"ensure", "crew", "begin"} /\ d.at \in {"ensure", "crew", "begin"}
         /\ d.key = c.key
      \/ d.at = "idle" /\ (c.at = "wire" => WireFails(s))
  BY <1>5, IdleIsASegment DEF Segment
<1> QED BY <1>1, <1>2, <1>3, <1>4, <1>6 DEF Quiet, StaysLive, Live

\* A task that moves on stays its teammate's; it is live while it has a stream.
LEMMA MovesAreQuiet ==
  ASSUME TeammateInv, NEW r \in Run, Live(r), NEW state \in TaskState,
         NEW session \in 0 .. MaxSession, Moved(r, state, session)
  PROVE  /\ \A q \in Run : Live(q)' => StaysLive(q)
         /\ \A q \in Run \ {r} : Live(q)' <=> Live(q)
         /\ Live(r)' <=> state \in {"starting", "attached", "streaming"}
<1>1. ServingTypeOK /\ tasks[r] # NoTask
  BY DEF TeammateInv, ServingInv, Live
<1>2. /\ \A q \in Run \ {r} : tasks'[q] = tasks[q]
      /\ tasks'[r] # NoTask /\ tasks'[r].state = state /\ tasks'[r].key = tasks[r].key
      /\ tasks'[r].provider = tasks[r].provider /\ tasks'[r].expect = tasks[r].expect
  BY <1>1, TaskUpdates
<1> QED BY <1>2 DEF Live, StaysLive

LEMMA BecomesMoves ==
  ASSUME TeammateInv, NEW r \in Run, Live(r), NEW state, Becomes(r, state)
  PROVE  \E x \in 0 .. MaxSession : Moved(r, state, x)
<1>1. PICK x \in 0 .. MaxSession : x = tasks[r].session
  BY TaskIsMinted DEF Live, Task
<1> QED BY <1>1 DEF Moved, Becomes

\* The stream of a run that goes on.
LEMMA StreamsAreQuiet ==
  ASSUME TeammateInv, NEW r \in Run, Attach(r) \/ CodexStarts(r) \/ FirstRow(r)
  PROVE  /\ Quiet /\ UNCHANGED <<runs, lastRun>>
         /\ \A q \in Run : Live(q)' <=> Live(q)
         /\ \A u \in Server : loop'[u] = loop[u] \/ (loop'[u].at # "wire" /\ loop[u].at # "wire")
<1>1. UNCHANGED <<runs, lastRun>> /\ Live(r)
  BY DEF Attach, CodexStarts, FirstRow, ObserveSession, RecordAgentRun, tables, Turn
<1>2. \E state \in {"attached", "streaming"}, x \in 0 .. MaxSession : Moved(r, state, x)
  <2>1. CASE FirstRow(r)
    <3>1. Becomes(r, "streaming")
      BY <2>1 DEF FirstRow
    <3> QED BY <3>1, <1>1, BecomesMoves
  <2>2. CASE CodexStarts(r)
    <3>1. agents[tasks[r].key] # NoEntry /\ tasks[r].key \in Key
      BY <2>2, <1>1, TaskIsMinted DEF CodexStarts, Live, Task
    <3>2. agents[tasks[r].key].session \in 0 .. MaxSession
      BY <3>1 DEF TeammateInv, TablesInv, TypeOK, Entry
    <3>3. PICK x \in 0 .. MaxSession : x = agents[tasks[r].key].session
      BY <3>2
    <3> QED BY <2>2, <3>3 DEF CodexStarts, Moved
  <2>3. CASE Attach(r)
    <3>1. PICK e \in 0 .. MaxSession : e = tasks[r].expect
      BY <1>1, TaskIsMinted DEF Live
    <3>2. CASE tasks' = [tasks EXCEPT ![r].state = "attached", ![r].session = tasks[r].expect]
      BY <3>1, <3>2 DEF Moved
    <3>3. CASE /\ ObserveSession
               /\ tasks' = [tasks EXCEPT ![r].state = "attached", ![r].session = lastSession']
      <4>1. PICK x \in 0 .. MaxSession : x = lastSession'
        BY <3>3 DEF ObserveSession, TeammateInv, TablesInv, TypeOK
      <4> QED BY <3>3, <4>1 DEF Moved
    <3> QED BY <2>3, <3>2, <3>3 DEF Attach
  <2> QED BY <2>1, <2>2, <2>3
<1>3. PICK state \in {"attached", "streaming"}, x \in 0 .. MaxSession : Moved(r, state, x)
  BY <1>2
<1>4. /\ \A q \in Run : Live(q)' => StaysLive(q)
      /\ \A q \in Run : Live(q)' <=> Live(q)
  BY <1>1, <1>3, MovesAreQuiet DEF TaskState
<1>5. ASSUME NEW u \in Server
      PROVE  loop'[u] = loop[u] \/ (loop'[u].at \in {"idle", "repin", "settle"} /\ loop[u].at # "wire")
  <2>1. CASE FirstRow(r)
    <3>1. PICK v \in Server : v = tasks[r].server
      BY <1>1, TaskIsMinted DEF Live, Task
    <3>2. loop[v].at = "idle" /\ loop \in [Server -> Segment]
      BY <2>1, <3>1 DEF FirstRow, Turn, TeammateInv, ServingInv, ServingTypeOK
    <3>3. \E to \in {"settle", "repin", "idle"} :
             loop' = [loop EXCEPT ![v] = IF to = "idle" THEN Idle ELSE [Idle EXCEPT !.at = to, !.run = r]]
      BY <2>1, <3>1 DEF FirstRow, Go
    <3>4. PICK to \in {"settle", "repin", "idle"} :
             loop' = [loop EXCEPT ![v] = IF to = "idle" THEN Idle ELSE [Idle EXCEPT !.at = to, !.run = r]]
      BY <3>3
    <3>5. loop'[v].at = to
      BY <3>2, <3>4, IdleIsASegment DEF Segment
    <3> QED BY <3>2, <3>4, <3>5
  <2>2. CASE UNCHANGED loop
    BY <2>2
  <2> QED BY <2>1, <2>2 DEF Attach, CodexStarts
<1> QED BY <1>1, <1>4, <1>5 DEF Quiet, StaysLive

\* A run whose task ends, by whatever ends it.
EndsOne(r) ==
    /\ Quiet /\ UNCHANGED lastRun
    /\ Live(r) /\ ~Live(r)'
    /\ \A q \in Run \ {r} : (Live(q)' <=> Live(q)) /\ runs'[q] = runs[q]
    /\ runs'[r] = NoRun <=> runs[r] = NoRun
    /\ runs[r] # NoRun => /\ runs'[r].key = runs[r].key
                          /\ runs'[r].state \in {"open", "finished", "failed"}
    /\ \A u \in Server : loop'[u] = loop[u] \/ (loop'[u].at # "wire" /\ loop[u].at # "wire")

LEMMA EndingRow ==
  ASSUME TeammateInv, NEW r \in Run, Live(r),
         Fail(r) \/ Finish(r) \/ (Becomes(r, "cancelled") /\ UNCHANGED tables)
  PROVE  /\ UNCHANGED lastRun
         /\ \A q \in Run \ {r} : runs'[q] = runs[q]
         /\ runs'[r] = NoRun <=> runs[r] = NoRun
         /\ runs[r] # NoRun => /\ runs'[r].key = runs[r].key
                               /\ runs'[r].state \in {"open", "finished", "failed"}
         /\ \E state \in {"returned", "raised", "cancelled"} : Becomes(r, state)
<1>1. TypeOK /\ (runs[r] # NoRun => runs[r].state = "open")
  BY TaskIsMinted DEF Live, EndingOK, Stored, TeammateInv, TablesInv
<1>2. ASSUME NEW outcome \in Outcome, FinishRun(r, outcome)
      PROVE  /\ UNCHANGED lastRun
             /\ \A q \in Run \ {r} : runs'[q] = runs[q]
             /\ runs'[r] # NoRun /\ runs[r] # NoRun
             /\ runs'[r].key = runs[r].key /\ runs'[r].state \in {"open", "finished", "failed"}
  <2>1. /\ runs'[r].state = outcome /\ runs'[r].key = runs[r].key
        /\ runs[r] # NoRun /\ \A q \in Run \ {r} : runs'[q] = runs[q]
    BY <1>1, <1>2, FinishEffect
  <2>2. runs'[r] # NoRun /\ UNCHANGED lastRun
    <3>1. PICK t \in RunRow : t = runs[r]
      BY <1>1, <1>2 DEF FinishRun, TypeOK
    <3>2. PICK u : u = [t EXCEPT !.state = outcome]
      OBVIOUS
    <3>3. u \in RunRow /\ runs' = [runs EXCEPT ![r] = u]
      BY <1>2, <3>1, <3>2 DEF FinishRun, RunRow
    <3> QED BY <1>1, <1>2, <3>3, RowAssumption DEF FinishRun, TypeOK
  <2> QED BY <2>1, <2>2
<1>3. CASE \E outcome \in Outcome : FinishRun(r, outcome)
  BY <1>2, <1>3 DEF Fail, Finish
<1>4. CASE UNCHANGED tables
  BY <1>1, <1>4 DEF Fail, Finish, tables
<1> QED BY <1>3, <1>4 DEF Fail, Finish

LEMMA EndingIsQuiet ==
  ASSUME TeammateInv, NEW r \in Run, Live(r),
         Fail(r) \/ Finish(r) \/ (Becomes(r, "cancelled") /\ UNCHANGED tables),
         \A u \in Server : \/ loop'[u] = loop[u]
                           \/ loop'[u].at \in {"idle", "repin", "settle"} /\ loop[u].at # "wire"
  PROVE  EndsOne(r)
<1>1. PICK state \in {"returned", "raised", "cancelled"}, x \in 0 .. MaxSession :
          Moved(r, state, x)
  BY EndingRow, BecomesMoves
<1>2. /\ \A q \in Run : Live(q)' => StaysLive(q)
      /\ \A q \in Run \ {r} : Live(q)' <=> Live(q)
      /\ ~Live(r)'
  BY <1>1, MovesAreQuiet DEF TaskState
<1> QED BY <1>2, EndingRow DEF EndsOne, Quiet, StaysLive

LEMMA EndsAreQuiet ==
  ASSUME TeammateInv, NEW r \in Run, StreamEnds(r) \/ StreamRaises(r) \/ Cancel(r)
  PROVE  EndsOne(r)
<1>1. UNCHANGED loop /\ Live(r)
  BY DEF StreamEnds, StreamRaises, Cancel, Turn
<1>2. Fail(r) \/ Finish(r) \/ (Becomes(r, "cancelled") /\ UNCHANGED tables)
  BY DEF StreamEnds, StreamRaises, Cancel
<1> QED BY <1>1, <1>2, EndingIsQuiet

LEMMA LastCallsAreQuiet ==
  ASSUME TeammateInv, NEW s \in Server, Repin(s) \/ Settle(s)
  PROVE  \/ \E r \in Run : EndsOne(r)
         \/ /\ Quiet /\ UNCHANGED <<runs, tasks, lastRun>>
            /\ \A u \in Server : loop'[u] = loop[u] \/ (loop'[u].at # "wire" /\ loop[u].at # "wire")
<1>1. /\ loop[s].at \in {"repin", "settle"} /\ loop' = [loop EXCEPT ![s] = Idle]
      /\ loop \in [Server -> Segment]
  BY DEF Repin, Settle, Yield, Go, TeammateInv, ServingInv, ServingTypeOK
<1>2. PICK r \in Run : r = loop[s].run /\ Live(r)
  BY <1>1, CodexCapturesAndSegments
<1>3. \A u \in Server : \/ loop'[u] = loop[u]
                        \/ loop'[u].at \in {"idle", "repin", "settle"} /\ loop[u].at # "wire"
  BY <1>1, IdleIsASegment
<1>4. CASE Fail(r) \/ Finish(r)
  BY <1>2, <1>3, <1>4, EndingIsQuiet
<1>5. CASE UNCHANGED <<runs, tasks, lastRun>>
  BY <1>3, <1>5 DEF Quiet, StaysLive, Live
<1> QED BY <1>2, <1>4, <1>5 DEF Repin, Settle, Reconcile

\* The dismissal, the finding, the callback, the join and the crash.
LEMMA TheRestIsQuiet ==
  ASSUME TeammateInv,
         \/ \E k \in Key : Dismiss(k)
         \/ \E r \in Run : WriteFinding(r) \/ Deregister(r)
         \/ \E s \in Server, k \in Key : Join(s, k)
         \/ UNCHANGED vars
  PROVE  Quiet /\ UNCHANGED <<tasks, loop, lastRun>>
<1>1. CASE \E k \in Key : Dismiss(k)
  BY <1>1 DEF Dismiss, Delete, Quiet, StaysLive, Live
<1>2. CASE UNCHANGED <<runs, tasks, loop, lastRun>>
  BY <1>2 DEF Quiet, StaysLive, Live
<1> QED BY <1>1, <1>2 DEF WriteFinding, Deregister, Join, RecordFinding, serving, tables, vars

LEMMA CrashIsQuiet ==
  ASSUME OneServer, TeammateInv, NEW s \in Server, Crash(s)
  PROVE  /\ Quiet /\ UNCHANGED <<runs, lastRun>>
         /\ \A r \in Run : ~Live(r)'
         /\ \A u \in Server : loop'[u].at # "wire"
<1>1. /\ loop' = [loop EXCEPT ![s] = Idle] /\ loop \in [Server -> Segment]
      /\ tasks' = [r \in Run |-> IF Live(r) /\ tasks[r].server = s
                                 THEN [tasks[r] EXCEPT !.state = "lost"] ELSE tasks[r]]
      /\ UNCHANGED <<runs, lastRun>>
  BY DEF Crash, Yield, Go, tables, TeammateInv, ServingInv, ServingTypeOK
<1>2. ASSUME NEW r \in Run PROVE ~Live(r)'
  <2>1. CASE Live(r)
    <3>1. PICK t \in Task : t = tasks[r]
      BY <2>1, TaskIsMinted DEF Live
    <3>2. PICK u : u = [t EXCEPT !.state = "lost"]
      OBVIOUS
    <3>3. u.state = "lost" /\ t.server = s
      BY <3>1, <3>2 DEF Task, OneServer
    <3>4. tasks'[r] = u
      BY <1>1, <2>1, <3>1, <3>2, <3>3
    <3> QED BY <3>3, <3>4 DEF Live
  <2>2. CASE ~Live(r)
    <3>1. tasks'[r] = tasks[r]
      BY <1>1, <2>2
    <3> QED BY <2>2, <3>1 DEF Live
  <2> QED BY <2>1, <2>2
<1>3. \A u \in Server : loop'[u] = Idle
  BY <1>1 DEF OneServer
<1> QED BY <1>1, <1>2, <1>3, IdleIsASegment DEF Quiet, StaysLive
-----------------------------------------------------------------------------
(* The three steps that are not quiet.                                     *)

\* A segment begins only where the check saw no live run.
LEMMA CallKeepsBusy ==
  ASSUME OneServer, TeammateInv, BusyInv, NEW s \in Server, NEW k \in Key,
         NEW p \in Provider, NEW reset \in BOOLEAN, NEW wait \in BOOLEAN,
         Call(s, k, p, reset, wait)
  PROVE  /\ BusyInv' /\ UNCHANGED <<runs, tasks, lastRun>>
         /\ loop[s].at = "idle" /\ loop'[s].at # "wire"
<1>1. /\ ~LiveRun(s, k) /\ UNCHANGED <<tables, tasks>> /\ loop[s].at = "idle"
      /\ loop' = [loop EXCEPT ![s] = [Idle EXCEPT !.at = "ensure", !.key = k, !.provider = p,
                                          !.reset = reset, !.wait = wait, !.left = Crew[k]]]
      /\ loop \in [Server -> Segment]
  BY DEF Call, OpenSegment, Go, TeammateInv, ServingInv, ServingTypeOK
<1>2. loop'[s].at = "ensure" /\ loop'[s].key = k
  BY <1>1, IdleIsASegment DEF Segment
<1>3. \A q \in RunsOf(k) : ~Live(q)
  BY <1>1, CheckSeesLiveRuns
<1>4. UNCHANGED <<runs, lastRun>>
  BY <1>1 DEF tables
<1>5. \A r \in Run : (Live(r)' <=> Live(r)) /\ (Stored(r)' <=> Stored(r))
  BY <1>1, <1>4 DEF Live, Stored
<1>6. \A j \in Key : RunsOf(j)' = RunsOf(j)
  BY <1>4 DEF RunsOf
<1>7. ASSUME NEW r \in Run, Live(r)', Stored(r)', NEW q \in RunsOf(tasks[r].key)'
      PROVE  q <= r
  <2>1. PICK j : j = tasks[r].key
    OBVIOUS
  <2>2. q \in RunsOf(j)
    BY <2>1, <1>4, <1>7, <1>1 DEF RunsOf
  <2> QED BY <2>1, <2>2, <1>5, <1>7 DEF BusyInv
<1>8. ASSUME NEW u \in Server PROVE u = s
  BY DEF OneServer
<1>9. ASSUME NEW q \in RunsOf(loop[s].key)' PROVE ~Live(q)'
  <2>1. q \in RunsOf(k) /\ q \in Run
    BY <1>2, <1>4, <1>9 DEF RunsOf
  <2> QED BY <2>1, <1>3, <1>5
<1>10. BusyInv'
  BY <1>2, <1>7, <1>8, <1>9 DEF BusyInv
<1> QED BY <1>1, <1>2, <1>4, <1>10

\* begin_run, or start_run: one new row, open, and the segment goes on with it.
LEMMA BeginOpens ==
  ASSUME TeammateInv, NEW s \in Server, Begin(s)
  PROVE  /\ UNCHANGED <<agents, tasks>>
         /\ loop[s].at = "begin" /\ loop[s].key \in Key
         /\ loop'[s].at = "wire" /\ loop'[s].run = lastRun + 1
         /\ loop'[s].key = loop[s].key /\ loop'[s].session = loop[s].session
         /\ loop'[s].provider = loop[s].provider
         /\ \A u \in Server \ {s} : loop'[u] = loop[u]
         /\ lastRun + 1 \in Run /\ lastRun' = lastRun + 1
         /\ runs[lastRun + 1] = NoRun /\ tasks[lastRun + 1] = NoTask
         /\ runs'[lastRun + 1] # NoRun
         /\ runs'[lastRun + 1].key = loop[s].key /\ runs'[lastRun + 1].state = "open"
         /\ \A q \in Run \ {lastRun + 1} : runs'[q] = runs[q]
<1>1. PICK c \in Segment : c = loop[s]
  BY DEF TeammateInv, ServingInv, ServingTypeOK
<1>2. PICK n : n = lastRun + 1
  OBVIOUS
<1>3. PICK o, x : runs' = [runs EXCEPT ![n] = [key |-> c.key, state |-> "open",
                                            options |-> o, session |-> x]]
  <2>1. StartRun(c.key) \/ BeginRun(c.key, c.session)
    BY <1>1 DEF Begin
  <2> QED BY <2>1, <1>2 DEF StartRun, BeginRun, OpenRun
<1>4. /\ lastRun < MaxRun /\ lastRun' = n /\ UNCHANGED <<agents, tasks>>
      /\ c.at = "begin" /\ c.key \in Key /\ lastRun \in 0 .. MaxRun
      /\ runs \in [Run -> RunRow \cup {NoRun}] /\ RowsAreMinted
      /\ loop \in [Server -> Segment]
  BY <1>1, <1>2 DEF Begin, StartRun, BeginRun, OpenRun, Segment, TeammateInv, TablesInv,
                    TypeOK, ServingInv, ServingTypeOK
<1>5. n \in Run /\ n = lastRun + 1
  BY <1>2, <1>4
<1>6. /\ runs'[n].key = c.key /\ runs'[n].state = "open"
      /\ \A q \in Run \ {n} : runs'[q] = runs[q]
  BY <1>3, <1>4, <1>5
<1>7. runs'[n] # NoRun
  <2>1. runs' \in [Run -> RunRow \cup {NoRun}]
    BY SegmentsUsePoolMethods, TablesStep DEF SegmentStep, TeammateInv, TablesInv, TypeOK
  <2>2. runs'[n] = [key |-> c.key, state |-> "open", options |-> o, session |-> x]
    BY <1>3, <1>4, <1>5
  <2>3. StartRun(c.key) \/ BeginRun(c.key, c.session)
    BY <1>1 DEF Begin
  <2>4. c.session \in 0 .. MaxSession
    BY <1>1 DEF Segment
  <2>5. PICK row \in RunRow : runs' = [runs EXCEPT ![n] = row]
    <3>1. CASE StartRun(c.key)
      <4>1. [key |-> c.key, state |-> "open", options |-> "plain", session |-> 0] \in RunRow
        BY <1>4 DEF RunRow
      <4> QED BY <3>1, <4>1, <1>2 DEF StartRun, OpenRun
    <3>2. CASE BeginRun(c.key, c.session)
      <4>1. \A e \in {"resume", "fresh"} :
              [key |-> c.key, state |-> "open", options |-> e, session |-> c.session] \in RunRow
        BY <1>4, <2>4 DEF RunRow
      <4>2. PICK e \in {"resume", "fresh"} : e = IF HasRuns(c.key) THEN "resume" ELSE "fresh"
        OBVIOUS
      <4> QED BY <3>2, <4>1, <4>2, <1>2 DEF BeginRun, OpenRun
    <3> QED BY <2>3, <3>1, <3>2
  <2> QED BY <2>5, <1>4, <1>5, RowAssumption
<1>8. runs[n] = NoRun
  BY <1>4, <1>5 DEF RowsAreMinted
<1>9. tasks[n] = NoTask
  BY <1>4, <1>5, TaskIsMinted
<1>10. PICK e : loop' = [loop EXCEPT ![s] = [c EXCEPT !.at = "wire", !.run = n, !.options = e]]
  BY <1>1, <1>4 DEF Begin, Go
<1>11. /\ loop'[s].at = "wire" /\ loop'[s].run = n /\ loop'[s].key = c.key
       /\ loop'[s].session = c.session /\ loop'[s].provider = c.provider
       /\ \A u \in Server \ {s} : loop'[u] = loop[u]
  BY <1>1, <1>4, <1>10 DEF Segment
<1> QED BY <1>1, <1>4, <1>5, <1>6, <1>7, <1>8, <1>9, <1>11

\* The run that is opened is the latest, and the only one under way.
LEMMA BeginKeepsBusy ==
  ASSUME OneServer, TeammateInv, BusyInv, NEW s \in Server, Begin(s)
  PROVE  /\ BusyInv' /\ UNCHANGED tasks
         /\ loop[s].at = "begin" /\ loop[s].key \in Key
         /\ loop'[s].at = "wire" /\ loop'[s].run = lastRun + 1
         /\ lastRun + 1 \in Run /\ lastRun' = lastRun + 1
         /\ runs[lastRun + 1] = NoRun /\ ~Live(lastRun + 1)
         /\ runs'[lastRun + 1] # NoRun
         /\ runs'[lastRun + 1].key = loop[s].key /\ runs'[lastRun + 1].state = "open"
         /\ \A q \in Run \ {lastRun + 1} : runs'[q] = runs[q]
<1>1. PICK c \in Segment : c = loop[s]
  BY DEF TeammateInv, ServingInv, ServingTypeOK
<1>2. PICK n \in Run : n = lastRun + 1
  BY BeginOpens
<1>3. /\ UNCHANGED tasks /\ lastRun' = n
      /\ c.at = "begin" /\ c.key \in Key /\ lastRun \in Nat /\ RowsAreMinted
  BY <1>1, <1>2, BeginOpens DEF TeammateInv, TablesInv, TypeOK
<1>4. /\ runs[n] = NoRun /\ runs'[n] # NoRun /\ runs'[n].key = c.key /\ runs'[n].state = "open"
      /\ \A q \in Run \ {n} : runs'[q] = runs[q]
  BY <1>1, <1>2, BeginOpens
<1>5. tasks[n] = NoTask
  BY <1>2, BeginOpens
<1>6. \A r \in Run : (Live(r)' <=> Live(r))
  BY <1>3 DEF Live
<1>7. loop'[s].at = "wire" /\ loop'[s].run = n /\ loop'[s].key = c.key
  BY <1>1, <1>2, BeginOpens
<1>8. \A j : \A q \in RunsOf(j)' : q \in RunsOf(j) \/ (q = n /\ j = c.key)
  BY <1>4 DEF RunsOf
<1>9. \A q \in RunsOf(c.key) : ~Live(q)
  BY <1>1, <1>3 DEF BusyInv
<1>10. ASSUME NEW r \in Run, Live(r)', Stored(r)', NEW q \in RunsOf(tasks[r].key)'
       PROVE  q <= r
  <2>1. Live(r) /\ r # n /\ tasks[r] # NoTask
    BY <1>5, <1>6, <1>10 DEF Live
  <2>2. Stored(r)
    BY <2>1, <1>4, <1>10 DEF Stored
  <2>3. PICK j : j = tasks[r].key
    OBVIOUS
  <2>4. j # c.key
    BY <2>1, <2>2, <2>3, <1>9, StoredTask
  <2>5. q \in RunsOf(j)
    BY <2>3, <2>4, <1>3, <1>4, <1>10 DEF RunsOf
  <2> QED BY <2>1, <2>2, <2>3, <2>5 DEF BusyInv
<1>11. ASSUME NEW q \in RunsOf(loop[s].key)'
       PROVE  q <= n /\ ~Live(q)'
  <2>2. q \in Run /\ (q = n \/ q \in RunsOf(c.key))
    BY <1>4, <1>7, <1>11 DEF RunsOf
  <2>3. q = n \/ q <= lastRun
    BY <2>2, <1>3 DEF RunsOf, RowsAreMinted
  <2> QED BY <2>2, <2>3, <1>2, <1>3, <1>5, <1>6, <1>9 DEF Live
<1>12. ASSUME NEW u \in Server PROVE u = s
  BY DEF OneServer
<1>13. BusyInv'
  BY <1>7, <1>10, <1>11, <1>12 DEF BusyInv
<1> QED BY <1>1, <1>2, <1>3, <1>4, <1>5, <1>7, <1>13 DEF Live

\* The task of the run just opened, and the end of the segment.
LEMMA SpawnStarts ==
  ASSUME TeammateInv, NEW s \in Server, Spawn(s)
  PROVE  /\ UNCHANGED <<agents, runs, lastRun>>
         /\ loop[s].at = "wire" /\ loop[s].run \in Run
         /\ loop'[s].at = "idle" /\ \A u \in Server \ {s} : loop'[u] = loop[u]
         /\ tasks'[loop[s].run] # NoTask
         /\ tasks'[loop[s].run].key = loop[s].key
         /\ tasks'[loop[s].run].provider = loop[s].provider
         /\ tasks'[loop[s].run].expect = loop[s].session
         /\ tasks'[loop[s].run].session = 0
         /\ tasks'[loop[s].run].state = "starting"
         /\ \A q \in Run \ {loop[s].run} : tasks'[q] = tasks[q]
<1>1. PICK c \in Segment : c = loop[s]
  BY DEF TeammateInv, ServingInv, ServingTypeOK
<1>2. /\ c.at = "wire" /\ UNCHANGED <<agents, runs, lastRun>> /\ c.run \in Run
      /\ loop \in [Server -> Segment] /\ tasks \in [Run -> Task \cup {NoTask}]
      /\ loop' = [loop EXCEPT ![s] = Idle]
  BY <1>1 DEF Spawn, NewTask, Yield, Go, tables, TeammateInv, TablesInv, TypeOK, ServingInv,
              ServingTypeOK, SegmentOK
<1>3. PICK t : /\ t = [server |-> s, key |-> c.key, provider |-> c.provider,
                       options |-> c.options, expect |-> c.session, session |-> 0,
                       state |-> "starting"]
               /\ tasks' = [tasks EXCEPT ![c.run] = t]
  BY <1>1 DEF Spawn, NewTask
<1>4. t \in Task /\ t.key = c.key /\ t.state = "starting" /\ t # NoTask
      /\ t.provider = c.provider /\ t.expect = c.session /\ t.session = 0
  <2>1. t \in Task
    BY <1>1, <1>3 DEF Task, Segment
  <2> QED BY <2>1, <1>3, TaskAssumption
<1>5. /\ tasks'[c.run] = t /\ \A q \in Run \ {c.run} : tasks'[q] = tasks[q]
      /\ loop'[s].at = "idle" /\ \A u \in Server \ {s} : loop'[u] = loop[u]
  BY <1>2, <1>3, IdleIsASegment
<1> QED BY <1>1, <1>2, <1>4, <1>5

\* The run that is spawned is the one just opened.
LEMMA SpawnKeepsBusy ==
  ASSUME OneServer, TeammateInv, BusyInv, NEW s \in Server, Spawn(s)
  PROVE  /\ BusyInv' /\ UNCHANGED <<runs, lastRun>>
         /\ loop[s].at = "wire" /\ loop'[s].at # "wire"
         /\ \E r \in Run : /\ r = loop[s].run /\ Live(r)'
                          /\ \A q \in Run \ {r} : Live(q)' <=> Live(q)
<1>1. PICK c \in Segment : c = loop[s]
  BY DEF TeammateInv, ServingInv, ServingTypeOK
<1>2. c.at = "wire" /\ UNCHANGED <<runs, lastRun>> /\ c.run \in Run
  BY <1>1, SpawnStarts
<1>3. /\ tasks'[c.run] # NoTask /\ tasks'[c.run].key = c.key /\ tasks'[c.run].state = "starting"
      /\ \A q \in Run \ {c.run} : tasks'[q] = tasks[q]
      /\ loop'[s].at = "idle"
  BY <1>1, SpawnStarts
<1>4. Live(c.run)' /\ \A q \in Run \ {c.run} : Live(q)' <=> Live(q)
  BY <1>3 DEF Live
<1>5. ASSUME NEW r \in Run, Live(r)', Stored(r)', NEW q \in RunsOf(tasks[r].key)'
      PROVE  q <= r
  <2>1. Stored(r)
    BY <1>2, <1>5 DEF Stored
  <2>2. CASE r = c.run
    <3>1. q \in RunsOf(c.key)
      BY <2>2, <1>2, <1>3, <1>5 DEF RunsOf
    <3> QED BY <2>1, <2>2, <3>1, <1>1, <1>2 DEF BusyInv
  <2>3. CASE r # c.run
    <3>1. PICK j : j = tasks[r].key
      OBVIOUS
    <3>2. q \in RunsOf(j) /\ Live(r)
      BY <2>3, <3>1, <1>2, <1>3, <1>4, <1>5 DEF RunsOf
    <3> QED BY <2>1, <3>1, <3>2 DEF BusyInv
  <2> QED BY <2>2, <2>3
<1>6. ASSUME NEW u \in Server PROVE u = s
  BY DEF OneServer
<1>7. \A u \in Server : loop'[u].at = "idle"
  BY <1>3, <1>6
<1>8. BusyInv'
  BY <1>5, <1>7 DEF BusyInv
<1> QED BY <1>1, <1>2, <1>3, <1>4, <1>8

LEMMA BusyStep == OneServer /\ TeammateInv /\ BusyInv /\ [TeammateNext]_vars => BusyInv'
<1> SUFFICES ASSUME OneServer, TeammateInv, BusyInv, [TeammateNext]_vars
             PROVE  BusyInv'
  OBVIOUS
<1>1. ASSUME NEW s \in Server, NEW k \in Key, NEW p \in Provider, NEW reset \in BOOLEAN,
             NEW wait \in BOOLEAN, Call(s, k, p, reset, wait)
      PROVE  BusyInv'
  BY <1>1, CallKeepsBusy
<1>2. ASSUME NEW s \in Server, SegmentStep(s)
      PROVE  BusyInv'
  <2>1. CASE Begin(s)
    BY <2>1, BeginKeepsBusy
  <2>2. CASE Spawn(s)
    BY <2>2, SpawnKeepsBusy
  <2>3. CASE Repin(s) \/ Settle(s)
    BY <2>3, LastCallsAreQuiet, NobodyGetsBusy DEF EndsOne
  <2>4. CASE Ensure(s) \/ EnsureCrew(s) \/ Prepare(s) \/ WireFails(s)
    BY <2>4, SegmentsAreQuiet, NobodyGetsBusy
  <2> QED BY <1>2, <2>1, <2>2, <2>3, <2>4 DEF SegmentStep
<1>3. ASSUME NEW s \in Server, Crash(s)
      PROVE  BusyInv'
  BY <1>3, CrashIsQuiet, NobodyGetsBusy
<1>4. ASSUME NEW r \in Run, StreamStep(r) \/ Cancel(r)
      PROVE  BusyInv'
  BY <1>4, StreamsAreQuiet, EndsAreQuiet, NobodyGetsBusy DEF StreamStep, EndsOne
<1>5. CASE \/ \E k \in Key : Dismiss(k)
           \/ \E r \in Run : WriteFinding(r) \/ Deregister(r)
           \/ \E s \in Server, k \in Key : Join(s, k)
           \/ UNCHANGED vars
  BY <1>5, TheRestIsQuiet, NobodyGetsBusy
<1> QED BY <1>1, <1>2, <1>3, <1>4, <1>5 DEF TeammateNext

LEMMA BusyInit == TeammateInit => BusyInv
BY IdleIsASegment DEF TeammateInit, BusyInv, Live

(***************************************************************************)
(* While a run that was not dismissed is live, check_teammate says         *)
(* `running`, of that very run, for any number of teammates and calls, and *)
(* whatever crashes, cancellations and dismissals happen (live_run,        *)
(* context.py:195-206; spawn's docstring, runner.py:24-29).                *)
(***************************************************************************)
THEOREM OneServerLiveRunReadsRunning ==
  ASSUME OneServer
  PROVE  TeammateSpec => []LiveRunReadsRunning
<1>1. TeammateInv /\ BusyInv => LiveRunReadsRunning
  <2> SUFFICES ASSUME TeammateInv, BusyInv, NEW r \in Run, Live(r), Stored(r),
                      agents[tasks[r].key] # NoEntry
               PROVE  /\ Status(tasks[r].server, tasks[r].key) = "running"
                      /\ LatestRun(tasks[r].key) = r
    BY DEF LiveRunReadsRunning
  <2>1. PICK k \in Key : k = tasks[r].key /\ r \in RunsOf(k)
    BY StoredTask DEF Live
  <2>2. PICK s \in Server : s = tasks[r].server
    BY TaskIsMinted DEF Live, Task
  <2>3. /\ LatestRun(k) = r /\ runs[r].state = "open" /\ r \in registered[s] /\ HasRuns(k)
    BY <2>1, CheckSeesLiveRuns
  <2> QED BY <2>1, <2>2, <2>3 DEF Status
<1>2. TeammateInit => TeammateInv /\ BusyInv
  BY ServerInit, BusyInit
<1>3. TeammateInv /\ BusyInv /\ [TeammateNext]_vars => (TeammateInv /\ BusyInv)'
  BY ServerStep, BusyStep
<1> QED BY <1>1, <1>2, <1>3, PTL DEF TeammateSpec

-----------------------------------------------------------------------------
(***************************************************************************)
(* The refinement: what a step does to the life of each run.               *)
(***************************************************************************)
LEMMA PhaseRests ==
  ASSUME NEW r \in Run, runs'[r] = runs[r], UNCHANGED lastRun,
         Live(r)' <=> Live(r), Opening(r)' <=> Opening(r)
  PROVE  PhaseOf(r)' = PhaseOf(r) /\ StoredUnder(r)' = StoredUnder(r)
BY DEF PhaseOf, StoredUnder

LEMMA LifeRests ==
  ASSUME \A r \in Run : PhaseOf(r)' = PhaseOf(r) /\ StoredUnder(r)' = StoredUnder(r)
  PROVE  UNCHANGED Life!life
BY DEF Life!life

\* No segment comes to wire a run, and none stops.
LEMMA OpeningRests ==
  ASSUME \A u \in Server : loop'[u] = loop[u] \/ (loop'[u].at # "wire" /\ loop[u].at # "wire"),
         NEW r \in Run
  PROVE  Opening(r)' <=> Opening(r)
BY DEF Opening

LEMMA NothingHappens ==
  ASSUME UNCHANGED <<runs, lastRun>>, \A r \in Run : Live(r)' <=> Live(r),
         \A u \in Server : loop'[u] = loop[u] \/ (loop'[u].at # "wire" /\ loop[u].at # "wire")
  PROVE  UNCHANGED Life!life
BY PhaseRests, OpeningRests, LifeRests

\* One run's life goes on; the others rest.
LEMMA LifeOfOne ==
  ASSUME NEW r \in Run, StoredUnder(r)' = StoredUnder(r),
         \A q \in Run \ {r} : PhaseOf(q)' = PhaseOf(q) /\ StoredUnder(q)' = StoredUnder(q)
  PROVE  /\ PhaseOf(r) = "opening" /\ PhaseOf(r)' = "live" => Life!Start(r)
         /\ \A ending \in {"finished", "failed", "abandoned"} :
               PhaseOf(r) = "live" /\ PhaseOf(r)' = ending => Life!End(r, ending)
         /\ PhaseOf(r) = "opening" /\ PhaseOf(r)' = "abandoned" => Life!Abandon({r})
<1> DEFINE P == [q \in Run |-> PhaseOf(q)]
           O == [q \in Run |-> StoredUnder(q)]
<1>1. P' = [P EXCEPT ![r] = PhaseOf(r)'] /\ O' = O
  OBVIOUS
<1>2. P[r] = PhaseOf(r) /\ P' = [q \in Run |-> IF q \in {r} THEN PhaseOf(r)' ELSE P[q]]
  BY <1>1
<1> QED BY <1>1, <1>2 DEF Life!Start, Life!End, Life!Abandon, Life!Run

LEMMA OpenStep ==
  ASSUME OneServer, TeammateInv, BusyInv, NEW s \in Server, Begin(s)
  PROVE  Life!Proceed
<1> DEFINE P == [q \in Run |-> PhaseOf(q)]
           O == [q \in Run |-> StoredUnder(q)]
<1>1. PICK n \in Run, k \in Key : n = lastRun + 1 /\ k = loop[s].key
  BY BeginKeepsBusy
<1>2. /\ UNCHANGED tasks /\ loop[s].at = "begin" /\ loop'[s].at = "wire" /\ loop'[s].run = n
      /\ lastRun' = n /\ lastRun \in 0 .. MaxRun
      /\ runs[n] = NoRun /\ ~Live(n)
      /\ runs'[n] # NoRun /\ runs'[n].key = k /\ runs'[n].state = "open"
      /\ \A q \in Run \ {n} : runs'[q] = runs[q]
  BY <1>1, BeginKeepsBusy DEF TeammateInv, TablesInv, TypeOK
<1>3. \A q \in Run : (Live(q)' <=> Live(q)) /\ ~Opening(q) /\ (Opening(q)' <=> q = n)
  BY <1>2 DEF Live, Opening, OneServer
<1>4. PhaseOf(n) = "unopened" /\ PhaseOf(n)' = "opening" /\ StoredUnder(n)' = k
  BY <1>1, <1>2, <1>3 DEF PhaseOf, StoredUnder
<1>5. ASSUME NEW q \in Run \ {n}
      PROVE  PhaseOf(q)' = PhaseOf(q) /\ StoredUnder(q)' = StoredUnder(q)
  <2>1. q <= lastRun' <=> q <= lastRun
    BY <1>1, <1>2
  <2> QED BY <2>1, <1>2, <1>3 DEF PhaseOf, StoredUnder
<1>6. \A q \in Run : q < n => PhaseOf(q) # "unopened"
  BY <1>1, <1>2 DEF PhaseOf, TeammateInv, TablesInv, TypeOK, RunRow
<1>7. ASSUME NEW q \in Run, StoredUnder(q) = k PROVE PhaseOf(q) \notin {"opening", "live"}
  <2>1. runs[q] # NoRun /\ runs[q].key = k
    BY <1>7, NoEntryAssumption DEF StoredUnder
  <2>2. q \in RunsOf(loop[s].key)
    BY <2>1, <1>1 DEF RunsOf
  <2>3. ~Live(q)
    BY <2>2, <1>2 DEF BusyInv
  <2>4. runs[q].state \in {"open", "finished", "failed"}
    BY <2>1 DEF TeammateInv, TablesInv, TypeOK, RunRow
  <2> QED BY <2>1, <2>3, <2>4, <1>3 DEF PhaseOf
<1>8. P' = [P EXCEPT ![n] = "opening"] /\ O' = [O EXCEPT ![n] = k]
  BY <1>4, <1>5
<1>9. /\ P[n] = "unopened" /\ \A q \in Run : q < n => P[q] # "unopened"
      /\ ~\E q \in Run : O[q] = k /\ P[q] \in {"opening", "live"}
  BY <1>4, <1>6, <1>7
<1>10. Life!Open(n, k)
  BY <1>8, <1>9 DEF Life!Open, Life!Busy, Life!Run
<1> QED BY <1>10 DEF Life!Proceed, Life!Run

\* The segment that wires a run spawns it, or gives it up.
LEMMA WiredStep ==
  ASSUME OneServer, TeammateInv, BusyInv, NEW s \in Server, Spawn(s) \/ WireFails(s)
  PROVE  [Life!Proceed]_(Life!life)
<1>1. PICK r \in Run : r = loop[s].run /\ tasks[r] = NoTask
  BY DEF Spawn, NewTask, WireFails, TeammateInv, TablesInv, TypeOK, ServingInv, SegmentOK
<1>2. /\ UNCHANGED <<runs, lastRun>> /\ loop[s].at = "wire" /\ loop'[s].at # "wire"
      /\ runs[r] # NoRun => runs[r].state = "open"
  BY <1>1, SpawnKeepsBusy, SegmentsAreQuiet DEF WireFails, Spawn, NewTask, TeammateInv,
     ServingInv, SegmentOK
<1>3. \A q \in Run : (Opening(q) <=> q = r) /\ ~Opening(q)'
  BY <1>1, <1>2 DEF Opening, OneServer
<1>4. ASSUME NEW q \in Run \ {r}, Live(q)' <=> Live(q)
      PROVE  PhaseOf(q)' = PhaseOf(q) /\ StoredUnder(q)' = StoredUnder(q)
  BY <1>2, <1>3, <1>4 DEF PhaseOf, StoredUnder
<1>5. /\ StoredUnder(r)' = StoredUnder(r) /\ ~Live(r)
      /\ r <= lastRun /\ (runs[r] # NoRun => PhaseOf(r) = "opening")
  <2>1. r <= lastRun /\ ~Live(r)
    BY <1>1, <1>2 DEF Live, TeammateInv, ServingInv, SegmentOK
  <2> QED BY <2>1, <1>2, <1>3 DEF PhaseOf, StoredUnder
<1>6. CASE runs[r] = NoRun /\ \A q \in Run \ {r} : Live(q)' <=> Live(q)
  <2>1. PhaseOf(r)' = PhaseOf(r)
    BY <1>2, <1>6 DEF PhaseOf
  <2> QED BY <2>1, <1>4, <1>5, <1>6, LifeRests
<1>7. CASE runs[r] # NoRun /\ Spawn(s)
  <2>1. Live(r)' /\ \A q \in Run \ {r} : Live(q)' <=> Live(q)
    BY <1>1, <1>7, SpawnKeepsBusy
  <2>2. PhaseOf(r)' = "live"
    BY <2>1, <1>2, <1>7 DEF PhaseOf
  <2>3. Life!Start(r)
    BY <2>1, <2>2, <1>4, <1>5, <1>7, LifeOfOne
  <2> QED BY <2>3 DEF Life!Proceed, Life!Continue, Life!Run
<1>8. CASE runs[r] # NoRun /\ WireFails(s)
  <2>1. \A q \in Run : Live(q)' <=> Live(q)
    BY <1>8 DEF WireFails, Live
  <2>2. PhaseOf(r)' = "abandoned"
    BY <2>1, <1>2, <1>3, <1>5, <1>8 DEF PhaseOf
  <2>3. Life!Abandon({r})
    BY <2>1, <2>2, <1>4, <1>5, <1>8, LifeOfOne
  <2> QED BY <2>3 DEF Life!Proceed, Life!Run
<1>9. CASE runs[r] = NoRun /\ Spawn(s)
  BY <1>1, <1>6, <1>9, SpawnKeepsBusy
<1>10. CASE runs[r] = NoRun /\ WireFails(s)
  BY <1>6, <1>10 DEF WireFails, Live
<1> QED BY <1>7, <1>8, <1>9, <1>10

\* A live run ends, or it was dismissed already.
LEMMA EndStep ==
  ASSUME TeammateInv, NEW r \in Run, EndsOne(r)
  PROVE  [Life!Proceed]_(Life!life)
<1>1. \A q \in Run : Opening(q)' <=> Opening(q)
  BY OpeningRests DEF EndsOne
<1>2. \A q \in Run \ {r} : PhaseOf(q)' = PhaseOf(q) /\ StoredUnder(q)' = StoredUnder(q)
  BY <1>1, PhaseRests DEF EndsOne
<1>3. StoredUnder(r)' = StoredUnder(r)
  BY DEF EndsOne, StoredUnder
<1>4. tasks[r] # NoTask /\ (runs[r] # NoRun => runs[r].state = "open")
  BY TaskIsMinted DEF EndsOne, Live, EndingOK, Stored
<1>5. ~Opening(r)
  BY <1>4 DEF Opening, TeammateInv, ServingInv, SegmentOK
<1>6. CASE runs[r] = NoRun
  <2>1. PhaseOf(r)' = PhaseOf(r)
    BY <1>6 DEF EndsOne, PhaseOf
  <2> QED BY <2>1, <1>2, <1>3, LifeRests
<1>7. CASE runs[r] # NoRun
  <2>1. PhaseOf(r) = "live"
    BY <1>4, <1>7 DEF EndsOne, PhaseOf
  <2>2. PICK ending \in {"finished", "failed", "abandoned"} : PhaseOf(r)' = ending
    BY <1>1, <1>5, <1>7 DEF EndsOne, PhaseOf
  <2>3. Life!End(r, ending)
    BY <2>1, <2>2, <1>2, <1>3, LifeOfOne
  <2> QED BY <2>3 DEF Life!Proceed, Life!Continue, Life!Ending, Life!Run
<1> QED BY <1>6, <1>7

\* A crash abandons every run under way.
LEMMA CrashStep ==
  ASSUME OneServer, TeammateInv, NEW s \in Server, Crash(s)
  PROVE  [Life!Proceed]_(Life!life)
<1> DEFINE P == [q \in Run |-> PhaseOf(q)]
           O == [q \in Run |-> StoredUnder(q)]
           lost == {q \in Run : PhaseOf(q) \in {"opening", "live"}}
<1>1. UNCHANGED <<runs, lastRun>> /\ \A r \in Run : ~Live(r)' /\ ~Opening(r)'
  BY CrashIsQuiet DEF Opening
<1>2. ASSUME NEW q \in Run
      PROVE  /\ StoredUnder(q)' = StoredUnder(q)
             /\ PhaseOf(q)' = IF q \in lost THEN "abandoned" ELSE PhaseOf(q)
  <2>1. runs[q] # NoRun => runs[q].state \in {"open", "finished", "failed"}
    BY DEF TeammateInv, TablesInv, TypeOK, RunRow
  <2> QED BY <2>1, <1>1 DEF PhaseOf, StoredUnder
<1>3. CASE lost = {}
  BY <1>2, <1>3, LifeRests
<1>4. CASE lost # {}
  <2>1. \A q \in lost : P[q] \in {"opening", "live"}
    OBVIOUS
  <2>2. P' = [q \in Run |-> IF q \in lost THEN "abandoned" ELSE P[q]] /\ O' = O
    BY <1>2
  <2>3. lost \subseteq Run
    OBVIOUS
  <2> HIDE DEF lost
  <2>4. Life!Abandon(lost)
    BY <2>1, <2>2, <2>3, <1>4 DEF Life!Abandon, Life!Run
  <2> QED BY <2>3, <2>4 DEF Life!Proceed, Life!Run
<1> QED BY <1>3, <1>4

\* A dismissal forgets all the runs of its teammate, whatever they are at.
LEMMA ForgetStep ==
  ASSUME TeammateInv, NEW k \in Key, Dismiss(k)
  PROVE  [Life!Proceed]_(Life!life)
<1> DEFINE P == [q \in Run |-> PhaseOf(q)]
           O == [q \in Run |-> StoredUnder(q)]
<1>1. /\ runs' = [r \in Run |-> IF r \in RunsOf(k) THEN NoRun ELSE runs[r]]
      /\ UNCHANGED <<lastRun, tasks, loop>>
  BY DEF Dismiss, Delete
<1>2. \A q \in Run : (Live(q)' <=> Live(q)) /\ (Opening(q)' <=> Opening(q))
  BY <1>1 DEF Live, Opening
<1>3. \A q \in Run : q \in RunsOf(k) <=> StoredUnder(q) = k
  BY NoEntryAssumption DEF RunsOf, StoredUnder
<1>4. ASSUME NEW q \in RunsOf(k)
      PROVE  PhaseOf(q)' = "forgotten" /\ StoredUnder(q)' = NoEntry
  <2>1. q \in Run /\ q <= lastRun' /\ runs'[q] = NoRun
    BY <1>1 DEF RunsOf, TeammateInv, TablesInv, RowsAreMinted
  <2> QED BY <2>1 DEF PhaseOf, StoredUnder
<1>5. ASSUME NEW q \in Run, q \notin RunsOf(k)
      PROVE  PhaseOf(q)' = PhaseOf(q) /\ StoredUnder(q)' = StoredUnder(q)
  <2>1. runs'[q] = runs[q]
    BY <1>1, <1>5
  <2> QED BY <2>1, <1>1, <1>2, PhaseRests
<1>6. CASE RunsOf(k) = {}
  BY <1>5, <1>6, LifeRests
<1>7. CASE RunsOf(k) # {}
  <2>1. \E q \in Run : O[q] = k
    BY <1>3, <1>7 DEF RunsOf
  <2>2. /\ P' = [q \in Run |-> IF O[q] = k THEN "forgotten" ELSE P[q]]
        /\ O' = [q \in Run |-> IF O[q] = k THEN NoEntry ELSE O[q]]
    BY <1>3, <1>4, <1>5
  <2>3. Life!Forget(k)
    BY <2>1, <2>2 DEF Life!Forget, Life!Run
  <2> QED BY <2>3 DEF Life!Proceed
<1> QED BY <1>6, <1>7

LEMMA LifeStep ==
  OneServer /\ TeammateInv /\ BusyInv /\ [TeammateNext]_vars => [Life!Proceed]_(Life!life)
<1> SUFFICES ASSUME OneServer, TeammateInv, BusyInv, [TeammateNext]_vars
             PROVE  [Life!Proceed]_(Life!life)
  OBVIOUS
<1>1. ASSUME NEW s \in Server, NEW k \in Key, NEW p \in Provider, NEW reset \in BOOLEAN,
             NEW wait \in BOOLEAN, Call(s, k, p, reset, wait)
      PROVE  UNCHANGED Life!life
  <2>1. /\ UNCHANGED <<runs, tasks, lastRun>>
        /\ \A u \in Server : loop'[u].at # "wire" /\ loop[u].at # "wire"
    BY <1>1, CallKeepsBusy DEF OneServer
  <2> QED BY <2>1, NothingHappens DEF Live
<1>2. ASSUME NEW s \in Server, SegmentStep(s)
      PROVE  [Life!Proceed]_(Life!life)
  <2>1. CASE Begin(s)
    BY <2>1, OpenStep
  <2>2. CASE Spawn(s) \/ WireFails(s)
    BY <2>2, WiredStep
  <2>3. CASE Repin(s) \/ Settle(s)
    <3>1. CASE \E r \in Run : EndsOne(r)
      BY <3>1, EndStep
    <3>2. CASE /\ UNCHANGED <<runs, tasks, lastRun>>
               /\ \A u \in Server : \/ loop'[u] = loop[u]
                                    \/ loop'[u].at # "wire" /\ loop[u].at # "wire"
      BY <3>2, NothingHappens DEF Live
    <3> QED BY <2>3, <3>1, <3>2, LastCallsAreQuiet
  <2>4. CASE (Ensure(s) \/ EnsureCrew(s) \/ Prepare(s)) /\ ~WireFails(s)
    BY <2>4, SegmentsAreQuiet, NothingHappens DEF Live
  <2> QED BY <1>2, <2>1, <2>2, <2>3, <2>4 DEF SegmentStep
<1>3. ASSUME NEW s \in Server, Crash(s)
      PROVE  [Life!Proceed]_(Life!life)
  BY <1>3, CrashStep
<1>4. ASSUME NEW r \in Run, StreamEnds(r) \/ StreamRaises(r) \/ Cancel(r)
      PROVE  [Life!Proceed]_(Life!life)
  BY <1>4, EndsAreQuiet, EndStep
<1>5. ASSUME NEW r \in Run, Attach(r) \/ CodexStarts(r) \/ FirstRow(r)
      PROVE  UNCHANGED Life!life
  BY <1>5, StreamsAreQuiet, NothingHappens
<1>6. ASSUME NEW k \in Key, Dismiss(k)
      PROVE  [Life!Proceed]_(Life!life)
  BY <1>6, ForgetStep
<1>7. CASE \/ \E r \in Run : WriteFinding(r) \/ Deregister(r)
           \/ \E s \in Server, k \in Key : Join(s, k)
           \/ UNCHANGED vars
  <2>1. UNCHANGED <<runs, tasks, loop, lastRun>>
    BY <1>7 DEF WriteFinding, Deregister, Join, RecordFinding, serving, tables, vars
  <2> QED BY <2>1, NothingHappens DEF Live
<1> QED BY <1>1, <1>2, <1>3, <1>4, <1>5, <1>6, <1>7 DEF TeammateNext, StreamStep

LEMMA LifeInit == TeammateInit => Life!Begin
BY DEF TeammateInit, Init, Life!Begin, Life!Run, PhaseOf, StoredUnder

(***************************************************************************)
(* The server implements RunLifecycle: every run has one life and its      *)
(* ending is final; none is opened on a busy teammate; a row that carries  *)
(* an outcome, or that a crash, a cancelled wait or a failed wiring left   *)
(* behind, is never running again; only a dismissal takes rows, then all   *)
(* of the teammate's (run_teammate, context.py:195-206, runner.py).        *)
(***************************************************************************)
THEOREM OneServerImplementsLifecycle ==
  ASSUME OneServer
  PROVE  TeammateSpec => ImplementsLifecycle
<1>1. TeammateInit => TeammateInv /\ BusyInv
  BY ServerInit, BusyInit
<1>2. TeammateInv /\ BusyInv /\ [TeammateNext]_vars => (TeammateInv /\ BusyInv)'
  BY ServerStep, BusyStep
<1>3. TeammateInv /\ BusyInv /\ [TeammateNext]_vars => [Life!Proceed]_(Life!life)
  BY LifeStep
<1> QED
  BY <1>1, <1>2, <1>3, LifeInit, PTL DEF TeammateSpec, ImplementsLifecycle, Life!Lifecycle

-----------------------------------------------------------------------------
(***************************************************************************)
(* Without dismissals.  A dismissal takes the row that the check for a     *)
(* live run looks at (dismiss_teammate's docstring allows it): what        *)
(* follows needs that none happens.                                        *)
(***************************************************************************)
NoDismissal == Limit["dismiss"] = 0

\* The row of a run under way is stored.
StoredInv ==
    /\ \A r \in Run : Live(r) => Stored(r)
    /\ \A s \in Server : loop[s].at = "wire" => Stored(loop[s].run)

LEMMA NobodyIsForgotten ==
  ASSUME TeammateInv, StoredInv, Quiet, \A r \in Run : Stored(r) => Stored(r)'
  PROVE  StoredInv'
<1>1. ASSUME NEW s \in Server, loop'[s].at = "wire" PROVE Stored(loop[s].run)'
  <2>1. loop'[s] = loop[s]
    BY <1>1 DEF Quiet, StaysLive
  <2>2. PICK r \in Run : r = loop[s].run
    BY <1>1, <2>1 DEF TeammateInv, TablesInv, TypeOK, ServingInv, SegmentOK
  <2>3. Stored(r)'
    BY <1>1, <2>1, <2>2 DEF StoredInv
  <2> QED BY <2>1, <2>2, <2>3 DEF Stored
<1> QED BY <1>1 DEF StoredInv, Quiet, StaysLive

LEMMA StoredStep ==
  OneServer /\ NoDismissal /\ TeammateInv /\ BusyInv /\ StoredInv /\ [TeammateNext]_vars
      => StoredInv'
<1> SUFFICES ASSUME OneServer, NoDismissal, TeammateInv, BusyInv, StoredInv, [TeammateNext]_vars
             PROVE  StoredInv'
  OBVIOUS
<1>0. (UNCHANGED runs) => \A r \in Run : Stored(r) => Stored(r)'
  BY DEF Stored
<1>1. ASSUME NEW s \in Server, NEW k \in Key, NEW p \in Provider, NEW reset \in BOOLEAN,
             NEW wait \in BOOLEAN, Call(s, k, p, reset, wait)
      PROVE  StoredInv'
  <2>1. /\ UNCHANGED <<runs, tasks>> /\ \A u \in Server : loop'[u].at # "wire"
    BY <1>1, CallKeepsBusy DEF OneServer
  <2> QED BY <2>1 DEF StoredInv, Stored, Live
<1>2. ASSUME NEW s \in Server, SegmentStep(s)
      PROVE  StoredInv'
  <2>1. CASE Begin(s)
    <3>1. PICK n \in Run : /\ n = lastRun + 1 /\ loop'[s].run = n /\ UNCHANGED tasks
                           /\ ~Live(n) /\ runs'[n] # NoRun
                           /\ \A q \in Run \ {n} : runs'[q] = runs[q]
      BY <2>1, BeginKeepsBusy
    <3>2. \A q \in Run : Live(q)' => Stored(q)'
      BY <3>1 DEF Live, Stored, StoredInv
    <3>3. \A u \in Server : Stored(loop[u].run)'
      BY <3>1 DEF Stored, OneServer
    <3> QED BY <3>2, <3>3 DEF StoredInv
  <2>2. CASE Spawn(s)
    <3>1. PICK r \in Run : /\ r = loop[s].run /\ loop[s].at = "wire"
                           /\ \A q \in Run \ {r} : Live(q)' <=> Live(q)
      BY <2>2, SpawnKeepsBusy
    <3>2. UNCHANGED runs /\ \A u \in Server : loop'[u].at # "wire"
      BY <2>2, SpawnKeepsBusy DEF OneServer
    <3>3. Stored(r)
      BY <3>1 DEF StoredInv
    <3>4. \A q \in Run : Live(q)' => Stored(q)'
      BY <3>1, <3>2, <3>3 DEF Stored, StoredInv
    <3> QED BY <3>2, <3>4 DEF StoredInv
  <2>3. CASE Repin(s) \/ Settle(s)
    BY <2>3, <1>0, LastCallsAreQuiet, NobodyIsForgotten DEF EndsOne, Stored
  <2>4. CASE Ensure(s) \/ EnsureCrew(s) \/ Prepare(s) \/ WireFails(s)
    BY <2>4, <1>0, SegmentsAreQuiet, NobodyIsForgotten
  <2> QED BY <1>2, <2>1, <2>2, <2>3, <2>4 DEF SegmentStep
<1>3. ASSUME NEW s \in Server, Crash(s)
      PROVE  StoredInv'
  BY <1>3, <1>0, CrashIsQuiet, NobodyIsForgotten
<1>4. ASSUME NEW r \in Run, StreamStep(r) \/ Cancel(r)
      PROVE  StoredInv'
  BY <1>4, <1>0, StreamsAreQuiet, EndsAreQuiet, NobodyIsForgotten DEF StreamStep, EndsOne, Stored
<1>5. ASSUME NEW k \in Key, Dismiss(k)
      PROVE  FALSE
  <2>1. spent["dismiss"] \in Nat
    BY DEF TeammateInv, ServingInv, ServingTypeOK, Event
  <2> QED BY <2>1, <1>5 DEF Dismiss, Spend, NoDismissal
<1>6. CASE \/ \E r \in Run : WriteFinding(r) \/ Deregister(r)
           \/ \E s \in Server, k \in Key : Join(s, k)
           \/ UNCHANGED vars
  <2>1. UNCHANGED runs
    BY <1>6 DEF WriteFinding, Deregister, Join, RecordFinding, serving, tables, vars
  <2> QED BY <2>1, <1>0, <1>6, TheRestIsQuiet, NobodyIsForgotten
<1> QED BY <1>1, <1>2, <1>3, <1>4, <1>5, <1>6 DEF TeammateNext

\* Of one teammate, no two runs are live.
LEMMA OneLiveRun ==
  ASSUME TeammateInv, BusyInv, StoredInv, NEW r \in Run, NEW q \in Run, Live(r), Live(q),
         tasks[r].key = tasks[q].key
  PROVE  r = q
<1>1. PICK k \in Key : k = tasks[r].key /\ r \in RunsOf(k) /\ q \in RunsOf(k)
  BY StoredTask DEF StoredInv, Live
<1>2. r <= q /\ q <= r
  BY <1>1 DEF BusyInv, StoredInv
<1> QED BY <1>2

CheckedInv == TeammateInv /\ BusyInv /\ StoredInv /\ SessionsApart

LEMMA CheckedInit == TeammateInit => CheckedInv
<1>1. TeammateInit => StoredInv /\ SessionsApart
  BY IdleIsASegment DEF TeammateInit, Init, StoredInv, Live, SessionsApart, Mentions, Entered,
                        Held, Wired
<1> QED BY <1>1, ServerInit, BusyInit DEF CheckedInv

LEMMA CheckedStep ==
  OneServer /\ NoDismissal /\ CheckedInv /\ [TeammateNext]_vars => CheckedInv'
BY ServerStep, BusyStep, StoredStep, SessionsStayApart DEF CheckedInv

(***************************************************************************)
(* No two live Claude runs are on one session, or about to attach to one   *)
(* (run_teammate's promise, teammate_server.py:89-91), whatever is reset,  *)
(* cancelled or lost in a crash.                                           *)
(***************************************************************************)
THEOREM OneServerNoSharedSession ==
  ASSUME OneServer, NoDismissal
  PROVE  TeammateSpec => []NoSharedSession
<1>1. CheckedInv => NoSharedSession
  <2> SUFFICES ASSUME CheckedInv, NEW r \in Run, NEW q \in Run, Live(r), Live(q),
                      SessionOf(r) = SessionOf(q)
               PROVE  r = q
    BY DEF NoSharedSession
  <2>1. ASSUME NEW p \in Run, Live(p)
        PROVE  /\ tasks[p] # NoTask /\ tasks[p].key \in Key
               /\ SessionOf(p) \in Session /\ Wired(tasks[p].key, SessionOf(p))
    <3>1. tasks[p] # NoTask /\ tasks[p] \in Task /\ tasks[p].expect \in Session
      BY <2>1, TaskIsMinted DEF Live, CheckedInv
    <3>2. SessionOf(p) \in Session
      BY <3>1 DEF SessionOf, Task
    <3> QED BY <3>1, <3>2 DEF SessionOf, Wired, Task
  <2>2. tasks[r].key = tasks[q].key
    BY <2>1 DEF CheckedInv, SessionsApart, Mentions
  <2> QED BY <2>2, OneLiveRun DEF CheckedInv
<1> QED BY <1>1, CheckedInit, CheckedStep, PTL DEF TeammateSpec

(***************************************************************************)
(* A live run's session is not reset out from under it (live_run,          *)
(* context.py:201-203): while it is live, the entry of its teammate moves  *)
(* only to the session the run itself is on.                               *)
(***************************************************************************)
THEOREM OneServerNoResetUnderALiveRun ==
  ASSUME OneServer, NoDismissal
  PROVE  TeammateSpec => NoResetUnderALiveRun
<1>1. ASSUME CheckedInv, [TeammateNext]_vars, NEW r \in Run, tasks[r] # NoTask, Live(r),
             NEW k \in Key, k = tasks[r].key,
             agents[k] # NoEntry, agents'[k] # NoEntry, agents'[k].session # agents[k].session
      PROVE  agents'[k].session = tasks[r].session
  <2>0. /\ TypeOK /\ r \in RunsOf(k) /\ loop \in [Server -> Segment]
    BY <1>1, StoredTask DEF CheckedInv, StoredInv, TeammateInv, TablesInv, ServingInv, ServingTypeOK
  <2>1. CASE \E s \in Server : Ensure(s) \/ EnsureCrew(s)
    <3>1. PICK s \in Server : Ensure(s) \/ EnsureCrew(s)
      BY <2>1
    <3>2. PICK j \in Key, reset \in BOOLEAN : /\ Save(j, NoCwd, reset)
                                              /\ reset => loop[s].at = "ensure" /\ j = loop[s].key
      BY <2>0, <3>1, CrewAssumption DEF Ensure, EnsureCrew, Segment
    <3>3. j = k /\ reset
      BY <1>1, <2>0, <3>2 DEF Save, SaveOver, TypeOK
    <3>4. ~Live(r)
      BY <2>0, <3>2, <3>3, <1>1 DEF CheckedInv, BusyInv
    <3> QED BY <3>4, <1>1
  <2>2. CASE \E s \in Server : Repin(s) \/ Settle(s)
    <3>1. PICK s \in Server : Repin(s) \/ Settle(s)
      BY <2>2
    <3>2. PICK q \in Run, t \in Task : q = loop[s].run /\ t = tasks[q] /\ Live(q)
      BY <1>1, <3>1, CodexCapturesAndSegments DEF CheckedInv, Repin, Settle
    <3>3. Reconcile(t.key, t.session)
      <4>1. UNCHANGED agents \/ Reconcile(t.key, t.session)
        BY <3>1, <3>2 DEF Repin, Settle, Fail, Finish, FinishRun, tables
      <4> QED BY <4>1, <1>1
    <3>4. t.key = k /\ agents'[k].session = t.session
      BY <1>1, <2>0, <3>3 DEF Reconcile, TypeOK
    <3>5. q = r
      BY <1>1, <3>2, <3>4, OneLiveRun DEF CheckedInv
    <3> QED BY <3>2, <3>4, <3>5
  <2>3. CASE \E j \in Key : Dismiss(j)
    <3>1. PICK j \in Key : agents' = [agents EXCEPT ![j] = NoEntry]
      BY <2>3 DEF Dismiss, Delete
    <3> QED BY <1>1, <2>0, <3>1 DEF TypeOK
  <2>4. CASE UNCHANGED agents
    BY <1>1, <2>4
  <2> QED BY <1>1, <2>1, <2>2, <2>3, <2>4, EntriesRest
<1>2. CheckedInv /\ [TeammateNext]_vars
        => [\A r \in Run :
              LET k == tasks[r].key
              IN  (/\ tasks[r] # NoTask /\ Live(r) /\ Stored(r)
                   /\ tasks[r].provider = "claude"
                   /\ agents[k] # NoEntry /\ agents'[k] # NoEntry
                   /\ agents'[k].session # agents[k].session)
                     => agents'[k].session = tasks[r].session]_vars
  <2>1. \A r \in Run : CheckedInv /\ tasks[r] # NoTask => tasks[r].key \in Key
    BY TaskIsMinted DEF CheckedInv, Task
  <2> QED BY <1>1, <2>1
<1> QED BY <1>2, CheckedInit, CheckedStep, PTL DEF TeammateSpec, NoResetUnderALiveRun

-----------------------------------------------------------------------------
(***************************************************************************)
(* Without drift: the SDK resumes every session it is asked to.  (When it  *)
(* answers with one of its own, the repin of a run whose row was dismissed *)
(* meanwhile moves the entry of a new teammate back to the conversation    *)
(* that was dismissed: the run dismiss_then_repin.)                        *)
(***************************************************************************)
NoDrift == Limit["drift"] = 0

\* A segment repins nothing, and the session of a run that was dismissed
\* while it was being wired has left the entry.
SegmentForgets(s) ==
    /\ loop[s].at # "repin"
    /\ loop[s].at = "wire" /\ ~Stored(loop[s].run) => ~Entered(loop[s].key, loop[s].session)

\* A run is on the session it was wired to, which has left the entry of its
\* teammate once the run was dismissed.
TaskForgets(r) ==
    tasks[r] # NoTask /\ tasks[r].provider = "claude" =>
        /\ tasks[r].session \in {0, tasks[r].expect}
        /\ ~Stored(r) => ~Entered(tasks[r].key, tasks[r].expect)

ForgottenInv == /\ \A s \in Server : SegmentForgets(s)
                /\ \A r \in Run : TaskForgets(r)

\* What a step does that gives no entry a session it has left, and takes no
\* row whose entry stays.
NothingReturns ==
    /\ \A k \in Key, x \in Session : Entered(k, x)' => Entered(k, x) \/ x > lastSession
    /\ \A r \in Run : Stored(r) /\ ~Stored(r)' => agents'[runs[r].key] = NoEntry

LEMMA RowsGoWithEntries ==
  ASSUME TypeOK, [Next]_tables, NEW r \in Run, Stored(r), ~Stored(r)'
  PROVE  agents'[runs[r].key] = NoEntry
<1>1. CASE \E k \in Key : Delete(k)
  BY <1>1 DEF Delete, Stored, RunsOf, TypeOK
<1>2. CASE \E q \in Run, outcome \in Outcome : FinishRun(q, outcome)
  <2>1. PICK q \in Run, outcome \in Outcome : FinishRun(q, outcome)
    BY <1>2
  <2>2. q = r
    BY <2>1, FinishEffect DEF Stored
  <2>3. PICK t \in RunRow : t = runs[r]
    BY DEF Stored, TypeOK
  <2>4. PICK u : u = [t EXCEPT !.state = outcome]
    OBVIOUS
  <2>5. u \in RunRow /\ runs' = [runs EXCEPT ![r] = u]
    BY <2>1, <2>2, <2>3, <2>4 DEF FinishRun, RunRow
  <2> QED BY <2>5, RowAssumption DEF Stored, TypeOK
<1>3. CASE \E k \in Key, s \in 1 .. lastSession : BeginRun(k, s)
  <2>1. PICK k \in Key, o \in {"resume", "fresh"}, s \in 0 .. MaxSession : OpenRun(k, o, s)
    BY <1>3 DEF BeginRun, TypeOK
  <2>2. PICK row \in RunRow : row = [key |-> k, state |-> "open", options |-> o, session |-> s]
    BY DEF RunRow
  <2>3. runs' = [runs EXCEPT ![lastRun + 1] = row]
    BY <2>1, <2>2 DEF OpenRun
  <2> QED BY <2>3, RowAssumption DEF Stored, TypeOK
<1>4. CASE UNCHANGED runs
  BY <1>4 DEF Stored
<1>5. CASE \E q \in 1 .. lastRun, outcome \in Outcome : FinishRun(q, outcome)
  BY <1>2, <1>5 DEF TypeOK
<1>6. CASE \/ ObserveSession
           \/ \E k \in Key, cwd \in Cwd \cup {NoCwd}, reset \in BOOLEAN : Save(k, cwd, reset)
           \/ \E k \in Key, s \in 1 .. lastSession : Reconcile(k, s)
           \/ \E q \in 1 .. lastRun, s \in 1 .. lastSession :
                 RecordAgentRun(q, s) \/ \E k \in Key : RecordFinding(k, q, s)
           \/ UNCHANGED tables
  BY <1>4, <1>6 DEF ObserveSession, Save, SaveOver, Reconcile, RecordAgentRun, RecordFinding, tables
<1>7. CASE \E k \in Key : StartRun(k)
  <2>1. PICK k \in Key : OpenRun(k, "plain", 0)
    BY <1>7 DEF StartRun
  <2>2. [key |-> k, state |-> "open", options |-> "plain", session |-> 0] \in RunRow
    BY DEF RunRow
  <2>3. PICK row \in RunRow : runs' = [runs EXCEPT ![lastRun + 1] = row]
    BY <2>1, <2>2 DEF OpenRun
  <2> QED BY <2>3, RowAssumption DEF Stored, TypeOK
<1> QED BY <1>1, <1>3, <1>5, <1>6, <1>7 DEF Next

\* No action but a repin gives an entry a session that was minted before.
LEMMA OnlyRepinsReturn ==
  ASSUME TeammateInv, [TeammateNext]_vars, \A s \in Server : ~Repin(s)
  PROVE  NothingReturns
<1>0. TypeOK /\ [Next]_tables /\ loop \in [Server -> Segment]
  BY ServerUsesPoolMethods DEF TeammateInv, TablesInv, ServingInv, ServingTypeOK
<1>1. CASE \E s \in Server : Ensure(s) \/ EnsureCrew(s)
  <2>1. PICK s \in Server : Ensure(s) \/ EnsureCrew(s)
    BY <1>1
  <2>2. PICK j \in Key, reset \in BOOLEAN : Save(j, NoCwd, reset)
    BY <1>0, <2>1, CrewAssumption DEF Ensure, EnsureCrew, Segment
  <2>3. \A k \in Key, x \in Session : Entered(k, x)' => Entered(k, x) \/ x > lastSession
    BY <1>0, <2>2, EntriesMove
  <2> QED BY <2>3, <1>0, RowsGoWithEntries DEF NothingReturns
<1>2. CASE \E j \in Key : Dismiss(j)
  <2>1. PICK j \in Key : agents' = [agents EXCEPT ![j] = NoEntry]
    BY <1>2 DEF Dismiss, Delete
  <2>2. \A k \in Key, x \in Session : Entered(k, x)' => Entered(k, x)
    BY <1>0, <2>1 DEF Entered, TypeOK
  <2> QED BY <2>2, <1>0, RowsGoWithEntries DEF NothingReturns
<1>3. CASE UNCHANGED agents
  <2>1. \A k \in Key, x \in Session : Entered(k, x)' => Entered(k, x)
    BY <1>3 DEF Entered
  <2> QED BY <2>1, <1>0, RowsGoWithEntries DEF NothingReturns
<1> QED BY <1>1, <1>2, <1>3, EntriesRest

\* What was forgotten stays so, in a task that stays on its session.
LEMMA TaskStillForgets ==
  ASSUME TeammateInv, NothingReturns, NEW r \in Run, tasks[r] # NoTask, TaskForgets(r),
         tasks'[r].key = tasks[r].key, tasks'[r].provider = tasks[r].provider,
         tasks'[r].expect = tasks[r].expect,
         tasks[r].provider = "claude" => tasks'[r].session \in {tasks[r].session, tasks[r].expect}
  PROVE  TaskForgets(r)'
<1> SUFFICES ASSUME tasks[r].provider = "claude"
             PROVE  /\ tasks'[r].session \in {0, tasks'[r].expect}
                    /\ ~Stored(r)' => ~Entered(tasks[r].key, tasks[r].expect)'
  BY DEF TaskForgets
<1>1. PICK k \in Key, x \in Session : k = tasks[r].key /\ x = tasks[r].expect
  BY TaskIsMinted DEF Task
<1>2. x <= lastSession /\ (Stored(r) => runs[r].key = k)
  BY <1>1, TaskIsMinted DEF TaskOK, Stored
<1>3. ASSUME ~Stored(r)', Entered(k, x)' PROVE FALSE
  <2>1. ~Stored(r)
    BY <1>2, <1>3 DEF NothingReturns, Entered
  <2>2. Entered(k, x)
    BY <1>2, <1>3 DEF NothingReturns, TeammateInv, TablesInv, TypeOK
  <2> QED BY <1>1, <2>1, <2>2 DEF TaskForgets
<1>4. tasks'[r].session \in {0, tasks'[r].expect}
  BY DEF TaskForgets
<1>5. Entered(tasks[r].key, tasks[r].expect)' => Entered(k, x)'
  BY <1>1 DEF Entered
<1> QED BY <1>3, <1>4, <1>5

LEMMA SegmentStillForgets ==
  ASSUME TeammateInv, NothingReturns, NEW s \in Server, SegmentForgets(s),
         loop'[s] = loop[s]
  PROVE  SegmentForgets(s)'
<1> SUFFICES ASSUME loop[s].at = "wire", ~Stored(loop[s].run)'
             PROVE  ~Entered(loop[s].key, loop[s].session)'
  BY DEF SegmentForgets
<1>1. PICK k \in Key, x \in Session, r \in Run :
          k = loop[s].key /\ x = loop[s].session /\ r = loop[s].run
  BY DEF TeammateInv, TablesInv, TypeOK, ServingInv, ServingTypeOK, SegmentOK, Segment
<1>2. x <= lastSession /\ (Stored(r) => runs[r].key = k)
  BY <1>1 DEF TeammateInv, ServingInv, SegmentOK, Stored
<1>3. ~Stored(r)'
  BY <1>1 DEF Stored
<1>4. ASSUME Entered(k, x)' PROVE FALSE
  <2>1. ~Stored(r)
    BY <1>2, <1>3, <1>4 DEF NothingReturns, Entered
  <2>2. Entered(k, x)
    BY <1>2, <1>4 DEF NothingReturns, TeammateInv, TablesInv, TypeOK
  <2> QED BY <1>1, <2>1, <2>2 DEF SegmentForgets
<1>5. Entered(loop[s].key, loop[s].session)' => Entered(k, x)'
  BY <1>1 DEF Entered
<1> QED BY <1>4, <1>5

LEMMA ForgottenStep ==
  NoDrift /\ TeammateInv /\ ForgottenInv /\ [TeammateNext]_vars => ForgottenInv'
<1> SUFFICES ASSUME NoDrift, TeammateInv, ForgottenInv, [TeammateNext]_vars
             PROVE  ForgottenInv'
  OBVIOUS
<1>0. /\ ServingTypeOK /\ loop \in [Server -> Segment] /\ NothingReturns
      /\ \A s \in Server : ~Repin(s)
  <2>1. \A s \in Server : ~Repin(s)
    BY DEF ForgottenInv, SegmentForgets, Repin
  <2> QED BY <2>1, OnlyRepinsReturn DEF TeammateInv, ServingInv, ServingTypeOK
<1>a. ASSUME NEW s \in Server,
             loop'[s] = loop[s] \/ loop'[s].at \in {"idle", "ensure", "crew", "begin", "settle"}
      PROVE  SegmentForgets(s)'
  BY <1>0, <1>a, SegmentStillForgets DEF ForgottenInv, SegmentForgets
<1>b. ASSUME NEW r \in Run, tasks'[r] = tasks[r] \/ tasks'[r] = NoTask
      PROVE  TaskForgets(r)'
  BY <1>0, <1>b, TaskStillForgets DEF ForgottenInv, TaskForgets
<1>c. ASSUME NEW r \in Run, tasks[r] # NoTask, NEW state \in TaskState,
             NEW session \in 0 .. MaxSession, Moved(r, state, session),
             tasks[r].provider = "claude" => session \in {tasks[r].session, tasks[r].expect}
      PROVE  \A q \in Run : TaskForgets(q)'
  <2>1. /\ \A q \in Run \ {r} : tasks'[q] = tasks[q]
        /\ tasks'[r].session = session /\ tasks'[r].key = tasks[r].key
        /\ tasks'[r].provider = tasks[r].provider /\ tasks'[r].expect = tasks[r].expect
    BY <1>0, <1>c, TaskUpdates
  <2>2. TaskForgets(r)'
    BY <2>1, <1>0, <1>c, TaskStillForgets DEF ForgottenInv
  <2> QED BY <2>1, <2>2, <1>b
<1>d. ASSUME NEW r \in Run, Live(r), NEW state \in TaskState, Becomes(r, state)
      PROVE  \A q \in Run : TaskForgets(q)'
  <2>1. PICK x \in 0 .. MaxSession : x = tasks[r].session
    BY <1>d, TaskIsMinted DEF Live, Task
  <2> QED BY <2>1, <1>c, <1>d DEF Moved, Becomes, Live
<1>1. CASE \E s \in Server, k \in Key, p \in Provider, reset, wait \in BOOLEAN :
               Call(s, k, p, reset, wait)
  <2>1. PICK s \in Server, k \in Key, p \in Provider, reset \in BOOLEAN, wait \in BOOLEAN :
             Call(s, k, p, reset, wait)
    BY <1>1
  <2>2. /\ UNCHANGED tasks
        /\ loop' = [loop EXCEPT ![s] = [Idle EXCEPT !.at = "ensure", !.key = k, !.provider = p,
                                            !.reset = reset, !.wait = wait, !.left = Crew[k]]]
    BY <2>1 DEF Call, OpenSegment, Go
  <2>3. \A u \in Server : loop'[u] = loop[u] \/ loop'[u].at = "ensure"
    BY <2>2, <1>0, IdleIsASegment DEF Segment
  <2> QED BY <2>2, <2>3, <1>a, <1>b DEF ForgottenInv
<1>2. CASE \E s \in Server : Ensure(s) \/ EnsureCrew(s) \/ Prepare(s) \/ WireFails(s)
  BY <1>2, <1>a, <1>b, SegmentsAreQuiet DEF ForgottenInv
<1>3. CASE \E s \in Server : Begin(s)
  <2>1. PICK s \in Server : Begin(s)
    BY <1>3
  <2>2. /\ UNCHANGED tasks /\ \A u \in Server \ {s} : loop'[u] = loop[u]
        /\ loop'[s].at = "wire" /\ Stored(loop[s].run)'
    BY <2>1, BeginOpens DEF Stored
  <2>3. SegmentForgets(s)'
    BY <2>2 DEF SegmentForgets, Stored
  <2> QED BY <2>2, <2>3, <1>a, <1>b DEF ForgottenInv
<1>4. CASE \E s \in Server : Spawn(s)
  <2>1. PICK s \in Server : Spawn(s)
    BY <1>4
  <2>2. PICK r \in Run, k \in Key, x \in Session :
             /\ r = loop[s].run /\ k = loop[s].key /\ x = loop[s].session
             /\ loop[s].at = "wire" /\ loop'[s].at = "idle" /\ UNCHANGED <<agents, runs>>
             /\ tasks'[r].key = k /\ tasks'[r].expect = x /\ tasks'[r].session = 0
             /\ \A u \in Server \ {s} : loop'[u] = loop[u]
             /\ \A q \in Run \ {r} : tasks'[q] = tasks[q]
    <3>1. loop[s].at = "wire" /\ loop[s].run \in Run
      BY <2>1, SpawnStarts
    <3>2. loop[s].key \in Key /\ loop[s].session \in Session
      BY <3>1 DEF TeammateInv, TablesInv, TypeOK, ServingInv, ServingTypeOK, SegmentOK, Segment
    <3> QED BY <2>1, <3>1, <3>2, SpawnStarts
  <2>3. ~Stored(r) => ~Entered(k, x)
    BY <2>2 DEF ForgottenInv, SegmentForgets
  <2>4. TaskForgets(r)'
    BY <2>2, <2>3 DEF TaskForgets, Stored, Entered
  <2> QED BY <2>2, <2>4, <1>a, <1>b DEF ForgottenInv
<1>5. CASE \E s \in Server : Settle(s)
  <2>1. PICK s \in Server : Settle(s)
    BY <1>5
  <2>2. PICK r \in Run : r = loop[s].run /\ Live(r) /\ Finish(r) /\ loop' = [loop EXCEPT ![s] = Idle]
    BY <2>1, CodexCapturesAndSegments DEF Settle, Yield, Go
  <2>3. \E state \in TaskState : Becomes(r, state)
    BY <2>2 DEF Finish, TaskState
  <2>4. \A u \in Server : loop'[u] = loop[u] \/ loop'[u].at = "idle"
    BY <2>2, <1>0, IdleIsASegment
  <2> QED BY <2>2, <2>3, <2>4, <1>a, <1>d DEF ForgottenInv
<1>6. CASE \E s \in Server : Crash(s)
  <2>1. PICK s \in Server : Crash(s)
    BY <1>6
  <2>2. /\ loop' = [loop EXCEPT ![s] = Idle]
        /\ tasks' = [q \in Run |-> IF Live(q) /\ tasks[q].server = s
                                   THEN [tasks[q] EXCEPT !.state = "lost"] ELSE tasks[q]]
    BY <2>1 DEF Crash, Yield, Go
  <2>3. ASSUME NEW r \in Run PROVE TaskForgets(r)'
    <3>1. CASE Live(r) /\ tasks[r].server = s
      <4>1. PICK t \in Task : t = tasks[r] /\ tasks[r] # NoTask
        BY <3>1, TaskIsMinted DEF Live
      <4>2. PICK u : u = [t EXCEPT !.state = "lost"]
        OBVIOUS
      <4>3. u.key = t.key /\ u.provider = t.provider /\ u.expect = t.expect /\ u.session = t.session
        BY <4>2 DEF Task
      <4>4. tasks'[r] = u
        BY <2>2, <3>1, <4>1, <4>2
      <4> QED BY <4>1, <4>3, <4>4, <1>0, TaskStillForgets DEF ForgottenInv
    <3>2. CASE ~(Live(r) /\ tasks[r].server = s)
      BY <2>2, <3>2, <1>b
    <3> QED BY <3>1, <3>2
  <2>4. \A u \in Server : loop'[u] = loop[u] \/ loop'[u].at = "idle"
    BY <2>2, <1>0, IdleIsASegment
  <2> QED BY <2>3, <2>4, <1>a DEF ForgottenInv
<1>7. CASE \E r \in Run : Attach(r)
  <2>1. PICK r \in Run : Attach(r)
    BY <1>7
  <2>2. spent["drift"] \in Nat /\ UNCHANGED loop /\ Live(r)
    BY <2>1, <1>0 DEF Attach, ServingTypeOK, Event
  <2>3. tasks' = [tasks EXCEPT ![r].state = "attached", ![r].session = tasks[r].expect]
    BY <2>1, <2>2 DEF Attach, Spend, NoDrift
  <2>4. PICK x \in 0 .. MaxSession : x = tasks[r].expect
    BY <2>2, TaskIsMinted DEF Live, Task
  <2>5. Moved(r, "attached", x) /\ tasks[r] # NoTask
    BY <2>2, <2>3, <2>4 DEF Moved, Live
  <2> QED BY <2>2, <2>4, <2>5, <1>a, <1>c DEF ForgottenInv, TaskState
<1>8. CASE \E r \in Run : CodexStarts(r)
  <2>1. PICK r \in Run : CodexStarts(r)
    BY <1>8
  <2>2. PICK t \in Task : t = tasks[r] /\ tasks[r] # NoTask /\ t.provider = "codex"
    BY <2>1, TaskIsMinted DEF CodexStarts, Turn, Live
  <2>3. PICK x \in 0 .. MaxSession : x = agents[t.key].session
    BY <2>1, <2>2 DEF CodexStarts, TeammateInv, TablesInv, TypeOK, Task, Entry
  <2>4. Moved(r, "attached", x) /\ UNCHANGED loop
    BY <2>1, <2>2, <2>3 DEF CodexStarts, Moved
  <2> QED BY <2>2, <2>4, <1>a, <1>c DEF ForgottenInv, TaskState
<1>9. CASE \E r \in Run : FirstRow(r)
  <2>1. PICK r \in Run, t \in Task : /\ FirstRow(r) /\ t = tasks[r] /\ tasks[r] # NoTask
                                     /\ Live(r) /\ Becomes(r, "streaming")
    BY <1>9, TaskIsMinted DEF FirstRow, Turn, Live
  <2>2. t.provider = "codex" \/ t.session = t.expect
    BY <2>1, TaskIsMinted DEF FirstRow, ForgottenInv, TaskForgets, Task, Provider
  <2>3. PICK to \in {"settle", "idle"} :
             loop' = [loop EXCEPT ![t.server] = IF to = "idle" THEN Idle
                                                ELSE [Idle EXCEPT !.at = to, !.run = r]]
    <3>1. CASE t.provider = "codex"
      BY <2>1, <3>1 DEF FirstRow, Go
    <3>2. CASE t.provider # "codex" /\ t.session = t.expect
      BY <2>1, <3>2 DEF FirstRow, Go
    <3> QED BY <2>2, <3>1, <3>2
  <2>4. \A u \in Server : loop'[u] = loop[u] \/ loop'[u].at \in {"settle", "idle"}
    BY <2>3, <1>0, IdleIsASegment DEF Segment
  <2> QED BY <2>1, <2>4, <1>a, <1>d DEF ForgottenInv, TaskState
<1>10. CASE \E r \in Run : StreamEnds(r) \/ StreamRaises(r) \/ Cancel(r)
  <2>1. PICK r \in Run, state \in TaskState : Live(r) /\ Becomes(r, state) /\ UNCHANGED loop
    BY <1>10 DEF StreamEnds, StreamRaises, Cancel, Finish, Fail, Turn, TaskState
  <2> QED BY <2>1, <1>a, <1>d DEF ForgottenInv
<1>11. CASE \/ \E k \in Key : Dismiss(k)
            \/ \E r \in Run : WriteFinding(r) \/ Deregister(r)
            \/ \E s \in Server, k \in Key : Join(s, k)
            \/ UNCHANGED vars
  BY <1>11, <1>a, <1>b, TheRestIsQuiet DEF ForgottenInv
<1> QED
  BY <1>0, <1>1, <1>2, <1>3, <1>4, <1>5, <1>6, <1>7, <1>8, <1>9, <1>10, <1>11
     DEF TeammateNext, SegmentStep, StreamStep

LEMMA ForgottenInit == TeammateInit => ForgottenInv
BY IdleIsASegment DEF TeammateInit, ForgottenInv, SegmentForgets, TaskForgets

(***************************************************************************)
(* A dismissed run's conversation never becomes the standing one again     *)
(* (dismiss_teammate, teammate_server.py:167-168), for any number of       *)
(* servers on one pool.db, wherever in a run's life the dismissal comes,   *)
(* as long as the SDK resumes what it is asked to.                         *)
(***************************************************************************)
THEOREM DismissedStaysForgottenWithoutDrift ==
  ASSUME NoDrift
  PROVE  TeammateSpec => []DismissedStaysForgotten
<1>1. TeammateInv /\ ForgottenInv => DismissedStaysForgotten
  <2> SUFFICES ASSUME TeammateInv, ForgottenInv, NEW r \in Run, tasks[r] # NoTask,
                      tasks[r].provider = "claude", ~Stored(r), NEW k \in Key,
                      k = tasks[r].key, agents[k] # NoEntry
               PROVE  agents[k].session \notin {tasks[r].session, tasks[r].expect}
    BY TaskIsMinted DEF DismissedStaysForgotten, Task
  <2>1. agents[k].session # 0
    BY DEF TeammateInv, TablesInv, TypeOK, Entry
  <2>2. tasks[r].session \in {0, tasks[r].expect} /\ ~Entered(k, tasks[r].expect)
    BY DEF ForgottenInv, TaskForgets
  <2> QED BY <2>1, <2>2 DEF Entered
<1>2. TeammateInv /\ ForgottenInv /\ [TeammateNext]_vars => (TeammateInv /\ ForgottenInv)'
  BY ServerStep, ForgottenStep
<1> QED BY <1>1, <1>2, ServerInit, ForgottenInit, PTL DEF TeammateSpec

(***************************************************************************)
(* One server, without drift: what a dismissal may not break.              *)
(***************************************************************************)

\* No live Claude run of a teammate is on the session another one was wired
\* to, or that a segment has read to wire the next one to.
AloneInv ==
    \A r \in Run : Live(r) /\ tasks[r].provider = "claude" =>
        /\ \A q \in Run : (/\ Live(q) /\ tasks[q].provider = "claude"
                           /\ tasks[q].key = tasks[r].key
                           /\ tasks[q].expect = tasks[r].expect) => q = r
        /\ \A s \in Server : (/\ loop[s].at \in {"begin", "wire"}
                              /\ loop[s].key = tasks[r].key)
                                 => loop[s].session # tasks[r].expect

LEMMA NobodyJoins ==
  ASSUME AloneInv, \A r \in Run : Live(r)' => StaysLive(r),
         \A s \in Server : \/ loop'[s] = loop[s] \/ loop'[s].at \notin {"begin", "wire"}
                           \/ /\ loop[s].at = "begin" /\ loop'[s].key = loop[s].key
                              /\ loop'[s].session = loop[s].session
  PROVE  AloneInv'
BY DEF AloneInv, StaysLive

LEMMA PrepareReadsAnother ==
  ASSUME OneServer, TeammateInv, BusyInv, ForgottenInv, AloneInv, NEW s \in Server, Prepare(s)
  PROVE  AloneInv'
<1>1. PICK c \in Segment : c = loop[s] /\ c.key \in Key /\ loop \in [Server -> Segment]
  BY DEF TeammateInv, ServingInv, ServingTypeOK, Segment
<1>2. UNCHANGED tasks /\ c.at = "crew"
  BY <1>1 DEF Prepare
<1>3. \A r \in Run : (Live(r)' <=> Live(r)) /\ (Live(r)' => StaysLive(r))
  BY <1>2 DEF Live, StaysLive
<1>4. CASE loop' = [loop EXCEPT ![s] = Idle]
  BY <1>1, <1>3, <1>4, IdleIsASegment, NobodyJoins
<1>5. CASE /\ agents[c.key] # NoEntry
           /\ loop' = [loop EXCEPT ![s] = [c EXCEPT !.at = "begin", !.session = agents[c.key].session]]
  <2>1. PICK x \in Session : x = agents[c.key].session
    BY <1>1, <1>5 DEF TeammateInv, TablesInv, TypeOK, Entry
  <2>2. /\ loop'[s].key = c.key /\ loop'[s].session = x
        /\ \A u \in Server : u = s
    BY <1>1, <1>5, <2>1 DEF Segment, OneServer
  <2>3. ASSUME NEW r \in Run, Live(r), tasks[r].provider = "claude", tasks[r].key = c.key
        PROVE  tasks[r].expect # x
    <3>1. ~Stored(r)
      <4>1. Stored(r) => r \in RunsOf(c.key)
        BY <2>3, StoredTask DEF Live
      <4>2. \A q \in RunsOf(c.key) : ~Live(q)
        BY <1>1, <1>2 DEF BusyInv
      <4> QED BY <2>3, <4>1, <4>2
    <3>2. ~Entered(c.key, tasks[r].expect)
      BY <2>3, <3>1 DEF ForgottenInv, TaskForgets, Live
    <3> QED BY <1>5, <2>1, <3>2 DEF Entered
  <2> QED BY <1>2, <1>3, <2>2, <2>3 DEF AloneInv
<1> QED BY <1>1, <1>4, <1>5 DEF Prepare, Go, Yield

LEMMA SpawnStaysAlone ==
  ASSUME OneServer, TeammateInv, AloneInv, NEW s \in Server, Spawn(s)
  PROVE  AloneInv'
<1>1. PICK r \in Run : r = loop[s].run
  BY SpawnStarts
<1>2. /\ loop[s].at = "wire" /\ \A u \in Server : loop'[u].at = "idle"
      /\ tasks'[r].key = loop[s].key /\ tasks'[r].expect = loop[s].session
      /\ \A q \in Run \ {r} : tasks'[q] = tasks[q]
  BY <1>1, SpawnStarts DEF OneServer
<1>3. \A q \in Run \ {r} : Live(q)' <=> Live(q)
  BY <1>2 DEF Live
<1> QED BY <1>2, <1>3 DEF AloneInv

LEMMA AloneStep ==
  OneServer /\ TeammateInv /\ BusyInv /\ ForgottenInv /\ AloneInv /\ [TeammateNext]_vars
      => AloneInv'
<1> SUFFICES ASSUME OneServer, TeammateInv, BusyInv, ForgottenInv, AloneInv,
                    [TeammateNext]_vars
             PROVE  AloneInv'
  OBVIOUS
<1>1. CASE \E s \in Server, k \in Key, p \in Provider, reset, wait \in BOOLEAN :
               Call(s, k, p, reset, wait)
  <2>1. PICK s \in Server, k \in Key, p \in Provider, reset \in BOOLEAN, wait \in BOOLEAN :
             Call(s, k, p, reset, wait)
    BY <1>1
  <2>2. /\ UNCHANGED tasks /\ loop \in [Server -> Segment]
        /\ loop' = [loop EXCEPT ![s] = [Idle EXCEPT !.at = "ensure", !.key = k, !.provider = p,
                                            !.reset = reset, !.wait = wait, !.left = Crew[k]]]
    BY <2>1 DEF Call, OpenSegment, Go, TeammateInv, ServingInv, ServingTypeOK
  <2>3. \A u \in Server : loop'[u] = loop[u] \/ loop'[u].at = "ensure"
    BY <2>2, IdleIsASegment DEF Segment
  <2>4. \A r \in Run : Live(r)' => StaysLive(r)
    BY <2>2 DEF Live, StaysLive
  <2> QED BY <2>3, <2>4, NobodyJoins
<1>2. CASE \E s \in Server : Prepare(s)
  BY <1>2, PrepareReadsAnother
<1>3. CASE \E s \in Server : Spawn(s)
  BY <1>3, SpawnStaysAlone
<1>4. CASE \E s \in Server : Begin(s)
  <2>1. PICK s \in Server : Begin(s)
    BY <1>4
  <2>2. \A r \in Run : Live(r)' => StaysLive(r)
    BY <2>1, BeginOpens DEF Live, StaysLive
  <2> QED BY <2>1, <2>2, BeginOpens, NobodyJoins
<1>5. CASE \E s \in Server : Ensure(s) \/ EnsureCrew(s)
  <2>1. PICK s \in Server : Ensure(s) \/ EnsureCrew(s)
    BY <1>5
  <2>2. loop'[s].at = "crew"
    <3>1. PICK c \in Segment : c = loop[s] /\ loop \in [Server -> Segment]
      BY DEF TeammateInv, ServingInv, ServingTypeOK
    <3>2. \/ loop' = [loop EXCEPT ![s] = [c EXCEPT !.at = "crew"]]
          \/ c.at = "crew" /\ \E m : loop' = [loop EXCEPT ![s] = [c EXCEPT !.left = @ \ {m}]]
      BY <2>1, <3>1 DEF Ensure, EnsureCrew, Go
    <3> QED BY <3>1, <3>2 DEF Segment
  <2> QED BY <2>1, <2>2, SegmentsAreQuiet, NobodyJoins DEF Quiet
<1>6. CASE \E s \in Server : WireFails(s)
  <2>1. PICK s \in Server : WireFails(s)
    BY <1>6
  <2>2. loop'[s].at = "idle"
    BY <2>1, IdleIsASegment DEF WireFails, Yield, Go, TeammateInv, ServingInv, ServingTypeOK
  <2> QED BY <2>1, <2>2, SegmentsAreQuiet, NobodyJoins DEF Quiet
<1>7. CASE \E s \in Server : Repin(s) \/ Settle(s) \/ Crash(s)
  <2>1. PICK s \in Server : Repin(s) \/ Settle(s) \/ Crash(s)
    BY <1>7
  <2>2. \A u \in Server : loop'[u].at = "idle"
    BY <2>1, IdleIsASegment
       DEF Repin, Settle, Crash, Yield, Go, OneServer, TeammateInv, ServingInv, ServingTypeOK
  <2> QED BY <2>1, <2>2, LastCallsAreQuiet, CrashIsQuiet, NobodyJoins DEF EndsOne, Quiet
<1>8. CASE \E r \in Run : StreamStep(r) \/ Cancel(r)
  <2>1. PICK r \in Run : StreamStep(r) \/ Cancel(r)
    BY <1>8
  <2>2. Quiet
    BY <2>1, StreamsAreQuiet, EndsAreQuiet DEF StreamStep, EndsOne
  <2>3. \A u \in Server : loop'[u] = loop[u] \/ loop'[u].at \notin {"begin", "wire"}
    <3>1. CASE FirstRow(r)
      <4>1. loop \in [Server -> Segment]
        BY DEF TeammateInv, ServingInv, ServingTypeOK
      <4>2. PICK to \in {"settle", "repin", "idle"}, v \in Server :
               loop' = [loop EXCEPT ![v] = IF to = "idle" THEN Idle ELSE [Idle EXCEPT !.at = to, !.run = r]]
        BY <3>1, TaskIsMinted DEF FirstRow, Turn, Live, Task, Go
      <4> QED BY <4>1, <4>2, IdleIsASegment DEF Segment
    <3>2. CASE UNCHANGED loop
      BY <3>2
    <3> QED BY <2>1, <3>1, <3>2
            DEF StreamStep, Attach, CodexStarts, StreamEnds, StreamRaises, Cancel
  <2> QED BY <2>2, <2>3, NobodyJoins DEF Quiet
<1>9. CASE \/ \E k \in Key : Dismiss(k)
           \/ \E r \in Run : WriteFinding(r) \/ Deregister(r)
           \/ \E s \in Server, k \in Key : Join(s, k)
           \/ UNCHANGED vars
  <2>1. Quiet /\ UNCHANGED loop
    BY <1>9, TheRestIsQuiet
  <2> QED BY <2>1, NobodyJoins DEF Quiet
<1> QED BY <1>1, <1>2, <1>3, <1>4, <1>5, <1>6, <1>7, <1>8, <1>9 DEF TeammateNext, SegmentStep

CalmInv == TeammateInv /\ BusyInv /\ ForgottenInv /\ SessionsApart /\ AloneInv

LEMMA CalmInit == TeammateInit => CalmInv
<1>1. TeammateInit => SessionsApart
  BY IdleIsASegment DEF TeammateInit, Init, SessionsApart, Mentions, Entered, Held, Wired
<1>2. TeammateInit => AloneInv
  BY DEF TeammateInit, AloneInv, Live
<1> QED BY <1>1, <1>2, ServerInit, BusyInit, ForgottenInit DEF CalmInv

LEMMA CalmStep == OneServer /\ NoDrift /\ CalmInv /\ [TeammateNext]_vars => CalmInv'
BY ServerStep, BusyStep, ForgottenStep, SessionsStayApart, AloneStep DEF CalmInv

(***************************************************************************)
(* No two live Claude runs are on one session (run_teammate's promise,     *)
(* teammate_server.py:89-91), with any number of dismissals: the run whose *)
(* row a dismissal takes goes on, but no later one is wired to its         *)
(* session.                                                                *)
(***************************************************************************)
THEOREM DismissalsNoSharedSession ==
  ASSUME OneServer, NoDrift
  PROVE  TeammateSpec => []NoSharedSession
<1>1. CalmInv => NoSharedSession
  <2> SUFFICES ASSUME CalmInv, NEW r \in Run, NEW q \in Run,
                      Live(r), tasks[r].provider = "claude",
                      Live(q), tasks[q].provider = "claude", SessionOf(r) = SessionOf(q)
               PROVE  r = q
    BY DEF NoSharedSession
  <2>1. ASSUME NEW p \in Run, Live(p), tasks[p].provider = "claude"
        PROVE  /\ tasks[p].key \in Key /\ SessionOf(p) \in Session
               /\ SessionOf(p) = tasks[p].expect /\ Wired(tasks[p].key, SessionOf(p))
    <3>1. tasks[p] # NoTask /\ tasks[p] \in Task /\ tasks[p].expect \in Session
      BY <2>1, TaskIsMinted DEF Live, CalmInv
    <3>2. SessionOf(p) = tasks[p].expect
      BY <2>1, <3>1 DEF SessionOf, CalmInv, ForgottenInv, TaskForgets
    <3> QED BY <3>1, <3>2 DEF Wired, Task
  <2>2. tasks[r].key = tasks[q].key /\ tasks[r].expect = tasks[q].expect
    BY <2>1 DEF CalmInv, SessionsApart, Mentions
  <2> QED BY <2>2 DEF CalmInv, AloneInv
<1> QED BY <1>1, CalmInit, CalmStep, PTL DEF TeammateSpec

(***************************************************************************)
(* A live run's session is not reset out from under it (live_run,          *)
(* context.py:201-203), with any number of dismissals: while it is live    *)
(* and stored, the entry of its teammate does not move at all.             *)
(***************************************************************************)
THEOREM DismissalsNoResetUnderALiveRun ==
  ASSUME OneServer, NoDrift
  PROVE  TeammateSpec => NoResetUnderALiveRun
<1>1. ASSUME CalmInv, [TeammateNext]_vars, NEW r \in Run, tasks[r] # NoTask, Live(r), Stored(r),
             NEW k \in Key, k = tasks[r].key, agents[k] # NoEntry, agents'[k] # NoEntry
      PROVE  agents'[k].session = agents[k].session
  <2>0. TypeOK /\ TeammateInv /\ BusyInv /\ r \in RunsOf(k) /\ loop \in [Server -> Segment]
    BY <1>1, StoredTask DEF CalmInv, TeammateInv, TablesInv, ServingInv, ServingTypeOK
  <2>1. CASE \E s \in Server : Ensure(s) \/ EnsureCrew(s)
    <3>1. PICK s \in Server : Ensure(s) \/ EnsureCrew(s)
      BY <2>1
    <3>2. PICK j \in Key, reset \in BOOLEAN : /\ Save(j, NoCwd, reset)
                                              /\ reset => loop[s].at = "ensure" /\ j = loop[s].key
      BY <2>0, <3>1, CrewAssumption DEF Ensure, EnsureCrew, Segment
    <3>3. j = k => ~reset
      BY <1>1, <2>0, <3>2 DEF BusyInv
    <3> QED BY <1>1, <2>0, <3>2, <3>3 DEF Save, SaveOver, TypeOK
  <2>2. CASE \E s \in Server : Repin(s)
    BY <1>1, <2>2 DEF CalmInv, ForgottenInv, SegmentForgets, Repin
  <2>3. CASE \E j \in Key : Dismiss(j)
    <3>1. PICK j \in Key : agents' = [agents EXCEPT ![j] = NoEntry]
      BY <2>3 DEF Dismiss, Delete
    <3> QED BY <1>1, <2>0, <3>1 DEF TypeOK
  <2>4. CASE UNCHANGED agents
    BY <2>4
  <2> QED BY <1>1, <2>1, <2>2, <2>3, <2>4, EntriesRest
<1>2. CalmInv /\ [TeammateNext]_vars
        => [\A r \in Run :
              LET k == tasks[r].key
              IN  (/\ tasks[r] # NoTask /\ Live(r) /\ Stored(r)
                   /\ tasks[r].provider = "claude"
                   /\ agents[k] # NoEntry /\ agents'[k] # NoEntry
                   /\ agents'[k].session # agents[k].session)
                     => agents'[k].session = tasks[r].session]_vars
  <2>1. \A r \in Run : CalmInv /\ tasks[r] # NoTask => tasks[r].key \in Key
    BY TaskIsMinted DEF CalmInv, Task
  <2> QED BY <1>1, <2>1
<1> QED BY <1>2, CalmInit, CalmStep, PTL DEF TeammateSpec, NoResetUnderALiveRun
=============================================================================
