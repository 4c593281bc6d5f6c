-------------------------- MODULE RunCaptureProofs --------------------------
(***************************************************************************)
(* Theorems about the capture of one run, for any alphabets of messages    *)
(* and lines, any calls, and streams of any length.                        *)
(***************************************************************************)
EXTENDS RunCapture, FiniteSetTheorems, WellFoundedInduction, TLAPS

USE SessionAssumption, BoundAssumption, ToolAssumption DEF Session

-----------------------------------------------------------------------------
(* The inductive invariant.                                                *)

\* What run_with_capture remembers of the stream.
HeardInv ==
    /\ open_dispatches = Dispatched
    /\ recorded_main = {x \in Session : \E i \in DOMAIN sent : FromMain(i) /\ sent[i].session = x}
    /\ main_session_id # 0 => main_session_id \in recorded_main
    /\ main_session_id = 0 => recorded_main = {}
    /\ main_recorded <=> recorded_main # {}
    /\ seen_tasks = {t \in TaskId : \E i \in DOMAIN sent : Starts(i, t)}

\* The rows it has written are one for each session and task it remembers.
RowsInv ==
    /\ \A i \in DOMAIN rows : IF rows[i].task = NoTask THEN rows[i].session \in recorded_main
                                                       ELSE rows[i].task \in seen_tasks
    /\ \A x \in recorded_main :
         \E i \in DOMAIN rows : rows[i].task = NoTask /\ rows[i].session = x
    /\ \A t \in seen_tasks : \E i \in DOMAIN rows : rows[i].task = t
    /\ \A i, j \in DOMAIN rows :
         (/\ rows[i].task = rows[j].task
          /\ rows[i].task = NoTask => rows[i].session = rows[j].session) => i = j
    /\ \A i \in DOMAIN rows : rows[i].task # NoTask =>
         \E j \in 1 .. i - 1 : rows[j].task = NoTask /\ rows[j].session = rows[i].session

\* The gate a codex run has passed.
GateInv ==
    CodexRuns =>
        IF consumer = "tool" THEN ToolAdmits(request, policy) /\ timeout = request.timeout
        ELSE ProviderAdmits(request, policy) /\ timeout = ProviderTimeout(request, policy)

\* A codex run has no row before it is over.
EarnedInv ==
    consumer # "claude" =>
        /\ at \in {"start", "streaming"} => rows = << >> /\ exited = << >>
        /\ consumer = "provider" /\ at = "streaming" =>
              expected # 0 /\ (entry # 0 => expected = entry)
        /\ Len(rows) <= 1
        /\ \A i \in DOMAIN rows : rows[i].task = NoTask
        /\ CodexRowIsEarned

CaptureInv ==
    /\ CaptureTypeOK
    /\ consumer # "claude" => sent = << >>
    /\ HeardInv
    /\ consumer = "claude" /\ entry # 0 => RowsInv
    /\ EntryFollowsTheFirstMain
    /\ GateInv
    /\ EarnedInv

-----------------------------------------------------------------------------
\* What appending does.
LEMMA AppendFacts ==
  ASSUME NEW S, NEW q \in Seq(S), NEW e \in S, NEW p, p = Append(q, e)
  PROVE  /\ p \in Seq(S) /\ Len(q) \in Nat
         /\ DOMAIN q = 1 .. Len(q) /\ DOMAIN p = 1 .. Len(q) + 1 /\ Len(p) = Len(q) + 1
         /\ \A i \in DOMAIN q : p[i] = q[i] /\ i < Len(q) + 1
         /\ p[Len(q) + 1] = e
         /\ DOMAIN p = DOMAIN q \cup {Len(q) + 1}
OBVIOUS

Speaks(message) == message.session # 0 /\ message.parent = NoTool

\* A set of positions has a first one.
LEMMA LeastOf ==
  ASSUME NEW S \in SUBSET Nat, S # {}
  PROVE  \E f \in S : \A j \in S : f <= j
<1> DEFINE R == OpToRel(<, Nat)
<1>1. \A x, y \in Nat : x < y => <<x, y>> \in R
  BY DEF OpToRel
<1>2. IsWellFoundedOn(R, Nat)
  BY NatLessThanWellFounded
<1> HIDE DEF R
<1>3. PICK f \in S : \A j \in S : <<j, f>> \notin R
  BY <1>2, WFMin
<1>4. ASSUME NEW j \in S PROVE f <= j
  <2>1. ~(j < f) /\ j \in Nat /\ f \in Nat
    BY <1>1, <1>3
  <2> QED BY <2>1
<1> QED BY <1>4

\* One more message: what was heard before stays what it was.
LEMMA StreamGrows ==
  ASSUME CaptureTypeOK, NEW message \in Messages, sent' = Append(sent, message)
  PROVE  /\ Len(sent) \in Nat /\ DOMAIN sent = 1 .. Len(sent)
         /\ sent' \in Seq(Messages)
         /\ DOMAIN sent' = DOMAIN sent \cup {Len(sent) + 1}
         /\ \A i \in DOMAIN sent : /\ sent'[i] = sent[i] /\ i < Len(sent) + 1
                                   /\ FromMain(i)' <=> FromMain(i)
         /\ sent'[Len(sent) + 1] = message
<1>1. /\ sent' \in Seq(Messages) /\ Len(sent) \in Nat /\ DOMAIN sent = 1 .. Len(sent)
      /\ \A i \in DOMAIN sent : sent'[i] = sent[i] /\ i < Len(sent) + 1
      /\ sent'[Len(sent) + 1] = message
      /\ DOMAIN sent' = DOMAIN sent \cup {Len(sent) + 1}
  BY AppendFacts DEF CaptureTypeOK
<1> QED BY <1>1 DEF FromMain

\* Whether an earlier message starts a task does not change.
LEMMA StartsStay ==
  ASSUME CaptureTypeOK, NEW message \in Messages, sent' = Append(sent, message),
         NEW i \in DOMAIN sent, NEW t
  PROVE  Starts(i, t)' <=> Starts(i, t)
<1>1. /\ \A j \in DOMAIN sent : sent'[j] = sent[j] /\ (FromMain(j)' <=> FromMain(j))
      /\ DOMAIN sent = 1 .. Len(sent) /\ Len(sent) \in Nat /\ i \in DOMAIN sent'
  BY StreamGrows
<1>2. \A j \in 1 .. i - 1 : j \in DOMAIN sent
  BY <1>1
<1> QED BY <1>1, <1>2 DEF Starts, Positions

\* The session of a message that speaks for the main agent.
LEMMA SpeakersAreNamed ==
  ASSUME NEW message \in Messages
  PROVE  /\ message \in Message
         /\ Speaks(message) => message.session \in Session
BY AlphabetAssumption DEF Speaks, Message

\* What one more message adds to what the stream has established.
LEMMA StreamTells ==
  ASSUME CaptureInv, NEW message \in Messages, sent' = Append(sent, message)
  PROVE  /\ Dispatched' = Dispatched \cup (message.calls \cap Dispatch)
         /\ {x \in Session : \E i \in DOMAIN sent : FromMain(i) /\ sent[i].session = x}'
              = recorded_main \cup (IF Speaks(message) THEN {message.session} ELSE {})
         /\ {t \in TaskId : \E i \in DOMAIN sent : Starts(i, t)}'
              = seen_tasks \cup (IF /\ message.type = "task_started"
                                    /\ message.tool \in open_dispatches /\ main_session_id # 0
                                 THEN {message.task} ELSE {})
<1> DEFINE n == Len(sent) + 1
<1>0. CaptureTypeOK /\ HeardInv
  BY DEF CaptureInv
<1>1. /\ Len(sent) \in Nat /\ DOMAIN sent = 1 .. Len(sent)
      /\ DOMAIN sent' = DOMAIN sent \cup {n}
      /\ \A i \in DOMAIN sent : sent'[i] = sent[i] /\ i < n /\ (FromMain(i)' <=> FromMain(i))
      /\ sent'[n] = message
  BY <1>0, StreamGrows
<1>2. ASSUME NEW i \in DOMAIN sent, NEW t PROVE Starts(i, t)' <=> Starts(i, t)
  BY <1>0, StartsStay
<1>3. message.type = "task_started" => message.task \in TaskId
  BY BlankAssumption
<1> HIDE DEF n
<1>4. Dispatched' = Dispatched \cup (message.calls \cap Dispatch)
  BY <1>1 DEF Dispatched
<1>5. {x \in Session : \E i \in DOMAIN sent : FromMain(i) /\ sent[i].session = x}'
        = recorded_main \cup (IF Speaks(message) THEN {message.session} ELSE {})
  <2>1. ASSUME NEW k, k = n PROVE FromMain(k)' <=> Speaks(message)
    BY <2>1, <1>1 DEF FromMain, Speaks
  <2>2. Speaks(message) => message.session \in Session
    BY SpeakersAreNamed
  <2>3. ASSUME NEW x \in Session
        PROVE  (\E i \in DOMAIN sent' : FromMain(i)' /\ sent'[i].session = x)
                 <=> (x \in recorded_main \/ (Speaks(message) /\ x = message.session))
    <3>1. PICK k : k = n
      OBVIOUS
    <3>2. /\ sent'[k] = message /\ k \in DOMAIN sent' /\ (FromMain(k)' <=> Speaks(message))
          /\ DOMAIN sent' = DOMAIN sent \cup {k}
      BY <1>1, <2>1, <3>1
    <3>3. x \in recorded_main <=> \E i \in DOMAIN sent : FromMain(i) /\ sent[i].session = x
      BY <1>0 DEF HeardInv
    <3> QED BY <1>1, <3>2, <3>3
  <2>4. recorded_main \subseteq Session
    BY <1>0 DEF HeardInv
  <2> QED BY <2>2, <2>3, <2>4
<1>6. ASSUME NEW t \in TaskId, NEW k, k = n
      PROVE  Starts(k, t)' <=> (/\ message.type = "task_started" /\ message.task = t
                                /\ message.tool \in open_dispatches /\ main_session_id # 0)
  <2>1. 1 .. k - 1 = DOMAIN sent /\ k \in DOMAIN sent' /\ sent'[k] = message
    BY <1>1, <1>6 DEF n
  <2>2. (\E j \in DOMAIN sent : sent'[k].tool \in sent'[j].calls \cap Dispatch)
           <=> message.tool \in open_dispatches
    BY <1>0, <1>1, <2>1 DEF HeardInv, Dispatched
  <2>3. (\E j \in DOMAIN sent : FromMain(j)') <=> main_session_id # 0
    <3>1. (\E j \in DOMAIN sent : FromMain(j)) <=> recorded_main # {}
      <4>1. ASSUME NEW j \in DOMAIN sent, FromMain(j) PROVE sent[j].session \in recorded_main
        <5>1. sent[j] \in Messages
          BY <1>0 DEF CaptureTypeOK
        <5>2. sent[j].session \in Session
          BY <4>1, <5>1, SpeakersAreNamed DEF FromMain, Speaks
        <5> QED BY <1>0, <4>1, <5>2 DEF HeardInv
      <4> QED BY <4>1, <1>0 DEF HeardInv
    <3>2. recorded_main # {} <=> main_session_id # 0
      BY <1>0 DEF HeardInv
    <3> QED BY <1>1, <3>1, <3>2
  <2> QED BY <2>1, <2>2, <2>3, <1>6 DEF Starts, Positions
<1>7. {t \in TaskId : \E i \in DOMAIN sent : Starts(i, t)}'
        = seen_tasks \cup (IF /\ message.type = "task_started"
                              /\ message.tool \in open_dispatches /\ main_session_id # 0
                           THEN {message.task} ELSE {})
  <2>1. ASSUME NEW t \in TaskId
        PROVE  (\E i \in DOMAIN sent' : Starts(i, t)')
                 <=> (t \in seen_tasks \/ (/\ message.type = "task_started" /\ message.task = t
                                           /\ message.tool \in open_dispatches
                                           /\ main_session_id # 0))
    <3>1. PICK k : k = n
      OBVIOUS
    <3>2. Starts(k, t)' <=> (/\ message.type = "task_started" /\ message.task = t
                             /\ message.tool \in open_dispatches /\ main_session_id # 0)
      BY <1>6, <3>1
    <3>3. t \in seen_tasks <=> \E i \in DOMAIN sent : Starts(i, t)
      BY <1>0 DEF HeardInv
    <3>4. \A i \in DOMAIN sent : Starts(i, t)' <=> Starts(i, t)
      BY <1>2
    <3> QED BY <1>1, <3>1, <3>2, <3>3, <3>4
  <2>2. seen_tasks \subseteq TaskId
    BY <1>0 DEF HeardInv
  <2> QED BY <1>3, <2>1, <2>2
<1> QED BY <1>4, <1>5, <1>7

\* A row for what had none.
LEMMA RowIsNew ==
  ASSUME CaptureTypeOK, RowsInv, NEW row \in Row, rows' = Append(rows, row),
         \/ /\ row.task = NoTask /\ row.session \notin recorded_main
            /\ recorded_main' = recorded_main \cup {row.session} /\ seen_tasks' = seen_tasks
         \/ /\ row.task # NoTask /\ row.task \notin seen_tasks /\ row.session \in recorded_main
            /\ seen_tasks' = seen_tasks \cup {row.task} /\ recorded_main' = recorded_main
  PROVE  RowsInv' /\ rows' \in Seq(Row)
<1> DEFINE n == Len(rows) + 1
<1>1. /\ rows' \in Seq(Row) /\ Len(rows) \in Nat /\ DOMAIN rows = 1 .. Len(rows)
      /\ DOMAIN rows' = DOMAIN rows \cup {n}
      /\ \A i \in DOMAIN rows : rows'[i] = rows[i] /\ i < n
      /\ rows'[n] = row /\ n \notin DOMAIN rows
  BY AppendFacts DEF CaptureTypeOK
<1>2. NoTask \notin seen_tasks
  BY DEF CaptureTypeOK
<1> HIDE DEF n
<1>3. \A i \in DOMAIN rows' : IF rows'[i].task = NoTask THEN rows'[i].session \in recorded_main'
                                                        ELSE rows'[i].task \in seen_tasks'
  BY <1>1 DEF RowsInv
<1>4. /\ \A x \in recorded_main' :
           \E i \in DOMAIN rows' : rows'[i].task = NoTask /\ rows'[i].session = x
      /\ \A t \in seen_tasks' : \E i \in DOMAIN rows' : rows'[i].task = t
  BY <1>1 DEF RowsInv
<1>5. \A i, j \in DOMAIN rows' :
         (/\ rows'[i].task = rows'[j].task
          /\ rows'[i].task = NoTask => rows'[i].session = rows'[j].session) => i = j
  BY <1>1 DEF RowsInv
<1>6. ASSUME NEW i \in DOMAIN rows', rows'[i].task # NoTask
      PROVE  \E j \in 1 .. i - 1 : rows'[j].task = NoTask /\ rows'[j].session = rows'[i].session
  <2>1. CASE i \in DOMAIN rows
    <3>1. PICK j \in 1 .. i - 1 : rows[j].task = NoTask /\ rows[j].session = rows[i].session
      BY <2>1, <1>1, <1>6 DEF RowsInv
    <3> QED BY <2>1, <3>1, <1>1
  <2>2. CASE i = n
    <3>1. PICK j \in DOMAIN rows : rows[j].task = NoTask /\ rows[j].session = row.session
      BY <2>2, <1>1, <1>6 DEF RowsInv
    <3> QED BY <2>2, <3>1, <1>1 DEF n
  <2> QED BY <2>1, <2>2, <1>1
<1> QED BY <1>1, <1>3, <1>4, <1>5, <1>6 DEF RowsInv

\* The entry follows the first main message, not a later one.
LEMMA EntryFollows ==
  ASSUME CaptureInv, consumer = "claude", entry # 0, UNCHANGED <<consumer, expected>>,
         NEW message \in Messages, sent' = Append(sent, message),
         IF Speaks(message) /\ recorded_main = {}
         THEN entry' = message.session ELSE UNCHANGED entry
  PROVE  EntryFollowsTheFirstMain'
<1> DEFINE n == Len(sent) + 1
           main == {i \in DOMAIN sent : FromMain(i)}
           first(S) == CHOOSE i \in S : \A j \in S : i <= j
<1>0. CaptureTypeOK /\ HeardInv
  BY DEF CaptureInv
<1>1. /\ Len(sent) \in Nat /\ DOMAIN sent = 1 .. Len(sent)
      /\ DOMAIN sent' = DOMAIN sent \cup {n}
      /\ \A i \in DOMAIN sent : sent'[i] = sent[i] /\ i < n /\ (FromMain(i)' <=> FromMain(i))
      /\ sent'[n] = message
  BY <1>0, StreamGrows
<1>2. main = {} <=> recorded_main = {}
  <2>1. ASSUME NEW i \in main PROVE sent[i].session \in recorded_main
    <3>1. sent[i] \in Messages
      BY <1>0 DEF CaptureTypeOK
    <3> QED BY <1>0, <3>1, SpeakersAreNamed DEF FromMain, Speaks, HeardInv
  <2> QED BY <2>1, <1>0 DEF HeardInv
<1>3. entry = IF main = {} THEN expected ELSE sent[first(main)].session
  BY DEF CaptureInv, EntryFollowsTheFirstMain
<1>4. PICK k : k = n
  OBVIOUS
<1>5. main' = main \cup (IF Speaks(message) THEN {k} ELSE {})
  <2>1. FromMain(k)' <=> Speaks(message)
    BY <1>1, <1>4 DEF FromMain, Speaks
  <2> QED BY <1>1, <1>4, <2>1
<1>6. CASE main = {} /\ Speaks(message)
  <2>1. main' = {k} /\ entry' = message.session
    BY <1>2, <1>5, <1>6
  <2>2. k <= k
    BY <1>1, <1>4
  <2>3. first({k}) = k
    BY <2>2
  <2> HIDE DEF first
  <2>4. entry' = IF main' = {} THEN expected ELSE sent'[first(main')].session
    BY <2>1, <2>3, <1>1, <1>4
  <2> QED BY <2>4 DEF EntryFollowsTheFirstMain, first
<1>7. CASE main = {} /\ ~Speaks(message)
  <2>1. main' = {} /\ entry' = expected
    BY <1>3, <1>5, <1>7
  <2> QED BY <2>1 DEF EntryFollowsTheFirstMain
<1>8. CASE main # {}
  <2>1. main \subseteq Nat /\ k \in Nat /\ \A i \in main : i < k
    BY <1>1, <1>4 DEF n
  <2>2. PICK f \in main : \A j \in main : f <= j
    BY <2>1, <1>8, LeastOf
  <2>3. f \in main' /\ \A j \in main' : f <= j
    <3> HIDE DEF main
    <3> QED BY <1>5, <2>1, <2>2
  <2>4. main' \subseteq Nat
    <3> HIDE DEF main
    <3> QED BY <1>5, <2>1
  <2>5. first(main) = f /\ first(main') = f
    <3> DEFINE M == main
               N == main'
    <3>1. M \subseteq Nat /\ f \in M /\ \A j \in M : f <= j
      BY <2>1, <2>2
    <3>2. N \subseteq Nat /\ f \in N /\ \A j \in N : f <= j
      BY <2>3, <2>4
    <3> HIDE DEF M, N
    <3>3. first(M) = f
      <4>1. \A i \in M : (\A j \in M : i <= j) <=> i = f
        BY <3>1
      <4> QED BY <3>1, <4>1
    <3>4. first(N) = f
      <4>1. \A i \in N : (\A j \in N : i <= j) <=> i = f
        BY <3>2
      <4> QED BY <3>2, <4>1
    <3> QED BY <3>3, <3>4 DEF M, N
  <2>6. entry' = entry /\ sent'[f] = sent[f]
    BY <1>1, <1>2, <1>8, <2>2
  <2>7. main' # {} /\ entry' = sent'[first(main')].session
    BY <1>3, <1>8, <2>3, <2>5, <2>6
  <2> QED BY <2>7 DEF EntryFollowsTheFirstMain
<1> QED BY <1>6, <1>7, <1>8

-----------------------------------------------------------------------------
\* A message of the main agent, or of a subagent, or the result.
LEMMA HearStep ==
  ASSUME CaptureInv, consumer = "claude", at = "streaming",
         UNCHANGED <<consumer, expected, codex, seen_tasks>>,
         NEW message \in Messages, message.type # "task_started",
         sent' = Append(sent, message),
         Hear(message.session, message.parent),
         open_dispatches' = open_dispatches \cup (message.calls \cap Dispatch)
  PROVE  CaptureInv'
<1>0. CaptureTypeOK /\ HeardInv /\ (entry # 0 => RowsInv)
  BY DEF CaptureInv
<1>1. /\ message \in Message
      /\ Speaks(message) => message.session \in Session
  BY SpeakersAreNamed
<1>2. sent' \in Seq(Messages)
  BY <1>0, StreamGrows
<1>3. CASE ~Speaks(message)
  <2>1. UNCHANGED <<at, entry, rows, recorded_main, main_session_id, main_recorded>>
    BY <1>3 DEF Hear, Speaks
  <2>2. CaptureTypeOK'
    BY <1>0, <1>1, <1>2, <2>1 DEF CaptureTypeOK, codex
  <2>3. HeardInv'
    BY <1>0, <1>3, <2>1, StreamTells DEF HeardInv
  <2>4. entry' # 0 => RowsInv'
    BY <1>0, <2>1 DEF RowsInv
  <2>5. EntryFollowsTheFirstMain'
    <3>1. CASE entry = 0
      BY <2>1, <3>1 DEF EntryFollowsTheFirstMain
    <3>2. CASE entry # 0
      BY <1>3, <2>1, <3>2, EntryFollows
    <3> QED BY <3>1, <3>2
  <2> QED BY <2>2, <2>3, <2>4, <2>5 DEF CaptureInv, GateInv, EarnedInv, CodexRuns
<1>4. CASE Speaks(message)
  <2>1. /\ main_session_id' = message.session
        /\ recorded_main' = recorded_main \cup {message.session}
        /\ IF message.session \in recorded_main THEN UNCHANGED rows
                                                ELSE AddRow(message.session, NoTask, NoTool)
        /\ main_recorded' = TRUE
        /\ IF main_recorded \/ message.session = expected THEN UNCHANGED <<at, entry>>
           ELSE IF entry = 0 THEN Raise /\ UNCHANGED entry
           ELSE entry' = message.session /\ UNCHANGED at
    BY <1>4 DEF Hear, Speaks
  <2> DEFINE row == [session |-> message.session, task |-> NoTask, tool |-> NoTool]
  <2>2. row \in Row /\ row.task = NoTask /\ row.session = message.session
    BY <1>1, <1>4 DEF Row
  <2>3. message.session \notin recorded_main => rows' = Append(rows, row)
    BY <2>1 DEF AddRow
  <2> HIDE DEF row
  <2>4. rows' \in Seq(Row)
    <3>1. CASE message.session \in recorded_main
      BY <1>0, <2>1, <3>1 DEF CaptureTypeOK
    <3>2. CASE message.session \notin recorded_main
      <4>1. rows \in Seq(Row) /\ rows' = Append(rows, row)
        BY <1>0, <2>3, <3>2 DEF CaptureTypeOK
      <4> QED BY <2>2, <4>1, AppendFacts
    <3> QED BY <3>1, <3>2
  <2>5. CaptureTypeOK'
    <3>1. /\ at' \in {"start", "streaming", "returned", "raised"}
          /\ entry' \in 0 .. MaxSession
      BY <1>0, <1>1, <1>4, <2>1 DEF CaptureTypeOK, Raise
    <3>2. main_session_id' \in 0 .. MaxSession /\ recorded_main' \subseteq Session
      <4>1. message.session \in Session /\ message.session \in 0 .. MaxSession
        BY <1>1, <1>4
      <4>2. recorded_main \subseteq Session
        BY <1>0 DEF CaptureTypeOK
      <4> HIDE DEF Session
      <4> QED BY <2>1, <4>1, <4>2
    <3>3. open_dispatches' \subseteq Dispatch
      BY <1>0 DEF CaptureTypeOK
    <3>4. main_recorded' \in BOOLEAN
      BY <2>1
    <3> QED BY <1>0, <1>2, <2>4, <3>1, <3>2, <3>3, <3>4 DEF CaptureTypeOK, codex
  <2>6. HeardInv'
    <3>1. message.session \in Session /\ message.session # 0
      BY <1>1, <1>4
    <3> QED BY <1>0, <1>4, <2>1, <3>1, StreamTells DEF HeardInv
  <2>7. entry' # 0 => RowsInv'
    <3>1. entry' # 0 => entry # 0
      BY <2>1
    <3>2. CASE message.session \in recorded_main
      BY <1>0, <2>1, <3>1, <3>2 DEF RowsInv
    <3>3. CASE message.session \notin recorded_main
      <4>1. rows' = Append(rows, row)
        BY <2>3, <3>3
      <4> QED BY <1>0, <2>1, <2>2, <3>1, <3>3, <4>1, RowIsNew
    <3> QED BY <3>2, <3>3
  <2>8. EntryFollowsTheFirstMain'
    <3>1. CASE entry = 0
      BY <2>1, <3>1 DEF EntryFollowsTheFirstMain
    <3>2. CASE entry # 0
      <4>1. main_recorded <=> recorded_main # {}
        BY <1>0 DEF HeardInv
      <4>2. CASE recorded_main # {}
        BY <1>4, <2>1, <3>2, <4>1, <4>2, EntryFollows
      <4>3. CASE recorded_main = {} /\ message.session # expected
        BY <1>4, <2>1, <3>2, <4>1, <4>3, EntryFollows
      <4>4. CASE recorded_main = {} /\ message.session = expected
        <5>1. entry = expected
          <6>1. {i \in DOMAIN sent : FromMain(i)} = {}
            <7> SUFFICES ASSUME NEW i \in DOMAIN sent, FromMain(i) PROVE FALSE
              OBVIOUS
            <7>1. sent[i] \in Messages
              BY <1>0 DEF CaptureTypeOK
            <7> QED BY <1>0, <4>4, <7>1, SpeakersAreNamed DEF FromMain, Speaks, HeardInv
          <6> QED BY <3>2, <6>1 DEF CaptureInv, EntryFollowsTheFirstMain
        <5> QED BY <1>4, <2>1, <3>2, <4>1, <4>4, <5>1, EntryFollows
      <4> QED BY <4>2, <4>3, <4>4
    <3> QED BY <3>1, <3>2
  <2> QED BY <2>5, <2>6, <2>7, <2>8 DEF CaptureInv, GateInv, EarnedInv, CodexRuns
<1> QED BY <1>3, <1>4

\* A started task.
LEMMA TaskStep ==
  ASSUME CaptureInv, NEW message \in Messages, TaskStarted(message)
  PROVE  CaptureInv'
<1>0. CaptureTypeOK /\ HeardInv /\ (entry # 0 /\ consumer = "claude" => RowsInv)
  BY DEF CaptureInv
<1>1. /\ consumer = "claude" /\ at = "streaming" /\ message.type = "task_started"
      /\ sent' = Append(sent, message)
      /\ UNCHANGED <<consumer, expected, codex, at, entry, open_dispatches, recorded_main,
                     main_session_id, main_recorded>>
  BY DEF TaskStarted, Send
<1>2. /\ message \in Message /\ message.task \in TaskId /\ message.session = 0
      /\ message.calls = {} /\ ~Speaks(message)
  BY <1>1, SpeakersAreNamed, BlankAssumption DEF Speaks
<1>3. sent' \in Seq(Messages)
  BY <1>0, <1>1, StreamGrows
<1>4. EntryFollowsTheFirstMain'
  <2>1. CASE entry = 0
    BY <1>1, <2>1 DEF EntryFollowsTheFirstMain
  <2>2. CASE entry # 0
    BY <1>1, <1>2, <2>2, EntryFollows
  <2> QED BY <2>1, <2>2
<1>7. /\ Dispatched' = Dispatched \cup (message.calls \cap Dispatch)
      /\ {x \in Session : \E i \in DOMAIN sent : FromMain(i) /\ sent[i].session = x}'
           = recorded_main \cup (IF Speaks(message) THEN {message.session} ELSE {})
      /\ {t \in TaskId : \E i \in DOMAIN sent : Starts(i, t)}'
           = seen_tasks \cup (IF /\ message.type = "task_started"
                                 /\ message.tool \in open_dispatches /\ main_session_id # 0
                              THEN {message.task} ELSE {})
  BY <1>1, StreamTells
<1> DEFINE row  == [session |-> main_session_id, task |-> message.task, tool |-> message.tool]
           files == message.tool \in open_dispatches /\ main_session_id # 0
<1>5. CASE files /\ message.task \notin seen_tasks
  <2>1. rows' = Append(rows, row) /\ seen_tasks' = seen_tasks \cup {message.task}
    BY <1>5 DEF TaskStarted, AddRow
  <2>2. row \in Row /\ row.task = message.task /\ row.session = main_session_id
    BY <1>0, <1>2, <1>5 DEF Row, CaptureTypeOK, Message
  <2> HIDE DEF row
  <2>3. rows' \in Seq(Row)
    BY <1>0, <2>1, <2>2, AppendFacts DEF CaptureTypeOK
  <2>4. CaptureTypeOK'
    BY <1>0, <1>1, <1>2, <1>3, <2>1, <2>3 DEF CaptureTypeOK, codex
  <2>5. HeardInv'
    <3>1. /\ Dispatched' = Dispatched
          /\ {x \in Session : \E i \in DOMAIN sent : FromMain(i) /\ sent[i].session = x}'
               = recorded_main
          /\ {t \in TaskId : \E i \in DOMAIN sent : Starts(i, t)}' = seen_tasks'
      BY <1>1, <1>2, <1>5, <2>1, <1>7
    <3> QED BY <1>0, <1>1, <2>1, <3>1 DEF HeardInv
  <2>6. entry' # 0 => RowsInv'
    <3>1. main_session_id \in recorded_main /\ message.task # NoTask
      BY <1>0, <1>2, <1>5 DEF HeardInv
    <3> QED BY <1>0, <1>1, <1>5, <2>1, <2>2, <3>1, RowIsNew
  <2> QED BY <1>1, <1>4, <2>4, <2>5, <2>6 DEF CaptureInv, GateInv, EarnedInv, CodexRuns
<1>6. CASE ~(files /\ message.task \notin seen_tasks)
  <2>1. UNCHANGED <<rows, seen_tasks>>
    BY <1>6 DEF TaskStarted
  <2>2. CaptureTypeOK'
    BY <1>0, <1>1, <1>2, <1>3, <2>1 DEF CaptureTypeOK, codex
  <2>3. HeardInv'
    <3>1. /\ Dispatched' = Dispatched
          /\ {x \in Session : \E i \in DOMAIN sent : FromMain(i) /\ sent[i].session = x}'
               = recorded_main
          /\ {t \in TaskId : \E i \in DOMAIN sent : Starts(i, t)}' = seen_tasks'
      BY <1>1, <1>2, <1>6, <2>1, <1>7
    <3> QED BY <1>0, <1>1, <2>1, <3>1 DEF HeardInv
  <2>4. entry' # 0 => RowsInv'
    BY <1>0, <1>1, <2>1 DEF RowsInv
  <2> QED BY <1>1, <1>4, <2>2, <2>3, <2>4 DEF CaptureInv, GateInv, EarnedInv, CodexRuns
<1> QED BY <1>5, <1>6

-----------------------------------------------------------------------------
LEMMA AdmittedCall ==
  ASSUME CaptureTypeOK
  PROVE  /\ policy \in Policy /\ request \in Request
         /\ ProviderTimeout(request, policy) \in Nat /\ request.timeout \in Nat
<1>1. policy \in Policy /\ request \in Request
  BY AlphabetAssumption DEF CaptureTypeOK, policy, request
<1> QED BY <1>1 DEF Policy, Request, ProviderTimeout

\* The steps that read no message of the SDK.
LEMMA CodexStartStep ==
  ASSUME CaptureInv, CodexStarts
  PROVE  CaptureInv'
<1>0. CaptureTypeOK /\ HeardInv /\ EarnedInv /\ (consumer # "claude" => sent = << >>)
  BY DEF CaptureInv
<1>1. /\ consumer # "claude" /\ at = "start"
      /\ UNCHANGED <<consumer, entry, rows, locals, call, stdout, exited, sent>>
  BY DEF CodexStarts
<1>2. CaptureTypeOK'
  <2>1. timeout' \in Nat
    BY <1>0, AdmittedCall DEF CodexStarts
  <2>2. at' \in {"streaming", "raised"} /\ expected' \in 0 .. MaxSession
    BY <1>0 DEF CodexStarts, CaptureTypeOK
  <2> QED BY <1>0, <1>1, <2>1, <2>2 DEF CaptureTypeOK, locals
<1>3. HeardInv'
  BY <1>0, <1>1 DEF HeardInv, Dispatched, Starts, Positions, FromMain, locals
<1>4. GateInv'
  <2>1. CASE consumer = "tool"
    BY <1>1, <2>1 DEF CodexStarts, GateInv, CodexRuns, policy, request
  <2>2. CASE consumer # "tool"
    BY <1>0, <1>1, <2>2 DEF CodexStarts, GateInv, CodexRuns, policy, request, CaptureTypeOK
  <2> QED BY <2>1, <2>2
<1>5. EarnedInv'
  <2>1. at' \in {"streaming", "raised"}
    BY DEF CodexStarts
  <2>2. rows = << >> /\ rows' = << >> /\ rows' \in Seq(Row)
    BY <1>0, <1>1, <1>2 DEF EarnedInv, CaptureTypeOK
  <2>3. consumer = "provider" /\ at' = "streaming" => expected' # 0 /\ expected' = entry
    BY <1>1 DEF CodexStarts
  <2>4. exited = << >> /\ exited' = << >>
    BY <1>0, <1>1 DEF EarnedInv
  <2> QED BY <1>1, <2>1, <2>2, <2>3, <2>4 DEF EarnedInv, CodexRowIsEarned, TurnAccepted
<1> QED BY <1>0, <1>1, <1>2, <1>3, <1>4, <1>5 DEF CaptureInv, EntryFollowsTheFirstMain

LEMMA CodexExitStep ==
  ASSUME CaptureInv, NEW exit \in {0, 1}, NEW in_scope \in BOOLEAN, CodexExits(exit, in_scope)
  PROVE  CaptureInv'
<1>0. CaptureTypeOK /\ HeardInv /\ EarnedInv /\ GateInv /\ (consumer # "claude" => sent = << >>)
  BY DEF CaptureInv
<1>1. /\ consumer # "claude" /\ at = "streaming" /\ rows = << >>
      /\ exited' = <<exit, in_scope>> /\ exited' # << >>
      /\ exited'[1] = exit /\ exited'[2] = in_scope
      /\ UNCHANGED <<consumer, entry, expected, locals, call, timeout, stdout, sent>>
  BY <1>0 DEF CodexExits, EarnedInv
<1>2. CASE rows' = << >> /\ at' \in {"raised", "returned"}
           /\ (consumer = "provider" =>
                 at' = "raised" /\ ~(in_scope /\ ProviderAccepts(exit, stdout)))
  <2>1. CaptureTypeOK'
    BY <1>0, <1>1, <1>2 DEF CaptureTypeOK, locals
  <2>2. consumer = "provider" => ~TurnAccepted'
    BY <1>1, <1>2 DEF TurnAccepted, ProviderAccepts
  <2>3. EarnedInv'
    BY <1>1, <1>2, <2>2 DEF EarnedInv, CodexRowIsEarned
  <2> QED BY <1>0, <1>1, <1>2, <2>1, <2>3
       DEF CaptureInv, HeardInv, Dispatched, Starts, Positions, FromMain, locals,
           GateInv, CodexRuns, EntryFollowsTheFirstMain, policy, request
<1>3. CASE /\ consumer = "provider" /\ AddRow(expected, NoTask, NoTool)
           /\ in_scope /\ ProviderAccepts(exit, stdout)
           /\ at' = IF entry = 0 THEN "raised" ELSE "returned"
  <2> DEFINE row == [session |-> expected, task |-> NoTask, tool |-> NoTool]
  <2>1. row \in Row /\ row.task = NoTask /\ row.session = expected
    BY <1>0, <1>1, <1>3 DEF Row, CaptureTypeOK, EarnedInv
  <2>2. rows' = Append(rows, row)
    BY <1>3 DEF AddRow
  <2> HIDE DEF row
  <2>3. /\ rows' \in Seq(Row) /\ Len(rows') = 1 /\ rows'[1] = row /\ DOMAIN rows' = 1 .. 1
        /\ rows' # << >>
    <3>1. << >> \in Seq(Row) /\ Len(<< >>) = 0 /\ rows' = Append(<< >>, row)
      BY <1>1, <2>2
    <3> QED BY <2>1, <3>1, AppendFacts
  <2>4. CaptureTypeOK'
    BY <1>0, <1>1, <1>3, <2>3 DEF CaptureTypeOK, locals
  <2>5. TurnAccepted'
    BY <1>1, <1>3 DEF TurnAccepted, ProviderAccepts
  <2>6. entry # 0 => expected = entry
    BY <1>0, <1>1, <1>3 DEF EarnedInv
  <2>7. EarnedInv'
    BY <1>1, <1>3, <2>1, <2>3, <2>5, <2>6 DEF EarnedInv, CodexRowIsEarned
  <2> QED BY <1>0, <1>1, <1>3, <2>4, <2>7
       DEF CaptureInv, HeardInv, Dispatched, Starts, Positions, FromMain, locals,
           GateInv, CodexRuns, EntryFollowsTheFirstMain, policy, request
<1>4. consumer \in {"provider", "tool"}
  BY <1>0, <1>1 DEF CaptureTypeOK
<1> QED BY <1>1, <1>2, <1>3, <1>4 DEF CodexExits, Raise

\* A stop of the run: nothing but `at` moves.
LEMMA StopStep ==
  ASSUME CaptureInv, UNCHANGED <<consumer, entry, expected, rows, locals, codex, sent>>,
         \/ consumer = "claude" /\ at' \in {"start", "streaming", "returned", "raised"}
         \/ consumer # "claude" /\ at = "streaming" /\ at' = "raised"
         \/ UNCHANGED at
  PROVE  CaptureInv'
<1>0. /\ CaptureTypeOK /\ HeardInv /\ EarnedInv /\ GateInv /\ EntryFollowsTheFirstMain
      /\ consumer # "claude" => sent = << >>
      /\ consumer = "claude" /\ entry # 0 => RowsInv
  BY DEF CaptureInv
<1>1. CaptureTypeOK'
  BY <1>0 DEF CaptureTypeOK, locals, codex
<1>2. HeardInv' /\ EntryFollowsTheFirstMain'
  BY <1>0 DEF HeardInv, Dispatched, Starts, Positions, FromMain, locals, EntryFollowsTheFirstMain
<1>3. consumer' = "claude" /\ entry' # 0 => RowsInv'
  BY <1>0 DEF RowsInv, locals
<1>4. GateInv'
  BY <1>0 DEF GateInv, CodexRuns, policy, request, codex
<1>5. EarnedInv'
  BY <1>0 DEF EarnedInv, CodexRowIsEarned, TurnAccepted, ProviderAccepts, codex
<1> QED BY <1>0, <1>1, <1>2, <1>3, <1>4, <1>5 DEF CaptureInv

LEMMA PrintStep ==
  ASSUME CaptureInv, NEW line \in Lines, CodexPrints(line)
  PROVE  CaptureInv'
<1>0. /\ CaptureTypeOK /\ HeardInv /\ EarnedInv /\ GateInv /\ EntryFollowsTheFirstMain
      /\ consumer # "claude" => sent = << >>
  BY DEF CaptureInv
<1>1. /\ consumer # "claude" /\ at = "streaming" /\ rows = << >>
      /\ stdout' = Append(stdout, line)
      /\ UNCHANGED <<consumer, at, entry, expected, rows, locals, call, timeout, exited, sent>>
  BY <1>0 DEF CodexPrints, EarnedInv
<1>2. stdout' \in Seq(Lines)
  BY <1>0, <1>1, AppendFacts DEF CaptureTypeOK
<1>3. CaptureTypeOK'
  BY <1>0, <1>1, <1>2 DEF CaptureTypeOK, locals
<1>4. EarnedInv'
  BY <1>0, <1>1 DEF EarnedInv, CodexRowIsEarned, TurnAccepted
<1> QED BY <1>0, <1>1, <1>3, <1>4
     DEF CaptureInv, HeardInv, Dispatched, Starts, Positions, FromMain, locals,
         GateInv, CodexRuns, EntryFollowsTheFirstMain, policy, request

LEMMA DismissStep ==
  ASSUME CaptureInv, Dismissed
  PROVE  CaptureInv'
<1>0. /\ CaptureTypeOK /\ HeardInv /\ EarnedInv /\ GateInv
      /\ consumer # "claude" => sent = << >>
  BY DEF CaptureInv
<1>1. /\ at \in {"start", "streaming"} /\ entry' = 0 /\ rows' = << >>
      /\ UNCHANGED <<consumer, at, expected, locals, codex, sent>>
  BY DEF Dismissed
<1>2. CaptureTypeOK'
  BY <1>0, <1>1 DEF CaptureTypeOK, locals, codex
<1>3. EarnedInv'
  BY <1>0, <1>1 DEF EarnedInv, CodexRowIsEarned, TurnAccepted, codex
<1> QED BY <1>0, <1>1, <1>2, <1>3
     DEF CaptureInv, HeardInv, Dispatched, Starts, Positions, FromMain, locals, codex,
         GateInv, CodexRuns, EntryFollowsTheFirstMain, policy, request

-----------------------------------------------------------------------------
LEMMA CaptureStarts ==
  ASSUME CaptureInit
  PROVE  CaptureInv
<1>1. CaptureTypeOK
  <2>1. << >> \in Seq(Row) /\ << >> \in Seq(Lines) /\ << >> \in Seq(Messages)
    OBVIOUS
  <2>2. entry \in 0 .. MaxSession /\ expected \in 0 .. MaxSession /\ main_session_id \in 0 .. MaxSession
    BY DEF CaptureInit
  <2> QED BY <2>1, <2>2 DEF CaptureInit, CaptureTypeOK
<1>2. HeardInv
  BY DEF CaptureInit, HeardInv, Dispatched, Starts, Positions
<1> QED BY <1>1, <1>2 DEF CaptureInit, CaptureInv, RowsInv, GateInv, CodexRuns, EarnedInv,
                          CodexRowIsEarned, TurnAccepted, EntryFollowsTheFirstMain

LEMMA CaptureSteps ==
  ASSUME CaptureInv, [CaptureNext]_vars
  PROVE  CaptureInv'
<1>1. CASE UNCHANGED vars
  BY <1>1, StopStep DEF vars
<1>2. CASE QueryStarts \/ QueryEnds \/ QueryRaises \/ CodexFails
  BY <1>2, StopStep DEF QueryStarts, QueryEnds, QueryRaises, CodexFails, Raise
<1>3. ASSUME NEW message \in Messages, Assistant(message) PROVE CaptureInv'
  <2>1. /\ consumer = "claude" /\ at = "streaming"
        /\ UNCHANGED <<consumer, expected, codex, seen_tasks>>
        /\ message.type # "task_started" /\ sent' = Append(sent, message)
        /\ Hear(message.session, message.parent)
        /\ open_dispatches' = open_dispatches \cup (message.calls \cap Dispatch)
    BY <1>3 DEF Assistant, Send
  <2> QED BY <2>1, HearStep
<1>4. ASSUME NEW message \in Messages, Result(message) PROVE CaptureInv'
  <2>1. /\ consumer = "claude" /\ at = "streaming"
        /\ UNCHANGED <<consumer, expected, codex, seen_tasks, open_dispatches>>
        /\ message.type = "result" /\ sent' = Append(sent, message)
        /\ Hear(message.session, NoTool)
    BY <1>4 DEF Result, Send
  <2>2. message.parent = NoTool /\ message.calls = {}
    BY <2>1, BlankAssumption
  <2>3. open_dispatches' = open_dispatches \cup (message.calls \cap Dispatch)
    BY <2>1, <2>2
  <2> QED BY <2>1, <2>2, <2>3, HearStep
<1>5. ASSUME NEW message \in Messages, TaskStarted(message) PROVE CaptureInv'
  BY <1>5, TaskStep
<1>6. CASE CodexStarts
  BY <1>6, CodexStartStep
<1>7. CASE \E line \in Lines : CodexPrints(line)
  BY <1>7, PrintStep
<1>8. CASE \E exit \in {0, 1}, in_scope \in BOOLEAN : CodexExits(exit, in_scope)
  BY <1>8, CodexExitStep
<1>9. CASE Dismissed
  BY <1>9, DismissStep
<1> QED BY <1>1, <1>2, <1>3, <1>4, <1>5, <1>6, <1>7, <1>8, <1>9 DEF CaptureNext

THEOREM CaptureInvariant == CaptureSpec => []CaptureInv
<1>1. CaptureInit => CaptureInv
  BY CaptureStarts
<1>2. CaptureInv /\ [CaptureNext]_vars => CaptureInv'
  BY CaptureSteps
<1> QED BY <1>1, <1>2, PTL DEF CaptureSpec

-----------------------------------------------------------------------------
(***************************************************************************)
(* Every variable of a captured run keeps its type, whatever the stream.   *)
(***************************************************************************)
THEOREM CaptureTypeCorrect == CaptureSpec => []CaptureTypeOK
<1>1. CaptureInv => CaptureTypeOK
  BY DEF CaptureInv
<1> QED BY <1>1, CaptureInvariant, PTL

\* A set with no, or exactly one, member.
LEMMA CountOne ==
  ASSUME NEW S, \A i, j \in S : i = j
  PROVE  Cardinality(S) = IF S = {} THEN 0 ELSE 1
<1>1. CASE S = {}
  BY <1>1, FS_EmptySet
<1>2. CASE S # {}
  <2>1. PICK e : e \in S
    BY <1>2
  <2>2. S = {e}
    BY <2>1
  <2> QED BY <1>2, <2>2, FS_Singleton
<1> QED BY <1>1, <1>2

(***************************************************************************)
(* "One agent_runs row is persisted per agent" (dispatch.py:133): however  *)
(* long the stream is and in whatever order it repeats itself, one row for *)
(* every session the main agent spoke under and one for every task         *)
(* run_with_capture could place, and no other.                             *)
(***************************************************************************)
THEOREM CaptureOneRowPerAgent == CaptureSpec => []OneRowPerAgent
<1>1. CaptureInv => OneRowPerAgent
  <2> SUFFICES ASSUME CaptureInv, consumer = "claude", entry # 0 PROVE OneRowPerAgent
    BY DEF OneRowPerAgent
  <2>0. CaptureTypeOK /\ HeardInv /\ RowsInv
    BY DEF CaptureInv
  <2>1. ASSUME NEW session \in Session
        PROVE  Cardinality({i \in DOMAIN rows : rows[i].task = NoTask /\ rows[i].session = session})
                 = IF \E i \in DOMAIN sent : FromMain(i) /\ sent[i].session = session THEN 1 ELSE 0
    <3> DEFINE S == {i \in DOMAIN rows : rows[i].task = NoTask /\ rows[i].session = session}
    <3>1. \A i, j \in S : i = j
      BY <2>0 DEF RowsInv
    <3>2. S # {} <=> session \in recorded_main
      BY <2>0 DEF RowsInv
    <3>3. session \in recorded_main
            <=> \E i \in DOMAIN sent : FromMain(i) /\ sent[i].session = session
      BY <2>0 DEF HeardInv
    <3>4. Cardinality(S) = IF S = {} THEN 0 ELSE 1
      BY <3>1, CountOne
    <3> HIDE DEF S
    <3>5. Cardinality(S) = IF \E i \in DOMAIN sent : FromMain(i) /\ sent[i].session = session
                           THEN 1 ELSE 0
      BY <3>2, <3>3, <3>4
    <3> QED BY <3>5 DEF S
  <2>2. ASSUME NEW task \in TaskId
        PROVE  Cardinality({i \in DOMAIN rows : rows[i].task = task})
                 = IF \E i \in DOMAIN sent : Starts(i, task) THEN 1 ELSE 0
    <3> DEFINE S == {i \in DOMAIN rows : rows[i].task = task}
    <3>1. task # NoTask
      OBVIOUS
    <3>2. \A i, j \in S : i = j
      BY <2>0, <3>1 DEF RowsInv
    <3>3. S # {} <=> task \in seen_tasks
      BY <2>0, <3>1 DEF RowsInv
    <3>4. task \in seen_tasks <=> \E i \in DOMAIN sent : Starts(i, task)
      BY <2>0 DEF HeardInv
    <3>5. Cardinality(S) = IF S = {} THEN 0 ELSE 1
      BY <3>2, CountOne
    <3> HIDE DEF S
    <3>6. Cardinality(S) = IF \E i \in DOMAIN sent : Starts(i, task) THEN 1 ELSE 0
      BY <3>3, <3>4, <3>5
    <3> QED BY <3>6 DEF S
  <2> QED BY <2>1, <2>2 DEF OneRowPerAgent
<1> QED BY <1>1, CaptureInvariant, PTL

(***************************************************************************)
(* A subagent's row is preceded by the main row of its session.            *)
(***************************************************************************)
THEOREM CaptureMainRowComesFirst == CaptureSpec => []MainRowComesFirst
<1>1. CaptureInv => MainRowComesFirst
  <2> SUFFICES ASSUME CaptureInv, entry # 0 PROVE MainRowComesFirst
    BY DEF MainRowComesFirst
  <2>1. CASE consumer = "claude"
    BY <2>1 DEF CaptureInv, RowsInv, MainRowComesFirst
  <2>2. CASE consumer # "claude"
    BY <2>2 DEF CaptureInv, EarnedInv, MainRowComesFirst
  <2> QED BY <2>1, <2>2
<1> QED BY <1>1, CaptureInvariant, PTL

(***************************************************************************)
(* The standing conversation is the one the run opened on: a later change  *)
(* of session moves the rows (dispatch.py:211), never the entry            *)
(* (dispatch.py:214-217).                                                  *)
(***************************************************************************)
THEOREM CaptureEntryFollowsTheFirstMain == CaptureSpec => []EntryFollowsTheFirstMain
<1>1. CaptureInv => EntryFollowsTheFirstMain
  BY DEF CaptureInv
<1> QED BY <1>1, CaptureInvariant, PTL

(***************************************************************************)
(* A codex run has its row exactly when its turn was accepted, by exit     *)
(* code, scope and stream, whatever the CLI printed and wherever a         *)
(* dismissal fell.                                                         *)
(***************************************************************************)
THEOREM CaptureCodexRowIsEarned == CaptureSpec => []CodexRowIsEarned
<1>1. CaptureInv => CodexRowIsEarned
  BY DEF CaptureInv, EarnedInv, CodexRowIsEarned
<1> QED BY <1>1, CaptureInvariant, PTL

(***************************************************************************)
(* The two gates agree, the permission to write aside, for any roots,      *)
(* directories and timeouts.                                               *)
(***************************************************************************)
THEOREM CaptureOnePolicyForBoth == CaptureSpec => []OnePolicyForBoth
<1>1. CaptureInv => OnePolicyForBoth
  <2> SUFFICES ASSUME CaptureInv, CodexRuns PROVE OnePolicyForBoth
    BY DEF OnePolicyForBoth
  <2>0. /\ policy \in Policy /\ request \in Request
        /\ consumer \in {"provider", "tool"} /\ GateInv
    BY AdmittedCall DEF CaptureInv, CaptureTypeOK, CodexRuns
  <2>1. CASE consumer = "provider"
    <3>1. ProviderAdmits(request, policy) /\ timeout = ProviderTimeout(request, policy)
      BY <2>0, <2>1 DEF GateInv
    <3>2. timeout <= policy.max_timeout
      BY <2>0, <3>1 DEF ProviderTimeout, Policy, Request
    <3> DEFINE call2   == [request EXCEPT !.timeout = timeout, !.resume = FALSE]
               policy2 == [policy EXCEPT !.allow_write = TRUE]
    <3>3. /\ call2.timeout = timeout /\ call2.resume = FALSE
          /\ call2.cwd = request.cwd /\ call2.write = request.write
          /\ policy2.allow_write = TRUE /\ policy2.enabled = policy.enabled
          /\ policy2.max_timeout = policy.max_timeout
          /\ policy2.roots = policy.roots /\ policy2.kind = policy.kind
      BY <2>0 DEF Policy, Request
    <3> HIDE DEF call2, policy2
    <3>4. ToolAdmits(call2, policy2)
      BY <3>1, <3>2, <3>3 DEF ToolAdmits, ProviderAdmits, CanonicalRoot, AllowedRootsValid
    <3> QED BY <2>1, <3>4 DEF OnePolicyForBoth, call2, policy2
  <2>2. CASE consumer = "tool"
    <3>1. ToolAdmits(request, policy) /\ timeout = request.timeout
      BY <2>0, <2>2 DEF GateInv
    <3>2. request.timeout = ProviderTimeout(request, policy)
      BY <3>1 DEF ToolAdmits, ProviderTimeout
    <3>3. request.write => ProviderAdmits(request, policy)
      BY <3>1 DEF ToolAdmits, ProviderAdmits
    <3> QED BY <2>2, <3>1, <3>2, <3>3 DEF OnePolicyForBoth
  <2> QED BY <2>0, <2>1, <2>2
<1> QED BY <1>1, CaptureInvariant, PTL

-----------------------------------------------------------------------------
(* The two readers of a stream.                                            *)

\* A set of positions of a sequence has a last one.
LEMMA LargestOf ==
  ASSUME NEW n \in Nat, NEW S \in SUBSET (1 .. n), S # {}
  PROVE  \E f \in S : \A j \in S : j <= f
<1> DEFINE T == {m \in 0 .. n : n - m \in S}
<1>1. \A i \in S : i \in 1 .. n /\ n - i \in T
  OBVIOUS
<1>2. T \in SUBSET Nat /\ T # {}
  <2>1. T \subseteq Nat
    OBVIOUS
  <2>2. PICK i \in S : TRUE
    OBVIOUS
  <2>3. n - i \in T
    BY <1>1, <2>2
  <2> QED BY <2>1, <2>3
<1>3. PICK m \in T : \A k \in T : m <= k
  BY <1>2, LeastOf
<1>4. m \in 0 .. n /\ n - m \in S
  BY <1>3
<1>5. ASSUME NEW j \in S PROVE j <= n - m
  <2>1. m <= n - j /\ j \in 1 .. n
    BY <1>1, <1>3
  <2> QED BY <2>1, <1>4
<1> QED BY <1>4, <1>5

\* What Last reads is at the last of the positions.
LEMMA LastIsLast ==
  ASSUME NEW lines \in Seq(Line), NEW S \in SUBSET DOMAIN lines, S # {}
  PROVE  \E f \in S : (\A j \in S : j <= f) /\ Last(lines, S) = lines[f].value
<1> DEFINE f == CHOOSE i \in S : \A j \in S : j <= i
<1>1. Len(lines) \in Nat /\ DOMAIN lines = 1 .. Len(lines)
  OBVIOUS
<1>2. \E i \in S : \A j \in S : j <= i
  BY <1>1, LargestOf
<1>3. f \in S /\ \A j \in S : j <= f
  BY <1>2
<1>4. Last(lines, S) = lines[f].value
  BY DEF Last
<1> HIDE DEF f
<1> QED BY <1>3, <1>4

\* The thread the tool names is the provider's, or none.
LEMMA SameThread ==
  ASSUME NEW lines \in Seq(Line), \A i \in DOMAIN lines : lines[i].strict
  PROVE  ToolTranscript(lines).thread_id \in {ProviderStream(lines).thread_id, Absent}
<1> DEFINE A == {i \in ToolReads(lines) : lines[i].type = "thread.started"}
           V == Valued(lines, "thread.started")
<1>1. /\ A = {i \in DOMAIN lines : lines[i].type = "thread.started"}
      /\ V = {i \in A : lines[i].value # Absent}
  BY DEF ToolReads, Valued
<1>2. ToolTranscript(lines).thread_id = Last(lines, A)
  BY DEF ToolTranscript
<1>3. ProviderStream(lines).thread_id = Last(lines, V)
  BY DEF ProviderStream
<1>4. Len(lines) \in Nat /\ DOMAIN lines = 1 .. Len(lines)
  OBVIOUS
<1> HIDE DEF A, V
<1>5. CASE A = {}
  BY <1>2, <1>5 DEF Last
<1>6. CASE A # {}
  <2>1. A \subseteq DOMAIN lines /\ V \subseteq DOMAIN lines
    BY <1>1
  <2>2. PICK f \in A : (\A j \in A : j <= f) /\ Last(lines, A) = lines[f].value
    BY <2>1, <1>6, LastIsLast
  <2>3. CASE lines[f].value = Absent
    BY <2>2, <2>3, <1>2
  <2>4. CASE lines[f].value # Absent
    <3>1. f \in V /\ V # {}
      BY <2>4, <1>1
    <3>2. PICK g \in V : (\A j \in V : j <= g) /\ Last(lines, V) = lines[g].value
      BY <2>1, <3>1, LastIsLast
    <3>3. f \in Nat /\ g \in Nat /\ f <= g /\ g <= f
      BY <2>1, <2>2, <3>1, <3>2, <1>1, <1>4
    <3>4. f = g
      BY <3>3
    <3> QED BY <3>4, <3>2, <2>2, <1>2, <1>3
  <2> QED BY <2>3, <2>4
<1> QED BY <1>5, <1>6

\* With every line typed, the answer of the tool is the provider's.
LEMMA SameAnswer ==
  ASSUME NEW lines \in Seq(Line), \A i \in DOMAIN lines : lines[i].strict
  PROVE  ToolTranscript(lines).final_message = ProviderStream(lines).final_message
<1>1. ToolReads(lines) \cap Valued(lines, "agent_message") = Valued(lines, "agent_message")
  BY DEF ToolReads, Valued
<1> QED BY <1>1 DEF ToolTranscript, ProviderStream

\* The verdicts in terms of the events of the stream.
LEMMA ToolVerdict ==
  ASSUME NEW lines \in Seq(Line)
  PROVE  /\ ToolOk(0, lines) => Has(lines, "turn.completed")
         /\ (\A i \in DOMAIN lines : lines[i].strict) =>
              (ToolOk(0, lines) <=> /\ Has(lines, "turn.completed")
                                    /\ ~Has(lines, "turn.failed") /\ ~Has(lines, "error"))
<1> DEFINE of(type) == {i \in ToolReads(lines) : lines[i].type = type}
<1>1. ToolOk(0, lines) <=> /\ of("turn.completed") # {}
                           /\ of("turn.failed") \cup of("error") = {}
  BY DEF ToolOk, ToolTranscript
<1>2. of("turn.completed") # {} => Has(lines, "turn.completed")
  BY DEF ToolReads, Has
<1>3. ASSUME \A i \in DOMAIN lines : lines[i].strict
      PROVE  /\ of("turn.completed") # {} <=> Has(lines, "turn.completed")
             /\ of("turn.failed") # {} <=> Has(lines, "turn.failed")
             /\ of("error") # {} <=> Has(lines, "error")
  BY <1>3 DEF ToolReads, Has
<1> HIDE DEF of
<1> QED BY <1>1, <1>2, <1>3

LEMMA ProviderVerdict ==
  ASSUME NEW lines
  PROVE  /\ ProviderStream(lines).turn_completed <=> Has(lines, "turn.completed")
         /\ ProviderStream(lines).turn_failed <=> Has(lines, "turn.failed")
         /\ ProviderAccepts(0, lines) <=> /\ ProviderStream(lines).thread_count = 1
                                          /\ Has(lines, "turn.completed")
                                          /\ ~Has(lines, "turn.failed")
BY DEF ProviderAccepts, ProviderStream

(***************************************************************************)
(* The tool's reader and the provider's agree on every stream both can     *)
(* read, however long and whatever its lines (_parse_stream,               *)
(* codex_tool.py:265-304; _parse_jsonl, providers/codex.py:99-134).        *)
(***************************************************************************)
THEOREM CaptureReadersAgree == CaptureSpec => []ReadersAgree
<1>1. CaptureTypeOK => ReadersAgree
  <2> SUFFICES ASSUME CaptureTypeOK PROVE ReadersAgree
    OBVIOUS
  <2> DEFINE lines == stdout
             plain == \A i \in DOMAIN lines : lines[i].strict
  <2>1. lines \in Seq(Line)
    BY AlphabetAssumption DEF CaptureTypeOK
  <2>2. plain => /\ ToolTranscript(lines).final_message = ProviderStream(lines).final_message
                 /\ ToolTranscript(lines).thread_id \in {ProviderStream(lines).thread_id, Absent}
    BY <2>1, SameAnswer, SameThread
  <2>3. /\ ToolOk(0, lines) => Has(lines, "turn.completed")
        /\ plain => (ToolOk(0, lines) <=> /\ Has(lines, "turn.completed")
                                          /\ ~Has(lines, "turn.failed") /\ ~Has(lines, "error"))
    BY <2>1, ToolVerdict
  <2>4. /\ ProviderStream(lines).turn_completed <=> Has(lines, "turn.completed")
        /\ ProviderStream(lines).turn_failed <=> Has(lines, "turn.failed")
        /\ ProviderAccepts(0, lines) <=> /\ ProviderStream(lines).thread_count = 1
                                         /\ Has(lines, "turn.completed")
                                         /\ ~Has(lines, "turn.failed")
    BY ProviderVerdict
  <2> QED BY <2>2, <2>3, <2>4 DEF ReadersAgree
<1> QED BY <1>1, CaptureTypeCorrect, PTL
=============================================================================
