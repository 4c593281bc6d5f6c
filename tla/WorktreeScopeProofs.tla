------------------------- MODULE WorktreeScopeProofs -------------------------
(***************************************************************************)
(* What an accepted codex run left alone, proved for every set of paths,   *)
(* every .gitignore, every pairing of renames git may detect and every     *)
(* scope a run may declare.                                                *)
(*                                                                         *)
(* The inductive invariant ties the two things a run is judged against to  *)
(* the worktree it started from: the fingerprints are those of the start,  *)
(* and HEAD is what git sees of the start until the CLI commits.           *)
(***************************************************************************)
EXTENDS WorktreeScope, TLAPS

\* HEAD, off the ignored paths, is the worktree the run began with.
HeadIsStart == \A f \in File \ Ignored : head[f] = start[f]

\* The fingerprints are those of the worktree the run began with.
BeforeIsStart ==
    \A f \in File : before[f] = IF Globbed(f, scope.forbidden) THEN start[f] ELSE Absent

RunInv ==
    /\ at = "asked" => start = disk /\ ~committed /\ ignored = Ignored
    /\ at = "running" => BeforeIsStart /\ (~committed => HeadIsStart)
    /\ AcceptedStaysInScope
    /\ FingerprintedIsUntouched

ScopeInv == ScopeTypeOK /\ RunInv

(***************************************************************************)
(* What pathlib's glob yields for a pattern, `matches` covers: a forbidden *)
(* file that was fingerprinted is one `violations` reports.                *)
(***************************************************************************)
LEMMA GlobbedIsMatched ==
    ASSUME NEW f \in File, NEW patterns, Globbed(f, patterns)
    PROVE  Matches(f, patterns)
<1>1. PICK p \in patterns : f = p \/ (IsGlob(p) /\ Spans(p, f, deepStar))
  BY DEF Globbed
<1>2. CASE f = p
  BY <1>1, <1>2 DEF Matches
<1>3. CASE IsGlob(p) /\ Spans(p, f, deepStar)
  <2>1. Spans(p, f, TRUE)
    BY <1>3 DEF Spans
  <2> QED BY <1>1, <1>3, <2>1 DEF Matches
<1> QED BY <1>1, <1>2, <1>3

\* A scope is one of the two modes.
LEMMA ScopeIsRequest ==
    ASSUME ScopeTypeOK
    PROVE  scope.mode \in {"read", "write"}
BY RequestAssumption DEF ScopeTypeOK

\* The run begins in the inductive invariant.
LEMMA ScopeInitInv == ScopeInit => ScopeInv
<1> SUFFICES ASSUME ScopeInit PROVE ScopeInv
  OBVIOUS
<1>1. ScopeTypeOK
  <2>1. ignored \subseteq File /\ commands \in 0 .. MaxGit
    BY FileAssumption, GitAssumption DEF ScopeInit
  <2> QED BY <2>1 DEF ScopeInit, ScopeTypeOK, State
<1>2. RunInv
  BY DEF ScopeInit, RunInv, AcceptedStaysInScope, FingerprintedIsUntouched
<1> QED BY <1>1, <1>2 DEF ScopeInv

\* A clean worktree is taken: HEAD is what git sees of it, and what is
\* fingerprinted is what there is.
LEMMA BeginKeepsInv ==
    ASSUME ScopeInv, Begin
    PROVE  ScopeInv'
<1> USE DEF Begin, fixed
<1>1. ScopeTypeOK'
  BY DEF ScopeInv, ScopeTypeOK, State, Fingerprints, git
<1>2. BeforeIsStart'
  BY DEF ScopeInv, RunInv, BeforeIsStart, Fingerprints, Globbed
<1>3. HeadIsStart'
  <2> SUFFICES ASSUME NEW f \in File \ Ignored
               PROVE  head[f] = disk[f]
    BY DEF ScopeInv, RunInv, HeadIsStart, git
  <2>1. f \in index <=> head[f] # Absent
    BY DEF Clean
  <2>2. f \notin GitChanged({})
    BY DEF Clean
  <2>3. f \notin ignored
    BY DEF ScopeInv, RunInv
  <2> QED BY <2>1, <2>2, <2>3 DEF GitChanged
<1>4. ~committed' /\ at' = "running"
  BY DEF ScopeInv, RunInv, git
<1> QED BY <1>1, <1>2, <1>3, <1>4
     DEF ScopeInv, RunInv, AcceptedStaysInScope, FingerprintedIsUntouched

\* What the CLI does while it runs disturbs neither the fingerprints nor,
\* before it commits, HEAD.
LEMMA CliKeepsInv ==
    ASSUME ScopeInv,
           Commit \/ \E f \in File : \/ \E c \in Content \cup {Absent} : Edit(f, c)
                                  \/ Stage(f) \/ Ignore(f)
    PROVE  ScopeInv'
<1>1. at = "running" /\ at' = "running" /\ UNCHANGED <<fixed, before>>
  BY DEF Commit, Edit, Stage, Ignore, UsesGit
<1>2. ScopeTypeOK'
  <2>1. CASE Commit
    <3>1. index' \subseteq File /\ head' \in State
      BY <2>1 DEF ScopeInv, ScopeTypeOK, State, Commit
    <3>2. commands' \in 0 .. MaxGit
      BY <2>1, GitAssumption DEF ScopeInv, ScopeTypeOK, Commit, UsesGit
    <3> QED BY <1>1, <2>1, <3>1, <3>2 DEF ScopeInv, ScopeTypeOK, Commit, fixed
  <2>2. CASE \E f \in File, c \in Content \cup {Absent} : Edit(f, c)
    BY <2>2 DEF ScopeInv, ScopeTypeOK, State, Edit, fixed, git
  <2>3. CASE \E f \in File : Stage(f) \/ Ignore(f)
    <3>1. index' \subseteq File /\ ignored' \subseteq File
      BY <2>3 DEF ScopeInv, ScopeTypeOK, Stage, Ignore
    <3>2. commands' \in 0 .. MaxGit
      BY <2>3, GitAssumption DEF ScopeInv, ScopeTypeOK, Stage, Ignore, UsesGit
    <3>3. UNCHANGED <<fixed, disk, head, before, committed>>
      BY <2>3 DEF Stage, Ignore
    <3> QED BY <1>1, <3>1, <3>2, <3>3 DEF ScopeInv, ScopeTypeOK, fixed
  <2> QED BY <2>1, <2>2, <2>3
<1>3. BeforeIsStart'
  BY <1>1 DEF ScopeInv, RunInv, BeforeIsStart, Globbed, fixed
<1>4. ~committed' => HeadIsStart'
  BY <1>1 DEF ScopeInv, RunInv, HeadIsStart, Commit, Edit, Stage, Ignore, fixed, git
<1> QED BY <1>1, <1>2, <1>3, <1>4
     DEF ScopeInv, RunInv, AcceptedStaysInScope, FingerprintedIsUntouched

\* What git lists, short of the old names of renames: all that differs from HEAD
\* and is not ignored, all that is new, and what is left of a renamed path.
LEMMA GitListsChanges ==
    ASSUME ScopeTypeOK, NEW renamed \in Renames, NEW f \in File
    PROVE  /\ f \notin ignored /\ disk[f] # head[f] /\ f \notin renamed
                 => f \in GitChanged(renamed)
           /\ f \in Added => f \in GitChanged(renamed)
           /\ f \in renamed /\ f \notin ignored /\ disk[f] # Absent
                 => f \in GitChanged(renamed)
<1>1. renamed \subseteq Deleted
  BY DEF Renames
<1>2. CASE f \in index
  BY <1>1, <1>2 DEF GitChanged, Deleted, Added
<1>3. CASE f \notin index
  BY <1>1, <1>3 DEF GitChanged, Deleted, Added
<1> QED BY <1>2, <1>3

\* A run that is accepted was judged on every path git sees changed and on
\* every fingerprint that differs.
LEMMA FinishKeepsInv ==
    ASSUME ScopeInv, NEW exitCode \in {0, 1}, Finish(exitCode)
    PROVE  ScopeInv'
<1> USE DEF Finish, fixed
<1>1. PICK renamed \in Renames :
         at' = IF Violated(ActualChanges(renamed)) \/ exitCode # 0 THEN "raised" ELSE "accepted"
  OBVIOUS
<1>2. ScopeTypeOK'
  BY <1>1 DEF ScopeInv, ScopeTypeOK, git
<1>3. AcceptedStaysInScope'
  <2> SUFFICES ASSUME at' = "accepted", ~committed
               PROVE  /\ Changed # {} => scope.mode = "write"
                      /\ \A f \in Strayed : disk[f] = Absent
                      /\ Injection(Strayed, {f \in Added : InScope(f)}) # {}
    BY DEF AcceptedStaysInScope, Changed, Strayed, InScope, Added, Matches, git
  <2> DEFINE listed == GitChanged(renamed)
  <2>1. ~Violated(ActualChanges(renamed)) /\ listed \subseteq ActualChanges(renamed)
    BY <1>1 DEF ActualChanges
  <2>2. \A f \in listed : scope.mode = "write" /\ InScope(f)
    BY <2>1, ScopeIsRequest DEF ScopeInv, Violated, InScope
  <2>3. \A f \in Changed : f \in File /\ f \notin ignored /\ disk[f] # head[f]
    BY DEF ScopeInv, RunInv, HeadIsStart, Changed
  <2>4. \A f \in Changed : f \in listed \/ f \in renamed
    BY <2>3, GitListsChanges DEF ScopeInv
  <2>5. Added \subseteq {f \in Added : InScope(f)}
    BY <2>2, GitListsChanges DEF ScopeInv, ScopeTypeOK, Added
  <2>6. \A f \in Strayed : f \in renamed /\ f \in Changed /\ f \notin listed
    BY <2>2, <2>4 DEF Strayed
  <2>7. \A f \in Strayed : disk[f] = Absent
    BY <2>3, <2>6, GitListsChanges DEF ScopeInv
  <2>8. PICK to \in Injection(renamed, Added) : TRUE
    BY DEF Renames
  <2>9. to \in [renamed -> Added] /\ \A a, b \in renamed : to[a] = to[b] => a = b
    BY <2>8 DEF Injection, IsInjective
  <2>10. [f \in Strayed |-> to[f]] \in Injection(Strayed, {f \in Added : InScope(f)})
    BY <2>5, <2>6, <2>9 DEF Injection, IsInjective
  <2>11. Changed # {} => scope.mode = "write"
    <3> SUFFICES ASSUME NEW f \in Changed PROVE scope.mode = "write"
      OBVIOUS
    <3>1. CASE f \in listed
      BY <2>2, <3>1
    <3>2. CASE f \in renamed
      <4>1. to[f] \in Added /\ to[f] \in File
        BY <2>9, <3>2 DEF ScopeInv, ScopeTypeOK, Added
      <4>2. to[f] \in listed
        BY <4>1, GitListsChanges DEF ScopeInv
      <4> QED BY <2>2, <4>2
    <3> QED BY <2>4, <3>1, <3>2
  <2> QED BY <2>7, <2>10, <2>11
<1>4. FingerprintedIsUntouched'
  <2> SUFFICES ASSUME at' = "accepted", NEW f \in File, Globbed(f, scope.forbidden),
                      disk[f] # start[f]
               PROVE  FALSE
    BY DEF FingerprintedIsUntouched, Globbed
  <2>1. before[f] = start[f]
    BY DEF ScopeInv, RunInv, BeforeIsStart
  <2>2. f \in ActualChanges(renamed)
    BY <2>1 DEF ActualChanges, Fingerprints
  <2>3. Matches(f, scope.forbidden)
    BY GlobbedIsMatched
  <2> QED BY <1>1, <2>2, <2>3 DEF Violated
<1>5. at' \in {"raised", "accepted"}
  BY <1>1
<1> QED BY <1>3, <1>4, <1>5, <1>2 DEF ScopeInv, RunInv

\* A run refused or timed out is not accepted.
LEMMA EndsKeepInv ==
    ASSUME ScopeInv, Refuse \/ TimesOut
    PROVE  ScopeInv'
<1>1. at' \in {"refused", "raised"}
  BY DEF Refuse, TimesOut
<1>2. ScopeTypeOK'
  BY DEF ScopeInv, ScopeTypeOK, Refuse, TimesOut, fixed, git
<1> QED BY <1>1, <1>2
     DEF ScopeInv, RunInv, AcceptedStaysInScope, FingerprintedIsUntouched

LEMMA StutterKeepsScopeInv ==
    ASSUME ScopeInv, UNCHANGED vars
    PROVE  ScopeInv'
<1> USE DEF vars, git
<1>1. ScopeTypeOK'
  BY DEF ScopeInv, ScopeTypeOK
<1>2. AcceptedStaysInScope' /\ FingerprintedIsUntouched'
  BY DEF ScopeInv, RunInv, AcceptedStaysInScope, FingerprintedIsUntouched, Changed,
         Strayed, InScope, Matches, Added, Globbed
<1> QED BY <1>1, <1>2
     DEF ScopeInv, RunInv, BeforeIsStart, HeadIsStart, Globbed

\* The invariant is inductive.
LEMMA ScopeNextInv == ScopeInv /\ [ScopeNext]_vars => ScopeInv'
BY BeginKeepsInv, CliKeepsInv, FinishKeepsInv, EndsKeepInv, StutterKeepsScopeInv
   DEF ScopeNext

(***************************************************************************)
(* The scope, the worktree, HEAD and the snapshot stay what their types    *)
(* say, and a verdict is one of the three.                                 *)
(***************************************************************************)
THEOREM ScopeTypeCorrect == ScopeSpec => []ScopeTypeOK
<1>1. ScopeInv => ScopeTypeOK
  BY DEF ScopeInv
<1> QED BY <1>1, ScopeInitInv, ScopeNextInv, PTL DEF ScopeSpec

(***************************************************************************)
(* An accepted run that commits nothing changed, of what git can see, only *)
(* paths its scope allows, or took away a path for each that is new in     *)
(* scope; and only a writing run changed any.                              *)
(***************************************************************************)
THEOREM AcceptedRunsStayInScope == ScopeSpec => []AcceptedStaysInScope
<1>1. ScopeInv => AcceptedStaysInScope
  BY DEF ScopeInv, RunInv
<1> QED BY <1>1, ScopeInitInv, ScopeNextInv, PTL DEF ScopeSpec

(***************************************************************************)
(* An accepted run left every file its forbidden patterns glob as it was,  *)
(* whatever it did in between and whatever git ignores.                    *)
(***************************************************************************)
THEOREM AcceptedRunsSpareTheFingerprinted == ScopeSpec => []FingerprintedIsUntouched
<1>1. ScopeInv => FingerprintedIsUntouched
  BY DEF ScopeInv, RunInv
<1> QED BY <1>1, ScopeInitInv, ScopeNextInv, PTL DEF ScopeSpec
=============================================================================
