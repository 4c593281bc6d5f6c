--------------------------- MODULE WorktreeScope ----------------------------
(***************************************************************************)
(* How a codex run is held to its scope (engine/scope.py, worktree.py and  *)
(* _run_codex_sync in providers/codex.py): the worktree has to be clean;   *)
(* the files the forbidden patterns glob are fingerprinted; the CLI runs;  *)
(* git's changes and the fingerprints that differ are the actual changes,  *)
(* and one of them outside the scope fails the run.                        *)
(*                                                                         *)
(* A path is a sequence of segments; so is a pattern, whose segments may   *)
(* be "*" (one segment) or "**" (any number).  Globs inside one segment    *)
(* are left out.  A file is its content and mode in one value; Absent when *)
(* there is none.  Two matchers read a pattern: `matches` of scope.py and  *)
(* pathlib's glob, and they do not read it alike.                          *)
(*                                                                         *)
(* git is external: its index is the paths it tracks, and a diff against   *)
(* HEAD compares the worktree's files.  The CLI may stage and unstage      *)
(* paths, commit, and change what git ignores (.gitignore, info/exclude);  *)
(* it does not set assume-unchanged bits, nor git's configuration.         *)
(***************************************************************************)
EXTENDS Naturals, Sequences, Functions

CONSTANTS File,      \* paths, each a sequence of segments, none below .git
          Ignored,   \* the paths git ignores when the run is asked for
          Content,   \* what a file can hold
          Absent,    \* no file
          Requests,  \* scopes a run may declare
          MaxGit     \* bound: git commands of the CLI

ASSUME FileAssumption    == File \subseteq Seq(STRING) /\ Ignored \subseteq File
ASSUME ContentAssumption == Absent \notin Content
ASSUME GitAssumption     == MaxGit \in Nat
ASSUME RequestAssumption ==
    Requests \subseteq [mode : {"read", "write"},
                       allowed : SUBSET Seq(STRING), forbidden : SUBSET Seq(STRING)]

WholeRepo == <<".">>

VARIABLES scope,     \* the declared scope
          deepStar,  \* pathlib's trailing ** yields files (Python 3.13), or not
          disk,      \* the worktree
          head,      \* the commit HEAD names
          index,     \* the paths git's index holds
          ignored,   \* the paths git ignores
          before,    \* forbidden_state of the moment the CLI was spawned
          at,        \* "asked", "running", then the verdict
          start,     \* history: the worktree when the run was asked for
          committed, \* history: the CLI made a commit
          commands   \* git commands of the CLI so far

git  == <<head, index, ignored, committed, commands>>
vars == <<scope, deepStar, disk, git, before, at, start>>
fixed == <<scope, deepStar, start>>

State == [File -> Content \cup {Absent}]

ScopeTypeOK ==
    /\ scope \in Requests /\ deepStar \in BOOLEAN
    /\ disk \in State /\ head \in State /\ start \in State /\ before \in State
    /\ index \subseteq File /\ ignored \subseteq File
    /\ at \in {"asked", "running", "refused", "raised", "accepted"}
    /\ committed \in BOOLEAN /\ commands \in 0 .. MaxGit

-----------------------------------------------------------------------------
\* The regex of a glob pattern, segment by segment: cut[i] is where in the path
\* segment i of the pattern begins.  `deep` says whether a trailing ** covers
\* what lies below.
Spans(p, f, deep) ==
    \E cut \in [1 .. Len(p) + 1 -> 1 .. Len(f) + 1] :
        /\ cut[1] = 1 /\ cut[Len(p) + 1] = Len(f) + 1
        /\ \A i \in 1 .. Len(p) :
              IF p[i] # "**" THEN cut[i + 1] = cut[i] + 1 /\ p[i] \in {"*", f[cut[i]]}
              ELSE IF i < Len(p) THEN cut[i] <= cut[i + 1]
              ELSE deep /\ cut[i] < cut[i + 1]

IsGlob(p) == \E i \in 1 .. Len(p) : p[i] \in {"*", "**"}

\* matches: a pattern covers the path it is; a glob-free one also covers
\* everything beneath it.
Matches(f, patterns) ==
    \E p \in patterns : \/ p \in {WholeRepo, f}
                        \/ IsGlob(p) /\ Spans(p, f, TRUE)
                        \/ ~IsGlob(p) /\ Len(p) <= Len(f) /\ SubSeq(f, 1, Len(p)) = p

\* The files root.glob yields: a glob-free pattern is that one path, and a
\* directory it names is skipped.
Globbed(f, patterns) ==
    \E p \in patterns : f = p \/ (IsGlob(p) /\ Spans(p, f, deepStar))

\* Mutant: only the files there are, read without `.get`.
Fingerprints_Keys(patterns) ==
    [f \in {g \in File : Globbed(g, patterns) /\ disk[g] # Absent} |-> disk[f]]

\* forbidden_state: the fingerprint of every file globbed, as `.get` reads it.
Fingerprints(patterns) ==
    [f \in File |-> IF Globbed(f, patterns) THEN disk[f] ELSE Absent]

\* For a diff against HEAD: paths that are gone, and paths that are new.
Deleted == {f \in File : head[f] # Absent /\ (f \notin index \/ disk[f] = Absent)}
Added   == {f \in index : head[f] = Absent /\ disk[f] # Absent}

\* git's rename detection, on by default: the deleted paths it may take for the
\* old names of added ones, each for one of its own.  What is alike enough is
\* left open.
Renames == {old \in SUBSET Deleted : Injection(old, Added) # {}}

\* git_changed_paths: what `git diff --name-only HEAD` lists, which is every path
\* that differs but the old name of a rename, and the untracked paths that are
\* not ignored.
GitChanged(renamed) ==
    ((Deleted \cup {f \in index : disk[f] # head[f]}) \ renamed)
        \cup {f \in File \ (index \cup ignored) : disk[f] # Absent}

\* Mutant: only the files there are after the run are compared.
ActualChanges_AfterOnly(renamed) ==
    LET after == Fingerprints(scope.forbidden)
    IN  GitChanged(renamed) \cup {f \in File : after[f] # Absent /\ before[f] # after[f]}

ActualChanges(renamed) ==
    LET after == Fingerprints(scope.forbidden)
    IN  GitChanged(renamed) \cup {f \in File : before[f] # after[f]}

\* `git status` prints nothing.
Clean == index = {f \in File : head[f] # Absent} /\ GitChanged({}) = {}

\* violations: any reason to fail a run that changed `paths`.
Violated(paths) ==
    /\ paths # {}
    /\ \/ scope.mode = "read"
       \/ \E f \in paths : ~Matches(f, scope.allowed) \/ Matches(f, scope.forbidden)

-----------------------------------------------------------------------------
ScopeInit ==
    /\ scope \in Requests /\ deepStar \in BOOLEAN
    /\ disk \in State
    /\ head \in {h \in State : \A f \in Ignored : h[f] = Absent}
    /\ index \in SUBSET File /\ ignored = Ignored
    /\ before = [f \in File |-> Absent]
    /\ at = "asked"
    /\ start = disk /\ committed = FALSE /\ commands = 0

\* require_isolated_worktree: `git status` is not clean.
Refuse ==
    /\ at = "asked" /\ ~Clean
    /\ at' = "refused"
    /\ UNCHANGED <<fixed, disk, git, before>>

\* Mutant: a worktree that is already dirty is taken.
Begin_Dirty ==
    /\ at = "asked"
    /\ before' = Fingerprints(scope.forbidden)
    /\ at' = "running"
    /\ UNCHANGED <<fixed, disk, git>>

\* It is clean: forbidden_state, and the spawn of the CLI.  (The check runs on
\* the loop, the snapshot on a worker thread: nothing of this run lies between.)
Begin ==
    /\ at = "asked" /\ Clean
    /\ before' = Fingerprints(scope.forbidden)
    /\ at' = "running"
    /\ UNCHANGED <<fixed, disk, git>>

\* The CLI writes, creates or removes a file, whatever its scope says.
Edit(f, c) ==
    /\ at = "running"
    /\ disk' = [disk EXCEPT ![f] = c]
    /\ UNCHANGED <<fixed, git, before, at>>

\* It runs a git command, or edits what git ignores.
UsesGit == at = "running" /\ commands < MaxGit /\ commands' = commands + 1

\* It adds a path to git's index (`git add -f`), or takes one out of it.
Stage(f) ==
    /\ UsesGit
    /\ \/ f \notin index /\ disk[f] # Absent /\ index' = index \cup {f}
       \/ f \in index /\ index' = index \ {f}
    /\ UNCHANGED <<fixed, disk, head, ignored, before, at, committed>>

\* It has git ignore a path.  (Lifting a rule would only show git more.)
Ignore(f) ==
    /\ UsesGit
    /\ ignored' = ignored \cup {f}
    /\ UNCHANGED <<fixed, disk, head, index, before, at, committed>>

\* The CLI commits all that `git add --all` adds: HEAD is detached, not fixed.
Commit ==
    LET added == {f \in File : disk[f] # Absent /\ (f \in index \/ f \notin ignored)}
    IN  /\ UsesGit
        /\ index' = added
        /\ head' = [f \in File |-> IF f \in added THEN disk[f] ELSE Absent]
        /\ committed' = TRUE
        /\ UNCHANGED <<fixed, disk, ignored, before, at>>

\* The CLI is done: changes are checked before the exit code is.
Finish(exitCode) ==
    /\ at = "running"
    /\ \E renamed \in Renames :
         at' = IF Violated(ActualChanges(renamed)) \/ exitCode # 0 THEN "raised" ELSE "accepted"
    /\ UNCHANGED <<fixed, disk, git, before>>

\* The timeout: the changes are listed in the message, nothing is decided.
TimesOut ==
    /\ at = "running" /\ at' = "raised"
    /\ UNCHANGED <<fixed, disk, git, before>>

ScopeNext ==
    \/ Refuse \/ Begin \/ Commit \/ TimesOut
    \/ \E f \in File : \/ \E c \in Content \cup {Absent} : Edit(f, c)
                       \/ Stage(f) \/ Ignore(f)
    \/ \E exitCode \in {0, 1} : Finish(exitCode)

ScopeSpec == ScopeInit /\ [][ScopeNext]_vars

-----------------------------------------------------------------------------
InScope(f) == Matches(f, scope.allowed) /\ ~Matches(f, scope.forbidden)

\* What the run changed, leaving out what git ignores before or after it.
Changed == {f \in File \ (Ignored \cup ignored) : disk[f] # start[f]}
Strayed == {f \in Changed : ~InScope(f)}

(***************************************************************************)
(* A run is accepted only if what it changed, as far as git can see, is    *)
(* inside its scope: "an agent that exceeded its brief is caught by the    *)
(* diff instead of trusted to admit it" (scope.py:91-92).  What may leave  *)
(* the scope is the old name of a rename, which the diff does not list: a  *)
(* path that is gone, each for a file of its own that is new in scope.  So *)
(* nothing out of scope was written or created, and no read-only run       *)
(* changed anything.  The baseline is HEAD as the run leaves it, so this   *)
(* is for runs that commit nothing; it also rests on the worktree being    *)
(* clean when they begin.                                                  *)
(***************************************************************************)
AcceptedStaysInScope ==
    at = "accepted" /\ ~committed =>
        /\ Changed # {} => scope.mode = "write"
        /\ \A f \in Strayed : disk[f] = Absent
        /\ Injection(Strayed, {f \in Added : InScope(f)}) # {}

(***************************************************************************)
(* "The baseline is `HEAD`, not the index, so both staged and unstaged     *)
(* changes are caught" (git_changed_paths, worktree.py:102): an accepted   *)
(* run changed nothing that is out of scope.                               *)
(***************************************************************************)
ChangesAreCaught == at = "accepted" /\ ~committed => Strayed = {}

(***************************************************************************)
(* A file the forbidden patterns glob, ignored by git or not, present or   *)
(* absent, committed or not, is after an accepted run what it was before:  *)
(* "a deletion (present before, absent after) and a forbidden-pattern      *)
(* creation (absent before, present after) both trip the inequality"       *)
(* (actual_changes, worktree.py:171-173).                                  *)
(***************************************************************************)
FingerprintedIsUntouched ==
    at = "accepted" =>
        \A f \in File : Globbed(f, scope.forbidden) => disk[f] = start[f]

(***************************************************************************)
(* "`forbidden_state`/`fingerprint` snapshot the forbidden-path subtree    *)
(* before and after a run so `actual_changes` catches those too"           *)
(* (worktree.py:3-6), and a glob-free pattern covers everything beneath    *)
(* it: no accepted run changed anything a forbidden pattern covers.        *)
(***************************************************************************)
ForbiddenIsUntouched ==
    at = "accepted" =>
        \A f \in File : Matches(f, scope.forbidden) => disk[f] = start[f]
=============================================================================
