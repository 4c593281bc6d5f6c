# A verification of the agent fleet's run machinery

The agent fleet keeps *agents* in a pool (one SQLite file, `pool.db`), starts
*runs* of them through the Claude SDK or the codex CLI, and offers them as
*teammates*: agents with a standing conversation that a client can call, leave
running in the background, check on and dismiss. What has to be right is the
bookkeeping around those runs, because several threads, several event-loop tasks
and several server processes work on the same pool, and because a run can end in
many ways: it returns, raises, is cancelled, is dismissed while it is live, or
loses its process. This directory holds TLA+ models of that bookkeeping, the
TLC configurations that check them, and proofs of the parts that do not depend
on the size of the instance.

Paths below are relative to the repository; `engine/` stands for
`src/agent_fleet/engine/` and `mcp/` for `src/agent_fleet_mcp/`.

## Inventory

| Component | State it keeps | Operations | Talks to |
|---|---|---|---|
| Agent pool, `engine/pool.py` | tables `agents`, `runs`, `agent_runs`, `findings`; one `_write_lock` and one connection per process | `save`, `reconcile_session`, `get_by_key`, `start_run`, `begin_run`, `finish_run`, `record_agent_run`, `record_finding`, `delete`, list and find | everybody; the async facade `AsyncAgentPool` runs the same methods on worker threads |
| Teammate server, `mcp/teammate_server.py`, `context.py`, `runner.py` | registry of background tasks (`TeammateRunner._tasks`) | `run_teammate`, `check_teammate`, `roster`, `dismiss_teammate` | pool, dispatch |
| Dispatch and capture, `engine/dispatch.py`, `engine/findings_tool.py` | nothing beyond a run in flight | `prepare_provider_run`, `prepare_run`, `run_with_capture`, `write_finding` | pool, SDK stream |
| Codex provider, `engine/providers/codex.py` | one child process group per run | `run_codex_capture`, `enforce_codex_policy`, `_run_codex_sync`, `_parse_jsonl` | pool, codex CLI, git |
| Codex tool, `engine/codex_tool.py` | one child process group and four tasks per call | `_validate_request`, `run_codex`, `_execute`, `_stop_process`, `_terminate` | codex CLI |
| Pool server, `mcp/pool_server.py` | none | `create_agent`, `run_agent`, `delete_agent`, readers | pool, dispatch |
| HTTP API, `src/agent_fleet_api/` | none | routes over the pool, one that runs an agent | pool, dispatch |
| Acquire tool, `engine/acquire_tool.py` | none | `acquire_capability`: save, list, start, run | pool, dispatch |
| Orchestrator, `engine/orchestrate.py`, `run.py` | the proposed spec | `propose`, `spawn` | pool, dispatch |
| Scope and worktree, `engine/scope.py`, `worktree.py` | none | violations, `forbidden_state`, `actual_changes` | git, file system |
| Generation pipeline, `engine/pipeline.py`, `select.py`, `compose.py`, `source.py` | none | rank, cut, pin, compose | capability index |
| Roster, `engine/teammates.py` | none | expand a TOML roster into teammates | - |
| Capability router, `src/agent_fleet/router/` | an index built once | read-only queries | external package |
| Rendering, `engine/render.py` | one `<key>.hooks.json` per run with hooks, in the pool's directory | `to_options`, `with_subagents`, `with_hooks`, `with_agent_resume` | Claude CLI, which reads the file |
| Settings, command line, domain models | none | pure | - |

How they interact. A client calls a server tool. The server saves or finds the
agent's entry, opens a run in the pool, and starts a coroutine that reads the SDK
stream (or awaits the codex CLI on a worker thread), records which sessions took
part, moves the entry to the session the stream really is on, and finally writes
the outcome. The state they share is the pool; the only other state is the
registry of live tasks, which is private to one server process. Everything else
(is this teammate busy? did its last run fail? is it stale?) is *derived* from
the two, and that is where things can disagree.

What is hard, and what has to hold:

* **Pool.** `save`, `reconcile_session` and `begin_run` read, decide and write in
  two statements; Python's `sqlite3` opens no transaction for the read. Only the
  process-local lock makes them atomic. Wanted: each method is one step; a
  session is *created* by one run only; nothing but `save` brings an entry into
  being; `delete` leaves nothing behind.
* **Teammate server.** The live-run check, the reset of the session, the opening
  of the run and the registration of the task are separate pool calls; a
  dismissal runs on a worker thread between any two of them. Wanted: one live run
  per session; status tells the truth; no reset under a live run; a dismissed
  conversation does not come back; every run settles.
* **Child processes.** Timeout, cancellation, output limit and exit race each
  other, and members of the group may ignore a signal or keep a pipe open.
  Wanted: the call returns, and returns without the process it started.
* **Scope.** A codex run is held to a scope by comparing what git and a set of
  fingerprints say before and after; two matchers read the same patterns, git lists a
  rename by its new name alone, and the CLI can do anything in between: stage, ignore,
  commit. Wanted: an accepted run changed only what it may, and nothing it must not.
* **Direct runs** (`run_agent`, the API route, acquire, spawn). No live-run check
  and no failure stamping; the acquire tool lists and starts in two calls. Wanted:
  what `begin_run` promises, whatever the order; a session belongs to one key; a
  key whose run was heard and finished can be resumed.
* **Capture.** Messages of the main agent, its subagents and background tasks
  interleave, repeat, leave their session out, and may change it; a codex stream
  can contradict its exit code, and two parsers and two gates read the same thing.
  Wanted: one row per agent, in order; an entry that follows the first main
  session; no row that was not earned; one verdict and one policy.
* **Wiring.** Two runs write a settings file into one directory before either
  query opens; servers are mounted in one place and granted in several. Wanted:
  nobody's hooks but the run's own, and no tool that fails when it is called.
* **Assembly.** A ranking, a relevance filter, pins and a budget decide what an
  agent is made of; an acquired agent's key is cut to length. Wanted: what was
  asked for, and a key of its own.

## Modules

| Module | What it is |
|---|---|
| `PoolTables` | the four tables and every pool method as *one* step: the contract |
| `AgentPool` | the pool as the code runs it: lock, read, write, release, with several threads and processes; implements `PoolTables` |
| `TeammateServer` | `run_teammate` from the live-run check to the done callback, dismissals, crashes, over `PoolTables` |
| `RunLifecycle` | the life of a run as a client may observe it; `TeammateServer` implements it |
| `DirectRuns` | the runs nobody supervises, over `PoolTables` |
| `CodexCall` | what is decided around one `codex exec`: the two gates and the two parsers |
| `RunCapture` | one run being captured message by message, over `CodexCall` |
| `CodexProcess` | the supervision of a codex CLI by the tool and by the provider |
| `WorktreeScope` | one codex run from the clean check to the verdict on its changes |
| `Assembly` | how a specification comes about: recall, select, compose, rosters, acquired agents and keys |
| `RunWiring` | `prepare_run` and the wrappers it chains, over `Assembly` |
| `PoolTablesProofs`, `AgentPoolProofs`, `TeammateServerProofs`, `DirectRunsProofs`, `RunCaptureProofs`, `RunWiringProofs`, `CodexProcessProofs`, `WorktreeScopeProofs` | the theorems |
| `MCAgentPool`, `MCTwoProcesses`, `MCTeammateServer`, `MCDirectRuns`, `MCRunCapture`, `MCRunWiring`, `MCCodexProcess`, `MCWorktreeScope` | instances for TLC |

An operator whose name ends in `_Something` and whose comment begins with
"Mutant" is a definition as a plausible bug would have it. No specification uses
one; each shows that a property can fail.

### PoolTables

Each variable is a table (`agents` a function from keys to entries or `NoEntry`,
`runs` a function from run ids to rows or `NoRun`, `agentRuns` and `findings`
sets of rows) or the number of ids minted so far. Ids are numbers in minting
order, so a run id is also its place in `started_at` order. An entry keeps the
two columns that the code treats specially when it overwrites (session and
working directory); specs and texts are left out. A run's row says which options
its opener was given, which the table does not store but the caller acts on:
`fresh` options create the entry's session, `resume` options continue it,
`plain` is `start_run`, which gives none. Every action is one method of
`AgentPool`; `ObserveSession` is the SDK minting a session id of its own.

### AgentPool

`lock` is the `_write_lock` of each process, `pc`, `call`, `row` and `ran` the
method a thread is inside with its arguments and what its SELECT returned, `snap`
the entry a caller got from `get_by_key` and passes to `begin_run` later. A
method that reads and writes is an `Enter` and a `Commit` action; a method with
one statement or one transaction is one action. `ProcessDies` drops a process
between its read and its write. `MethodsAreAtomic` is `PoolTables!Spec`, under
the identity mapping: the locked pool implements the contract.

### TeammateServer

`loop` is the segment (code between two awaits) each server's event loop is
inside: `run_teammate` up to the spawn, the repin of a drifting session, the end
of a codex run. `tasks` has for every run the asyncio task and what it was wired
to, `registered` is `TeammateRunner._tasks`, `awaited` the runs a client call
waits for, `created` the sessions whose history exists at the SDK, `spent` the
events so far against their `Limit`. Inside a segment every pool call is a step
of its own, because worker threads and other servers run between them; other
coroutines of the same server do not. The SDK stream is external: it attaches to
the session its options name or, for a resume, to one of its own, yields, ends
or raises. It may end in any state, before a main message with a session as well:
`run_with_capture` finishes the run all the same. `check_teammate` reads the
entry, the latest run and the registry in three calls on a worker thread; `Status`
is one read of the three, so an answer put together from two moments is left out.

### RunLifecycle

Two variables: `phase`, where each run is in its life (unopened, opening, live,
finished, failed, abandoned, forgotten), and `of`, the teammate it is stored
under. Tables, segments, registry and streams are left out. `TeammateServer`
instantiates it with a refinement mapping (`PhaseOf`, `StoredUnder`): a run is
*opening* while a segment is on its way to wiring it, *live* while its task is,
*finished* or *failed* when its row says so, *abandoned* when its row is open and
nobody is at it (what a client reads as `stale`), *forgotten* when its row is
gone. `ImplementsLifecycle` says that a run is opened only on a teammate that has
none under way, that an ending is final, and that only a dismissal forgets, and
then all the runs of its teammate. `ImplementsFairLifecycle` adds that no run
stays under way for ever. Both are about a server that has its pool to itself.

### DirectRuns

`calls` is what each caller is doing: how far it is, the key, the session its entry
had when the call read it, the options and the run it was given, and the session
its stream is on. `opened` (the options each run's stream was started with),
`created` (sessions that exist at the SDK) and `disturbed` (keys reset or deleted)
are history. The pool calls of one caller are separate steps: `run_agent` reads the
entry, begins the run, then wires the subagents; `acquire_capability` saves, lists,
starts; `Orchestrator.spawn` saves and begins. Which subagents a specification
names is left out: `Wire` goes on, or ends the call if some key is not there.
The end of the stream finishes the run (`Finish`) whatever the stream held: one
whose messages carried no session ends with no row and no repin, straight from
"query" or "first" (`tests/test_orchestrate.py:130-154` has such a stream).
Everything that ends a call other than by returning is one action, `Ends`, from any
point of it, and leaves the row as it is, because no direct surface stamps a
failure. That `Derived[k]` is another key than `k` is an assumption here;
`AcquiredAgentIsAnother` says when the code has it.

### CodexCall and RunCapture

`CodexCall` has no state: a directory, a policy and a request are records of the
facts the code asks about them, a line of the CLI is an event or noise, and the
operators are the two gates (`ToolAdmits`, `ProviderAdmits`), the clamp, the two
parsers (`ToolTranscript`, `ProviderStream`) and their verdicts. `RunCapture`
puts them to work. Two details are left out: the provider also bounds the length of a
thread id it is given to resume (`engine/providers/codex.py:272`), and the tool
refuses a `symbolic-ref` that fails with a code other than 1, which the provider
reads as detached (`engine/codex_tool.py:400`, `engine/worktree.py:87`); `Isolated`
is one operator for both. `consumer` chooses who reads; the locals of
`run_with_capture` keep their names; `rows` is `agent_runs` in insertion order,
`entry` the pool entry's session and 0 once it is dismissed. `sent` and `exited` (the
exit code of the CLI) are history. `TurnAccepted` is the provider's whole verdict:
the changes it found are in scope, the exit code is zero, the stream holds a turn.
Each message handler is one step, since it has no await; a dismissal falls
between two of them.

### Assembly and RunWiring

`Assembly` has no state either. A ranking is an order of the catalog and how many
of it, from the best down, are relevant; `Recall`, `Considered` (the positions the
relevance filter and the pins let through), `Equip`, `Walk` (what is selected after
each entry), `Select` and `Compose` are the pipeline, `RosterAccepts` and `BuildTeammate` the expansion
of a roster, `DerivedKey` and `AcquiredSpec` the acquire tool's. A key is a
sequence of symbols, because its length is what matters. In `RunWiring`, `specs`
is the specification column of table `agents`, `orders` what it was assembled
from (history), `files` the hook files of the directory, and `calls` the calls of
`prepare_run`: the lookup, the subagents, the hook file, the mounting of the
servers, the opening of the query. A server in a tool grant stands for its
wildcard. Whether the SDK's built-in set contains the names `Agent` and
`SendMessage` cannot be read from the repository; the model takes them as not
built in.

### CodexProcess

The variables are the process group (`alive`, `holding` the pipes, `doomed` by a
signal, `reaped` leader) and the call (`at`, `ending`, `cancels`). `via` chooses
the supervisor, `stubborn` which members ignore the polite signal, `prompt`
whether `proc.wait()` returns at the exit of the leader or only when its pipes
close as well, which differs between the Python versions the project allows. The
helpers are external; they stay in the group. Windows is left out.

### WorktreeScope

`scope` is the declared `RunScope`, `disk` the worktree and `head` the commit HEAD
names, both functions from paths to contents, `index` the paths git tracks and
`ignored` those it ignores, `before` the first `forbidden_state` and `at` where the
run is; `start` and `committed` are history, kept for the properties. `deepStar` is
whether pathlib's trailing `**` yields files, which differs between Python versions.
`Spans` is the regex of a glob pattern, segment by segment; `Matches` is how
`scope.py` reads a pattern and `Globbed` how `root.glob` does, directories skipped.

git is external. `GitChanged` is what its two commands list: `git diff --name-only
HEAD` detects renames, so it leaves out the *old* name of a rename whose new name is
in the index (`Renames`; which pairs are alike enough is left open, each deleted path
with an added one of its own), and `git ls-files --others` leaves out what is ignored
when it is asked. `Edit`, `Stage`, `Ignore` and `Commit` are the CLI and have no guard
but that it runs, and that its git commands have a bound (`MaxGit`); a commit takes
everything `git add --all` would. That the CLI could set assume-unchanged bits or
git's own configuration is left out. `Begin` is the clean check on the event loop and
the first snapshot on the worker thread in one step: nothing of this run lies between
them, and that something else might is a hazard of the list without a property.
Globs inside one segment (`*.py`) are left out, and so are `overlaps`, which only
tests call although the docstring of `RunScope` says that an overlap is rejected.
That HEAD is detached and the worktree linked is checked before the run starts, by
the gates of `CodexCall`.

## Runs

Passing runs:

| Run | Instance | Shows |
|---|---|---|
| `agent_pool` | one process, two threads, one key, two working directories, two runs, two sessions | the lock makes every method atomic (`MethodsAreAtomic`): what a method read is still stored when it writes (`ReadIsStillCurrent`), a save keeps the session (`SaveKeepsTheSession`), only a first run creates one (`FreshRunIsFirst`) |
| `two_processes` | two processes with a thread each | between processes methods are not atomic, yet a repin never resurrects a deleted entry (`OnlySaveCreates`) |
| `teammate_mishaps` | one server, one teammate, three calls, one each of reset, drift, cancellation and crash, both providers | one live run per session (`NoSharedSession`), status and row tell the truth (`LiveRunReadsRunning`, `RowTellsTheEnding`), no reset under a live run, and every run has one life (`ImplementsLifecycle`) |
| `teammate_dismissals` | a lead whose toolkit wires a helper, two calls, one reset, one dismissal of either, one failed wiring | with a dismissal between any two pool calls a dismissed conversation stays gone (`DismissedStaysForgotten`) and nothing is reset under a live run; a deletion is complete (`DeleteIsComplete`); under fairness every run ends, leaves the registry and gets its outcome (`RunsSettle`), and nothing is under way for ever (`ImplementsFairLifecycle`) |
| `direct_runs` | two callers, three keys (one acquired from another, one reserved), two runs, two resets or deletions, sessions of the SDK's own, streams without one | a session belongs to one key (`OneKeyPerSession`), later runs resume (`LaterRunsResume`), and can once a run was heard and finished (`HeardKeysCanResume`) |
| `run_capture` | any five messages out of thirteen, or any four lines out of nine under every policy, with a dismissal in between | one row per agent and in order (`OneRowPerAgent`, `MainRowComesFirst`), the entry follows the first main session (`EntryFollowsTheFirstMain`), a codex row is earned by scope, exit code and stream (`CodexRowIsEarned`), two parsers and two gates agree where they should (`ReadersAgree`, `OnePolicyForBoth`) |
| `run_wiring` | two callers, two saves of requests, proposals or acquisitions, a budget of two and a recall of four | an assembled agent is what was asked for (`AgentIsWhatWasAskedFor`), a run loads its own hooks (`RunsLoadTheirOwnHooks`), every agent of a run reaches its servers (`EveryAgentReachesTheServers`), an acquired agent is another (`AcquiredAgentIsAnother`) |
| `codex_process` | a codex process, two helpers, two cancellations, both supervisors | every call returns (`CallReturns`), and without the codex process (`LeaderIsStopped`) |
| `worktree_scope` | three files, one of them ignored, five scopes, any clean or dirty worktree, two git commands of the CLI | an accepted run that commits nothing wrote and created nothing out of its scope, and removed there only what git may take for the old name of a file that is new in scope (`AcceptedStaysInScope`); an accepted run spared every file its forbidden patterns glob (`FingerprintedIsUntouched`) |

Each passing run also checks the type invariant of its module, but for `two_processes`
and `teammate_dismissals`, whose modules another run checks.

Runs that find a documented promise broken (each quotes its line in
`PROJECT.json`):

| Run | The promise | How it breaks |
|---|---|---|
| `reset_then_resume` | resume options load the session's history | `resume=False` mints a new session, `begin_run` sees earlier runs of the key and resumes the new id, which no stream ever created |
| `dismiss_then_repin` | after a dismissal the teammate starts with a clean session | a run dismissed while live repins by key the entry that was rebuilt meanwhile |
| `worktree_forbidden` | forbidding a path covers everything beneath it, and the snapshots catch what git cannot see | a forbidden directory is globbed as the directory alone, which is skipped: an ignored file below it is in no snapshot |

### Divergences without a run of their own

Five properties are stated in the modules and are false of the code. No run is
kept for them; adding the name to the INVARIANTS of the configuration named here
shows the counterexample.

* `OneRunCreatesASession` (`PoolTables`; `TwoProcesses.cfg` with `MaxRun = 2`).
  `begin_run`'s docstring closes the window in which two runs create one session.
  The lock is per process: two servers on one `pool.db` both see an empty history.
* `StaleMeansLostOrElsewhere` (`TeammateServer`; `TeammateMishaps.cfg`). `stale`
  is documented as "this process died or another one owns the run". Cancelling a
  `run_teammate(wait=True)` cancels the task, and `record_failure` does not catch
  `CancelledError`: the row reads stale on the server that ran it.
* `GroupIsTerminated` (`CodexProcess`; `CodexProcess.cfg`). `_stop_process` says it
  terminates the whole group. `_terminate` stops at the leader's exit; a helper that
  ignores SIGINT, or that outlived the leader, is left.
* `WritesArePermitted` (`RunCapture`; `RunCapture.cfg`). `enforce_codex_policy`
  (`engine/codex_tool.py:347-369`) says that a provider run is held to the same
  settings as the tool. It does not look at
  `AGENT_FLEET_CODEX_ALLOW_WORKSPACE_WRITE`, so a codex teammate writes where the
  tool would refuse.
* `ChangesAreCaught` (`WorktreeScope`; `WorktreeScope.cfg`). `git_changed_paths`
  (`engine/worktree.py:102`) says that "both staged and unstaged changes are caught".
  A staged rename is listed by its new name only: a run that moves a file from outside
  its scope to a new path inside it is accepted, and the file outside is gone.

Others follow from the same steps and are stated nowhere as a property.

* *Two servers.* A second server opens a second run on a live session, because the
  registry is per process (`NoSharedSession` with two servers); between processes
  `save` can put back a session another process has just moved
  (`SaveKeepsTheSession` in the two-process instance).
* *Dismissals.* A run dismissed while live still inserts its `agent_runs` row and its
  findings under a run id that is gone.
* *Capture.* `reconcile_session` goes to the first main session, rows to the latest
  one; messages without a session lose the rows of the subagents they start.
* *Acquire.* "Never collapses to the caller's own `agent_key`"
  (`engine/acquire_tool.py:71-73`) is false of a caller of 127 or 128 characters that
  was itself acquired for the same need, and two long callers can share a derived key.
  (At 128 the cut takes the caller's own suffix off; at 127 it leaves the suffix's
  first dash, which the stripping of separators takes off.)
  `build_acquire_server` says that `run_agent` on the derived id continues the
  conversation, but the pool server refuses an id derived from a teammate's key.
  The tool lists and starts in two calls where `run_agent`, whose decision it says
  it mirrors, uses `begin_run`: two acquisitions of one need can both be fresh.
* *Assembly.* `models/agent/request.py:21-23` and `engine/select.py:28` say that naming
  tools replaces the default grant; `compose` adds to it, as its own comment says.
  Pins are said to "survive selection" (`models/agent/teammate.py:47-48`,
  `mcp/pool_server.py:63`); a pinned entry outside the recall limit is never looked
  at, and pinned skills share the budget. A relevant or pinned entry of another kind
  makes `select` raise.
* *Wiring.* `with_findings_tool` and `with_acquire_tool` replace a server of the same
  name and drop a configuration given as a path, where `with_codex_tool` raises,
  after `begin_run` has stored the row. A specification that denies `Agent` or one of
  the mounted tools is stored and run, and does without it.
* *Orchestrator.* `POST /orchestrate` documents "review -> compose -> spawn" and
  passes no pool, so its spawn always refuses. Two proposals of one name share the
  key `orchestrated.<name>` and continue one conversation.

### Bounds

All bounds are constants: `MaxRun`, `MaxSession`, `MaxRows`, `MaxCancels`,
`MaxDisturbing`, `MaxMessages`, `MaxLines`, `MaxSaves`, `MaxGit`, and `Limit`, which says how
often each event of the teammate server may happen. An action at its bound is
disabled, so a run explores every behaviour up to it and may then stop, which is
why deadlock is not checked: the servers wait for calls for ever, and a bounded
instance of them stops.

* Two threads suffice for the lock: it is held by one of them or by none. With
  one key, every pair of methods conflicts.
* Two runs of a key are what "two live runs", "an older outcome" or "first and
  later run" need; three calls allow a run, a mishap and what comes after it.
* One mishap of each kind, in any order and at any step, because each leaves its
  mark (an open row, a foreign session, a missing entry) for good.
* In the teammate runs `MaxSession` cuts no reachable step: one session per call
  and agent, one per reset, one per drift. `direct_runs` has two runs, two
  disturbances and four sessions: two entries' own and two more for streams that
  drift, concurrent or one after the other, or for entries that are reset or deleted
  and rebuilt in between. What a third run would add is left to the theorems of
  `DirectRunsProofs`, which have no bound.
* `MaxRows` bounds the rows of `agent_runs` and `findings` together; in the
  teammate runs one row per run and one finding fit in it.
* A server crashes only while it runs a segment or has live runs: otherwise it
  has no state to lose.
* Five messages hold a dispatch, a start, a start repeated, a change of session and
  a result; four lines hold a thread, a message, an ending and one contradiction.
  The policies vary one setting at a time around one that fits, and so do the
  directories.
* Three skills for a budget of two, five or six entries for a recall of four, and a key
  length of five against suffixes of two, from callers of three symbols and of two, so
  that an acquired key is of the greatest length or one short of it: each limit is met
  and passed.
* One source a scope allows, one it does not, one ignored file; a content and its
  alternative, so that a file is created, changed and removed. Two git commands: a rename needs the
  new name staged, and the old one may be taken out of the index as well; what is
  ignored or staged may be committed after it.
* Two helpers: one that ignores signals and one that does not, one that holds
  the pipes and one that does not.

### Fairness

`FairTeammateSpec` assumes that a segment under way runs on (asyncio's ready
queue is first in, first out), that a done callback runs, and that a stream
eventually yields, ends or raises: the SDK's CLI exits in the end and a codex run
has a timeout. It assumes nothing about calls, dismissals, cancellations or
crashes. Under it `TeammateServer` implements `RunLifecycle` with its fairness (no
run stays opening or live); without it only the safety part holds.
`FairProcessSpec` assumes that a member dies of a signal it cannot ignore, that the
child watcher collects the leader, and that timers fire. It does not assume that
any process exits or closes a pipe by itself. The other specifications state no
fairness and have no liveness property: a direct run that raises is settled by
nobody, which is the code's design.

## Proofs

TLAPS checks the following for every value of the constants. Every safety
invariant and action property of every passing run is a theorem; what is left to
TLC are the three liveness properties.

* `TablesTypeCorrect`, `TablesFreshRunIsFirst`, `TablesDeleteIsComplete`: the
  contract. The inductive invariant `TablesInv` adds `RowsAreMinted` to the type
  invariant (every stored id was minted), without which the next id could already
  be taken. Two lemmas are used by everything above the pool: `IdsGrow` and
  `RunsKeepTheirKey`.
* `PoolTypeCorrect`, `PoolOnlySaveCreates`: the pool with any processes and
  threads. The invariant is `PoolInv`: types, `RowsAreMinted`, `CallersAreMinted`
  (the sessions callers still hold were minted) and `InsideHoldsLock` (who is
  inside a method holds the lock of its process).
* `PoolReadIsStillCurrent`, `PoolMethodsAreAtomic`, `PoolFreshRunIsFirst`,
  `PoolOneRunCreatesASession`, `PoolSaveKeepsTheSession`: under the assumption `SingleProcess` (all threads
  belong to one process). `InsideHoldsLock` then leaves at most one thread inside
  any method, so nothing read can change before it is written, so each commit is
  a step of the contract, so what holds of the contract holds of the pool.
* `ServerTypeCorrect`, `ServerRowTellsTheEnding`, `ServerUsesThePool`,
  `ServerDeleteIsComplete`, `ServerKeepsSessionsApart`: the teammate server, with
  any number of servers. `TeammateInv` ties segments, tasks, registries and rows
  together: what a segment holds was minted, no two segments wire one run, a task's
  row is its own key's, a live task is registered with its server, and a row tells
  how its task ended. `ServerUsesThePool` shows that every step is a pool method or
  leaves the pool alone, so that the contract's theorems carry over. `SessionsApart`
  says that a session is never mentioned (by an entry, a segment or a task) for two
  keys; each step gives at most the session it mints to one key.
* `OneServerLiveRunReadsRunning`, `OneServerImplementsLifecycle`: under `OneServer`.
  `BusyInv` is what the check for a live run is worth: a live run that is stored is
  its teammate's latest, and while a segment is on its way to opening one there is
  none. `OneServerImplementsLifecycle` is the step simulation: every step of the
  server is a step of `RunLifecycle` or leaves every run's phase alone.
* `OneServerNoSharedSession`, `OneServerNoResetUnderALiveRun`: under `OneServer` and
  `NoDismissal`, with `StoredInv` (the row of a live run is stored) and
  `SessionsApart`. A dismissal takes the row the check looks at: the dismissed run
  and the next one are then both live, and a drift of the first moves the entry under
  the second. So one of the two has to be excluded, and either will do:
* `DismissalsNoSharedSession`, `DismissalsNoResetUnderALiveRun`: the same under
  `OneServer` and `NoDrift` (the SDK resumes what it is asked to), with any number of
  dismissals. `AloneInv` adds to `BusyInv` that no live Claude run, stored or
  dismissed, is on the session a segment has read for the next one.
* `DismissedStaysForgottenWithoutDrift`: under `NoDrift`, any number of servers.
  `ForgottenInv` says that no segment repins, that a run stays on the session it was
  wired to, and that this session has left the teammate's entry once the run's row is
  gone, be the run still in a segment or already a task. It rests on two facts about a
  step: an entry only ever gets the session it had or a new one, and a row goes only
  together with its key's entry. With a drift it is false: `dismiss_then_repin`.
* `DirectTypeCorrect`, `DirectLaterRunsResume`, `DirectOneKeyPerSession`,
  `DirectHeardKeysCanResume`: any number of callers. `DirectInv` says of each call that what it holds was minted, that its run
  is its own, and that a run that was not deleted has its key. `Apart` is
  `SessionsApart` for callers and rows. `ListensInv` says that the run of a call is open, and
  has a row just when it is past its first main message with a session. `ResumeInv`
  rests on it: every call of an undisturbed key expects the session its entry is on,
  or that entry is already on a session that exists and that a stored run of the key
  recorded; and once a heard run of it has finished, it is the latter.
* `CaptureTypeCorrect`, `CaptureOneRowPerAgent`, `CaptureMainRowComesFirst`,
  `CaptureEntryFollowsTheFirstMain`, `CaptureCodexRowIsEarned`,
  `CaptureOnePolicyForBoth`: any streams, of any length, and any policies.
  `CaptureInv` relates the locals of `run_with_capture` to the messages so far
  (what is open was dispatched, what is recorded was heard) and each row to the
  message that earned it.
* `ProcessTypeCorrect`, `CallsStopTheLeader`: any helpers, any number of
  cancellations. The invariant adds `ReapedIsGone`: a returncode that is set
  belongs to a process that is gone, and nobody starts the leader again.
* `ScopeTypeCorrect`, `AcceptedRunsStayInScope`,
  `AcceptedRunsSpareTheFingerprinted`: any paths, ignored paths and scopes, any number
  of git commands and any renames git may detect. The invariant `ScopeInv` ties what a run is judged against to the worktree it
  started from: while it runs the fingerprints are those of the start, and until
  it commits HEAD is what git sees of the start. The lemma `GlobbedIsMatched`
  (whatever pathlib yields for a pattern, `matches` covers) is what makes a
  differing fingerprint fail the run; its converse is false, which is the finding
  of `worktree_forbidden`.

* `CaptureReadersAgree`: the codex tool and the codex provider read one stream alike,
  whatever its length. Neither parser is walked line by line in the proof: both keep
  the *last* value they accepted of each field, so `CodexCall` states a transcript by
  the largest position in a set of lines, and the lemmas `SameThread` and `SameAnswer`
  compare the two sets. The attempt showed one divergence the property had to name, a
  later `thread.started` with no usable id (`engine/codex_tool.py:287`).
* `WiringTypeCorrect`, `WiringAgentIsWhatWasAskedFor`, `WiringRunsLoadTheirOwnHooks`,
  `WiringEveryAgentReachesTheServers`, `WiringAcquiredAgentIsAnother`: any catalog,
  ranking, roster, request and any number of calls. `WiringInv` has two parts.
  `StoreInv` ties each order to the specification stored for it and each hook file to
  the key it is named after; `CallsInv` says at each stage of `prepare_run` what the
  options already grant: nothing of ours before the servers are mounted, all of it in
  the main agent and in every subagent after. That an agent is what was asked for is
  an induction over the ranking (`WalkStep`, `SelectFacts`): it is made over the set of
  positions reached, which has a least element, and it needs that `Walk` satisfies its
  own equation (`WalkDef`). `DerivedIsAnother` is arithmetic on lengths: an acquired
  key equal to its caller's ends in the suffix twice over unless the caller was cut
  inside it.

The assumptions are those named in the modules (bounds are naturals, sentinel
values are not data, the leader is not a helper, a scope is one of the two modes,
an acquired agent's key is another than its caller's, a message has no field its
handler does not read; for the wiring, that the inputs have the types the code's
Pydantic models enforce, that a suffix begins with one dash and fits a key
(`SuffixAssumption`), and that no stored specification names one of the servers and
tools the code mounts itself (`ReservedAssumption`; the code does not refuse one that
does, and what it then loses is under *Wiring* above)) and `SingleProcess`, `OneServer`,
`NoDismissal` and `NoDrift` where they are stated.

Two properties were wrong until they were proved. `AcquiredAgentIsAnother` excepted
only callers of the greatest length: the proof failed for a caller one symbol shorter,
and the instance was given keys of both lengths, on which TLC finds it too.
`ReadersAgree` said nothing of the thread id.

Only model-checked: the liveness properties (`RunsSettle`, `CallReturns`,
`ImplementsFairLifecycle`), since the prover has no backend for fairness and
ENABLED.

## Not modelled

* Prompts, texts, models, costs: data no property here tells apart. Emitting a
  program from a specification (`engine/emit.py`), slugs and the efficiency report.
* The arithmetic of BM25, tags and the two-stage ranker: a ranking is an input.
  (`TwoStageRanker` serves the capability router's skill searches only.)
* Time: `latest_run` orders by `started_at`, which is read inside the lock; the models
  order runs as they are stored. The codex timers are nondeterministic choices.
* The codex worker thread as a state of its own in `TeammateServer`: cancelling a
  codex run leaves the thread and the CLI running.
* SQLite itself (durability, `busy_timeout` errors), the one-off migrations, and
  the process-wide singletons of `mcp/context.py`, which are taken as built.
* The capability router (read-only, over an external index), settings, the command
  line, authentication, Pydantic validation: no state over time.
* `scope.overlaps` and globs inside one path segment.

## Plan

Built, in order of importance: the pool contract, the pool as it runs; the
teammate server and the life it gives a run; the direct runs; the capture of a run
and the gates in front of codex; the assembly and the wiring; the child processes
and the scope of a codex run; their proofs. What is left:

1. The codex worker thread as a state of its own in `TeammateServer`: a cancelled
   codex run goes on writing to a worktree whose teammate can already be run again.
   With it, two runs handed one worktree in `WorktreeScope`.
2. Two servers on one `pool.db` in the teammate module. Proved of them: types, the
   rows and what they tell, the pool's contract, sessions of one teammate, dismissed
   sessions that stay forgotten. Open is what a client of both can rely on beyond that.
