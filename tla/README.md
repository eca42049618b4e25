# A verification of CIWarden in TLA+

CIWarden lets several coding agents work at once and keeps what they commit
honest: a *conductor* plans the agents' work, launches them, checks their
declared interfaces against one another and puts a session's files into the
repositories; a *commit queue* serialises the commits; an *orchestrator* puts
every commit through a chain of seven *gates*; a *memory gate* measures how far
a module's contract has drifted from the last session's.

This directory holds TLA+ models of these parts, TLC configurations that check
them on small instances, and TLAPS proofs of what matters most for every value
of their parameters. All definitions are translated from the source;
`PROJECT.json` gives the lines of each.

    tlc -workers 2 -config MCCommitQueue.cfg MCCommitQueue    # one run
    tlapm CommitQueueProofs.tla                               # one proof

1. [The system](#1-the-system)
2. [The modules](#2-the-modules)
3. [The runs](#3-the-runs)
4. [Fairness](#4-fairness)
5. [The proofs](#5-the-proofs)
6. [Where the code and its documentation part](#6-where-the-code-and-its-documentation-part)
7. [What is not modelled](#7-what-is-not-modelled)
8. [Plan](#8-plan)

## 1. The system

### Components

| Component | State it keeps | Operations that change it |
|---|---|---|
| Commit queue (`queue/commit_queue.py`) | SQLite tables `commits`, `queue_tokens`; each worker's place, entry and `commit_sha`; the repositories' index and history through git | `enqueue`, `_claim_next`, `process_entry`, `worker`, signals |
| Orchestrator (`orchestrator/orchestrator.py`) and gate services (`gates/base_gate.py`, `gates.py`) | tables `gate_runs`, `merge_tokens`; one handler per request; gates keep nothing | `POST /commit`; `/status`, `/results`, `/verify` read |
| API keys, certificates (`orchestrator/auth.py`, `certs.py`) | the master key's row, PEM files | `ensure_master_key`, certificate generation |
| Stress gate (`gates/stress_gate.py`) | the endpoint's window and its remaining requests; the metrics of a run | requests, three phases of batches, the wait for recovery, the verdict |
| Memory gate, contract stores (`memory/memory_gate.py`, `contract_store.py`, `drift_scorer.py`) | JSON store: generations per module, `session.json`; vector store: session files, `index.json`, `session_state.json`, `live/`; both: `memory_cache.json` | `save_contract`, `commit_session`, `advance_session`, `publish`, the cache; managed runs read |
| Schema capture, LLM client (`memory/schema_capture.py`, `llm_client.py`) | none | none |
| Conductor: graph and release loop (`conductor/dag.py`, `distributor.py`) | the DAG; the loop's `done` and `launched`; agents' states in the manifest; `.done` flags; windows | `build`, `_validate`, `topological_order`, `run_dependency_aware`, `launch_agent_window`, `wait_for_done` |
| Conductor: proofing (`conductor/prover.py`, `memory/peer_checker.py`) | `live/`, conflict reports, the manifest's records | `proof_session`, `PeerChecker.check` |
| Conductor: atomic commit (`conductor/commit.py`, `router.py`, `vdb_io.py`) | worktrees, store, queue entries, staging area | `atomic_commit_multi_repo`, priming, teardown; the router's table |
| Conductor: session and command line (`conductor/session.py`, `cli.py`) | the manifest, the sidecar `repo_paths.json` | `run_session`, `--resume`, wizard |
| Commit log, devlog, hooks (`scripts/`, `hooks/`) | `commit_log.jsonl`, `DEVLOG.md` | `append_entry`, `append_devlog`, `mark_consumed` |
| Launch and maintenance scripts | PID files | start and stop processes, migrate a store |

### How they interact

A session flows from `run_session()` through priming the contract store,
staging an area per agent, the launch (classic: one script for all windows;
dependency-aware: the release loop), the wait for `.done`, proofing, and the
atomic commit, which copies files into worktrees, commits the contracts to the
store and inserts one queue row per repository. From there on *other processes*
take over: a worker per repository claims the row, runs `git add` and `git
commit`, posts the new HEAD to the orchestrator, and that calls the gates over
HTTP, each of which runs its tool in the gates' working directory. Everything
is coupled through shared state on disk, almost none of it locked: the SQLite
databases, the worktrees and `.git/index.lock`, staging directories and their
`.done` files, the manifest, `live/`, and the store's JSON files.

### What is hard, and what would make it correct

| Component | Hard behaviour | What correctness asks |
|---|---|---|
| Commit queue | several workers, agents and other git processes between any two git commands; exceptions and kills between any two steps; the orchestrator's answer coming late or never; a git index shared by all entries | one owner per entry, no entry committed twice, final verdicts, tokens in whose history nothing the queue made is newer than their entry's commit, commits that hold their entry's files and those others have staged, no entry lost without a fault or somebody else's commit, every entry settled |
| Orchestrator | handlers interleave at each await; gates finish in any order, hang, die, answer nonsense; a crash with half the results saved | a token needs a stored pass of every gate; the audit trail is a prefix of the chain; phases in order; every request answered |
| Dependency graph | a search that has to tell finished nodes from callers; an order of agents and an order of repositories derived from it | exactly the cyclic sessions refused; the least topological order; repositories in an order that serves their first agents |
| Release loop | agents signal between any two steps of a pass; windows that do not open; crashes between window and manifest; resumes | no agent before its dependencies; nothing forgotten over a resume; no second window on one staging area; the loop returns and never stalls |
| Proofing | agents rewrite what has been checked; a signal between report and wait; resumes that trust old flags; two agents of one name; schemas that are checked and not published | only finished work is read; what is passed agrees; the wait ends |
| Atomic commit, contract store | conductors lost between any two steps of a commit over several repositories; sessions that overlap in the queue; files truncated before they are written; a gate that reads file by file | nothing is removed that is not queued; no version goes back; pointers keep their order; the gate never judges by older contracts than the session's |
| Routing | conductors that share a manifest and a sidecar; names that stand for repositories; a resume that reads what another wizard has written; an older conductor that rewrites the manifest | files go to the repository that was entered for their agent, and are committed where they were copied |
| Memory gate, solo | runs that end at any step and leave files torn; generations saved before they are judged; modules that come and go; edits between runs | the baseline is the newest generation there is; nothing saved is overwritten; the cache passes only what has passed |
| Stress gate | requests served late, batches and windows that drift against each other; an emulator that dies in mid-phase; a recovery that is disturbed by being looked at | load within the limit is not refused; looks end with the window; every run ends with a verdict |
| Commit log | two hooks and two writers on files without a lock; chains that save row by row while hooks look their rows up one by one; a HEAD resolved late | lines are lost, doubled or marked unread only where two of them meet; what a line records is the run that let its commit pass or later, row by row |

`PROJECT.json` lists each hazard at its line with the properties aimed at it.

## 2. The modules

| Module | Models | Composition |
|---|---|---|
| `SerialCommits` | what the queue promises: one entry in hand per repository, at most one commit each, final verdicts | abstract |
| `CommitQueue` | `queue/commit_queue.py` with git, the agents and the orchestrator around it | `INSTANCE SerialCommits WITH ...`: `ImplementsSerial` |
| `Orchestrator` | `handle_commit()`, `call_gate()`, the gates | |
| `DependencyOrder` | what the launch promises: an agent starts when its dependencies have finished, and the launch returns when all have | abstract |
| `ReleaseLoop` | `run_dependency_aware()`, window opening, crash and `--resume` | `INSTANCE DependencyOrder WITH ...`: `ImplementsLaunch` |
| `DependencyGraph` | `conductor/dag.py`, the grouping by repository | |
| `PeerCheck` | `memory/peer_checker.py`, as operators | extended by `Proofing` |
| `Proofing` | `proof_session()`, `wait_for_done()`, conflict reports, crash and `--resume` | uses `PeerCheck` |
| `DriftScore` | `memory/drift_scorer.py`, as operators in whole numbers | extended by `MemoryGate` |
| `MemoryGate` | the memory gate in solo mode over either store, with its cache | uses `DriftScore` |
| `CommitLog` | the hooks, `update_commit_log.py`, `write_devlog_entry.py` | |
| `StressGate` | `gates/stress_gate.py`: endpoint, load runner and verdict over a clock | |
| `Routing` | the wizard's repositories, sidecar, manifest, router, and the commit's grouping, for several conductors | |
| `SessionCommit` | `run_session()`'s order, `atomic_commit_multi_repo()`, the contract store, the memory gate in managed mode, the workers at the grain of whole commits | the composition of conductor, store, queue and gate |

`MC*` modules give the constants of one of them values for TLC; `*Proofs`
modules hold theorems. An operator with "Mutant of ..." above it is a plausible
bug of the definition below it; nothing uses it. With it in place of that
definition the property named in `PROJECT.json` fails, which shows that the
property can.

### CommitQueue

`rows`, `lastId` and `tokens` are the database. A repository is, per file,
whether the working copy differs from the index (`worktree`) and the index from
HEAD (`index`), and the list of its commits (`log`), with who made each and the
files it changed; a SHA is a position in it. Histories only grow: nobody amends,
resets or switches branches in a worker's worktree. `pc`, `cur`, `head` are a worker's
place in `worker()`/`process_entry()`, the entry it has in hand and its local
`commit_sha`. Each transaction, git command and HTTP exchange is one action:
`Claim` (the `BEGIN IMMEDIATE` transaction), `ClaimNothing`, `ClaimContended`
(database locked), `WaitForIndexLock`, `Add`/`AddFails`,
`GitCommit`/`GitCommitFails`, `RevParse`/`RevParseFails`, `Post`/`PostFails`, `Answer`,
`SaveToken`, `MarkDone`, `MarkFailed`. `Raise` is an exception anywhere in
`process_entry`, after which the handler marks the row failed with whatever it
has (`NULL` for the SHA); `Die` is a kill. `RevParseFails` is neither: the return
code is not looked at, and the empty output goes on as the SHA (`NoSha`).

Others work in the same worktree. `OutsideLock` takes and releases the index lock;
where a repository is `Shared`, `OutsideStage` is somebody's `git add` and
`OutsideCommit` somebody's `git commit`, of what is staged (the queue's own
files included: an entry can then find "nothing to commit" and fail), of paths,
or with `-a`. `theirs` remembers who staged a file, and such a commit has
`Nobody` as its author. `git commit` in `process_entry` has no pathspec and
`rev-parse` is a second command, so both matter to it. `Edit`, `Enqueue` and
`ChainEnds` (the gate chain of a request, external) are the other surroundings.
Left out: the contents of files, messages, times, the file list's validation
beyond "not empty", the read-only commands.

### Orchestrator

A request's handler is `pc` and `pos` (where its loop stands); `calls` are
outstanding gate calls, `reply` what came back, `audit` and `tokens` the two
tables, `tree` the directory the gates run in, which `Move` changes at any time.
`Begin` calls all parallel gates; `GateRuns`, `CallFails` (no service, reset,
time-out, not JSON), `ForeignAnswer` (JSON without a status, which raises
`KeyError` when it is saved) end a call; `Gathered`, `SaveParallel`,
`CallSequential`, `SaveSequential`, `IssueToken` are the handler;
`DatabaseError` and `Crash` the faults. A request stands for its commit: the
gates receive neither SHA nor branch.

### ReleaseLoop

On disk: `state` of each agent (memory and manifest agree after each
transition), `windows` opened, `flag` (`.done`), `staged` and `stray`
(deliverables, and untracked files that match a `module_key`: the soft signal).
In memory: `done`, `launched`, and `pc`/`pos`, for a pass goes agent by agent.
`Seed` reads the state back, `Test`, `Promote`, `Release`, `OpenWindow` or
`OpenFails`, `MarkRunning`, `Guard` follow the loop's body in order; `Stop` and
`Resume` are a lost conductor and its successor. The states `failed` and
`blocked` are never written by anything and the deadline is never given, so
neither is modelled.

### DependencyGraph

One computation, step by step: `Read` takes a prompt (any set of mentioned
numbers, foreign ones and itself included), `Root`, `Look`, `Finish` are the
depth-first search with its stack of frames, `CountEdges`, `Emit`, `Ordered`
Kahn's algorithm with the sorted queue, `Group` the grouping in
`atomic_commit_multi_repo()`. The reference definitions are beside it: `Cyclic`
(some set of agents each of which waits for another of the set) and the least
topological order (`OrderIsLeast`).

### PeerCheck and Proofing

A schema has entries for modules, in one of three shapes: under the key "modules", as
one bare entry, or as a mapping of modules to entries. An entry has the symbols
exposed and consumed, with signatures, and the assumptions. `Conflicts` are the three
checks, which read all three shapes; only the first is `Published`. In
`Proofing`, `schema` is what lies in the staging directories, `working` the
agents at their windows, `live` the published files. `Gather` picks the agents
(one per `module_key`, the last), then for each in the order of names `Publish`,
and `Clean` or `Conflict`, `Report`, `Clear` (the `.done` is cleared *after* the
report is written, and the agent may answer in between), `Wait`, and over again.
`stale` is a history variable, not state of the program: the agents that a
restart mistook for finished because their `.done` or their manifest state stood.

### SessionCommit

The conductor (`at`, `session`, `turn`), the disk (`manifest`, `staging`,
`staged`), the store (`counter`, `file`, `index`), the worktrees (`tree`), the
repositories (`history`), the queue's table (`entries`) and the run of the
memory gate (`gate`). `CommitSession` is four steps because `write_text()`
truncates and then writes and others read in between. A contract is reduced to
the session that wrote it, a file of a repository to whose version it is: every
session rewrites the same file, which is when the order matters. `Land` is a
worker from claim to `git commit` (its inside is `CommitQueue`'s); the gate's
reads are single steps (`GateStarts`, `GateReadsLatest`, `GateReadsPrevious`,
`GateScores`, `GateAnswers`), one run after another because the service is one
process without an await in a run.

Simplifications, each on purpose: conductors follow one another, as the one
manifest in the staging base demands; every repository has a worker that stays
up; an absent and a torn JSON file both read as `{}`, as `_read_json` has it;
the manifest and `session_state.json` are written in one step (a torn one ends
in an exception on the next start, after which there is nothing to check).

### MemoryGate and DriftScore

Versions stand for what a module's code or its declared schema says; `Summary`
gives each version's contracts, assumptions and dependencies, and the score is
computed from them, a fraction in ten-thousandths rounded as the code rounds it.
`threshold` is what a run of the gate compares it with: one of `Thresholds`, for the
code reads it from `CDMAD_DRIFT_THRESHOLD` when the gate is made (5000, that is 0.5,
is only the default; one between two ten-thousandths counts as the upper).
`file[n][m]` is generation `n` of module `m` in either store. A run is `Begin`
(discovery and cache), `Load`, `AdvanceSession`, `SaveContract` and `Compare`
for each module in the order of names, `CommitFile` and `CommitIndex` (vector
store), `Answer`. `Stop` ends it at any step and may leave the file that was
being written torn: a torn session file raises on the next run, a torn
generation raises in the JSON store only, a torn index or cache reads as none.
`NameRank` is the order of file names, in which `gen_10000` comes before
`gen_9999`; `Base` and `Widest` shrink it so that runs meet the edge. That the
syntax tree yields no assumptions is an assumption on `CodeVersions`
(`_from_python()` returns none); source that does not parse as Python, and is
then read by the patterns for Rust, is outside of it.

### CommitLog

Commits are numbers; a line of the log is a commit, what was found in
`gate_results.db` for it and whether it is consumed; a section of `DEVLOG.md` is
the set of commits it lists. `db` is that database as a sequence: a chain saves the
rows of its gates one by one (`Save`), in the order in which `update_commit_log.py`
reads them (`GATE_NAMES`, which is the registry's), and its token after the last. A
row's status is not modelled: a chain may end after any of its rows (`Ends`,
`EndsUnheard`), as it does where a gate fails, and only one with a token lets a commit
pass. A committer has one request under way at a time; one that has stopped
listening does not start another before its chain has ended.

A developer goes through `BeginCommit`, the chain (`Halts`, `Passes`), perhaps the
logging of `pre_commit.py`, `Commit`, and the post-commit hook's logging. A queue
worker commits first (`WorkerCommits`), its hook logs, and then it resolves HEAD
itself (`WorkerResolves`, to the empty SHA where that fails) and has it judged.
Logging is `Resolve`, after git has released its lock, so that HEAD may be another
commit by then; `ReadShas`; `ReadRow` for each gate and the token, keyed by the
commit; if there was none of its gates, `Fallback` to the commit of the newest row of
all and `ReadRow` again; and `AppendEntry`. A line's `run` is thus where in `db` each
of its rows is, of one commit but of any number of chains. `own` is a history
variable: the rows of the chain that let a developer's commit pass.

A writer goes `Load`, `ReadDevlog`, `FillDevlog`, `ReadLog`, `MarkConsumed`. Reading
a file and truncating it are one step, since what is appended in between is gone in
either order.

### StressGate

Time is counted in half seconds. `Tick` passes at any moment and without limit,
so a request is served, and a sleep ends, any time after it is due; the windows
of the endpoint (`window`), the batches' pace (`age`), the phase (`left`) and the
wait for recovery (`clock`) are timers that stop counting where nothing depends
on them. `Send`, `Answer`/`NoAnswer`/`Refusal` and `Collect` are a batch,
`EndPhase` goes to the next, `Look`, `LookFails`, `LookAgain`, `GiveUp` measure
the recovery, `Judge` compares. `Dies` ends the emulator.

### Routing

`at` and `session` are each conductor's place and session, `manifest` and
`sidecar` the two files all of them share. `Ask` is one question of the wizard,
answered by a path (`EnterPath`) or a name (`EnterName`); `Confirm` empties the
sidecar and `FillSidecar` writes it (an empty one reads as no paths), `Distribute`
writes the manifest, `ResumeSession` reads it, `Route` builds the router from the
sidecar, `UpdateState` is the manifest written again at any transition of the
release loop, whoever has written it since, and `Commit` makes the entries. `typed`
is a history variable: what the operator has entered for each agent, whatever names
it went by.

## 3. The runs

| Run | Instance | States | What it shows |
|---|---|---|---|
| `queue` | 1 repository, 1 worker, 2 entries, 2 files of which one is edited, 2 faults, somebody else who stages and makes 1 commit | 1,831,140 | The queue as it is meant to be deployed: a token's entry landed and passed, and in the history its SHA names nothing the queue made is newer than its commit; a commit changes files of its own entry, of earlier ones that were staged and never committed, and what others have staged, nothing else; an entry is lost at most per fault or commit of others; the queue implements `SerialCommits`. |
| `queue_two_workers` | 2 workers on 1 repository, 2 entries, 1 file, 1 fault, fair | 420,912 | What survives two workers: one owner per entry, no entry committed twice, final verdicts, every entry settled. |
| `chain` | 2 requests at once and a refused one, 2 + 2 gates, 2 trees, 1 fault | 42,992 | A token needs the whole chain, the database holds a prefix of it, requests are answered. |
| `release` | 3 agents, dependencies `a1 -> {a2, a3}`, `a3 -> a2`, 2 faults | 231,522 | The loop implements the launch in dependency order, forgets nothing over a resume, opens a second window only for a crash, never stalls, returns. |
| `proofing` | 4 agents (one dropped for its name, one that stages nothing), 1 crash | 740,022 | Only finished work is read, what was waited for and passed agrees with what was published before it, waits end. |
| `proofing_ghost` | 2 agents, no crash | violated | A module given up in a rewrite stays in `live/` and serves a peer. |
| `graph` | all dependency relations over 4 agents, 2 repositories | 85,030 | Exactly the cyclic sessions are refused, the order is the least topological one, each repository's first agent is served. |
| `session` | 2 sessions, 2 repositories, 1 module, 2 faults | 3,608,549 | Staging areas go only when all is queued, sessions repeat only after crashes, histories move forward, pointers keep their order, the gate is not stale. |
| `memory` | 2 modules, 2 versions of code and 2 of schema, 4 runs, 2 edits, 1 fault, both stores, thresholds 0.1501, 0.4501, 0.5501 | 8,821,244 | A module is compared with the newest generation there is; nothing saved is overwritten; what passes from the cache has passed; which changes can block at which threshold. |
| `commit_log` | 1 developer, 1 queue worker, 2 writers, 2 gates, 2 commits, 5 rows and tokens, 1 fault | 4,282,096 | Which lines and narrations can be lost, doubled or marked unread; what a line records is never older than the chain that let its commit pass, row by row as far as it is of the parent or of the commit itself. |
| `stress` | limits of 1, 3, 4 and 5 over batches of at most 2, 3 phases, 2 faults | 1,076,196 | With a limit of two batches nothing is ever refused, and a run fails for a late look only; the endpoint recovers within the looks that fit in a window; every run ends with a verdict. |
| `routing` | 2 conductors, 2 sessions, 2 agents, 2 repositories, 1 conductor stopped | 5,693,983 | Files go where the operator said unless a name was given two meanings or the sidecar is another session's; files are copied where they are queued. |

**Bounds.** `MaxEntries`, `MaxFaults` (`MaxLost`), `MaxCrashes`, `MaxSessions` cap how often
something is begun or fails. Two runs have a state constraint as well, in their `MC`
module. `OneFileEdited` (`queue`) has entries of one file each, and one of the two
files unchanged throughout, which is enough for an entry whose commit holds nothing of
its own: without a bound on the index the outside stages and commits make too many
histories. `Apart` (`commit_log`) has the writers come while no chain is under way and
no more than one has been saved: chains and writers share no state, only hooks that
read what the one saves and append to what the other rewrites. Two entries make every queue hazard of this code possible: they all lie
between one entry and an earlier or a concurrent one. Two faults allow a fault
while the consequences of another are about (a resume that is lost again). Three
agents are the least with a direct and an indirect dependency and with an agent
listed before those it waits for; four give shared
dependencies that are reached twice, cycles with a tail, two waves of two agents
and repositories that interleave. Four agents in proofing give a pair of the same name, one that is checked first
and never again, and one without files. Two parallel and two sequential gates
give each loop a first, a last and a next gate. Two sessions give one that
waits in the queue or at the gates and one that follows. Four generations in the
solo gate give a baseline that is not the last one, and names on both sides of
the width of the padding. One developer and one worker give two hooks at once,
with `pre_commit.py` for one commit as well; two writers run once each, so that
each meets the other, or comes after it, at every step. Two gates and five rows and
tokens are a whole chain and another that ends before its token, of the parent, the
commit or a failed `rev-parse`. The three thresholds in
`memory` are just above the most that a drift without changed contracts reaches, the
most without changed assumptions, and the most of all. The limits in `stress`
lie below one batch, between one and two, at two and above, and phases of four
ticks have two batches and an overlap with the next phase. Symmetry is used in
two runs, over writers and over conductors, which no definition tells apart.

**Deadlock** is not checked: in each model the system may really stop. Workers
are stopped, requests have all been answered, a launch or a computation is
over, an operator does not resume.

**How properties are conditioned.** A condition in a property marks the edge of
what holds, and stepping over it gives a counterexample, so each is worth
knowing:

- `TokenProvesSerial`, `CommitOwnsItsFiles`, `LossesNeedFaults` and `ImplementsSerial`
  need one worker per repository (`OneWorkerPerRepo`), which nothing in the queue
  enforces.
- `TokenProvesSerial` says what a token proves when others commit in the worktree as
  well: not that its SHA is the entry's commit, but that the entry landed, that the
  chain passed the entry's request, and that the queue made nothing after it that the
  SHA's history holds. An empty SHA, from a `rev-parse` that failed, names no
  history. Where nobody else commits and `rev-parse` does not fail, the SHA is the
  entry's own commit.
- `CommitOwnsItsFiles` excepts what others have staged (`theirs`), since `git commit`
  has no pathspec.
- `LossesNeedFaults` bounds losses by faults and others' commits: one exception after
  `git commit`, one failing `rev-parse` or one commit before it does lose the SHA,
  one kill does strand a row.
- `ReadsFinishedWork` and `PeersAgreeWhenProved` leave out the agents that a
  restart mistook (`stale`) and those without a `.done` of their own (`Soft`).
  `PeersAgreeWhenProved` also leaves out what comes after an agent whose schema is not
  under "modules", which is checked but not published.
- `WaitEnds` starts from `cur \in working`: an agent that answers between the
  writing of its report and the clearing of its flag is not at work any more
  when the wait begins, its signal is gone, and the wait has no end. That
  lost signal is a behaviour of the model and of the code.
- `GateNeverStale` holds without faults. With one, a resumed session that
  commits its contracts again truncates its own file while its first entry is
  at the gates, and the gate falls back on an older session.
- `LaunchReturns` excludes agents marked running without a window
  (`NeverWedged` is the statement without the exclusion).
- `BaselineIsNewest` ends, in the JSON store, with the numbers that fit into a
  file name.
- `ConsumedIsNarrated` and `LostOnlyInRaces` need writers that take turns
  (`overlap`) and are not cut off; `raced` are the lines appended while a writer
  has the log in hand, which are lost. Each condition is a behaviour of the code.
- `RecordsOwnRunOrLater` compares rows by their place in the database. Where the line
  took another commit's rows, by way of the fallback, only the newest of them is sure
  not to be older than the run that let the commit pass; its other rows, and its
  token, may be of any chain of that commit, older ones too.
- `BlockNeedsChange` goes by the threshold, which the environment may set: 0 or less
  blocks every run that is not passed from the cache or empty.
- `LargeLimitsAreNeverMet` starts at two full batches, since two batches can meet
  in one window when the first is served late. That is the default
  configuration: a limit of 100 and batches of at most 50. `LargeLimitsPass` has
  the same condition, for below it load that is refused fails the run, and leaves
  out faults, for a request that gets no answer does; the exception it states, a
  look that is answered after the timeout, is the one cause left.
- `RoutedAsTyped` excepts sessions in which one name was to mean two repositories
  (`clashed`) and agents whose paths came from another session's sidecar
  (`foreign`); the default repository is out of reach of both.

**What does not hold.** Some definitions state what the documentation, or a
reader of it, expects and the code does not do. No run checks them; adding one to
the `INVARIANTS` (or `PROPERTIES`) of the module's `.cfg` gives the
counterexample.

| Definition | Configuration | How it fails |
|---|---|---|
| `TokenProvesSerial` with two workers | `MCCommitQueueTwo.cfg` | two commits, then both workers read the same HEAD |
| `TokenMeansCleanTree` | `MCOrchestrator.cfg` | each gate sees another tree |
| `NeverWedged` | `MCReleaseLoop.cfg` | an agent without a window counts as running |
| `ProducersFirst` | `MCDependencyGraph.cfg` | repositories that interleave |
| `CommitsItsOwn`, `ComparesTwoSessions` | `MCSessionCommit.cfg` | the next session copies first; priming shares the session's file |
| `BlockedStaysBlocked` | `MCMemoryGate.cfg` | a blocked generation is the next run's baseline |
| `RecordsOwnRun`, `LoggedOnce` | `MCCommitLog.cfg` | another chain saves a row before the hook; two hooks for one commit |
| `AllPeersAgreeWhenProved` | `MCProofing.cfg` | the first agent's schema is one bare entry |
| `PassMeansRecovered`, `NormalIsNeverRefused` | `MCStressGate.cfg` | the timeout is within the limit; two batches in one window |
| `OneEntryPerRepository`, `ResumedAsTyped` | `MCRouting.cfg` | two names for one repository; another wizard's sidecar |

**Type invariants.** Each module has a `TypeOK` (`StressTypeOK` and `RoutingTypeOK` in
`StressGate` and `Routing`). It is a theorem for all of them, so the configurations
leave it out and spend their time on the rest.

## 4. Fairness

| Specification | Fairness | Why the code justifies it |
|---|---|---|
| `CommitQueue!FairSpec` | `WF` of each worker's step | The process keeps being scheduled and each of its waits has an end: `INDEX_LOCK_TIMEOUT_S` for the lock, `ORCHESTRATOR_TIMEOUT_S` for the answer, sqlite's own time-out for the claim. No worker need be restarted, and no gate need answer. |
| `Orchestrator!FairSpec` | `WF` of each handler, `WF` of `CallFails` | The event loop resumes what is ready; the client's time-out of 300 s ends every call. |
| `ReleaseLoop!FairSpec` | `WF` of the loop, `WF` of each agent's `SignalDone` | The loop polls without a deadline; an agent that was given a window is told to write `.done` and does in the end, which is an assumption about agents. Nobody need resume. |
| `Proofing!FairSpec` | `WF` of the conductor, `WF` of each agent's `SignalDone` | The same. |
| `StressGate!StressSpec` | `WF` of the gate's and the endpoint's steps, `WF` of `Tick` | One event loop that keeps running, and time that passes. Nothing bounds how late a step is taken; no fault need occur. |

No strong fairness is used anywhere. `DependencyGraph`,
`SessionCommit`, `MemoryGate`, `CommitLog` and `Routing` have safety properties
only.

## 5. The proofs

Eight modules, checked by TLAPS from the assumptions on the constants alone
(`QueueAssumption`, `ChainAssumption`, `LoopAssumption`, `GraphAssumption`,
`ProofingAssumption`, `GateAssumption`, `CommitAssumption`, `LogAssumption`,
`StressAssumption`, `RoutingAssumption`, all of which TLC evaluates in the runs). They
say that sets are finite where code loops over them, that ranks and orders are orders,
and little else; two are worth a reader's notice: `ChainAssumption` has no gate twice
in the chain (`GATE_REGISTRY` is a dict), and `CommitAssumption` has the conductor go
through repositories that exist. `OrchestratorProofs` and `ReleaseLoopProofs` each
have two components to prove about: the orchestrator and the stress gate it calls, the
release loop and the routing of what it releases. They extend both, so the names of
`StressGate` and `Routing` that every module has carry the component's (`StressSpec`,
`RoutingTypeOK`), and `Routing` calls the agents its `Team`. The bounds are arbitrary
natural numbers, so the theorems hold for any number of entries, sessions, faults and
crashes.

| Module | Theorems | Inductive invariant |
|---|---|---|
| `CommitQueueProofs` | `TypeCorrect`, `ClaimIsExclusive`, `VerdictIsFinal`, `NothingCommittedTwice`; under `OneWorkerPerRepo`: `TokensProveSerial`, `CommitsOwnTheirFiles`, `LossesAreFaults`, `QueueIsSerial` | `ClaimInv`; on top of it `NotYetLanded`, `TokenInv`, `OwnFilesInv`, `LossInv` |
| `OrchestratorProofs` | `TypeCorrect`, `TokensNeedWholeChain`, `PhasesKeepOrder`, `AuditIsAPrefix`; of `StressGate`: `StressTypeCorrect`, `NothingIsRefused`, `LooksEnd`, `LargeLimitsAreJudgedPassed` | `ChainInv`; on top of it `RowsFollowLoops`; `StressInv` |
| `ReleaseLoopProofs` | `TypeCorrect`, `NothingLost`, `LoopImplementsLaunch`, `ExtraWindowsNeedFaults`; for an acyclic graph: `AcyclicNeverStalls`; of `Routing`: `RouteTypeCorrect`, `FilesGoWhereTyped`, `CopiesFollowEntries` | `LoopInv`; on top of it `EachSpentOnce`, `NotStalled`; `RouteInv` |
| `DependencyGraphProofs` | `TypeCorrect`, `SearchIsRight`, `SortIsLeast`, `FirstsAreServed` | `GraphInv` |
| `ProofingProofs` | `TypeCorrect`, `OnlyFinishedWorkIsRead`, `PeersAgree` | `ProofInv` |
| `SessionCommitProofs` | `TypeCorrect`, `GoneStagingIsQueued`, `HistoriesMoveForward`, `RepeatsAreCrashes`, `PointersKeepOrder`, `GateIsNeverStale` | `MoveInv`; on top of it `QueuedInv`, `RepeatInv`, `StoreInv` and, with that, `GateInv` |
| `MemoryGateProofs` | `TypeCorrect`, `GenerationsAreKept`, `CacheIsEarned`, `BaselineFollowsRuns`, `BlocksNeedChange` | `Served`; on top of it `Compared` and `BlockInv`; `CacheEarned` by itself |
| `CommitLogProofs` | `TypeCorrect`, `RunsAreOwnOrLater`, `LinesAreKept`, `ConsumedMeansNarrated`, `CommitsAreNarratedOnce` | `RunInv`, `TurnInv`, `KeptInv`, `ConsumedInv`; `OnceInv` with `LoggedInv` |

Each of these invariants was checked by TLC on the run's instance before it was
proved.

**The queue.** `ClaimExclusive` is inductive once it is known that the ids
beyond the counter are those without a row (`Fresh`): an `INSERT` then touches
no row a worker has in hand; without it a claim could be overwritten. A row that
is settled is in nobody's hands, so no step changes it: `VerdictIsFinal`. An
entry is committed once because whatever is still to be committed (absent,
pending, or with its owner before `git commit`) has no commit in any history:
`NotYetLanded`. The proof of `TokensProveSerial` follows the token through
`process_entry`. After `git commit` the newest commit of the queue in the history is
the entry's, and stays so when others commit; `rev-parse` then names a history of
which that holds, or none (`HeadVouches`); when the answer was a pass the chain has
passed the entry (`PassedIsKnown`); when the row is to be marked the token is stored
(`TokenKept`). One step of it needs `OneWorkerPerRepo` (`NewestAtHead`): between `git
commit` and `rev-parse` nothing else of the queue lands in the repository. It is the
step that fails without it (section 3).

Three more theorems have the same hypothesis. For `CommitsOwnTheirFiles` the
oldest pending row is claimed first (`OldestFirst`), so the entry in hand is the
newest that was ever claimed (`InHandIsNewest`) and nothing older than a landed
entry is still to land (`PassedOver`); what is staged and not `theirs` belongs to claimed
entries that have not landed (`StagedByClaimed`), so a commit's files are its own,
others', or leftovers of earlier entries that never will (`AllExplained`). `LossesAreFaults` counts: the lost entries,
those among them whose worker is in the exception handler or has the wrong SHA in hand
(`Mistaken`), are never more than the faults and the others' commits (`LossInv`), as a
step loses one entry at most (`OnlyOneLost`). `QueueIsSerial` is the refinement: `Home`, `Standing` and
`Landings` say which entry a repository has in hand, how an entry stands and how
often it has landed, every step of the workers is a step of `SerialCommits` or a
stutter, and the abstract queue's order (oldest first, one in hand) is what
`BEGIN IMMEDIATE` gives to a repository's only worker.

**The chain.** That a token needs every gate is not inductive. `Progress`
strengthens it: each gate the handler's loops have gone past has a stored pass,
which in the second loop means all parallel gates and the sequential ones before
`pos`. That takes indices that stay in their lists (`PosInList`), and parallel
gates that have all replied before any is saved (`Awaited`: the meaning of
`gather`). The database only grows (`AuditGrows`), so a crash takes nothing back. `AuditIsAPrefix` needs `Progress` from
both sides: `RowsFollowLoops` says exactly which rows there are at each place of
the handler, the results of as many gates as the loops have gone past, and what
a failure, an exception or a crash leaves is one of these.

**The release loop.** What the loop knows and what the disk says agree in both
directions: the sets hold nothing that is not on disk (`SetsAreOnDisk`), and an
agent the loop has looked at is in the sets if the disk has it (`DiskIsInSets`;
while seeding, for the agents before `pos`). An agent about to be given a window
was ready and has its dependencies in `done` (`AboutToLaunch`); a flag comes
from an agent with a window (`FlagsComeFromWindows`). With these, `OpenWindow`
is the abstract `Start`, or a stutter when a crash makes it a second window; a
signal or a `Promote` is the abstract `Finish`; and the return is a `Return`
(`LaunchStep`, one lemma per kind of step). The dependency relation need not be
acyclic for any of it. `ExtraWindowsNeedFaults` counts what faults were spent on: every
window beyond an agent's first, and every window the manifest does not know of (`Spent`),
since a resumed loop will open another one for it. `AcyclicNeverStalls` takes the
hypothesis `Acyclic`, that every set of agents has one whose dependencies are
outside it: the agents not yet done then have one that is ready or has a window.
That the graph is acyclic is what `_validate()` has made sure of, which is the next
module's `SearchIsRight`.

**The dependency graph.** The frames of the depth-first search are a path in the
graph, and what a frame has looked at is finished or on top of it (`StackIsPath`);
the finished nodes wait for finished ones only and not in a circle
(`FinishedIsAcyclic`). So a back edge closes a circle along the stack, and a search
that ends has looked at everything. The sort's counters are the numbers of
dependencies not yet emitted and its queue the agents for which that is none
(`SortInv`): it takes the least of them each time, and it can only run dry before
the end in a graph with a circle, which the search has excluded. The groups hold
the first agents of the order, each once, and a repository has its turn with its
first agent (`GroupInv`). All of it is one inductive invariant, without an
induction over the graph: circles are sets of agents that wait for one another.

**Proofing.** Nobody works while being passed (`OnlySentBackWork`), since flags
are fresh (`FlagsAreFresh`) and proofing begins when all have signalled
(`AllSignalled`, `RestartsWait`). So what an agent has staged since it was
passed is what `live/` has of it (`LiveIsCurrent`), and an agent passed later was
checked against it if it was published, as collisions and clashes are symmetric
(`ConflictsAreMutual`) and only become more when more of a peer is in `live/`
(`ConflictsGrow`): the agents passed agree pairwise (`PassedAgree`). Nothing of
the kind holds for interface mismatches, which depend on which peers are there
when an agent is checked; `proofing_ghost` is the counterexample.

**The session's commit.** `MoveInv` is what everything rests on: the conductor's
session is the manifest's from distribution on (`ConductorInv`), no worktree is
ahead of the manifest, no history ahead of its worktree, and no entry is queued
before its files are copied (`ForwardInv`); with that, versions only go up.
`QueuedInv` and `RepeatInv` follow the conductor along the repositories: those it
has been at are queued, and queued as often as conductors of this session were
lost, plus once. `PointerInv` is the index, its copy in `commit_session()` and the number of
the file it is about to write, wherever a crash may cut that; `CalmInv` adds that
without faults sessions are stored in the order they were begun. `GateInv` is
about the gate's reads: what is queued is of the index's latest session or an
earlier one (`LatestInv`), and each module the gate has still to look at has
contracts of its entry's session or later in a file that nothing rewrites any
more (`BehindInv`, `Fixed`). The scan takes the highest number, numbers follow
sessions (`CalmInv`), so the gate cannot have taken an older one.

**The memory gate.** `TypeOK` needs to know that a run has a number before it
writes under it (`SessionOpen`). Nothing is on disk beyond that number
(`FilesBehind`), so what a run is about to save is not there yet (`Unsaved`),
and no generation is written over. Finished runs are behind the session and,
in the vector store, behind the index while there is one (`JudgedBehind`);
`BaselineFindsNewest` shows for each store that the generation it looks up is
then the newest, and `Compared` keeps this until the verdict. That the lookups'
`CHOOSE` has something to choose is `HasLeast`, from the library's theorem that
< is well founded; for file names it needs a bound on their rank
(`RankIsBounded`). `BlocksNeedChange` rests on arithmetic over `Score` for
all finite summaries: contracts count for 40 of a hundred at most
(`ContractsCountOnce`), assumptions for 10 and dependencies for 5 (`ScoreBounds`), so
what a score above 0, 1500, 4500 and 5500 takes follows (`WhatScoresNeed`), and a
threshold it reaches takes no less; and where no schema has ever been, there is only
code, which has no assumptions (`OnlyCode`). These cover every property that
the run `memory` checks.

**The commit log.** Three histories have to be related: what let a commit pass is of
its parent and older than every row of the commit itself, since a commit is judged
only once it is there (`GitRuns`); a chain's rows are of the commit it judges, and a
developer's chain judges the parent (`ChainRuns`, `HookRuns`). A hook's queries are
single steps while chains go on saving, so `Looks` says what each place of them knows:
while it reads rows of the commit itself, those found are later than the whole chain
that let it pass; in the fallback, one gate's row is not older than that chain's last
one, either found already or still to be found (`Late`: rows are only added), and of
the parent every row found is that chain's or later. The lines keep what was found
(`LineRuns`); all of it together is `RunInv`. The other theorems are about what is left when nothing locks: while writers have
not met, the one that steps is the only one under way (`TurnInv`). The lines that were
appended are then in the log, or in its hands (`KeptInv`); what is consumed is in
DEVLOG.md, or in the sections it has read (`ConsumedInv`); and what is listed is
not picked again, for it is consumed or about to be (`OnceInv`). The last needs that
nothing is anywhere that was not appended (`LoggedInv`): a commit that is logged
for the first time is in no section. Without "no two writers have met", "no step was
cut off" or "not appended twice" each of them fails in the run's instance.

**The stress gate.** A window lasts a second from its first request, and a batch is
sent no earlier than a second after the last one: `BatchesFit` says of a window that
is open that either it has met the present batch only, so that what remains and what
the batch has used make up the limit, or it has met one batch more and ends before the
batch's second is over (`window + age <= 2`), so it will be gone when the next one may
be sent. Two batches are then all a window meets (`NothingIsRefused`). `LooksFit` is
the same argument with looks a tick apart: what is left of the window and the looks it
has met are together no more than what the window began with.
`LargeLimitsAreJudgedPassed` adds what the metrics say (`NothingFailed`: without a
refusal or a fault, no batch and no phase counts a failure, a streak or a cascade) and
what the verdict is made of (`Judged`: three phases, and a failed run is one `Passes`
refuses). The longest streak of a batch is stated as the greatest `n` for which there
are `n` failures in a row (`Run`), without recursion, and its greatest element exists
for it is bounded (`HasGreatest`).

**Routing.** Until it is distributed, a session is its conductor's alone (`Private`):
no other conductor, manifest, staging area or entry has its number, since numbers are
drawn in order (`Held`); so a wizard's answers change the meaning of no session that
anyone else is at work on. What a session's names mean is then followed from file to
file (`Targets`): in the wizard they are in its own paths (`AnswerMeans`, the step
that needs `clashed`), from the confirmation on in the sidecar, *if* the sidecar is
still its own, and the manifest carries the rest to a resumed conductor. `Routed` says
the same of the router, with `foreign` for the case that the sidecar was another's;
the default is always registered, so a name that is not falls back to it both for the
copy (by name) and for the entry (by agent), which is `CopiesFollowEntries`. The first
agent of a name is one of its agents (`FirstOfThem`), so that one route serves for all
of them. `UpdateState` may write the manifest at any time, but only with what its
conductor's session was distributed with, and while a torn sidecar is about its session
is still `Alone`. With a name map that begins anew at each answer (the mutant
`WithOnly`) the proof fails where it should, at `AnswerMeans`.

**Only model-checked.** Liveness (`EverySettles`, `EveryRequestAnswered`,
`LaunchReturns`, `WaitEnds`, `EndsWithVerdict`) is out of the prover's reach, since it
needs `ENABLED`. Every safety property that a passing run checks is proved.

## 6. Where the code and its documentation part

The run `proofing_ghost` refutes that "nothing reaches the repo until every
agent's output is internally consistent": `_publish_live()` removes no module
that an agent has given up, and it serves a peer until the commit.

The others have no run of their own; most are a definition of section 3 that does
not hold, and `PROJECT.json` quotes the lines.

| Statement | What the code does |
|---|---|
| a queue token proves serial processing; a second worker is harmless because workers "serialize on the DB write lock" | The lock covers the claim only. A commits, B commits, A reads HEAD: A's token names B's commit. Anybody else who commits there does the same, and a `rev-parse` that fails leaves an empty SHA, unnoticed. |
| a merge token records "that the full chain ran clean" for "a specific commit SHA" | Each gate judges the directory of its own moment and is told no SHA. |
| "one un-openable window never wedges the release loop" | The agent is marked running all the same, and nobody ever signals for it. |
| managed mode compares session N with N-1 | Priming commits under the session's own id, so the first session is compared with itself and its drift is 0. |
| drift "is blocked before it can propagate downstream", at 0.5 or more | The blocked generation is saved and the next run's baseline; and without declared assumptions no score exceeds 0.45, so at the default threshold nothing undeclared is ever blocked. |
| the cache skips source that is "unchanged since last pass" | The declared schema, which is extracted first, is not in its hash. |
| the commit log takes "the run that just passed" and is "idempotent" | It takes the latest row per gate of whatever commit has the newest row, of several chains, and a token that may be older; nothing locks the log between look and append. |
| an agent is checked "against all peers already in live/" | A schema in another shape than under "modules" is checked and never published, so two agents may expose one symbol and both pass. |
| BREACH runs at 120 % of the limit and needs "recovery within 30s" and no retry storm | Batches are capped at 50 a second, so the default limit is never exceeded; a target that never recovers is given 30 s and passes; no request is ever a retry. |
| `--resume` reuses the repo assignments "as-is" | The paths are in a sidecar that any later wizard replaces. |
| "each repo receives exactly ONE queue entry" | One per name; two names may be one repository. |

Further ones: merge tokens are never marked used, though they are said to
be single-use; `--resume` keeps the `.done` flags that the README says it clears;
`CDMAD_MANAGED` is set by nobody; proofing is in the order of names and not of
dependencies; a queue entry commits what a later session has copied into the
worktree (`CommitsItsOwn`); a consumer's repository may be enqueued before its
producer's (`ProducersFirst`); a resumed session makes the gate read stale
contracts (`GateNeverStale` without its condition). Also, `commit.py:241-242`
says that repositories within a wave of the graph are in alphabetical order: the
queue of `topological_order()` is one sorted queue and not one per wave, so with
2 depending on 4 and 3 on 1 the order is 1, 3, 4, 2.

## 7. What is not modelled

- `ensure_master_key()`: a check and an insert at the start of the one process
  that calls it.
- Pure computation without shared state: the parsing in schema capture, x509, key
  material, prompt parsing beyond the set of agents it yields. The `LLMClient` is
  used by no gate.
- Pure I/O and process management: terminal windows, PID files, wording of
  reports and logs, the scripts for migration.
- Two emulators on one port, when two chains reach the stress gate at once: the
  second's process ends inside uvicorn. `Orchestrator` has it as a gate that goes
  away in mid-call.
- Two conductors that *work* on one staging base at once. `Routing` has them as
  far as the manifest and the sidecar go; that they would share `live/` and the
  store as well is not modelled, and the code does not mean it to be done.
- Histories that are rewritten (amend, reset, another branch) under a worker: a SHA in
  `CommitQueue` is a place in a history that grows.
- Checkpoints and `live/` files of solo runs, which nothing reads back.
- The inside of git, SQLite, aiohttp, the agents and the tools the gates run:
  external, reduced to the outcomes that `src/` tells apart.

## 8. Plan

The order was chosen so that what everything else rests on comes first.

1. *Done*: `CommitQueue` against `SerialCommits`; `Orchestrator`; `ReleaseLoop`
   against `DependencyOrder`; `PeerCheck` and `Proofing`; their proofs.
2. *Done*: `DependencyGraph`, `SessionCommit`, which composes conductor, store,
   queue and managed gate.
3. *Done*: `DriftScore` and `MemoryGate` with its proofs, `CommitLog`, `StressGate`,
   `Routing`.
4. *Done*: proofs for `DependencyGraph`, `SessionCommit` and `CommitLog`, and for what
   was left of `CommitQueue` (with the refinement of `SerialCommits`),
   `Orchestrator` and `ReleaseLoop`.
5. *Done*: proofs for `StressGate` and `Routing`. No safety property of a run is left
   to TLC alone.
6. Open: two conductors that work on one staging base at once, sharing `live/` and
   the store; the inside of two emulators on one port.
