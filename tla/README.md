# ArchKeel: a TLA+ verification project

ArchKeel observes the architecture of a repository with collector processes
(Python, Dart, TypeScript), judges it against a contract, keeps the known debt
in a baseline that may only shrink, and shows the result in Studio, a local web
server that runs Explore and a coding agent as child processes. This directory
holds TLA+ models of its stateful parts, the TLC configurations that check them
on small instances, and TLAPS proofs that hold for instances of every size.

    tlc -workers 2 -config MCStudioWorkspace.cfg MCStudioWorkspace
    tlapm PackageRenamesProofs.tla

Paths below are relative to `src/archkeel/` of the repository.

## Inventory

| Part | State | Operations | Interacts with | Hard because | Correct when |
|---|---|---|---|---|---|
| Workspace (`studio/workspace.py`) | two locks, run state, graph, cached Snapshot, the Explore child, the folder | `start`, `_wait`, `graph`, `snapshot`, `file`, `close` | handlers, Explore child, story checker | the file is written by a child and read without a lock, while the state changes under two | one run at a time, a reader sees one run's data, nothing outlives `close` |
| Story checker (`cli/__init__.py`, `_story_checker`) | cached session, its path, a generation | `check`, `clear` | Workspace clears it, handlers call it | it builds for seconds with no lock held | a cached session is of the current run |
| Server and handlers (`studio/server.py`) | none but the request in hand | graph, stories, draft, chat, the end of `run_studio` | all of the above | a request makes several calls, between which the run may be replaced | what is sent is of one snapshot; each request ends |
| Agent port (`studio/agent.py`) | `_run`, `_guard`, `_child`, `_closed` | `ask`, `close` | handlers, agent process group, Git | two threads end one process group; helpers outlive their leader | one agent, none after `close`, no hidden edit |
| Session (`cli/launcher.py`, `_studio`) | state file, lock file, stop marker | start, stop, `forget_state` | other CLI processes, the server's HTTP answer | processes meet in two files and a signal; any of them may die | one session per root, which can be found and stopped |
| Collector runner (`analyzer/process.py`) | three pipes, three workers, a queue | `collect_response`, cleanup | collector and its children | pipes fill, processes hang, the deadline and Ctrl-C come at any time | a response is whole, nothing stays behind, it returns |
| Validation gate (`check/validation/`, `ir/baseline.py`, `ir/widening.py`, `ir/measurements.py`, `ir/amendment.py`) | contract, baseline and amendment files | `validate` with its flags | people and CI, over many merges | contract, baseline and code all move, each step alone looks allowed | debt shrinks unless a decision says otherwise |
| Renames (`ir/renames.py`) | none | guess, check and apply the rename between two contracts | Validation gate | the guess is made from packages alone, and what it explains needs no decision | permissions move with their packages and grow nowhere |
| Check protocol (`check/run.py`, `ordering.py`, `git.py`, `ir/lock.py`) | none; reads Git, host records and the accepted lock | `check` | Git, GitHub, GitLab | evidence in an order that people may turn round | a candidate is judged by an expectation published before it |
| Rules (`check/evaluation/`) | none | one verdict per rule | observation, check, validate | a scan leaves names, routes and targets open | a verdict that is not UNKNOWN is that of every code the scan can stand for |
| Delta and expectation (`check/delta.py`, `check/expectation.py`) | none | pairing, guardrails | check | greedy pairing of facts that moved and changed | no change goes unreported, no new debt under a declared change |
| Observation, report, codecs, rendering, collectors | none | pure passes over records | the parts above | size, not behaviour | tests |

`PROJECT.json` lists every part with its status, and the hazards of the code at
their lines with the properties that would catch them.

## Modules

| Module | Models | Builds on |
|---|---|---|
| `StoryCheck` | the story checker's cache and generation | |
| `StudioWorkspace` | Workspace, its waiter threads and the Explore child | extends `StoryCheck` |
| `SnapshotService` | what Workspace promises to its readers, without files, locks or processes | refined by `StudioWorkspace` |
| `StudioStories` | requests of several calls on one Workspace, and the main thread that starts and closes it | extends `StudioWorkspace` |
| `StudioAgent` | `Agent.ask` and `Agent.close`, and the agent's process group | |
| `StudioSession` | the CLI processes that start and stop a Studio | |
| `CollectorExchange` | one exchange with a collector: main thread, workers, pipes, collector and child | |
| `BaselineRatchet` | the validation gate, the two files it writes, and the changes people merge through it | |
| `PackageRenames` | the rename guessed between two contracts, and the merges it lets pass | |
| `RuleVerdicts` | PASS, FAIL or UNKNOWN of seven kinds of rule over what a scan saw, and the complete scans it can stand for | |
| `ObservedFacts` | the facts and counts of an observation that a delta and an expectation compare | extends `RuleVerdicts` |
| `ArchitectureDelta` | pairing of the facts of two observations, and the guardrails of an expectation | extends `ObservedFacts` |
| `CheckProtocol` | `check` in a merge-request pipeline, and the people who commit, merge, push and move main meanwhile | extends `ArchitectureDelta` |
| `PromisedOrder` | what a passing check promises of the order of expectation and candidate, without Git, clocks or phases | refined by `CheckProtocol` |
| `*Proofs` | the theorems about the module they are named after; `StudioStoriesProofs` also those about `StudioWorkspace`, `ArchitectureDeltaProofs` those about `RuleVerdicts` and `ObservedFacts` | TLAPS |
| `MC*` | constants, symmetry sets and bounds for TLC | |

How state and actions correspond to the code:

* **Workspace.** A run is a number; a file, a graph, a Snapshot and a session
  are known by the run they were made from, so "stale" is "of another run". A
  `with` block of two locks is two steps, and each assignment that another
  thread could see halfway is a step of its own (`StartBegin`, `StartUnlink`,
  `StartSpawn`, `StartWaiter`). The waiter is `WaiterReads` (no lock),
  `WaiterLocks`, `WaiterPublishes`. The child writes its file in two steps,
  since `write_bytes` is not atomic, and may exit with 0, 2 or another code.
  The server calls `start()` once; the class is written for restarts, and the
  repository's tests (`tests/test_studio_chat.py`) restart it while requests are
  under way, so the models start a second run too.
* **Stories.** `Arrive`, then one step or call for each call the handler makes.
  A restart may unlink the file between `file()` and the read of it:
  `read_saved_snapshot` then raises `FileNotFoundError`, which the handlers of
  `studio/server.py:302` do not catch, and the request ends without an answer
  (`Dropped`).
  The agent between two of them is any delay. `_answer_story` compares Snapshot
  objects; the model compares what makes them different objects.
* **Agent.** A group is named by the thread that spawned it. Both places that
  end it (`ExecuteEnds`, `CloseEnds`) kill leader and helpers. The tree that
  `_tree_state` reports is a counter of edits.
* **Session.** One process per invocation; `file` is the state file and `lock`
  the file lock, which the operating system frees when its holder ends.
  `running_studio` is a read and then a probe; `forget_state` a read and then an
  unlink. `quiet` is chosen at the start and never changes: in a quiet session no
  server ends by Ctrl-C or `--idle-exit`. `LoudProcs` bounds the processes of the others.
* **Collector.** Bytes are chunks. A `plan` says what a collector does if it is
  left alone; in an exchange that is not `calm` it may also crash, hang or
  leave a child inside or outside its process group, and the deadline and
  Ctrl-C may come at any step.
* **Ratchet.** A tree is code, contract and baseline. People edit any of them by
  hand; `WriteBaseline`, `WriteAmendment`, `WriteBoth` are the three ways the
  tool writes, and `Merge` is a change that passes `validate --baseline --against
  main`. Violations have plain fingerprints or are cycles, whose fingerprint is
  their member set. `ref` is a history variable: code and contract at the last
  merge that carried an amendment.
* **Renames.** A name is a sequence of segments, and a contract has components with
  packages and at most one forbidden dependency, whose target lies outside them. `Accept` is
  a merge without an amendment: the old contract, under the first candidate that
  holds, is compared with the new one as `ir/widening.py` does. Only a module that
  stays where it is matters besides; it is there or it is not.
* **Check.** A Git tree is policy (the contract), lock, expectation and code, and
  a path of it has changed when its value has; a digest is the value itself. Commits
  never change and only grow in number, `origin` holds the two branches, and
  `versions` is the forge's list of the merge request's versions with their host
  times, of which neighbours may be equal. `run` is one call of `check`: `Start`
  authenticates its arguments, `GitOrder`, `HostOrder` and `Evaluate` read what
  is there when their turn comes, `Refused` is the exit code 2 of a
  `ProtocolError`. People act between any two of these.
* **Rules, facts, delta.** A code is what a collector recorded: imports with their
  ends, name, place and typing flag, imports whose names or route are not known, and
  dynamic loads. `Declared` is the declared verdict, `Facts` the six dimensions a
  delta compares, each a set of facts with a logical identity, the rest of their data
  and their places, of which an edge or a cycle keeps the first `EvidenceLimit` (16 in
  the code, 2 in the run). The delta pairs the facts of one identity as
  `_compare_records` does, in a fixed order: equal facts have a number each (`Units`),
  so that what is left unpaired is a set. `Resolution` is not code: it says which
  complete scans an incomplete one can stand for, and the verdicts are held to it. A
  star import is recorded with its names as known; it stays in a complete scan,
  because a contract judges its form too (a module entry of a facade exposes it,
  `ir/model.py:300`), and a complete scan may hold any names it binds beside it
  (`Binds`). `Overlooked` says which star imports a rule decides by the star alone.
  `Evaluate` may find either observation incomplete or its counts inconsistent, and
  then refuses.

## Runs

| Run | Question | Bounds |
|---|---|---|
| `workspace` | Do run state, file, graph, Snapshot and cached session stay together under every interleaving, and does Workspace implement `SnapshotService`? | 2 threads, 2 runs: a first run and a restart, which is what makes data stale; a third run repeats the second |
| `stories` | Is a delivered story drafted from, and checked against, one snapshot; does every request end, is one dropped only when a restart or `close()` overtook it, and does every run leave RUNNING? | 1 handler, 2 runs, 2 requests: a request overtaken by a restart, and one after it; the proofs hold for any number of handlers |
| `agent` | One agent at a time, none after close, no hidden edit; does each question end? | 2 threads, 2 edits: one before and one after a look at the tree |
| `agent_commit` (violation) | Does an agent that commits its edit get past the comparison? | as `agent` |
| `session` | In quiet sessions, one session, which can be found, and stops that tell the truth, with crashes anywhere; in all, does a marker block a start, and does every command end? | 4 processes if it is quiet (a server, a stop, and two that come late), 3 with Ctrl-C and idle exits |
| `session_two` (violation) | One session when servers end by themselves? | 3 processes |
| `session_forget` (violation) | Does `forget_state` remove only its own file? | 3 processes |
| `exchange` | Is a response whole, is nothing left behind, is a bad end named; does the exchange return, and is a healthy collector never left to the deadline? | request 2, pipe 1, output up to 3 with a limit of 2, stderr up to 2, so that a pipe is full with one chunk and the limit is met, reached and passed; the kill of the group may be refused |
| `ratchet` | Does any sequence of edits, rewrites, amendments and merges raise undecided debt? | 1 plain fingerprint, cycles of 3 components, 1 budget, counts to 2, 2 edits beside any number of rewrites and merges |
| `renames` | Can a merge that the gate takes for a rename permit what no decision permits, leave a module ungoverned, or fail to be taken for one? | one component with 1 or 2 packages and one with 1, 5 names of up to 3 segments that nest and share last segments, a rule with up to 1 allowed source, names one segment below all of these; every pair of such contracts |
| `check` | Is a verdict about the accepted policy, is the expectation older than the candidate, is no change or new debt hidden from it, and do declared verdicts hold of every complete scan, but for star imports a rule overlooks? | 2 components of 2 modules and an external one, 3 contracts, 23 codes with undecided imports, aliases, star imports, cycles and typing imports, among them an edge with more places than the limit of 2; 4 commits and 3 versions: main, lock, expectation, candidate, and a push that comes again |
| `check_star` (violation) | Does a declared PASS hold for the names of every star import? | as `check` |

Each property of a passing run has a mutant, a plausible bug in the code, that
makes TLC find it violated. The faults stand in the modules as definitions that
no action uses, each beside the operator it would replace.

What the runs bound and the code does not (number of threads, runs, edits,
processes, counts) is where the proofs are general. The pipes and outputs of
`CollectorExchange` are bounded in the runs only. In `check`, some repositories
start empty and leave every commit and push to the people of the model, with two
codes; the others start with their commits and versions made, in each order of
the pushes, for every pair of codes and several declarations, so that the deltas
are compared on all pairs while people still push and move main.

`StudioSession` and `CollectorExchange` may really come to an end, and in
`check` the bounds on commits and versions stop the people while a check ends,
so these runs do not look for deadlocks; the others do. `StudioStories` has a step that
stutters once the server is closed (`Stopped`), so a deadlock before that is found.

## Fairness

Weak fairness is assumed of what the code runs in threads of its own, and of
nothing that a user or an external process decides:

* `stories`: each handler and waiter thread, the main thread inside
  `start()` and `close()`, and the Explore child, which ends. Requests arrive as
  they like. Locks need no more than weak fairness because every critical
  section is short and no thread takes the same lock for ever.
* `agent`: a thread inside `ask()`. The agent itself never has to end; the timeout
  of `_wait` does it.
* `session`: the steps of a start or a stop. A server need not end.
* `exchange`: main thread and workers; the deadline and the bound of the
  joins in an exchange that is not calm; in a calm one the collector goes on,
  and a child of it that keeps the pipes ends (strong fairness, since it can end
  only while it lives). `ExchangeReturns` names the one exception itself: when
  the kill of the process group is refused, leaving `with Popen` waits for the
  process without a bound.

`check`, `ratchet`, `renames` and `workspace` are about safety and assume nothing.

## Proofs

TLAPS proves, for every value of the constants that meets the named assumptions
(`MaxRunsAssumption`, `ThreadsAssumption`, `AgentAssumption`,
`SessionAssumption`, `RatchetAssumption`, `MainAssumption`, `ExchangeAssumption`,
`NamesAssumption`, `NoneAssumption`, `EditsAssumption`, `FiniteAssumption`,
`RepositoriesAssumption`, `EvidenceLimitAssumption`, `NameAssumption`,
`ContractAssumption`):

* `StudioStoriesProofs`, first half: all the safety properties of the `workspace` run and
  that `Spec` implies `ServiceSpec`. The properties are not inductive. The
  invariant is built in layers: types; `LockInv`, who holds which lock at which
  point of which call; `RunInv`, that only the current run has a child or a
  waiter, which gives one Explore at a time; whose file and graph are visible;
  and that a session built under the present generation is of the present file.
  For the refinement, each action maps to a step of `SnapshotService` or to a
  stutter.
* `StudioAgentProofs`: types, one agent, no agent after close, no hidden edit.
  `GroupInv` says that a live group is that of the holder of `_run` before the
  kill of `_end`, and that `close()` has taken it if it is closing; `EditInv`
  says that from the first edit to the comparison the tree is later than the one
  looked at.
* `StudioSessionProofs`: types, one session, findable servers and truthful stops (in
  quiet sessions), and the marker that blocks a start (in all). `LockInv` says that
  what a lock holder has read is still in the file or has been removed; `ServerInv`
  that a server without the lock is named there, with the marker once it is ending.
* `BaselineRatchetProofs`: types, the exact baseline (`BaselineIsTheDebt`),
  `NoUndecidedDebt`, and that a rewrite without `--accept-new` only shrinks.
  `NoUndecidedDebt` alone is not inductive: a merge keeps it because the baseline of
  main is the debt of main (`MainIsMeasured`) and the contract of main is no wider
  than the decided one (`ContractOnlyNarrows`). A gate that passes compares two exact
  baselines, so that what it says of baselines holds of code; a cycle that is new lies
  in one that was known.
* `StudioStoriesProofs`, second half: `StoriesSpec` implies `Spec` of `StudioWorkspace`, since
  a request makes the calls of Workspace or leaves it alone, so all that is
  proved there holds of the server. On top of that invariant stands one about
  time: `Timely` says that what a request has read was written by no run before
  the one it began with and by none after the present one. `_answer_story`
  compares the Snapshot of the end with the one of the beginning; if they are one,
  everything read between them is of that run too. `DropsOnlyOvertaken` is about the
  requests without an answer: when a file that `file()` named is gone, a restart has
  unlinked it since, so that the run the request began with is over, or `close()` has
  removed the folder.
* `CollectorExchangeProofs`: types, a whole response, nothing left behind, named
  bad ends. `OrderInv` says which stage main is in and what it has then seen,
  `CleanupInv` what the cleanup has ended, `QueueInv` that a
  worker which has posted a result has drained its stream or met the limit, and
  `OutputInv` that the output made never exceeds the plan and is all of it when the
  leader has ended well.
* `PackageRenamesProofs`: types and the three properties of merges that pass as
  renames. The two safety properties hold for any names and whatever the candidates
  are, since nothing is known of a guess but that it holds. A merge is a map from the
  old names to the new that keeps which name holds which (`Explains`). For a module
  that is judged after it, take the longest of the new names that hold it: two names
  that hold one module are nested (`HoldersNest`), so its old name was held by the old
  names of the same ones (`LongestAnswers`), and is judged alike. If no name holds the
  module, an unknown one was judged alike; if the rule allows it, the allowed name it
  was renamed from. That nothing is left ungoverned needs `NothingLeft`: a prefix of
  what holds a module holds the module, so the source of its rule was not renamed.
  `MoveIsFound` is about the guess itself: a package that moves alone is the only pair
  (`PackagesTell`), a single pair is a mapping (`FoldOne`), and the prefixes
  `_shortest()` leaves differ and make the same of what is below the package
  (`ShortestAgrees`). The move holds (`MoveHolds`), and where the shorter one holds as
  well nothing else is below it, so that either gives the same contract
  (`ShorterHoldsAlike`).
* `ArchitectureDeltaProofs`: a rule set that fails on a scan fails on every complete
  scan it can stand for (`FailureHolds`), and one that passes passes on each, the names of
  star imports included, if no rule decides a star import by its star alone
  (`PassHolds`; `check_star` shows that the condition is needed). Kind by kind: what is
  decided of an import does not change when names and routes become known, or for
  the names a star binds (`BoundForbidden`, `BoundInterface`, `BoundRequires`), and
  what is undecided makes the rule UNKNOWN. An import that interface boundary
  leaves to a forbidden rule (AD-18) is rejected by that one; more edges only
  make a cycle larger. Then the delta: the sizes of the two sides differ by
  their unpaired facts (`UnpairedBalance`), so a comparison that shows no
  addition has used all of these up as changes (`AllUsedUp`); with none shown
  at all the facts are equal (`EmptyDelta`). What a fulfilled expectation leaves to
  the delta follows: nothing more violated, crossed or undecided
  (`FulfilledAddsNothing`), cycles inside known ones (`FulfilledShrinksCycles`),
  and declared edges (`FulfilledNamesEdges`). All of it needs that the facts of a code
  are finitely many (`FactsWellFormed`).
* `CheckProtocolProofs`: types, the accepted policy, declared verdicts (by the two
  theorems about rules), `EmptyDeclarationMeansUnchanged` (of the facts as the delta
  keeps them, so up to the places beyond `EvidenceLimit`) and `NoNewDebt` (by the
  lemmas about deltas), and that `CheckProtocol` implements `PromisedOrder`. The
  invariant is `History` (commits have parents among commits, versions grow in time)
  and `RunInv` (what the phases so far have established of the commits of the run,
  which no later commit, push or move of main can undo; its last part, `Compared`, is
  that an evaluation without an expectation failure has compared the candidate with
  the accepted code under the declaration). For the refinement, a strictly smaller
  first host time means a smaller place in the forge's list, because the times of the
  list never fall.

`FiniteAssumption` says that scans and contracts are finite, `NameAssumption` and
`ContractAssumption` that names are nonempty sequences of segments and that
packages and rules hold names, as `ir/codec_contract.py` refuses empty ones (`_contract_strings`).

Model-checked only: every liveness property (the prover has no rules for
fairness of this kind, nor for ENABLED), and the four violations. Nothing is
proved of what `_mapping` makes of several pairs, a fold over a set which would need
an induction over it; the safety properties do not depend on it. Type correctness
of `StudioAgent`, `BaselineRatchet` and `PackageRenames` is proved and not
checked again.

## Findings

* `agent_commit`: `ask()` promises to raise when the run changed a file, but
  compares only what `git status` lists. An edit that the agent commits in a
  clean repository goes unnoticed. The limits in AD-292 do not name this.
* `session_two`: AD-305 keeps one session per root, but a server that ends by
  Ctrl-C or `--idle-exit` cleans up without lock and marker; a start in that
  time takes its file for stale and runs beside it.
* `session_forget`: `forget_state` compares and then unlinks without the lock, so
  it can remove the file of a newer server.

* `check_star`: a forbidden dependency with a `target_symbol` passes a star import, for
  the collector records its symbols as known and `"*"` is not the target symbol
  (`check/evaluation/rule_support.py:127-130`). The docstring above it says that such a
  rule "cannot decide one whose names the scan does not know", and a complete scan
  with the name fails. `DeclaredVerdictHolds` names the exception (`Overlooks`).

Met while modelling, and without a run of their own:

* `check` counts a cycle that falls apart into two as growth (one cycle more),
  although `ir/baseline.py:110-116` describes contraction as shared with it.
* `check --help` says of exit code 0 "merge: all five verdicts passed"
  (`cli/__init__.py:820`), but `run_check` exits with 0 when the declared verdict is
  UNKNOWN (`check/run.py:352`), as `docs/reference.md:640` allows. `TypeOK` of
  `CheckProtocol` therefore claims only what the code keeps: exit 0 comes without a
  failure and without a declared FAIL.
* A restart between `file()` and the read of the file ends a request without an answer
  (`studio/server.py:302` catches `ValueError` only). `run_studio` starts one run, so
  a user meets this only when an embedding restarts the workspace.
* A delta keeps 16 places of a dependency edge or a cycle (`check/delta.py:70`), so an
  import that moves beyond them is no change.

`agent_commit` is outside the environment of the passing run of its module (`AgentNext`),
which says so in its specification. The two of the session are in that of theirs, but the
properties that it checks there hold of quiet sessions only.

## Not modelled

* Windows: no process groups, and a job object ends the children.
* Reuse of process ids while `close()` and `_execute` both end one group
  (`studio/agent.py:175`), a second Ctrl-C inside the cleanup of an exchange
  (`analyzer/process.py:171`), and a probe that gives up on a live server
  (`studio/server.py:455`).
* The fields of the state file, routes, cookies, tokens, prompts, and everything
  that formats or parses.
* In the ratchet: roles of a violation (AD-85), budgets of names (AD-99), an
  introduced contract (AD-104), and most fields of a contract: any
  of them would be one more permission or restriction of the kind that is there.
* In renames: symbols (`module:Name`), the baseline's own names, the layouts that
  place an old name's files and the files left there, the scan of the historical
  revision, mounted contracts, and a renamed contract that the parser refuses. Each
  of them can only refuse a rename that the model accepts, so leaving them out makes
  the two safety properties no easier to keep, and `MoveIsFound` speaks of
  moves that none of them refuses. The rule judges prefixes: a module that no name
  of the old contract mentions, and that already lies under a new prefix, passes
  under the rules moved there, and `RenameWidensNothing` allows it, since it is then
  judged as the moved ones were.
* In check: config and checker digests, a records file that is supplied, the
  evidence of an initial pull request, GitHub's form of the host records, and
  queries and pages of the forge. Fetching is atomic at `Start`, but for the
  versions, which are read in `HostOrder`.
* In the rules: layer order, boundary types, constructs, `inside` contracts, and
  receipts of rules that matched nothing (a PASS of the model may be an UNKNOWN of
  the code, with the same exit code); selectors are the sets of modules they
  select, `dependency_symbols` is on, and external packages are one module each.
* In the delta: typing signals and positions, comparability of runtime, coverage
  and provenance, and renamed paths. In the measurements: budgets of names.
* Collectors, codecs, fact validation, rendering, report and onboarding: three
  quarters of the code's lines. They are single passes over syntax trees and
  records with no state between calls; a model of them would repeat them.

## Plan

Done in this order: `StoryCheck` and `StudioWorkspace` with `SnapshotService`
(the shared state everything else reads), `StudioStories`, `StudioAgent`,
`StudioSession`, `CollectorExchange`, `BaselineRatchet`, then `RuleVerdicts`,
`ObservedFacts`, `ArchitectureDelta` and `CheckProtocol` with `PromisedOrder`,
`PackageRenames`, and the proofs of all of them.

What could follow:

1. Roles in `BaselineRatchet`, an introduced contract, and renames of the baseline's
   own names.
2. Layer order and boundary types as further kinds of `RuleVerdicts`.
3. That the liveness of `StudioStories` follows from a well-founded order of its
   requests, with the steps of that order proved and only fairness left to TLC.
