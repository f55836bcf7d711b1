# A formal model of redcon

TLA+ modules, TLC configurations and TLAPS proofs about redcon, the program in
`src/redcon/`: it scans and ranks a repository for a task, packs the ranked
files under a token budget, compresses the output of commands, and serves both
to agents through a CLI, an MCP server and an HTTP gateway.

Definitions keep the names of the code where they can, and each models the lines
that `PROJECT.json` ("map") names for it.

## 1. Inventory

| component | state it keeps | operations | what is hard | what makes it correct |
|---|---|---|---|---|
| shared JSON cache (`cache/backends.py`) | one file per repository: summaries, fragments, slices, a timestamp each; a copy in every process | load, get, put, invalidate, clear, save (lock, merge, atomic replace), prune | several processes share the file; a process acts on a copy loaded earlier; writes fail, processes die | nothing saved is lost; what a prune removes it may remove; the lock is released |
| budget packer (`compressors/context_compressor.py`) | per call: seen hashes, prepared files with tiers, remaining budget, seen imports | prepare, then greedy, adaptive, tiered or progressive packing | budgets are tracked on estimates and re-estimated after import stripping; degradation rounds work on snapshots | the budget is kept; every file is accounted for; a file is dropped only when it must be |
| gateway sessions (`gateway/`, `runtime/`) | live runtimes per replica; sessions in Redis or in process; delta base | `/run-agent-step`: find or restore, pack, record, save, answer | threads, timeouts after which the thread goes on, several replicas, crashes, TTL | conversations stay apart; answered turns are durable and continued |
| command runner (`cmd/runner.py`) | one subprocess, two reader threads, a queue | spawn, drain, deadline, byte cap, terminate and kill | deadline, cap and end of stream race; a child that ignores SIGTERM or leaves a grandchild | it always returns or raises; what it returns is a prefix, and flagged when cut |
| command pipeline (`cmd/pipeline.py`, `cache.py`, `delta.py`, `aliasing.py`) | process cache of reports; delta baselines; session ledgers of refs and aliases | compress a command, rewrite against the session | cached text was written against an earlier session; ledgers change even when a rewrite is rejected | each answer can be resolved by a reader who got all earlier ones; it is as detailed as asked for, and of the present |
| scan index (`scanners/incremental.py`) | index of size, mtime, hash and classification, as JSON and SQLite | refresh, reuse, save twice, migrate | files change between stat and read; a crash between the two saves | a refresh describes the files as they are |
| run history (`cache/run_history*.py`, `cmd/history.py`, `scorers/history.py`) | table of past runs in SQLite, the JSON file of earlier versions, the table of `redcon run` in the same database | load, append, attach artifacts, migrate, score | a migration in four steps that fails, dies or runs twice | no run is lost, none counts twice |
| run feed (`core/run_feed.py`) | up to 30 report files, newest kept | write, prune | names are picked by `exists`, files are opened and then written, each pack deletes by a listing of its own | a row of the history points to its own report; the newest reports stay; the feed stays bounded |
| delta reports (`core/delta.py`) | none | pure function of two run artifacts | the artifact of the turn before may be one the client never got | what a turn reports is counted against the pack its client received last |
| ranking (`scorers/`, `page_rank.py`) | none | score files | floating point | determinism |
| tier rendering (`compressors/representations.py`, chunks, symbols, summarizers) | none | text extraction | languages | tiers cost what they say |
| telemetry, control plane, hook, MCP, SDK, CLI, reports | small files or SQLite | append, CRUD, dispatch, format | unlocked read-modify-write | - |

Interaction: the engine scans (scan index, other caches), ranks (with the run
history), packs (the packer renders tiers, looks fragments up in the cache and
puts what it misses), saves the cache, appends to the history and to the feed.
The gateway runs the engine once per turn and keeps the session around it. The
command pipeline is separate: runner, compressor, session rewrites, own cache.

The hazards of this code, each at its line and with the properties that guard
it, are listed in `PROJECT.json` ("hazards"); those without a property say why.

## 2. Plan

Done, in the order of their weight: `SharedCache` with `SharedCacheProofs` and
its abstract specification `KeptEntries`; `Packer`, proved in `PackerProofs`;
`GatewaySessions` with
`DeltaReport`, proved in `GatewayProofs` and `GatewayHistoryProofs`; `CmdRunner`,
composed with the command pipeline in `CmdSession`, proved in `CmdRunnerProofs` and
`CmdProofs`; `ScanIndex`, `RunHistory` and `RunFeed`, composed in `Packs`, proved in
`PacksProofs`.

With that every safety and action property of a passing run is proved; the liveness
property `CallEnds` is left to TLC.

Modelling that is left: the policy a live runtime keeps (part of a request of
`GatewaySessions`), the SQLite summary cache, the telemetry store.

## 3. Modules

### SharedCache

One action per operation of `LocalFileSummaryCacheBackend`. `mem[p]` is
`self._data` of process p, `file` the JSON file, `lock` the flock.

- *Data.* Stores are content-addressed, so an entry is what merge and expiry look
  at: absent, without timestamp, or a timestamp. A key is a key of one store
  together with the one path it names; the substring test of `_collect_prunable`
  (`path in key`) is thereby taken as exact.
- *Steps.* `_save` is split where another process can act: `SaveMerge` (lock, read,
  merge) and `SaveWrite` or `SaveFail` (replace or OSError, unlock). Likewise
  `PruneScan` (the CLI collects `live_paths`, no lock), `PruneMerge`, `PruneWrite`.
  Between lock and write nobody else writes, so reading and merging are one step.
- *Faults.* A process may end at any step (`Exit`, the kernel drops the flock); writes
  may fail; with `ReadsFail` a read finds an empty file; with `Locked = FALSE` the
  lock file cannot be created and everybody runs unlocked (`_cache_file_lock`
  degrades to a no-op). Files are replaced atomically (`io_utils.atomic_write_text`).
- *Callers* look a key up and put it only on a miss (`Hit` guards `Put`).

### Packer

One action per iteration of a loop of `compress_ranked_files` and its packers. A
tier is `[body, imports, full]`: the tokens of its body, its import lines at a
token each, and whether its strategy is "full". `Entry` is `_finalize_entry`:
imports seen before are stripped, the rest re-estimated with a drift of up to
`Drift` tokens and capped by the raw file. `Prepare` skips duplicates and, in any
way, unreadable or unrenderable files. The four modes are those of the dispatch
(`render_mode`, `tiered_policy`, `progressive_packer_enabled`); `whole` is the
sub-budget and the candidates of a tiered policy (split, topk, score).
A stable sort is written as a rank: the k-th element is the one that k elements do
not come after (`LowestScoreFirst`, `InPreparedOrder`); the clamp and the rounds
refer to positions in their lists, as the code refers to the objects there.
Risk estimates, cache snapshots and texts are left out.

### GatewaySessions

`request[r]` is a request with the local variables of its handler, `runtime[r]`
the session of the `AgentRuntime` that request created, `live[rep]` the dict
`_sessions` of a replica, `store` Redis or the dict of each replica. The steps of
a handler are those between which CPython may run another thread: registry
lookup, store load (`Load`), registration (`Register`), reading the delta base, the two halves of
`record_turn` (totals and artifact; number, then append), the answer, the three
reads of `as_dict`, the save, the response. `env` says what the deployment has:
a shared store, sticky routing, timeouts, crashes, lost or unsaved sessions. The
server is the FastAPI one; the single-threaded stdlib server has a subset of its
behaviours. A timed-out request that had not got a thread is cancelled; any other
goes on (`run_in_executor` under `wait_for`).

A request's number stands for its turn and its run artifact. The pack itself is
the engine's business: it fails or gives the context `Context[r]`. Sums of tokens
are `SumFunction`s, which `SumTheorems` knows about.

### DeltaReport

The operators of `core/delta.py` on contexts (functions from paths to entries):
what is added, removed and changed, the package and its tokens. `GatewaySessions`
uses them for the tokens of a turn (`Reported`, `TurnTokens`). The gateway sends no
package: the prompt and the files of every answer are those of the full pack
(`handlers.py:468-516`, `runtime.py:407`); of the delta it reports the files
included and the tokens, and these are what the session adds up. What the delta is
counted against, and whether the client had received it, is what the properties
ask.

### KeptEntries

What the cache promises whoever uses it: entries are added at any time and removed
by one decision that nobody comes between. `SharedCache` maps the keys in its file
to `kept` and what a prune is about to remove to `request`; `KeepsEntries` says
that it implements `KeptEntries`.

### CmdRunner

`run_command` with the threads it has: the subprocess (`child`), a process it left
behind (`grandchild`), two readers (`pump`), the queue, and the main thread
(`main`: loop, the two grace periods of `_terminate`, closing the pipes, reaping).
A command is what it would write and its habits: ending or not, ignoring SIGTERM,
surviving SIGKILL, closing its pipes and going on, leaving a child that holds
them. Bytes are opaque; `read1` returns up to `Chunk` of what is there. The
lock of a buffered stream is modelled where it matters: a reader holds it inside
`read1`, and `close` waits for it. Time is the fact that the deadline has passed
and that a grace period ends.

### CmdSession

`compress_command` on top of the runner. A call builds its key, looks it up, runs
the command, and ends in one of `FinishSpilled`, `FinishUnknown`,
`FinishCompressed`, `FinishRaised`; the tree and HEAD change between these steps.
State of the code: the report cache, the baselines of the deltas, the one ledger a
deployment uses (paths, symbols or blocks, all three as `Bind` and `Rewrite`), the
logs. The level is `SelectLevel`'s, except that `git_diff` answers an empty stdout
at ULTRA (`LevelOf`). State of the observer: what the agent holds of each command (`picture`), which
legends it has read (`explained`), what was printed under which HEAD. `RunShortly`
takes a command that behaves in one step, which the theorem `RunsAreFaithful`
justifies; the commands with habits go through every step of the runner.

A text is a sequence of cells, each a line in full, with a legend, or as an alias.
A compressor keeps some lines (`Only`), a ledger rewrites the lines it knows
(`Rewrite`) and remembers new ones (`Bind`). `Reads` is what an answer does to the
agent's picture: a full text replaces it, a delta patches it, and a delta that was
cut, the name of a log or a lost output leaves it not whole, until the next full
text. `run_command` keeps an output up to the cap (`Kept`), so `CheckoutSeen`
compares with what was printed up to there; `MCCommands` has outputs beyond it.

### ScanIndex, RunHistory, RunFeed and Packs

The files that packs of one repository share. `ScanIndex` is `refresh_scan_index`
step by step: the listing, for each file a stat and, unless an entry has the same
size and mtime, a read, then the JSON and the SQLite save. The load from SQLite is
two steps, the fingerprint (`ScanLoad`) and the entries (`ScanRows`), because the
code reads them outside a transaction; `torn` observes a save of other settings
between the two. `RunHistory` is load and append on SQLite with the import of the JSON
file (read, schema, transaction, rename, each of which can fail); a database that is
unlinked under a process that has it open is kept apart by `linked`. `RunFeed` picks a name, opens, writes, lists and deletes, file by file; its observers
remember when a pack last wrote at a name (`made`), which names were picked twice
(`reused`), by two packs at once or again after a prune, and whether a report was
written at a name that a prune under way had listed (`overtaken`). `Packs` is
the order in which `run_pack` calls them, the attachment of artifacts by the command
line, the clock, edits of the tree, `redcon run`, and crashes. `Second` makes the
stamp of a report name from a clock with `PerSecond` ticks in a second; history
orders runs by the exact time. The scan shares no file with the records, so a
deployment looks at one or the other. Scores are left out: the history that a
load returns is state, what is computed from it is not.

## 4. Runs

| run | checks | instance |
|---|---|---|
| `cache` | `TypeOK`, `LockHeldByWriter`, `NothingLost`, `OwnWorkSaved`, `KeepsEntries` (refinement) | 3 processes, 1 key, 1 further path, TTL 1, clock to 2; 0.2 M states |
| `cache_fresh_timestamps` | `FreshTimestampsKept` is violated | 2 processes |
| `packer` | `TypeOK`, `BudgetKept`, `BudgetConserved`, `EveryFileOnce`, `RankingOrder`, `AllWholeWhenRoomy`, `SkipJustified` | 3 files, 4 shapes of content, 2 scores, budgets 4 and 6, 4 modes, up to 2 rounds, drift 1; 1.8 M states |
| `packer_imports` | `StrippedImportsDelivered` is violated | adaptive mode |
| `packer_dropped` | `NoAffordableFileDropped` is violated | progressive mode, steep tiers |
| `sessions` | `TypeOK`, `SessionsApart`, `AnsweredTurnsStored`, `DeltaBaseReceived`, `OwnTurnAnswered`, `TurnsContinue`, `DeltaBaseLatest`, `StoredTotals` | 2 replicas, 2 clients, 3 requests with three packs, 6 deployments; 1.4 M states |
| `sessions_roaming` | `ContinuesAnywhere` is violated | shared store, no fault, no sticky routing |
| `sessions_timeout` | `BaseAlwaysReceived` is violated | sticky, shared store, timeouts |
| `runner_deadline` | `DeadlineEnforced` is violated | a command that leaves a process with its pipes |
| `commands` | `TypeOK`, `ResultFaithful`, `FlagsHonest`, `NothingLeftRunning`, `AnswerUnderstood`, `UnresolvedWereRejected`, `NeverLonger`, `FloorKept`, `CheckoutSeen`, `CallEnds` (liveness) | sessions of 3 calls in 8 ways of caching, deltas, ledgers and hints, one of them 2 calls of two commands, one of diffs that may be empty; 1 call of each of 7 faulty commands; 0.7 M states |
| `packs` | `TypeOK`, `IndexTrue`, `SettingsApart`, `CapHonest`, `RunsKept`, `NoRunTwice`, `FeedBounded`, `RowsPointHome`, `OvertakenByKeep`, `NewestKept` | 2 processes, 2 files, up to 3 packs, 10 deployments, with failing reads and renames of the history; 2.1 M states |
| `scan_settings` | `SettingsNeverMix` is violated | 3 scans of an unedited tree under two settings |

Deadlock is checked where the system never stops by itself; finished calls stutter
(`Done`, `Finished`). It is not checked in the runs of `MCCommands` and `MCPacks`, where
a caller simply makes no more calls, nor in `runner_deadline`, where a single call ends.

*Bounds.* In the cache, keys meet only in `live # {}` of the orphan test, so one
key and a path without entries show what several keys would; three processes allow
a save and a prune that overlap with a save between them; a clock to 2 with TTL 1
has fresh, ageing and expired entries. In the packer, three files are needed for
a helper, a file placed and a file left; the shapes have a full tier with a
header (dearer than the raw file), tiers that share imports, a single tier, and
a lower tier dearer than the one above it (the `freed <= 0` case). In the
sessions three requests are two turns and a return, or two clients and a return;
their packs differ in a file added, one removed, one sliced at other lines of the
same text and one packed by another strategy. For the runner a cap of 4, reads of
2 and a pipe of 3 give a read that crosses the cap, a full pipe and a
stream that ends exactly at a read; the commands of `MCCommands` have each habit
the code has an answer to, and two of them at once where they interact. Three calls
are a full answer, a delta or hit, and one that builds on it; outputs have an
alias that repeats, a fact and a plain line, and one output whose delta is cut.
In `packs`, `MaxTime` bounds the clock and the runs that can be stamped; two ticks
are a second, so that reports share one; `MaxRows` is below the number of runs so
that rows are trimmed; `Keep` is below the number of packs, so that a prune can list
a report that is under way and delete it, and a name can be picked again; it is 30 in
the code, and `OvertakenByKeep` says that it takes that many. The feed begins full, so that each pack deletes. Every deployment has its own number of
packs, edits and crashes, chosen so that the cases of its properties are reached.

*Symmetry.* Processes, replicas and clients are interchangeable: no `CHOOSE` or
order ranges over them, and the runs with symmetry check no liveness.

*Fairness.* `RunnerFairness` is assumed by `commands` and `runner_deadline`: the two
reader threads and the main thread are scheduled (`WF` of their steps: they are
threads of a running interpreter, their waits have timeouts), the deadline passes
(it is a point in time), and a signal that can end a process does end it. Nothing
is assumed of commands, which may never write, end or let go of a pipe, nor
of edits, calls or crashes. The other runs check safety, action properties and
the safety part of a refinement, and assume no fairness.

### Disagreements with the documentation

Seven runs show what a comment or docstring says and the code does not; each is
quoted in `PROJECT.json` ("findings").

1. A save overlays its own timestamps unconditionally and may turn a fresh
   timestamp back.
2. Imports of a file that is then skipped count as seen and are stripped from
   files that are delivered.
3. The progressive packer drops a file that fits the remaining budget, because a
   skipped file is only placed together with a degradation.
4. Without sticky routing a replica serves a session from a stale live runtime and
   saves its shorter history over the longer one.
5. After a 504 the handler goes on; the retry reports its delta against an answer the
   client never had.
6. When the deadline of a command has passed, closing the pipes waits for the reader
   that is inside a read, hence for every process that holds the pipe: the timeout
   is raised as late as that process ends, or never.
7. Fingerprint and entries of the scan index are read by two SELECTs outside a
   transaction (`incremental.py:359` and `363`). A save under other settings between
   them gives its entries to a scan, which reuses them and stores them under its own
   fingerprint. `SettingsApart` says that this is the only way; what `IndexTrue` says of
   the readings holds all the same.

Others were met while modelling and have no run of their own. The models follow the
code, so a property about the same states excepts them by name.

- The cache key is said to encode everything that can change the output
  (`cmd/cache.py:4-11`), but not the working tree or the hint: after an edit under the
  same HEAD the command is answered with the output of before, and a checkout between
  the key and the run is stored under the old HEAD. What the key does give is
  `CheckoutSeen`.
- The quality floor of `cmd/budget.py:59-60` does not hold of a replay, since the cache is
  looked up without the hint (`cmd/pipeline.py:109`), nor of a `git diff` without output,
  which is answered at ULTRA without `select_level` (`git_diff.py:64-65`, `91-101`).
  `FloorKept` says that nothing else is below the floor. Semantic fallback (opt-in, not
  modelled) answers at COMPACT whatever the floor.
- The path aliaser has no gate, although `cmd/pipeline.py:334-335` speaks of "the same
  min-gate as the path aliaser" and `aliasing.py:7-8` calls it non-regressive: its
  annotations can make an answer longer. `NeverLonger` is about the gates there are.
- The ref ledger and the symbol aliaser bind names before their gate decides, so a
  rejected rewrite leaves names whose legend nobody read; the docstrings say a
  legend goes with the first use. `UnresolvedWereRejected` shows there is no other cause.
- `_apply_aliaser` says the cache holds text before aliases (`pipeline.py:387-388`); what is
  delivered is what is stored. With caching and deltas both on, a cached delta may be
  replayed against another baseline (`AnswerUnderstood` excepts that). A delta longer
  than 30 lines is cut.
- `invalidate` and `clear` act on memory only; the next save restores the entries, for
  the process that removed them as well (`cache/backends.py:127` and `145`).
- `cache prune` lists the files before it takes the lock (`cli.py:2843`): an entry whose
  file has come back in between is removed as an orphan (`docs/cache.md:70`).
- `run_history_sqlite.py:138-140` says a failed migration is retried on the next call;
  the same call makes an empty database, after which the JSON file is not looked at.
  `RunsKept` excepts failed migrations.
- `handlers.py:405-408` says that only changed files are re-sent; the prompt and the files
  of every answer are those of the full pack, and only its counts come from the delta.
- `run_history_sqlite.py:185-186` orders a load "to match the JSON backend", which
  returns newest first (`run_history.py:168`) where SQLite returns oldest first.
- A configured `history_db` is used by the load (`stages/workflow.py:257`), not by append
  and update. `docs/sqlite-history.md:44` says an empty string disables SQLite; it
  does not, and the JSON code behind it is not reached when SQLite fails.
- `core/pipeline.py:655` reads "files_changed" of a delta whose key is "changed_files": the
  telemetry count is always 0.
- The "one-time import" of the SQLite summary cache (`cache/backends.py:567-587`) is
  repeated whenever its table is empty, for instance after `clear`.

## 5. Proofs

`SharedCacheProofs` proves, for every set of processes, keys and paths, every TTL,
with or without lock and failing reads (assumption `ConstantsOK`):

- `TypeCorrect`: `Spec => []TypeOK`.
- `LockDiscipline`: `Spec => []LockHeldByWriter`.
- `OwnWorkIsSaved`: `Spec => OwnWorkSaved`.
- `NoEntryLost`: `Spec => NothingLost`.
- `CacheKeepsEntries`: with lock and readable file, `Spec => KeepsEntries`, the
  refinement of `KeptEntries`.

`NothingLost` speaks about the step that replaces the file, when all that matters
happened earlier, at the merge. The inductive invariant `IInv` carries it across:
besides types and lock discipline it says that an image about to be saved has all
entries of its process's memory (`SaveCoversMemory`) and, with lock and readable
file, all entries of the file as it is now (`WritersCoverFile`; for a prune, all
but those it may remove). It is preserved because the lock keeps every other
process from changing the file between merge and write (`LockHeldByWriter`),
because memory of a process changes only in its own steps, and because an entry
that may be removed stays removable while time passes (`RemovableStays`). TLC
agrees with `IInv` on the instance of the run `cache`.

For the refinement, a prune's image must also be within its memory
(`PruneWithinMemory`), so that what it removes is exactly what it decided on, and no
other process may be between merge and write (`OneWriter`). Then each step maps to
one of `KeptEntries`: the write of a save to `Add`, the merge of a prune to `Decide`,
its write to `Execute`, its failure or the death of the process to `Drop`, and all
others change neither the file nor what is about to be removed (`QuietStep`).

`GatewayProofs` and `GatewayHistoryProofs` prove the eight invariants of the run
`sessions` for any number of requests, any replicas, clients and deployments, and
any packs (assumptions `SessionConstants`, `NothingIsNoSession`, `RemovalTokensOK`).
None of them is inductive. They are proved in layers, each inductive relative to
those before it:

| layer | says | theorem |
|---|---|---|
| `Basic` | types; what a handler has noted in which phase; an id that was not drawn is nowhere; there are at least as many requests as ids and handlers about to draw one, so ids do not run out (a count of a set of handlers) | `GatewayTypes`: `TypeOK` |
| `Ownership` | some function gives every drawn id its client, and whatever is kept under the id (runtimes, live dicts, store, copies in flight, bases, answers) is of this client; a step extends the function only at the id it draws | `ConversationsApart`: `SessionsApart` |
| `OneAtATime` | without timeouts a client has one request in flight, so no two handlers share a session or a runtime | - |
| `Numbered` | the number a handler took is one more than the turns of its session and is still so when it appends | `AnswerNumbersItsTurn`: `OwnTurnAnswered` |
| `BasesRecorded` | without timeouts and crashes an artifact that a runtime holds was, or is being, answered | `DeltasAgainstReceived`: `DeltaBaseReceived` |
| `UsesLive`, `AtHome`, `HistoryKept` | a handler's runtime is the live one; sticky clients have sessions only at home; every answered turn is in the live runtime, in what a handler loaded and is about to register, in the copy it is about to save, and in the store | `AnswersSurvive`: `AnsweredTurnsStored`; `SessionsGoOn`: `TurnsContinue` |
| `TotalsSummed` | the total of a session is the sum over its turns, except between the two halves of `record_turn`, when it is one turn ahead | `TotalsAreTrue`: `StoredTotals` |
| `InSequence`, `LiveNamed`, `BasesLast` | requests of a client are answered in the order they were sent; the base of a delta is the last answered turn of the session | `DeltasAgainstLatest`: `DeltaBaseLatest` |

Each handler step has a lemma of its effect (`FindEffect`, `LoadEffect`, ...), so the
layers argue about effects and not about actions.

`CmdRunnerProofs` and `CmdProofs` prove the nine safety properties of the run
`commands` for any commands, bytes, cap, read size, pipe size and deployments
(assumptions `RunnerConstants`, `CommandConstants`).

- `RunsAreFaithful`: what every run of `run_command` returns. Its inductive
  invariant `RunnerInv` keeps account of the bytes: for each stream there is a
  ledger (`Continues`) by which the buffer, the chunks in the queue, the chunk the
  reader holds and the pipe, in this order, are the output so far, and the end mark
  of a stream is its last chunk. Only so is a buffer without overflow or timeout the
  whole output (`ResultFaithful`), and is a result that was cut flagged
  (`FlagsHonest`). `Stages` says what is still running at each point of the
  main thread (`NothingLeftRunning`).
- `CommandsTyped`, `ResultsFaithful`, `ResultsFlagged`, `ProcessesReaped`: the same of
  the pipeline.
- `AnswersUnderstood`, `AliasesExplained`, `NeverRegresses`, `FloorsKept`,
  `CheckoutsSeen`: what the agent gets. `SessionInv` has a part for each thing that
  outlives a call: every cached and every given report is `Sound`, that is made from
  an output the command printed, in names the ledger knows, and no longer than its
  compressor's text where a gate says so (`ReportsOK`); every name of a ledger was explained or
  belongs to a rewrite that was thrown away (`LedgerOK`); the agent's picture of a
  command, while it is whole, is the baseline the next delta is made against
  (`PicturesOK`). Caching together with deltas, and ledgers with a gate, are excepted
  there exactly as in `AnswerUnderstood`.

`PackerProofs` proves the seven invariants of the run `packer` for any number of
files, any contents, scores, budgets, policies, rounds and drift (assumption
`PackerConstants`: numbers are numbers, every content has a tier, imports are
finite). The inductive invariant is `Accounts /\ Credits /\ Conserved /\ AllWhole`.

- `PackerTyped`, `PackerReports`, `PackerBudget`, `PackerRanks`, `PackerSkips` follow from
  `Accounts`. Every phase divides the ranked files in its own way among the
  results, the lists of the progressive packer and what its loop has still to visit
  (`Preparing`, `OnePass`, `Progressive`, `AllPlaced`), and no list holds a file twice
  (`Apart`); that is why each file is reported once at the end of all four. `total` is
  the sum of the entries, and within `max_tokens` except before and during the clamp
  (`Spending`); outside the progressive packer it only grows, so a file that did not
  fit when it was visited does not fit in the end (`Justified`).
- `PackerConserves` needs `Credits`: within a round, a degradable file that was not
  used has the tier of the snapshot still. So what `Freed` computes from the
  snapshot is what the degradation gives back now, and it is given once. The
  proof keeps the sum over the assigned files through two changes of it, the
  file that is degraded and the file that is placed (`PlaceSpends`).
- `PackerDeliversWhole` needs `AllWhole`: while everything fits, the entries are the
  visited files, whole, so that their total and the next file are part of a sum that
  fits.

`SumTheorems` proves what the proofs need of sums over finite sets (`SumFunctionOnSet`
of the community module `Functions`), and that counting the predecessors of each
member of a finite totally ordered set numbers the members (`RanksCover`), so that a
sort by rank gives every entry once. The induction theorems of the library take an
operator as a parameter, which no installed prover can instantiate;
`NatSetInduction` and `FiniteSetInduction` state induction with a set in its place and
follow from the well-foundedness of <, so that what a recursive function or a sum
computes can be proved after all (`Bind`, `Only`, token counts).

`PacksProofs` proves the ten properties of the run `packs` for any
processes, tree, contents, settings, histories of an earlier version, feed, packs,
edits and crashes. Its assumptions (`ScanConstants`, `HistoryConstants`,
`FeedConstants`, `PacksConstants`) say that numbers are numbers, that what is not
there (`Nothing`) is none of the values it stands in for, that runs of an earlier
version are finite in number and older than the clock, that a report name is neither
`Nothing` nor `RunJson`, and that deployments have
settings of the right types and a feed of at most `Keep` files at first. The
inductive invariant is `PacksInv == ScanInv /\ FeedInv /\ HistoryInv /\ PackInv`; the
last three theorems add one each, inductive relative to it.

- `ScanReusesRight` (`IndexTrue`), `ScanSettingsKeptApart` (`SettingsApart`),
  `ScanCapKeptHonest` (`CapHonest`).
  What an entry says need not be true when it is stored: the stat and the
  read are two steps. `ScanInv` says instead that an entry, wherever it is (in a
  scan, in either store), is of a file that has read like this under this mtime
  (`WasRead`), or of an mtime that is past for its file, which no file will match
  again (`Past`); the same of a file between its stat and its read (`Pending`). As
  only the clock makes mtimes, an entry that matches a file now was read under
  its mtime, and is right if all readings under that mtime are one. A step of a
  scan does not touch the tree (`ScanMoves`), and a change of the tree keeps all of
  this (`EntriesKept`, `PendingKept`). All this holds of the entries of any settings,
  hence also after a torn load. `SettingsApart` rests on `SettingsInv`:
  until `torn`, both indexes and what every scan holds keep to their settings, and a
  scan between its two reads finds a database of its own settings.
- `FeedKeptBounded`: the listing of a prune leaves at most `Keep` files that are
  not on its list (`FreshBounded`), and from then on a file enters the count only
  from outside of it (`BoundKept`).
- `HistoryCountsOnce` (`NoRunTwice`): between the look for a database and the
  commit of a migration no row of an old run is there, if no other migration
  overlaps; and a pack appends a run that has no row, because reports have
  different times (`RunsApart`) and each is appended once (`AppendsOnce`).
- `HistoryKeepsRuns` (`RunsKept`): `RecordedHeld`, with the moments at which the
  runs of the JSON file are held by the rows, and the two facts that make an import
  safe: who is about to commit has the database that is at the path, and nobody
  uses a database while there is none and a JSON file to import. Trimming keeps
  what is held (`NewestHeld`): a run that is trimmed has `MaxRows` newer ones.
- `PacksTyped`.
- `RowsFindTheirReports` (`RowsPointHome`), with `HomeInv`: once a file was made at a
  name that was picked once, what stands there is the report of the pack that made it,
  from its write to its row (`Told`): a name that is not `reused` has one pack at a
  time (`MirrorsApart`), and what a pack is about to append and what the rows point to
  was told so. A step moves rows but makes no new pointer other than that of the pack
  that appends (`PointsOfStep`).
- `NewestReportsKept` (`NewestKept`, an action property), with `KeptInv`: each file on
  the list of a prune has `Keep` newer ones of which none is on any list (`Shields`).
  Lists of several prunes do not add up: of the files newer than one that a listing
  condemns, either one is on a list already, and its shields serve, or none is, and
  they are `Keep`. This breaks when a file on a list is written again and becomes
  new: hence `overtaken`. A first `NewestKept`, without it, held in the run only
  because `Keep` was not below the number of packs there; the attempt to prove it
  showed that, and with `Keep = 2` TLC finds it violated.
- `OvertakersAreKeep` (`OvertakenByKeep`), with `LateInv`: a report is written in or
  after the second of its name, so what is newer than a listed report was written in
  or after that second (`StaleLate`, `SecondGrows`), and stays so (`LaterKept`). So
  "Keep the newest ``keep`` artifacts" (`prune_run_feed`) holds unless 30 other
  reports are written between the second of a report and the writing of its file.

The proof found a flaw of an earlier `IndexTrue`, which compared readings under
the same size and mtime: with files of different sizes written within one tick a
scan can store the reading of one under the stat of the other, and a third write
brings the first size back. It now asks for one reading under the mtime.

Out of reach of the prover: liveness under fairness (`CallEnds`, and
`DeadlineEnforced`, which the code violates), ENABLED, and RECURSIVE operators,
which these modules therefore do not use.

## 6. Not modelled

Components with status `not_modelled` in `PROJECT.json`:

- pure text and number work, where there is no interleaving and no state to
  explore: ranking, tier rendering, the command compressors, policy and budget
  evaluation, reports and dashboards. These, with the command line, configuration
  loading and the experiments in `benchmarks/` and `research/`, are most of the
  lines of the repository, which is why the modelled share of lines is small although
  the code that shares state between processes and threads is modelled;
- wiring and I/O: CLI, MCP server, SDK, integrations, middleware, the installer and
  the hook, each of which edits a settings file once for one user;
- stores that delegate consistency to SQLite or Redis: control plane, other cache
  backends; the telemetry store appends to one file.

Within the modelled components: the counters and hit statistics of the cache, the
extra top-level keys a merge carries over, processes that disagree about whether the
lock file can be created; the stateless gateway endpoints, the policy and the limits
of a live runtime; parsing and rejecting of command strings, rewriting of argv,
terminal sequences, the substitution table, schema-specific delta renderers and
semantic fallback of the pipeline; symlinks and ignored directories of a scan,
scans of workspaces; the JSON backend of the history, which no caller asks for, its
`prune`, and the scores made of it.
