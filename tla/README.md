# coffeectx: models and proofs

This directory holds TLA+ models of coffeectx, the TLC configurations that check them on small
instances, and theorems about them that TLAPS proves for every instance. Paths below are relative to
the repository root; every definition that models code is listed with its source lines in the `map` of
`PROJECT.json`.

## The system

coffeectx keeps a typed, versioned knowledge graph of a code base in one SQLite file per project. A
daemon per project runs *jobs* that feed the graph: LSP indexing of source snapshots, indexing of
coding-agent logs into spans, linking of spans to source versions, extraction of plans, agent runs that
write summaries, and user-defined skill jobs. A CLI, a web UI and an MCP server work on the same files as
separate processes.

| Component | State | Operations | Talks to |
|---|---|---|---|
| Job scheduler (`indexer/src/jobs/scheduler.ts`) | running flag, current job, one pending slot, debounce timer and timers per job, loaded config | start, timers, cron, node events, catch-up, two polls, enqueue, execute, drain, shutdown | job tables, graph store (events), config file |
| Job control (`jobs/control.ts`, `jobs/cli.ts`, `ui/routes/jobs.ts`) | none of its own; one short-lived process or request each | reconcile rows with config, toggle, queue a trigger, run inline | job tables, config file |
| Job tables (`packages/core/src/db.ts` 2571-2735, `schema.ts`) | `jobs`, `job_runs` | upsert, enable, trigger flag, start run, end run, clear stale | SQLite |
| Graph store (`packages/core/src/db.ts`, `nodeRefs.ts`, `typeCache.ts`) | nodes, timelines with versions, links, states, tombstones, references, embeddings | insertEntries, setNodeState, queries | embedder (await), node listeners |
| Snapshots and LSP indexing (`indexer/src/lsp`) | on-disk snapshots with a manifest, watermark per job | onChange, drainSince, gcKeepingLatest, bucketed indexing, promotion new to final | graph store, language server |
| Agent logs (`indexer/src/agentLog`) | fingerprint per log file, event rows, span rows | scan, parse by provider, classify, segment, insert, bump, catch up | graph store, log files |
| Span linking and session indexer (`agentLog/spanLink.ts`, `jobs/registry.ts`, `agentRun`) | states of spans (extracted, linked, indexed) and of symbol versions | select, append, repair, promote, prompt, seal | graph store, language model |
| Plans (`indexer/src/plans`) | watermark `lastConsumedTs` | drain, extract, insert, collect | snapshots, graph store |
| Agent sessions (`indexer/src/ui/agentSessions.ts`, `ui/routes/agent.ts`) | active session per project, busy flag, listeners | ensure, new, activate, delete, send, dispose | agent library, tabs (server-sent events) |
| Chat panel (`webui/src/components/AgentChatPanel.tsx`, `chat/`) | shown session, items, busy indicator | connect, ingest, send, switch | routes of the server |
| Configuration (`packages/core/src/config.ts`, `auth.ts`, `indexer/src/init.ts`, `projects.ts`) | config.yaml | init, load, update, validate | all processes |
| Skills (`packages/core/src/skills.ts`, `jobs/registry.ts`, `jobs/runUserJob.ts`) | directories `skills/`, `jobs/` | load, build jobs, choose tools | scheduler, agent runs |
| Queries (`packages/core/src/query.ts`, `regexLiterals.ts`, `ui/routes/nodes.ts`) | none | parse, execute, expand by depth | graph store |
| Run log (`jobs/runLog.ts`) | wrapped stdout and stderr | wrap, restore | scheduler, inline runs |
| Type registry, formatting, tools and MCP server, secrets, other views of the UI, backup and replay | mostly rendering, wrappers or offline I/O | | |

### What is hard, and what makes each part correct

* **Scheduler.** Single-threaded, but every request can meet a running job; requests come from timers,
  debounced events, two database polls and setImmediate hand-overs, and other processes change the same
  rows and start runs the daemon's mutex does not know. Correct means: no accepted request is lost while
  the daemon lives; one daemon job at a time; rows agree with runs; the catch-up cursor skips a row at most
  once in the life of a job; the configuration wins in the end; a disabled job comes to rest.
* **Graph store.** insertEntries validates, awaits embeddings and then writes in one transaction; what it
  read before the await can be stale. Correct means: versions of a timeline are distinct and consecutive,
  each timeline has one head, tombstones reach what is owned anonymously and nothing named, the edge index
  follows the fields, events tell of what was written.
* **Snapshots and LSP indexing.** Copies are listed in a manifest, drained by a watermark, deferred by a
  cutoff, collected, and all of that can stop half-way. Correct means: a file left alone is copied as it is;
  a version in the graph says what was on disk at its time; a saved watermark means that what is below it
  was applied; a version that left `new` is not rewritten.
* **Agent logs and spans.** A log grows while it is read, segmentation splits and merges, the tail is held
  back, and re-runs must not store a span twice. Correct means: a row marked spanned is claimed by a span,
  and each span is stored once and reaches `indexed`.
* **Agent sessions.** Operations interleave at awaits without a lock, envelopes to the tabs are on their way
  meanwhile. Correct means: one session with a prompt on a JSONL, every tab on the session its messages go
  to, no tab that waits for ever.
* **Pure parts.** Three log formats, a parser, literals of regular expressions, the way from answers to jobs
  and from messages to history. Correct means: each agrees with a definition that is not its algorithm.
* **Configuration.** Read-modify-write by several processes. Correct means: no update is lost (it can be, see
  the hazards).

The full list of hazards with their lines is in `PROJECT.json`.

## Modules

Scheduler:

* `JobTable` — the rows of `jobs` and `job_runs` and the operations of `db.ts` on them.
* `Scheduler` — extends `JobTable` by the daemon, the CLI and UI clients and the configuration file.
  One action per callback of the daemon (from one turn of the event loop to the next await) and one per
  half of each client operation.
* `JobQueue` — what the scheduler promises: one active job and a set of wanted jobs that only shrinks
  when a job begins or the process goes. `Scheduler` is shown to implement it.

Store:

* `GraphStore` — the named-type rows of one project, their timelines, versions, tombstones and fields, the
  edge index `node_refs`, and the calls that write them.
* `Timelines` — what versioning promises: one live version on top of each timeline, superseded or deleted by
  the next one (`Spec`), and what is left of it when an edit may also hide versions of other timelines
  (`LossySpec`). `GraphStore` is shown to implement the latter under the conditions of the run `store_indexer`.

Indexing pipeline, each module extending the one before:

* `Snapshots` — disk, watcher and manifest.
* `LspIndexer` — the lsp job, which turns snapshots into versions of symbols.
* `PlansIndexer` — the plans-claude job, the other consumer of the manifest.
* `SpanPipeline` — spans on their way to `indexed`: span-link, the indexer job and the daemon around all four.

Agent logs:

* `Segmentation` — `computeSpans` as a function of a session's events.
* `AgentLog` — the crawl of `indexAgentSessions` over a log that grows.

Web UI:

* `AgentSessions` — the server's sessions and the tabs.

Pure parts, all checked by `MCInputs`:

* `Providers` — the three log formats, the reader and the classifier.
* `Search` — the search with a depth, from the nodes found along their references.
* `Queries` — extends `Search` by the parser and the executor.
* `RegexLiterals` — the literals that a regular expression requires.
* `Settings` — from `init` and the skill directories to jobs, watched directories, read logs and tools.
* `Scrollback` — what a tab shows of a chat.

Instances and theorems: `MCScheduler`, `MCGraphStore`, `MCPipeline`, `MCLogs`, `MCWebUi`, `MCInputs`;
`SchedulerProofs`, `GraphStoreProofs`, `TimelinesProofs`, `PipelineProofs`, `HistoryProofs`, `AgentLogProofs`,
`SessionsProofs`, `InputsProofs`.

Where the parts meet, each side abstracts the other. The rows a job inserts wake other jobs: in `Scheduler`,
`JobInserts`, `ExternalInsert` and `cursor` stand for the row ids of the store. The jobs of the pipeline and the
crawl are clients of `GraphStore`; they use it as `Timelines` describes it. Both sides of that are proved: the
store implements its `LossySpec` for one writer of heads (`StoreImplementsTimelines`), and the symbols of the pipeline
are timelines of its `Spec` (`SymbolsKeepTimelines`). The two differ where a symbol holds named nodes, which the
store hides with it and which the pipeline, with one symbol to a file, does not have. `SpanPipeline` takes from `Scheduler` that one
job runs at a time, and from `AgentLog` only that a span comes into being some time after its end; it keeps
one scheduler property as fairness.

### How Scheduler corresponds to the code

| Variable | Code |
|---|---|
| `active`, `activeRun`, `cursorBefore` | `running`/`currentJob`, `runId`, `cursorBefore` of `execute` |
| `pending`, `debounce`, `timers` | `JobState.pending`, `.debounceTimer`, `.timerHandle`/`.cronHandles` |
| `immediates` | callbacks queued by `setImmediate` at the end of `execute` |
| `phase`, `dbOpen`, `bootCfg` | lifecycle of the process, its database handle, `this.config` until registration |
| `toCatchUp`, `firstBoot` | where the loop of `startupCatchup` stands: the jobs still to come, and the one between its two queries |
| `maxRow`, `matching`, `cursor` | `MAX(rowid)` of nodes, the rowids of a job's types, `state_json.cursor` |
| `cfg` | `projects.<p>.jobs[j].enabled` (absent entry, entry without the key, true, false) |
| `client` | what each CLI process or UI request has read and not written yet |
| `begun` | history: the runs the daemon has begun and not ended, which `OneDaemonRun` compares with the one it believes in |
| `seen`, `unprocessed`, `told`, `excused` | history: the rows in view of the active run, the rows no successful run has had in view, those the daemon was told of, the jobs whose last attempt failed or was dropped |
| `asked`, `missed` | history: the newest row when the query of `firstBoot` was made, and the rows a first boot passed that came after it |

Abstractions. Time is abstract: an armed timer may fire at any moment. The kind of a trigger is left out.
Run ids are handed out again once nothing names them, so that runs of any length stay finite. Each
operation of `db.ts` is one step. Two setImmediate callbacks for one job in one turn are one. `pollConfig` is one step, although a
process could write the file between its read and its row writes. The heartbeat and two daemons for one project are left out. An exception in a daemon callback outside
a job is a crash, since no handler is installed. After a shutdown the database is closed, so nothing more
is written.

### How GraphStore corresponds to the code

| Definition | Code |
|---|---|
| `nodes` | rows of `nodes` whose type is a named one; a row's id is its position |
| `fields` of a row | `map_entries` of the row with the anonymous nodes below each: an atom, or a list whose named items are `to`; `hidden` is the tombstone of those anonymous nodes |
| `refs` | `node_refs` without field paths |
| `call` | `insertEntries` calls: what was read before the await (`existing`, `bump`) and where the call stands |
| `Begin`, `Commit`, `Index` | `insertEntries` up to the await of the embeddings; the transaction; the maintenance of `node_refs` after it |
| `CommitInsert`, `CommitBump`, `CommitPatch`, `CommitFails` | the passes of the transaction for each kind of entry, and the rollback when a key was added meanwhile |
| `SetNodeState`, `AppendListItems` | `setNodeState`, `appendListItemsUnique` with the refresh of `node_refs` |

`Commit` and `Index` are two steps although they follow each other without an await in one process: the CLI,
the web UI, the MCP server and the daemon open the same file, and their transactions come in between.
A call carries one entry. An entry names a row by any id that exists or, with `HeadsOnly`, by one that is not
tombstoned when the call begins; it never references itself (`node_refs` has no such edges). A value is absent, null, unacceptable to its
type (`bad`), an anonymous value, a list of one named node or a reference; the proofs are about all of them, the runs
about absent values, lists and references. Named nodes and lists of them are the
only references, nested anonymous maps are folded into their field. The walk of `populateForRoot` stops at depth
20, that of the model does not. `Met` is the walk of `tombstoneAnonymousSubtree`, which flips the first named nodes it
comes to and goes no further. A value that an overwrite replaced leaves the model: that its
root node stays visible to search is listed below. Embeddings, texts, timestamps, field paths and node events are left out. In this
model a crash does not interrupt a call.

### How the pipeline corresponds to the code

| Variable | Code |
|---|---|
| `disk`, `event`, `clock` | content and mtime of each watched file; what chokidar is about to report of it (`scan` at start, `add`, `change`); `Date.now()` |
| `rows` | the rows of `index.jsonl` with the copies they name; `saved` is FALSE once the copy is unlinked |
| `lspMark`, `planMark` | `lastConsumedTs` in the state of the lsp and the plans-claude job |
| `versions` | rows of LSP types in the order they were written: content, `createdAt`, state, tombstone, who commented |
| `plans`, `links` | Plan nodes; `touchedSymbols` and `touchedPlans` of each Span |
| `span` | state of each Span, `open` before the log job stored it |
| `run` | the job that runs and what it holds in memory between its awaits |
| `patches` | `insertEntries` calls of `sealAndPropagateComments` that are not awaited |
| `written` | history: what was on disk from when on |

`OnChange` is the watcher's callback with its stat skip and copy. The lsp job's drain and cutoff are one step;
each snapshot applied, each promotion, each file of the fallback, the collection and the saved watermark are
steps of their own, with a crash between any two. Linking a span is `Attach` (the symbols it lacks are appended),
a `Promote` for each of them and `MarkLinked` (the plans and the state), as the calls of `linkSpans` follow each other
across awaits. `Bracket` is the interval map of the finalised spans, `Within` its
half-open test. A file holds one symbol, so that what distinguishes several symbols of a file is left out;
content is a model value, and `Empty` is a file without the symbol. What is drained and what
is linked are sets, because the code sorts or looks up by key wherever an order could matter. Where spans lie is a
constant of the model, how they get there is `AgentLog`.

### How AgentLog corresponds to the code

`log` is the file of one session, `mark` its fingerprint in `file-hashes.json`, `rows` the state of each event's
row, `spans` the Span rows, `crawl` what `indexAgentSessions` holds in memory. `Scan` reads the file unless its
fingerprint is unchanged; `Compute` writes the mark, before anything is stored, computes the spans by
`ComputedSpans` of `Segmentation`, and either returns early or makes the batch; `Land` and `Fail` are the two outcomes of the batch; `Bump` moves the claimed rows; `CatchUp` is the
second computation over rows still unspanned, whose batch lands or fails as well; `Crash` comes between any
two. `HasRow` leaves out proposed plans, which count for the cuts and become Plan nodes. `Land` takes the row types
that the insert refuses (`Refusals`): their entries are dropped alone (`Lost`), and a Span that refers to a dropped
event is stored without its messages (`Landed`). `crawl.keys` are the span keys read at the start of the crawl with
those it emitted. `news` says whether the crawl finds something to insert for other sessions. Times count in units of ten seconds and weights in thirds, so that a pause of 40 units exceeds
`HARD_BREAK_MS` and one of 5 does not, and every weight is a whole number.

Two things are as the code has them and easy to miss. The catch-up computes over `LeftOver`, the rows still
unspanned in the order of their times, as the store returns them, and not over the part of the log that was new.
And the events of the log that `AgentLog` lets grow are at moments of their own (`LogAssumption`): several tool uses of
one record share a timestamp in the code. The theorems about `Segmentation` (`EveryEventHasItsSpan`,
`QuietSessionIsClaimed`) are about any events, also ones that share a time or a uuid.

### How AgentSessions corresponds to the code

`sessions` are the sessions built so far, `active` is `PROJECT_STATE`, `calls` are the requests between two awaits
(`post` before the handler, `abort` during `tearDown`, `build` during `buildState`), `tabs` the state of each chat
panel, `inbox` the envelopes on their way to it. Ensuring a session at connect, sending, starting, activating
and deleting one are requests of every tab at any time. `BuildFails` is a build that throws and the missing auth settings
that all requests but a deletion ask for; `DeleteFails` is a file that cannot be removed, after which the deletion of
the active session binds the file last modified. `overwritten` records that a first connect replaced a
session that another request had made active: the exception that `ShownIsActive` names.

### How the pure modules correspond to the code

`Providers` has for each vendor the lines of a turn (how the vendor writes them, seen from the parser), the
parser of the provider, and the shared reader and classifier. `Queries` has the parser over tokens, the
executor with its look-ups in the order the code takes them; `Search` is the hop-by-hop `expandByDepth` of the
nodes route.
`RegexLiterals` walks a pattern by the same cases as the code. `Settings` has what `init` writes, the registry's
jobs, the watch specifications, the log files each provider reads, and the tools of a session. `Scrollback`
has the history a server renders and what a tab does with each event. Names, texts, paths and characters are
model values or short sequences of them.

## Runs

| Run | Question | Bounds |
|---|---|---|
| `sched_daemon` | Are requests and rows safe in the daemon alone, is the first job served, and does it implement `JobQueue`? | 2 jobs (the first fed by inserts, the second by a timer), 1 row, 2 run ids, triggers from the UI, crashes and restarts unbounded |
| `sched_clients` | Do the job tables stay true with inline runs, toggles and crashes around the daemon? | 1 timer job, 2 clients, 5 run ids, 1 orphaned run |
| `sched_live` | Are manual triggers served, does the config win and do disabled jobs rest? | 1 job fed by state events, 2 clients that toggle, list and trigger, entries default, on and off |
| `sched_job_on` | A statement of the documentation that the code does not keep | 1 timer job, 1 client |
| `store_writers` | Do history, bodies and the edge index survive overlapping writers? | 2 calls, 3 rows, 1 field that may hold a list of named nodes |
| `store_indexer` | What does an edit hide, has each timeline one head, and does the store implement the `LossySpec` of `Timelines`, for one writer of heads? | 1 call, 3 rows of a versioned type, 1 field that may hold a list or a reference; inserts, overwrites, bumps, deletions, states |
| `pipeline_lsp` | What do a saved watermark, a version's time and a seal mean, over spans, edits and a crash? | 1 file, 3 contents, 4 instants, 3 edits, 1 crash, 2 spans whose windows overlap, a failing collection |
| `pipeline_plans` | Is every consumed plan minted, does the manifest catch up, is the span indexed in the end? | 1 plan file, 3 instants, 2 edits, 1 crash, 1 span, failing reads, collections and embeddings |
| `logs` | Is what is marked spanned claimed, each span stored once and the tail spanned? | 3 events of 3 kinds (a prompt, a todo list, a proposed plan), gaps of 50 and 400 seconds, 1 crash, inserts that fail or refuse Spans |
| `webui` | Do tabs follow the server, and does the busy indicator end? | 2 tabs, 2 overlapping requests, 4 requests in all, 1 fault |
| `webui_file` | A statement of a comment that the code does not keep | 2 tabs, 2 overlapping requests to connect, send or activate, 4 in all, no fault |
| `inputs` | Do the pure parts agree with their reference definitions? | turns of 3 acts, queries of 2 clauses, groups of 1 or 2, patterns of 2 pieces, a graph of 12 nodes, chats of 2 rounds, the answers and skill directories of `MCInputs` |

Why these bounds are enough. *Scheduler:* all requests of other jobs act on a job alike and only the Map order
distinguishes them, so two jobs are enough for the queue; one row is seen by a run or missed by it; larger
tables are covered by the theorems about cursors. Two clients and the daemon give three runs of one job, and
five run ids leave one for an orphan and one to hand out. *Store:* three rows give a chain of three
versions, a bump of a row that another row references, or two bumps of one row; two calls give every overlap,
since a call reads what it will write from one row. `store_indexer`
lets the table fill up, and then an idle store stops, so deadlock is not checked there. One writer that names heads is
needed: without it TLC finds the two heads listed under "Divergences". Its values hold named nodes, and what the
walk does to these is in `HiddenWithHolder`.
*Pipeline:* two overlapping spans give a file before, in and after a span, a version linked by one
and looked at by the other, and one that both link, after it was sealed or before; three edits give two snapshots that the cutoff separates and one that is
deferred. Time, edits and crashes run out, so deadlock is not checked. The span of `pipeline_plans` has no
symbols and those of `pipeline_lsp` no plans: the two lists of a span are filled independently. *Logs:* three
events are the fewest for a small segment between two others and for a log that grows after a crawl has held
back its tail. *Web UI:* two tabs and two requests give each pair of overlapping operations; the four requests of
`webui_file` are the fewest that send two prompts to one file. A state of
`inputs` is one input, and the run enumerates all of them.

Fairness. *Scheduler:* the event loop fires due timeouts, intervals and polls, start() gets past its await,
jobs terminate, the process ends after a shutdown. A setImmediate callback runs in the loop iteration
that queued it, and can only be overtaken by timers that expire in that iteration; strong fairness says
that this does not happen for ever. Clients, crashes, signals, edits and events owe nothing. Only the
first job of the Map is promised service: `findNextPending` scans in a fixed order. State events in a debounce
window are lost when the daemon stops, and no cursor finds them again: nothing is promised of them. *Pipeline:* time passes, the
watcher reports, the daemon is started again, a job that began goes on; span-link, indexer and plans have
timers, and each timer gets its turn between other jobs (strong, because another job may be running whenever it
fires); a provider that can answer does so in the end. Writers, crashes and the embedder owe nothing. *Logs:*
time passes, the timer starts crawls, a crawl that began goes on, and neither the insert of a crawl nor that of its
catch-up fails, or lacks a type, for ever. Nothing is assumed about the other sessions: that crawls go on
finding something to insert is the antecedent of `TailGetsSpanned`, since an idle crawl returns before its catch-up
(see "Divergences"). The web UI is
checked for safety only: how long the agent thinks is up to the language model.

## Divergences

Two violation runs, with their findings in `PROJECT.json`, show where the code does not do what the repository
says: `sched_job_on` (`job on` arms no timer) and `webui_file` (two sessions prompt over one JSONL). The code
has the following behaviours too, met while modelling, for which no violation run is kept.

Scheduler and job control:

* A job dropped from the configuration stays enabled, since `pollConfig` skips jobs without an `enabled` key
  (`scheduler.ts:351`; `control.ts:31-33` says it turns off within a tick).
* `endJobRun` resets the row of the job whichever run it names, so of two overlapping runs the second has a
  null `current_run_id` (`db.ts:2669`; `schema.ts:112`).
* The first boot of an insert job sets its cursor to the newest row by a second query, so a row that another process
  inserts after the first one is never caught up (`scheduler.ts:324`, 327). `CursorSafe` and `CursorNeverSkips` name
  this exception.
* An inline run whose client crashed leaves its row `running` until the daemon boots again (`db.ts:2719`), so the UI
  shows it as running although the daemon lives.
* `clearStaleRunning` at boot cancels a run that a live `job trigger --now` is executing (`db.ts:2713-2719`).
* `upsertJob` reports a row as created whenever it exists, so boot restores `defaultEnabled` (`db.ts:2573-2582`).
* A shutdown closes the database while a job may run (`index.ts:693`; `scheduler.ts:192-195`).

Store:

* A patch with `$state` equal to the final state adds fields to a row that stays final (`db.ts:766-773`), and a
  patch validated before a row became final still writes (`db.ts:773`).
* Bumping one id twice mints the same version twice and leaves two live heads (`db.ts:950`,
  `OneHeadPerTimeline` with `HeadsOnly` false).
* A bump tombstones the named nodes that the row it replaces holds, although the new version still refers to them: the
  walk flips a node before it asks whether it is a named one (`db.ts:1326`, where 1305-1307 says that these "must not be
  touched"). An overwrite walks through a reference that it replaced and hides the named nodes held below it (`db.ts:1024`; 1013-1015).
  `HiddenWithHolder` says what an edit can hide. The root of an overwritten anonymous value is never
  tombstoned (`db.ts:1024`, `1309`).
* `node_refs` is not transitive (`nodeRefs.ts:41`; `db.ts:2161-2165`).
* `delete: true` can never succeed through the tool: `packages/tools/src/upsertEntries.ts:168-175` forbids
  `bumpVersion` with it and `db.ts:727-738` requires it. The pi tool drops both flags (`piTools.ts:349-351`).
* `searchByText` does not filter tombstones (`db.ts:2200-2225`; 1873-1875 says every search path does).

Pipeline:

* A crash inside the collection, when the newest copy of a file was deferred, leaves the next run without a copy
  of it: its fallback tombstones the symbols of a live file. The collection keeps the newest copy of each file
  only, so the older copies above the cutoff go, also those of a file with none up to it, of which
  `indexSymbols.ts:399-401` says that they stay (`snapshotSupervisor.ts:192`); no run has a second file for the job to be at. The tombstones it writes stay `new`
  (`indexSymbols.ts:540-549`). A crash between apply and promote leaves rows `new` for ever.
* Sealing is not awaited (`runSessionIndexer.ts:165-167` says so). A bump carries `comment` forward and a patch
  skips keys that exist, so a refined comment is dropped (`prompts/indexer.md:51`).
* span-link promotes without looking at the state: when the windows of two spans overlap, as those of two sessions
  do, a sealed version goes back to `linked` (`spanLink.ts:93-95`). The spans of `pipeline_lsp` overlap, and
  `FrozenOnceFinal` promises only that what left `new` is not rewritten. Linked spans are repaired only while a list is empty.
* A second plan file copied in the millisecond of a drain is passed by the watermark, two copies of a file in
  one millisecond share a path, and plans are minted again after a crash between insert and save.

Agent logs:

* The catch-up does not run on an idle crawl (`indexLogs.ts:335-341` says "so it always runs"; early returns at 140,
  285-288): without its antecedent, `[]<>crawl.news`, TLC finds `TailGetsSpanned` violated.
* A Span that refers to an event whose type the schema lacks is stored without `messages` while its other events are
  marked as spanned (295-324; `EventsTaken` in `SpannedIsClaimed`). Two spans that start at one moment share a key, and
  the events of the second are never claimed.
* The fingerprint is saved before the insert (`fileHashes.ts:64-65`: "Call after successful indexing").
* Spans change shape between crawls, so an event can be claimed twice (`indexLogs.ts:130-132`), and the effective
  end ignores a following span that is not finalised yet (600-602).
* After a crash between insert and bumps, events of a span whose key exists stay unspanned for ever, and the
  catch-up can store a second span inside the window of the first (`indexLogs.ts:600-602`).
* The windows of spans of one session are kept apart within a crawl only (235-236, 538).
* A pi text in the message of a question is dropped, events of one pi message share a uuid, and a Claude Code
  message whose content is a string yields no `user_input`.
* `defaultPiSessionsDirFor` (`config.ts:109`) names `/a/b` and `/a-b` alike, and the pi provider has no filter by
  directory, so their sessions mix (`SetUpBecomesJobs` has such a pair, and says so of pi).

Web UI:

* Two first connects, or one and the first message of another tab, build two sessions and the second silently replaces
  the first (`routes/agent.ts:40-43`), which is what `webui_file` begins with; two overlapping activations of one file also
  give it two sessions; overlapping `newSession` calls orphan one (`agentSessions.ts:179-180`).
* A failed build after a tear-down leaves the tab on a disposed session; an `agent_end` missed while the
  connection is lost leaves Send off, and so does a message sent before the stream opened.
* Events lost with the connection are never shown (`AgentChatPanel.tsx:134-142`), and the reason given (history has
  no tool calls, 136-138) no longer holds. Other tabs do not see the text of a prompt.

Queries, configuration, skills:

* `'(' Query ')'` of the grammar reads a single clause (`query.ts:14`, 183-189): a group of several is refused, as
  `QueryMeansEveryClause` says. Tokens after the query are
  ignored (284-289). The examples `Meaning "…", IsType "…"` and `HasItem (…), Symbol "…"` (30, 32) always intersect
  to nothing.
* `regexLiterals.ts` requires literals that a match need not hold for `\uXXXX`, `\xXX` and `\c` escapes and for a
  class with a parenthesis inside a group (9-16 says false positives are avoided); `LiteralsInEveryMatch` has patterns
  with each of them (`Awkward`) and excepts these.
* Registering a project again drops `skills`, `agent` and `secretsProject` (`projects.ts:29-43`); `logsNewerThan` is
  written where no job reads it.
* Only `jobs/` is registered, not a skill with `coffeecode.job` (`registry.ts:16-18`; 545-556). A job shadowed by a
  skill never registers, one named like a builtin job gives two jobs of one name (`SetUpBecomesJobs` has both, and a skill with
  `coffeecode.job`), and an override of invalid
  triggers only makes a job manual.
* The repository path given to `init` is not expanded (`init.ts:214`).

## Proofs

`SchedulerProofs` proves, for every set of jobs, clients and run ids and every bound, from the two named
assumptions on the constants:

* `TypeCorrect`: type correctness, inductive as it stands with `ClientTypeOK`.
* `PendingIsWatched`, `MutexInTables`, `RowsTellTheTruth`: from `RunInv`, which adds that a process that does
  not serve has nothing active or queued, and that an inline run is never the daemon's run. While it serves or catches
  up, the runs begun and not ended are the active one or none. The mutex and
  the rows depend on each other: that ending an inline run leaves the daemon's run open needs the runs to be
  apart, which holds because a new run is one that nothing names.
* `CursorNeverSkips`, `ToldIsScheduled`: from `CursorInv`, which adds that cursors and the view of the active
  run stay within the table, that unprocessed and told rows are rows of the job's types, what the two queries of a first
  boot have in view, and that a daemon which has not caught up was told of nothing. The rows that come between those two
  queries are the one exception to the first theorem.
* `SchedulerImplementsQueue`: every step maps to a step of `JobQueue` or a stutter.

`GraphStoreProofs` proves, for every set of types, states, keys, calls, operations and values and every bound on
the rows, from `GraphAssumption`:

* `StoreTypeCorrect`, `HistoryHasNoGap`, `EdgeIndexIsComplete`, all from `IInv`: the three properties, that
  references lead to rows that exist, and that a call under way is sound. The last part carries the
  weight: when a bump comes to redirect the edges, the row it replaced must still be hidden and on the timeline
  of its successor, or dropping that row's edges would bare a live row. That holds because no step removes
  a row, moves it in history or shows it again (`Kept`), which every action is shown to satisfy. `RefsKept`
  states once what a step owes to the edge index: rows whose references grow are indexed by the step or by a
  call under way, and the edges of live rows keep leading to the same timelines.
* `BodiesStayWhole`: `LiveRowsAreWhole` from `IInv`, when `"overwrite"` is not among `Ops`. An anonymous row is
  hidden only together with the row whose body it is, since an update copies the body before it hides the old
  one and a patch keeps what it does not name. With overwrites it fails, by the walk listed under "Divergences".

`TimelinesProofs` proves when the store keeps what versioning promises:

* `TimelinesHaveOneHead`, with one call at a time (`OneWriter`) that names rows live when it begins (`HeadsOnly`):
  from `HeadInv`, which adds that the row a call under way names is still live when it commits.
* `WalksStopAtNamedNodes`: `HiddenWithHolder`, for any number of calls and values of any kind. A row that becomes hidden is
  the bumped one, or the first named node on a path from the row or the value that is replaced.
* `StoreImplementsTimelines`, under the hypotheses of `TimelinesHaveOneHead` and for any values: every step leaves the
  versions alone, opens a timeline, hides versions, or puts the next version on a live one and hides that, and
  each of these is a step of `LossySpec`. `Timelines!Spec` itself does not hold, because of the walk listed under
  "Divergences".

The hypotheses are those of the run `store_indexer`, and each is needed. Among the rows of LSP types the lsp job
meets them: the daemon runs one job at a time, and the job looks up the live row before it writes.
For the rows that agents write through the MCP server neither is guaranteed, and the theorems of
`GraphStoreProofs` and `WalksStopAtNamedNodes` are what remains.

`PipelineProofs` proves, for any files, contents, sessions, placement of spans and bounds:

* `PipelineTypeCorrect`: type correctness of `SpanPipeline`, inductive with the type of what a run holds in memory.
* `VersionsTellTheTruth`: `AttributedInTime` from `SourceInv`, which says the same of everything content passes
  through on its way: the disk, the rows of the manifest, the snapshots and symbols a run holds and
  the versions all carry a moment that was on disk. The jobs that follow only relabel versions.

`HistoryProofs` goes on from there, with an invariant of its own for each property:

* `SavedIsApplied`: `SavedMeansApplied`, over brackets, bumps, overwrites, collections and crashes. `ManifestInv` says
  that two copies of one file have times of their own, in the order of the moments they were written; copies made
  in one millisecond, which would share a path, are left out of `Snapshots`. `AppliedInv` follows a run of the lsp job: of each file
  the copies already parsed are older than those still to come, and the newest of them is what the graph says.
  The buckets of the job keep the first part, since a bucket takes the oldest copies first.
* `VersionsAreKept`: `FrozenOnceFinal`, that no version is lost, and one that left `new` keeps content and time and is
  never `new` again, wherever spans lie and overlap. From `SealInv`, which relates the links and states of spans to the
  states of versions, also between the appending of a span's links and the promotions. That a sealed version
  stays sealed is not among it: overlapping spans take it back to `linked`.
* `SpansOnlyAdvance` and `SealedWereShown`, by `SealInv` again: the state of a span goes through its stages in order and
  never back, and what it is linked to had left `new` and was born within it. A crash between the links and the mark
  only makes the same links again.
* `SymbolsKeepTimelines`: `SpanPipeline` implements `Timelines`, with the version at each place of `versions` mapped to
  its file, its number among the versions of that file, and whether it is the newest and no tombstone. Every step
  keeps these (`KeepsLines`) or adds one version to one file (`AddsVersion`), a tombstone only on a symbol that is
  there. No run has it as a property, because `Timelines` takes TLC too long on the instance of `pipeline_lsp`.

`AgentLogProofs` proves, for every set of event kinds and gaps, every log that is written with them and any number
of crashes:

* `MergingSettles`: the merge of small segments ends, with no cut left or no small segment. Each round takes one cut
  away, so a chain of rounds from any set of cuts is no longer than that set; the recursive function of
  `Segmentation` is shown to exist by the set of ends of such chains.
* `EveryEventHasItsSpan`, for any events, also such as share a time or a uuid: each event that is kept is in the
  segment of one span; a span that is not over yet has an event of the last `HARD_BREAK_MS` from there on; where times do
  not go back, spans are over in order; and a span has two events or is the only one. Every event lies
  in a segment wherever the cuts are (`HasSegment`), and an earlier segment is over earlier.
* `QuietSessionIsClaimed`: a session that is `HARD_BREAK_MS` old to its last event has each event that is kept in a
  finalised span, whatever the order, times and uuids of its events. That the span is then stored is `TailGetsSpanned`.
* `EmittedApart`: the rows of one crawl begin and end in time, refer to events of the session that have rows, start where no
  known span does, are in order, and the window of each is over when the next begins. Here, and in what follows,
  the events of a session are at moments of their own.
* `LogTypes`, `SpannedAreClaimed`, `NoSpanTwice` from `LogsInv`. Its part `BatchInv` is why it is needed: that a span is
  stored once depends on the batch holding only starts that the store lacks for as long as the batch waits, and
  that a marked row is claimed depends on the bumps that are still to come being of stored spans.
* `SpansAreOfStoredEvents` and `RowsOnlyAdvance`, from `StoredInv`: the spans of a waiting batch are of events that are
  stored or wait in the same batch, and what waits has no row yet. So a Span that lands never lacks the row of one of
  its events, and a row goes from unspanned to spanned and not back.

`SessionsProofs` proves, for any number of tabs, requests and faults:

* `TabsFollowTheServer` and `NoTabStaysBusy`, from `IInv`. Its parts: switches abort before they build
  (`AbortsAreSwitches`), also where a deletion fails and binds another file; the last switch in a listener's inbox, or what it shows when there is none, names the
  active session unless a build is under way (`ToldLast`); connections, streams and free calls agree (`Tidy`); the
  active session is not disposed unless a switch is under way (`ActiveLives`); and a busy tab has something to
  wait for: its own request, a rebuild, or a running prompt of a session that will tell it (`Awaited`). At rest
  nothing is on its way, so the first reads off as `ShownIsActive` and the last leaves only tabs that were never
  heard.
* `SessionTypes`: `TypeOK`, which says among other things that a session always has a file. That a request finds an
  unused one rests on counting: sessions ever built and requests under way are at most the requests made
  (`Counted`), so the files in use are fewer than the files there are, and a file in use is one that was built,
  is on disk or is about to be chosen.

`InputsProofs` proves about the pure parts:

* `ExpandsByBreadth`, for every graph, every set of nodes found and every depth: each node shown once, at the number
  of hops from the nodes found, never at or through a hidden one. After each hop, what is seen is what is shown and
  the frontier is what came last (`Reached`); the recursive function is shown to exist by the least number of
  hops for which it would not. The hypothesis, that the nodes found may be shown, holds because
  `namedParentsOf` leaves hidden ones out, and then all of them are shown. It is the statement that `SearchIsBreadthFirst` checks on the graph of
  `MCInputs`.
* `WatchesWhatJobsIndex`, for every configuration: the supervisor watches what the enabled jobs index, although
  `snapshotSupervisor.ts` and `registry.ts` each work out the directories by themselves, with the fallbacks and the
  tilde in a different order. The two agree because the home directory is not empty, so that a path stays one
  when its tilde is expanded. `SetUpBecomesJobs` checks it for what `init` writes and a user edits.
* `JobDirectoriesBecomeJobs`, for all skill and job directories: one job for each readable directory of `jobs/` whose
  name no skill has.
* `WhatInitWritesRuns`, for every agent, provider and path the user chooses: the auth blocks of the written entry pass
  the check that loading makes, and each job it enables is one the daemon builds and that finds its settings.
* `InnermostProject`: a working directory below some enabled project has one, and two that tie are in the same
  directory, the innermost.

Only model-checked: all liveness, which is out of the prover's reach; `PlanNotLost`, which is true of one plan file
only: of two files under one watermark, one copied in the millisecond of a drain is passed; and the other properties of `MCInputs`. Most of
those compare recursive definitions (the parser, the walk over a pattern, folds over messages) with reference
definitions, and need an induction over the data that none of the installed provers can do. `SetUpBecomesJobs` goes
beyond the four theorems about `Settings` in what the user's edits do, in the logs that a job reads and in the
tools of a session, which are folds or put together with `@@` of the module TLC, of which the provers know nothing.

## Not modelled

* **Configuration file.** Reading and writing of `config.yaml` are I/O. That several processes load, change and
  save it without a lock is listed as a hazard without a property: any model of it shows only the lost update.
* **Type registry, node formatting, tools and MCP server.** Types are written once and read afterwards,
  formatting is text, and the tools wrap operations that `GraphStore` and `Queries` model.
* **Run log and progress.** Wrapped streams and counters that no other part reads.
* **Language servers, language models, OAuth, embedding service, file system watching, React views.** External or
  I/O; their outcomes are nondeterministic choices of the models that use them.
* **Secrets.** A separate package about which commands may see which variables, a question of security that this
  project leaves aside.
* **Backup, restore, replay.** Offline tools that copy files.
* Inside the modelled parts: the heartbeat and two daemons for one project; node events and batches of several
  entries with `$ref` in the store; several symbols per file and parent links in the lsp job; extraction of
  titles and paths from plans; `isSummary` and the enricher in agent logs; idle disposal of database handles.

## Plan

Done: scheduler and job tables; store and its abstraction; pipeline of snapshots, symbols, plans and spans; agent
logs; chat of the web UI; the pure parts; and the proofs above.

Left, in order of value:

1. Batches of several entries with `$ref`, and a crash between the transaction and the index, in `GraphStore`.
2. Several symbols per file with their parents in `LspIndexer`.
3. Type registration and the two ways of adding fields to a type that rows already have.
