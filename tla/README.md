# baresync: models and proofs

baresync keeps a SQLite database on a device in step with a server. The
application edits rows locally and records every edit in an outbox; a sync engine
in Rust pushes the outbox, pulls what others have written, and settles conflicts;
a Tauri plugin runs the engine from commands and from a polling loop; a
TypeScript server library stores pushes behind an idempotency guard and answers
pulls with watermarks and deltas.

This directory models that system in TLA+, checks the models with TLC on small
instances, and proves the main results with TLAPS for every value of the
constants. Every definition that stands for code is tied to its lines in
`PROJECT.json` ("map"); every property has a mutated definition ("mutants"),
kept beside the original with a comment `Mutant:`, under which TLC finds it
violated.

Paths below are relative to the repository: `core/` is
`crates/baresync-core/src/`, `plugin/` is `crates/tauri-plugin-baresync/src/`,
`ts/` is `packages/baresync/src/`, `docs/` is `apps/docs/content/docs/`.

## 1. The system

| Part | State | Operations | Interacts with |
|---|---|---|---|
| Local database (`core/schema.rs`, `outbox.rs`, `cursor.rs`, `gc.rs`; `ts/schema/local-schema.ts`) | synced tables with `is_synced`, `deleted_at`, `updated_at`; `sync_outbox`; `sync_cursors` | typed writes with an outbox entry (`ts/tauri/client.ts`), reading unsynced changes, marking, collecting tombstones, purging | shared by the application and the engine through one connection |
| Sync engine (`core/engine.rs`, `push.rs`, `pull.rs`, `state.rs`) | the run in hand: mode, pull page, push units, what was accepted | `sync_now` and its modes (status, push only, pull only, full sync, full resync), quarantine, reconciling pull | database, server; started by commands and the poll loop |
| Database worker (`core/db_worker.rs`, `drizzle_proxy.rs`) | one connection, its open transaction, a queue of 32 | statements, batches, savepoints | every reader and writer |
| Polling and commands (`plugin/polling.rs`, `commands.rs`) | `sync_in_progress`, `paused`, the control sender and the task handle, the channel | start, stop, pause, resume, window events, sync commands, the loop | the engine; the front end |
| Idempotency guard (`ts/server/idempotency.ts`) | `sync_batch_requests` rows: pending or completed, hash, response | reserve, replay, reclaim, finalise, delete, cleanup | every push handler |
| Server handlers and Drizzle service (`ts/server/handlers.ts`, `drizzle.ts`) | server tables with `sync_updated_at` | push, delta, baseline, status | the guard, the application's database |
| Migrations, client id (`core/migrations.rs`, `db.rs`) | journal table; the stored id | apply pending migrations; get or create the id | start-up |
| Schema generator and CLI (`ts/generator/`, `ts/cli/`) | dated directories of a contract, orders, a manifest and schema snapshots; the schema files and the config they come from | `generate`, `--check`, `doctor` | the developer, who edits the schema files; the date |
| Skills installer (`ts/skills/`, `ts/cli/skills.ts`) | a skill directory per AI harness | install, update, info | the package's version |
| Scaffolder (`packages/create-baresync/src/`) | the new project's files | ask, run two initializers, write, patch, install | the initializers; the generator's paths |
| Documentation site, examples | none | presentation | not modelled |

What makes it hard:

* **Interleaving on one connection.** The engine reads a table, waits for the
  network, and marks what it read; meanwhile the application edits the same
  rows, and its open transaction encloses whatever the engine writes.
* **Partial failure and crashes.** Every response may be lost, each chunk may fail
  after earlier ones were accepted, and the process may die between any two
  statements: pull batch and cursor, outbox marking and row marking, the server's
  commit and the stored response.
* **Retries.** Lost responses are retried under a key derived from outbox ids;
  the guard must tell a retry from another push, a slow run from a dead one.
* **Asynchronous control.** Plugin commands run concurrently and touch two slots, a
  flag and a channel between awaits.
* **Cursors.** A cursor handed out too early, or stored too early, skips changes for
  ever; one that cannot be parsed stops every delta.
* **Several limits.** The device and the server each have a limit in bytes and in rows, and the
  chunk that one accepts the other may refuse.
* **Files one by one.** The tools write many files, import some of the same files as modules,
  and take the date at different moments; they can be killed, or the files edited, in between.

What makes each part correct:

* the local database: no edit of the user is dropped unnoticed, `is_synced = 1`
  is earned, an outbox entry is marked only when settled, a cursor is stored only
  from an answer gone through to its end, and the outbox drains;
* the guard: a key takes effect once, and an answer is the answer to one's own
  body;
* the plugin: one sync at a time, one loop, a stop that stops, a status that
  tells the truth, commands that return (the last four but for starts that overlap);
* the server's pull: a change committed after a cursor is seen by the next pull;
* chunking: everything pending is sent, in order, within the limits, and what is
  acknowledged is stored;
* the tools: what the generator leaves on the disk is one schema in foreign-key order,
  what `--check` says is what `generate` does, and a project or a skill reported as
  done is whole.

The hazards of this code, each at its line, are listed in `PROJECT.json`
("hazards") with the properties that catch them, or the reason none does yet.

## 2. Modules

| Module | Models | Proofs |
|---|---|---|
| `ClientSync` (`MCClientSync`) | the local database, the application's writes, the engine's runs | `ClientSyncProofs` |
| `IdempotencyGuard` (`MCIdempotencyGuard`) | the guard and both forms of its cleanup, one key, any number of requests | `IdempotencyProofs` |
| `AtMostOnce` | abstract: what the guard promises | refinement in `IdempotencyProofs` |
| `Polling` (`MCPolling`) | the plugin's commands, window events and polling loop | `PollingProofs` |
| `ServerSync` | the server's pushes, status and pull statement by statement, and the cursor of one device | `ServerSyncProofs` |
| `CursorText` (`MCCursorText`) | the same with the cursor as a text that is formatted, stored and parsed | refinement in `ServerSyncProofs` |
| `PushRun` (`MCPushRun`) | a push from the outbox through chunks, splits, requests, handlers and the guard to the server's tables | `PushRunProofs` |
| `Lists` | the part of a list whose elements are in a set, as a recursive function | `ListLemmas` |
| `SchemaRules` | the rules for tables: diagnostics, contract, foreign-key order, as operators | `GeneratorProofs` |
| `Workbench` | what the tools share: the date, the schema files, the terminal | |
| `Generator` | `generate`, `--check` and `doctor`, file by file | `GeneratorProofs`, `ToolchainProofs` |
| `Scaffold` | `create-baresync`, step by step | `ToolchainProofs` |
| `Skills` | the skills commands, file by file | `ToolchainProofs` |
| `Toolchain` (`MCToolchain`) | the three tools and the developer on one machine | `ToolchainProofs` |

`CursorText` extends `ServerSync`; `Toolchain` composes `Generator` (which uses
`SchemaRules`), `Scaffold` and `Skills` over `Workbench`. `ClientSync`, `IdempotencyGuard` and
`PushRun` look at one push from three sides: the first interleaves reads and marks with the
application, the second the statements of the guard, the third follows the chunks through both.

### ClientSync

Two actors. *The application* edits rows and enqueues entries
(`WriteLocalChange`, or statement by statement in `BeginTx`, `TxWrite`,
`TxEnqueue`, `CommitTx`, `RollbackTx` when `InteractiveTx`). *The engine* takes one SQL
statement, batch or HTTP exchange per action: `StatusAnswer`; `PullAnswer`,
`ApplyBatch` (or `BatchFails` and `ApplyRow`, the row-by-row fallback),
`StoreCursor`; `ReadTable`, `Quarantine`, `NothingToSend`, `ChunkAnswered`,
`MarkOutbox`, `NothingAccepted`, `MarkRows`; `GcStep`. `AfterPull` and
`AfterPush` are the engine's mode machine (`run_push_only`, `run_pull_only`, `run_full_sync`,
`run_full_resync`, with the reconciling pull after a rejection). `StepFails` is any
step's error, `Crash` loses the engine's variables and rolls back an open
transaction. The server is the environment: `StatusAnswer`, `PullAnswer` and
`ChunkAnswered` let it answer anything its protocol allows; `PullAnswer` names any cursor,
a lower one than the device has included, since the server computes it from the rows it finds
(drizzle.ts:320-337) and the client compares nothing. `recorded` are the bodies that the
server's guard has on record; `ChunkRefused` is its 409 for a key that it has with another body.
`KeepsRecords = FALSE` is a server that cleans its records up before an entry is sent
again: then nothing is refused.

Abstractions:

* a row is its `updated_at` stamp, whether its content is a local edit, its flag and
  its deletion mark; the stamp of a remote row is not kept because `is_synced = 1`
  decides for it;
* the partial unique index of `sync_outbox` (local-schema.ts:28-33) leaves at most one
  pending entry per row: `pending` is a function from rows to ids, and an id is the
  stamp of the edit that created the entry; the operation column is left out
  because the typed API enqueues "insert" and "update" only;
* chunks are any subset of what is left to send, so every chunking, splitting and
  failing after any chunk is included;
* an acknowledgement divides a chunk into accepted and rejected rows, as the
  server's service builds it; an application raises `updated_at` with every edit;
* what a cursor stands for is `ServerSync`'s: here `through` holds the cursors whose answer the database has
  gone through to its last row, applied or, in the row-by-row fallback, skipped for a constraint (pull.rs:91-111);
* one scope; the two queries of `get_sync_local_state` are one step, and foreign-key
  order within a batch is not visible.

`NoEditForgotten` exempts edits that were made while their row's entry was in
flight: those are lost to the outbox, which the run `client_inflight` shows as a
finding.

### IdempotencyGuard

One client id and key. Each request is at one statement of `runGuard`: load,
reserve, reload after a conflict, reclaim, run the callback, finalise, or delete
the pending row when the callback throws; it may die anywhere (`Dies`). `Cleanup`
deletes in one statement, `CleanupSelect` and `CleanupDelete` in two, as the
`limit` form does. A row is identified by the request that inserted it (ids are
not reused), `created_at` is an order number, and `elapsed` says how many of them have gone
stale; any row may, at any time. The cleanup's age limits are taken to be longer than
`pendingTimeoutMs`. A callback that throws leaves no effect: it is assumed to be one transaction, as the
documentation asks; without one, `applyPushChanges` (drizzle.ts:418-446) leaves the rows before the one that threw.

### AtMostOnce

The abstract guard: one request takes effect, replies are its response for
requests with the same body, anything else is an error.
`AtMostOnceSpec` maps `effect` to the first committed run and `reply` to what each
request was told. The abstract promise is void once a row is taken over or cleaned up; until then it binds,
whatever dies, throws, waits or ages.

### Polling

A call is an asynchronous task whose next step is `pc[c]`; what it holds across an await
is `held[c]`. The slots `poll_control_tx` and `poll_task_handle` have a value
and a lock: an `if let` whose scrutinee locks a mutex keeps it locked to its end
(edition 2021), so `Stop` holds the control lock while it sends and the handle lock
while it joins. The loop takes a timer tick, the end of a sync, or a message.
A loop is named by the call that spawned it. Left out: `last_sync_at`, the
notification permit, and the resets of `next_tick` (the timer is always about to fire);
`poll_on_background` is false, the other setting has no window events.
`After` says which calls the front end awaits before making another; it may be any relation, none included.
`overlapped` is history: the starts that ran beside another start that spawned a loop, or beside a stop.

### ServerSync

The server's tables under concurrent pushes, and one device that asks for status and
pulls. A push takes its timestamp (`ReceivePush`) and writes its rows one statement at a
time in the order of the tables (`WriteRow`), or stops half way (`PushFails`). A
request walks the tables with two statements each, `ReadLatest` and `ReadRows`;
`StatusAnswered` and `PullAnswered` are its answer on the device, `StoreCursor` what
the device does with the cursor, `Abort` a request or a batch that fails or an app
that ends. `SyncNow`, `SyncPull`, `SyncFullResync` and `Reconcile` are the four ways in which
the engine comes to ask; one at a time, as `Polling` shows.

Abstractions: a row is the push that wrote it last, its time that push's; an upsert and
a soft delete are the same to a cursor; a cursor is its timestamp (0 for the empty string);
pushes come from anyone, the device included, and
the device makes no edits here (they are `ClientSync`'s). The clock does not go back. `overtaken` and `fresh` are
history: which rows were written too late for the cursor, and whether the last sync met a
write.

`SkippedOnlyIfOvertaken` says when the device is past a row it does not have: only if the
row was written with a timestamp the cursor had reached, or behind the handler that was
reading for it. Reading the latest row before the rows, and storing no cursor of a
partial pull from the start, are what it needs. Rows that were
overtaken stay away until somebody writes them again or the device resyncs in full.

### CursorText

`ServerSync` with three texts beside its numbers: the stored cursor (`text`), the candidate a
handler would write its cursor from (`best`) and the cursor of the last answer (`reply`). A text
is its time and the row it names; the table follows from the row. `ReadLatestText` keeps the
latest row by time and then by id, as `compareSyncCursorRows` does (`updatedAt` is the
same time formatted, so it decides nothing). A handler parses the text before it reads; a text that
names a row with a colon in its id does not parse, and the request is `Refused`, which is
one of `ServerSync`'s aborts. `RefusedStaysRefused` and the run `cursor_resync` say what
this costs the device.

### PushRun

One push after another. `StartPush` reads the outbox and makes chunks of it
(`chunk_pending_push_tables`); `NextChunk` takes the first, which is split when it is over the
device's limit (`Split`; the second half goes first) or sent; the server takes it up
(`Handle`: envelope, order, guard), writes its rows one by one (`ApplyRow`) and completes; the
answer arrives, or is lost, or is a 413, 409 or an error (`Answered`). After the last chunk
`MarkSynced` takes the answered units' entries out of the outbox by their ids,
in whatever version they are by then. A handler whose client has gone works on.
`Edit` is the application's; an edited entry keeps its id. `Pull` is a pull between two pushes that
replaces a row by a newer one: its entry stays pending under its id and what is pushed under it is the row as pulled, for the row is read
when it is pushed (schema.rs:170-175). `Expire` lets a pending row go stale.

Abstractions: the reads and the marks of the tables are one step each (`ClientSync` has them apart), and so
are the statements of the guard (`IdempotencyGuard`); a row travels as its version and a deletion is a
version; what other devices write is here only when a pull has brought it; the server rejects no row, as the Drizzle repository never does;
a failed scope is a failed request.

### Generator, Scaffold, Skills, Toolchain

One command at a time runs in the terminal of a developer, who may edit or remove a schema file, or meet
midnight, between any two steps of it; each command may be killed between any two writes.

`Generator`: a config module exports entries in the ways `resolveLoadedConfigEntries` accepts; `Invoke`
imports it, and the schema modules once (what was imported is what the whole command sees);
`Judge`, `Found` and `Blocks` are the diagnostics as each command takes them; `Accept` computes the order and the date;
then contract, orders, manifest and the two snapshots are written one by one, formatted, and `Finish` sets the exit
code. `SchemaRules` has the rules: each `check...` operator returns the findings of the function of that name. A paired configuration declares
`isSynced` local-only and `syncUpdatedAt` server-only for every table whose options say nothing (index.ts:127-128); a contract built by hand declares nothing
(`paired` in `syncedTable` and `Contract`), so it is refused without `is_synced` and warned of without `sync_updated_at`.
A file's content is the schema and the date it was made from. `checked` keeps what the last `--check` was about; one under which
a file was edited counts for nothing, since no state of the files is what it looked at.

`Scaffold`: the prompts, the directory, the two initializers (which may leave anything of `AppLeavings`,
`ServerLeavings`), and the writes in their order, each with what it needs to find. `Skills`: install and
update, one file per step, for each harness.

Abstractions: the two dates of `buildRootScaffoldFiles` are taken at once; a single file is never torn; file contents
are not looked into beyond what names other files.

## 3. Runs

| Run | Question | Instance |
|---|---|---|
| `client_one_table` | `TypeOK`, `MarkedOnlyIfSettled`, `NoEditForgotten`, `CursorNotAhead` | 2 rows of one table, 2 edits, cursors 0..1 |
| `client_interactive` | `NoEditForgotten`, `FlagEarned` with interactive transactions | 1 row, 2 edits |
| `client_drains` | liveness: `OutboxDrains` | 1 row, 2 edits |
| `guard_always` | `TypeOK`, `OnceUnlessExcused`, `AnswersAreRuns`, `OwnAnswerUnlessExcused`, and refinement: `AtMostOnceSpec` | 3 requests, 2 bodies, rows may always go stale |
| `polling_calls` | `TypeOK`, `OneSyncAtATime`, `OneLoop`, `StopStops`, and liveness: `CommandsReturn` | two components, 3 starts and 2 stops that overlap, 3 other calls, channel of 1 |
| `server_sync` | `TypeOK`, `SkippedOnlyIfOvertaken`, `QuietSyncIsComplete`, `CursorTextTells`, and the action property `RefusedStaysRefused` | 1 row in each of 2 tables, 2 pushes, times 1..3, a colon in one id |
| `push_run` | `TypeOK`, `SuccessIsComplete`, `AcknowledgedIsStored`, `OnlyHalvesOvertake`, `TooLargeIsTruthful`, `ConflictOnlyAfterChange`, and liveness: `PushEnds`, `Drains` | 3 rows of 2 tables, 2 handlers, 6 sets of limits, 1 or 2 edits or pulled rows, 1 to 3 faults |
| `toolchain` | `TypeOK`, `ParentsFirst`, `OnlySyncableTables`, `DirectoryAgrees`, `CheckPredictsGenerate`, `OneRunPerProject`, `SuccessIsWhole`, `ImportsResolve`, `SkillsAreWhole`, and the action property `FrozenForLaterRuns` | 3 tables in 13 schemas, 2 kinds of configuration and the template's, 2 runs of each tool, 1 edit, 2 days |

Why the bounds are enough: two edits let a second edit meet an entry that was read,
sent, answered, half marked or marked; two rows let one be accepted and the other
rejected (that tables are taken one after the other is in the proofs, for any number of them); one
non-empty cursor distinguishes stored from applied (a lower non-empty cursor, and a rollback between a pull's rows and its cursor, are
in the proof of `CursorNotAhead` only; with two cursors or with transactions the run exceeds five minutes). Three requests are a first, one
that takes over, and one that replays or deletes. A channel of one is full after one message as the code's is after ten. Two tables and two pushes let a
push write behind and ahead of a reader, and overwrite another's row late; three milliseconds give a time
before, at and after a cursor, and a colon in one of two ids gives cursors that parse and cursors that do not.
Three rows in two tables make chunks that are split into halves of which one is split again; six sets of limits
put the target, the device's limit and the server's limits in every order that changes the outcome;
a row that grows when it changes passes each of them. Thirteen schemas hold one reason for each refusal, every kind of
reference and a warning; each tool meets an edit, a midnight and a second run of itself. The bounds `MaxClock`, `MaxCursor`, `MaxTime` `MaxVersion`, `MaxDay`, `Budgets`, the edits and faults in `LimitChoices`, and the sets of calls, requests and
handlers are the only ones; requests, calls, edits and commands are finite, so those runs may stop, and they say
`CHECK_DEADLOCK FALSE`. Rows are symmetric where one table holds them all and no liveness is checked.

Runs that end in a violation each show that the code does something other than
what its documentation or a comment says; `PROJECT.json` ("findings") quotes the line.

| Run | What it shows |
|---|---|
| `client_inflight` | an edit made while its entry is in flight is marked with it |
| `guard_wrong_replay` | a reclaimed row keeps the old hash, and the wrong response is replayed |
| `polling_unawaited` | after two starts that overlap, a stop tells one loop to end, waits for the other, and never returns |
| `cursor_resync` | a device whose cursor the server cannot parse keeps it through a full resync that was offered a good one |

Other differences between code and documentation that the models contain, and that no
run of its own checks:

* `core/push.rs:511` marks the entries of rejected rows with those of the accepted
  rows of their table; `docs/sync-engine/reconciliation.mdx:35` says they remain unsynced.
* `core/push.rs:516-521` marks entries and rows in two statements;
  `docs/sync-engine/cleanup.mdx:66` says in one transaction. `NoEditForgotten` holds all the same:
  the server has answered for what is marked.
* `core/pull.rs:184` stores the cursor after the batch; the comment at
  `core/db_worker.rs:336` says in the same transaction. After a crash in between the pull is repeated. But if
  the application rolls back a transaction it had open when the batch joined it, and does so before the cursor is
  stored, the rows are gone and the cursor stays: those cursors are `torn`, and `CursorNotAhead` excepts them.
* `core/pull.rs:91-111`: a row that breaks a constraint is skipped, with a warning in the log, and the cursor moves past it.
* the engine reads what an open transaction of the application has written (one connection);
  `docs/local-database/transactions.mdx:103` says no partial state is visible.
* `ts/server/idempotency.ts:113`: two requests that have read the same stale row both take it over;
  `docs/server/idempotency.mdx:24` says the UPDATE avoids concurrency windows. `OnceUnlessExcused` counts
  both.
* `writeLocalChange` (`ts/tauri/client.ts:208`) sets no column: `isSynced` is left to its callback;
  `docs/schema/local-sync-columns.mdx:38` says it is set to `false` automatically. `WriterClears` says
  whether the callback does; the runs take the case that it does, and so do `NoEditForgottenHolds` and `FlagEarnedHolds`;
  all other proofs hold for both.
* `ts/server/idempotency.ts:214` stores the response after the changes are committed; a retry that takes over
  the row of a run that died in between processes the push again, where `docs/schema/runtime-tables.mdx:59`
  says the cached response is returned "instead of processing it again". `OnceUnlessExcused` counts it as a
  take-over.
* `docs/running-in-production/monitoring-sync-health.mdx:40` says a cursor tells the server "I have everything up to
  this point". A push takes its timestamp before it writes (handlers.ts:240) and a pull reads the tables one after
  the other (drizzle.ts:302): a row stamped before and written during a pull is below the cursor and not delivered.
  `SkippedOnlyIfOvertaken` says that these are the only rows missed.
* an unparsable cursor is answered with 500 `sync_unknown` (service.ts:369-415), where `docs/server/cursors.mdx:94` and
  `docs/reference/errors.mdx` say 400 `sync_cursor_invalid`.
* two starts of polling that overlap can leave two loops (commands.rs:456). A stop then ends the loop whose sender
  was stored last, and waits for the one whose handle was: where they differ it never returns and keeps the handle's mutex, so
  every later start and stop waits too (`polling_unawaited`). The `useEffect` example of
  `docs/js-client/polling.mdx:18` does not await its calls; line 33 says a stop "stops the polling loop
  entirely".
* a late push that overwrites the latest row of all lowers the highest timestamp, and with it the next
  cursor; `docs/server/cursors.mdx:81` says cursors increase monotonically. Nothing is lost by it:
  `SkippedOnlyIfOvertaken` holds.
* a sync can begin after `pausePolling` has returned (`plugin/commands.rs:548`, `docs/js-client/polling.mdx:44`); a
  focus event is dropped while the control mutex is held, or overtaken by the blur before it
  (`commands.rs:624`, `docs/running-in-production/performance.mdx:73`); a stop between the two slots of a
  start that is not awaited leaves "running" without a loop (`commands.rs:513`, `polling.mdx:68`).

* chunks: the halves of a split chunk go to the front, the second before the first (push.rs:413, 464), where
  `docs/sync-engine/chunking.mdx:43` shows them in order: `OnlyHalvesOvertake` says how far rows overtake. A
  `SingleRowTooLarge` (push.rs:422) ends the push before the chunks accepted so far are marked, so they are sent again,
  perhaps in other chunks and under other keys, and applied again; a handler left behind may then write an older version
  over a newer one (`overtaken` in `AcknowledgedIsStored`).
* `applyPushChanges` checks a table's name when it comes to it (drizzle.ts:418): the tables before an unknown one are written.
* `--warnings-as-errors` is ignored by `generate` for entries with schema paths (index.ts:256;
  `docs/generator/diagnostics.mdx:34`, `docs/reference/cli.mdx`): `CheckPredictsGenerate` exempts that flag.
* `doctor` does not read the manifest (`docs/reference/generated-artifacts.mdx:45`), and no command compares a contract with the
  one before it. `MISSING_DELETED_AT` and the scope diagnostics cannot be reached for tables made with
  `syncedTable`. `MISSING_LOCAL_IS_SYNCED` never fires for a paired configuration with the default options
  (index.ts:127, diagnostics.ts:249-275), although `docs/schema/diagnostics.mdx:26-35` lists it among the errors that block generation;
  `UNSUPPORTED_PRIMARY_KEY` does not look at two columns that are each declared primary (diagnostics.ts:104). A reference to an
  external table whose name contains "cycle" is reported as a cycle (diagnostics.ts:384).
* a second `generate` on the same day overwrites the directory, where the guide to updating schemas says a new one is
  created; of two entries with the same directory one is dropped without a word (cli/generator.ts:445). A bare entry over the directory of a
  paired one leaves the snapshots of the old schema beside the new contract: `DirectoryAgrees` claims nothing of them.
* the template's imports carry the date of the scaffolding (templates.ts:35): a `generate` on another day writes
  where they do not look. `ImportsResolve` says when they meet.
* the scaffolder replaces the template's package.json and README; its scripts call `scripts/dev.mjs` and
  `scripts/run-workspace.mjs`, which no template writes (scaffold.ts:444). A vite.config.ts of another form is left
  unpatched (scaffold.ts:118). A cancelled framework prompt exits with 0 and leaves half a project, which a retry refuses.
* cancelling the prompt of `skills install` counts as yes, since the cancel symbol is truthy (cli/skills.ts:46); an update leaves
  files that the new version no longer has (skills/install.ts:152).

## 4. Fairness

`ClientSync`: an engine run goes on while it can (weak fairness of `Engine`), except where it waits for an answer; the poll loop
asks for a sync again and again and sometimes finds the engine free, although other
commands may take it (strong fairness of `SyncNow`); faults (errors, crashes, rejections, rollbacks of the application) are
finitely many. A refusal with 409 is no fault: nothing in the code makes it cease. Nor does anything make a request end:
`reqwest::Client::new()` (http.rs:58) sets no timeout. So `OutboxDrains` says: if requests end (`RequestsEnd`), the outbox drains, or
from some time on it holds an entry that the guard has on record with another body (`Contested`), because the row was edited, or
replaced by a pull, after its chunk was processed and before its entry was marked. It needs the decision of `sync_now` to be taken from the outbox:
its mutant decides from the flags.

`Polling`: strong fairness for the steps of a call, since tokio's mutexes and channels serve
waiters in order, and for `Receive`, since `select!` picks a ready branch at random and
so does not pass over a message for ever. Nothing is assumed of the end of a sync: that every sync ends
(`SyncsEnd`) is a premise of `CommandsReturn` and `StopReturns`, for the same want of a timeout. `CommandsReturn` excepts a stop that waits for the
loop of an overlapped start, which `polling_unawaited` shows waiting for ever.

`PushRun`: the engine's steps (the poll loop pushes again and again, and a push goes on while it can), the
server's taking up of requests and each handler's steps are weakly fair, and time passes, so a pending row goes stale. A request is
answered, or its connection breaks (a fault): here too the client has no timeout of its own. `Drains` excepts a key in conflict and a row that
is too large, which stop every push for good. It needs that a pending row is taken over once stale: its mutant never does.
The toolchain has no liveness: a developer need not run anything.

## 5. Proofs

All are checked by `tlapm` to the last leaf, for every value of the constants that
satisfies the assumption named in each module (`ClientAssumption`,
`GuardAssumption`, `PollingAssumption`, `ServerAssumption`, `TextAssumption`, `PushAssumption`, `WorkbenchAssumption`,
`GeneratorAssumption`, `ScaffoldAssumption`, `SkillsAssumption`, `ToolchainAssumption`), which TLC evaluates in every run of that module.

* `ClientSyncProofs!TypeCorrect`, one lemma per action.
* `MarkedOnlyIfSettledHolds`: an entry is marked only if answered for or its row is gone.
  The property is not inductive: marking goes by the tables of the push, so
  `SettledInv` adds that the units of a push are one per row and in the order of the
  tables, that an answered unit's id is settled, that marking starts when all units are
  answered, and that the state a rollback restores was settled.
* `CursorNotAheadHolds`: a stored cursor is that of an answer this database has gone through to its last row, with interactive
  transactions and whatever cursors the server names, unless a rollback tore it. `CursorInv` adds the same of the cursor that a
  rollback would restore and of the one about to be stored.
* `NoEditForgottenHolds` and `FlagEarnedHolds`, with `WriterClears = TRUE` (a writer that leaves `is_synced` at 1 loses
  edits to older rows, see section 3) and interactive transactions allowed. `EditInv` is the one invariant for both: an edit that waits is what
  its row holds, unflagged, with an entry or half written (`EditOK`), and the same of the copy a ROLLBACK restores (`SavedOK`), which is why
  it speaks of what the server was told so far and not of when; an answered unit has told the server of the edit it carried (`AnsweredIsTold`); and
  the half-written row bears the latest stamp alone (`HalfOK`), so clearing its excuse clears no other row's. `SettledInv` supplies
  that units are one per row and all answered when marking begins.
* `IdempotencyProofs!TypeCorrect`, and `OnceUnlessExcusedHolds`: runs <= 1 + take-overs +
  cleanups. `RunsInv` also counts the callbacks that have started and a missing row, each of which
  may become a run, and says which steps of a request come before it is counted.
* `AnswersAreRunsHolds` and `OwnAnswerUnlessExcusedHolds`: `AnswersInv` follows a response from the commit to the row and
  from the row to the copies of it; `OwnInv` says that while nothing was taken over or cleaned up one request at most works, under
  the row it inserted.
* `GuardKeepsPromise`: the guard implements `AtMostOnce`, however rows age; the
  invariant `PromptInv` says that, until a row is taken over or cleaned up, the request that works under the row inserted it, that the effect is
  that request's, and that a completed row never changes.
* `PollingProofs!TypeCorrect` (with the capacity of the channel), and
  `OneSyncAtATimeHolds`: the flag is set exactly while one loop or one command syncs, however
  many loops there are. The strengthening is `SpawnedOnce`: a start that has not begun
  has no loop, so spawning never overwrites a loop that is syncing.
* `OneLoopHolds` and `StopStopsHolds`, for any calls, awaited or not; what they except are the loops of starts that overlapped
  another start or a stop. `LoopInv` follows a loop whose start was alone (`Lone`): while it starts nobody else starts or stops
  (`StartOK`), then it has both slots and keeps them until a stop begins (`KeepsSlots`), and from there a stop is in charge of it: it is told
  to end, or a stop is about to tell it, and it is in the handle's slot or a stop waits for it (`ReachedOK`, `StoppedOK`). One lemma shows that
  pauses, syncs and window events disturb none of it (`Bystander`).

* `ServerSyncProofs!TypeCorrect` and `SkippedOnlyIfOvertakenHolds`, for any tables, rows and pushes. The
  strengthening is per row: `PassedOK`, a row a storing sync will not look at again is old, overtaken, or
  already read in its present version; `PageOK`, a page never replaces a version below the
  cursor by an older one unseen; `StampOK`, a row's push has its timestamp; and that the request's start is
  the cursor, or nothing.
* `ServerSyncProofs!QuietSyncIsCompleteHolds`: `QuietInv` says of a sync no write has met that what it has read of a
  table is what the table holds, that the time it will answer with is no lower than any row of the tables whose latest
  row it has read, and that a table it does not ask for has nothing above the cursor (`ReadOK`); and what of this survives the
  sync's end and a reconciliation after it (`SinceOK`). It needs `SkippedOK` of the invariant above for rows below the cursor.
* `ServerSyncProofs!TextImplementsTime`: every step of `CursorText` is a step of `ServerSync`, so
  `SkippedOnlyIfOvertaken` and `QuietSyncIsComplete` carry over. `CursorTextTellsHolds` rests on `HighestId`: among finitely many rows of
  the highest time one has the highest id (`TextAssumption` has a finite set of rows), so the handler's candidate never lags the time it saw. `RefusedStaysRefusedHolds` needs that a request which has got past the
  parser while the stored text does not parse is one from the start (`RefusedOK`), and such a request replaces no cursor.
* `PushRunProofs`, for any rows, tables, sizes, limits, handlers and faults; `IInv` is one invariant for all six theorems. Of the device
  it says that an entry of the outbox has its row's latest version (`OutboxOK`); that a push holds one unit per row, in chunks of one
  beginning that follow one another (`PlayOK`), and that the chunk handed to the server is in that order (`ChunksInOrder`);
  and that what was read is in the deque or answered (`ReadOK`). Of the server: what a recorded body is to the entries that made its key
  (`RecordsOK`), and that the keys of unchanged entries keep the order of the outbox (`RecordsInOrder`), without which a retry
  could carry the same rows in another order; what a handler has in hand (`InHandOK`); and that a version the device was
  told of is stored, or an abandoned handler has interfered (`PromisesOK`).
  - `PushesAreComplete` needs that splitting loses no unit and repeats none (lemmas on `SubSeq` and concatenation);
  - `RowsArriveInOrder` needs that the halves of a split keep their beginning, `of`, and their place, `at`;
  - `RetriesAreAnswered` (a 409 only after an edit or a pull has changed a row of the chunk) is the longest: `merge_pending_units`, `chunk_pending_push_tables` and `orderPushChanges` give the
    same body for the same entries whatever else was pending;
  - `AcknowledgementsHold` follows a version from the unit to the body, to the handler, to the table and back to the answer;
  - `TooLargeIsTrue` needs that a unit ends a push only as a chunk of its own (`LastOK`).
* `ListLemmas`: what selecting, concatenating, cutting and flattening lists does to their elements and their order
  (`Before`). `LeastNat`, the least element of a set of numbers, is the induction: it is stated over sets, since the library's
  theorems take an operator and cannot be cited here. `Recursion` derives from it that a recursive function equals its definition.
* `GeneratorProofs`, for any schemas, without the state machine:
  - `SortResult`: `topologicalSort` reduces its measure with each turn (`Measure`: roots left, and pairs of a table and a number of
    dependencies that the search may still pass), so the turns it is given in the model suffice; and without a cycle its result
    has every table once, behind all it refers to. `SortInv` says of a call on the stack that each of its dependencies is done, or the
    next call's table, or to come;
  - `CyclesAreThere`: a cycle is reported if and only if there is one. The stack is a chain of references (`Chain`), so a table met again on it
    closes a circle; and where there is a circle, an order with every table behind all it refers to would put a table before itself;
  - `OrderIsRight`, that of `computeSyncTableOrder`, with nullable and self references left out as it does;
  - `TableIsSyncable`: rule by rule, what the absence of an error says of a table. It has `is_synced`, or its contract declares the column
    local-only; a paired contract does so by default, so for those the rule demands nothing. The key is the text column `id` alone, except
    that two columns each declared a key pass.
* `ToolchainProofs`, for any schemas, exports, leavings of the initializers, harnesses, days, edits and kills:
  - `ProjectOfOneRun` (`OneRunPerProject`): once the directory was found empty, every file in it is of the run in the
    terminal and of the one framework chosen; afterwards only removing the directory lets another run in;
  - `DatedDirectoriesFreeze` (`FrozenForLaterRuns`): the date a generate writes under is not before its
    beginning and not after today, whatever was edited or killed;
  - `TypesOK` with `TypeInv`, which joins those two invariants with `GenInv` (what was imported is what a program can import, and
    which entry is being written), `DirType` (which files a directory has at which step), `WrittenInv` and `SkillsInv`. `SuccessMeansWhole`
    is from `WrittenInv`: the files before the next one to write are good, because no initializer of the server reaches into what the
    template has written (`ScaffoldAssumption`). `CopiesAreWhole` is from `SkillsInv`: what is not left to copy is there;
  - `DirectoriesAgree`: `DirInv` follows the directory being written step by step, with the schema that was imported (`WrittenSoFar`),
    and says that without an edit the disk still holds that schema (`OneState`). Contract, orders and manifest agree whatever is edited, because
    the modules are imported once; the snapshots only where the entry was paired and nothing was edited under it;
  - `CheckPredicts`: `CheckInv` says what the entries judged so far were (`Judged`), and of the last commands which files pass or are refused
    (`Results`); the same files cannot do both;
  - `ImportsAreThere`: `ImportsInv` keeps the entry of the template through a generate, and of the last one the day it wrote under;
  - `ContractsAreOrdered` and `ContractsAreSyncable`: `ContractsInv` says that a contract on the disk is of an accepted schema
    (`AcceptedSchemas`) with the orders of its tables; the theorems of `GeneratorProofs` do the rest. `Blocks` lets an
    entry pass only without errors, and no error means no two tables of a name, which `OrderIsRight` needs.

The strengthenings `IInv`, `TypeInv`, `DirInv`, `CheckInv`, `ImportsInv` and `ContractsInv` also hold in every state that TLC reaches on the
instances of section 3.

Only model-checked: the liveness properties `OutboxDrains`, `CommandsReturn`, `PushEnds` and `Drains`, which need fairness and
`ENABLED`; these are beyond the prover. Every invariant and every action property that a passing run checks is also proved, and so are both
refinements (`AtMostOnceSpec`, `TextImplementsTime`). Nothing is proved of the runs that end in a violation.

## 6. Not modelled, and what is left

Not modelled, with the reason:

* HTTP client, header merging, error wording, the plugin's builder and its configuration: I/O and
  wiring without state that a protocol depends on; every request may fail or lose its answer in
  `ClientSync` and `PushRun`.
* Local migrations: one transaction per migration at start-up, before anything else runs.
* The client id: read or made once at start-up.
* The notification of the front end after SQL statements, and the query commands: no other state
  depends on them.
* The worker's queue of 32 and its nested savepoints: `ClientSync` has the one connection and what a
  foreign ROLLBACK undoes; the queue only delays.
* `resolveScope`, a callback of the application: any request may be refused.
* Option parsing, colours and wording of the command line; the documentation site and the examples.

What could follow: `DbWorker` (savepoints that join the application's transaction), `ClientIdentity`
(two engines opened on one file), `SqlNotify` (the depth that decides when changes are announced).
Of these, the client id and the depth have hazards in `PROJECT.json` that no property covers yet. No safety property of the modules
that exist is without a proof.
