# state-capture-collector, in TLA+

This directory specifies the capture bus of the repository, model-checks it with TLC and proves what it promises on
both sides of the spool with TLAPS. The bus carries every change of a utility's sqlite to Postgres:

```
 utility ──trigger──> _outbox ──collect──> spool/<db>/<lo>-<hi>.jsonl ──pull.sh──> incoming/ ──apply──> capture.*
   (sqlite transaction)   (Oracle host: service, --once, --snapshot)    (rsync, forget)    (the Mini: Postgres)
```

## Inventory

| Component | State | Operations | Interacts through |
|---|---|---|---|
| Event envelope (`src/event.rs`, `sql/001_capture.sql`) | – | build, serialise | every file, `capture.events` |
| Utility and triggers (outside the repository) | the captured tables, `_outbox`, `sqlite_sequence` | a statement and its trigger, in one transaction | the sqlite file |
| Outbox drain (`src/collect.rs`) | `after_seq`, the page in memory | fetch a page, write it, delete `seq <= hi` | sqlite, spool directory |
| Snapshot (`src/snapshot.rs`) | `BEGIN IMMEDIATE`, rowid cursor, reserved seqs | floor, cap, drain, emit pages of `I`, commit | sqlite, spool directory |
| Spool files (`src/spool.rs`) | tmp files, closed files, what is durable | tmp + fsync + rename + directory fsync; list in order | rsync, the applier |
| Collect service (`src/collect.rs` `serve`, `src/announce.rs`) | last tick, socket, announce files | tick (drain all), nudge (drain one) | datagram socket, all sqlite files |
| Pull and forget (`scripts/pull.sh`, `forget-spool.sh`) | lock, list before, list to forget | rsync, apply, forget | both spools, the applier |
| Mini applier (`src/apply.rs`) | `capture.events`, `capture.current`, `capture.watermarks` | apply a file in a transaction, retract, remove | Postgres, `incoming/` |
| Trigger payload parser, rows of a snapshot (`src/snapshot.rs`) | – | text of a trigger to columns, a row to key and image | sqlite_master, the snapshot |
| CLI, installer, units | – | argument parsing, installation | – |

What is hard, and what has to hold:

- **Drain.** It deletes rows after it has published them, in separate steps, while the utility writes and another
  process may drain the same database; processes die and hosts lose power between any two system calls. A committed
  change must always be in `_outbox` or in a durable closed file; a closed file must be whole; files of one source must
  be published in seq order, since the Mini depends on it; and what a dead drain leaves must be published later.
- **Snapshot.** It mixes a transaction with files that do not belong to it. One seq must stand for one event, and after a
  snapshot the journal must rebuild the table.
- **Applier.** Files come again, overlap, come late; an applier dies at any point; a refused line blocks what is behind
  it. A replay must change nothing, a row must never outlive a later `D`, the watermark must be the highest logged seq,
  a file may be removed only when committed, and delivered in order `capture.current` must be the live rows of the log.
- **Several appliers.** Only `pull.sh` takes a lock; an `apply` by hand runs beside it, and Postgres' READ COMMITTED lets
  statements of one see what the other has committed meanwhile. The tables must be those of some serial order.
- **Service.** One broken database must not keep others from draining; nudges may be lost, come late, or be swallowed by a
  service that dies; the tick makes up for them, and no stream of nudges may put the tick off.
- **Snapshot rows.** The snapshot rebuilds from a trigger's text what the trigger would have written; a difference in the
  key would put a row into `capture.current` twice.
- **Pull.** rsync lists and copies one file after another while the collector publishes, and may take a file without one
  closed before it. `forget-spool.sh` deletes by name the last copy outside Postgres, while the collector may publish that
  name again. What was missed must be neither forgotten nor missed again, and only the rows a late `D` reaches may be wrong.

`PROJECT.json` lists these hazards line by line with the property that covers each one.

## Modules

| Module | What it models |
|---|---|
| `CaptureEvents` | the event, the row, the `op` CHECK, and the reference meaning of a set of events (`LiveRows`) |
| `MiniTables` | the Mini's files, their order, its three tables, what each statement of `apply.rs` and a whole file do to them |
| `Apply` | one applier: arrival of files, `apply --spool [--delete-after]`, `apply --file`, any order of files |
| `Delivery` | what the sources publish, and what it means that a spool has no gap |
| `ApplyInOrder` | `Apply` when no rsync leaves a gap, as while the collector does not publish under its listing; what holds of the Mini then |
| `Replica` | abstract promise of the Mini: sources that emit behind what they have emitted, a log that grows by prefixes of their journals, and its live rows |
| `Mirror` | abstract promise of the Mini when files come in any order: a log of events of the journal that only grows, and its live rows but for the late ones |
| `SerialMini` | abstract Mini of many appliers: whole files, one at a time |
| `Appliers` | several `apply --spool` at once, statement by statement, with Postgres' locks and deadlocks |
| `Collect` | the Oracle side of one utility: table, triggers, outbox, drain, snapshot, spool files, deaths, power loss |
| `SnapshotRow` | pure: the columns, key and image of a snapshot's rows against those of the trigger |
| `Service` | the service's loop over several databases: ticks, nudges, announce files, failures, restarts |
| `Pipeline` | `Collect`, `pull.sh` with an rsync that goes file by file, `forget-spool.sh` and the Mini's tables composed |
| `PointInTime` | `Pipeline` with history variables: the utility's table at each moment (`was`), the rows a `D` reached too late (`late`), how far the collector had published when rsync began (`reach`) |
| `MCApply`, `MCAppliers`, `MCCollect`, `MCSnapshot`, `MCService`, `MCPipeline` | TLC instances |
| `IntegerSets`, `MiniTablesProofs` | lemmas: finite sets of integers and `ORDER BY … LIMIT`; files, logs and their live rows |
| `ApplyProofs`, `ApplyInOrderProofs`, `AppliersProofs` | theorems and proofs of `Apply`, `ApplyInOrder` and `Appliers` |
| `CollectProofs` | theorems and proofs of `Collect`, collectors overlapping or not: the types, sqlite, the journal, the table it rebuilds, the files left at rest |
| `SpoolProofs` | theorems and proofs of `Collect`'s closed files without overlap, and on them of `Pipeline` and `PointInTime`, the whole bus |
| `ServiceProofs` | theorems and proofs of `Service` |

How they fit together:

- `Collect` promises (`PublishedInOrder`, `ClosedComplete`, `SeqUnique`) what `Delivery` assumes of files
  (`BatchAssumption`, `JournalAssumption`): a file is whole over the range of its name, and a seq is one event. Files are
  published in order; that they *arrive* without a gap (`NoGap`, assumed by `ApplyInOrder` and `Appliers`) is true only while
  no listing of rsync runs beside a publication.
- `Pipeline` EXTENDS `Collect` and shares `closed` with it: `Rsync` and `Copy` read it and `Forget` deletes from it while the
  collector's steps go on. It assumes nothing of arrivals: a `Copy` may take a file and the listing end without one closed
  before it.
- Its Mini applies a file in one step with `ApplyFile` of `MiniTables`, because the applier of `pull.sh` is alone under
  the lock and its transaction is seen when it commits. (`Appliers` implements `SerialMini`, `AppliesSerially`, so that
  more than one applier would amount to such steps too, but it is checked and proved for arrivals without a gap.)
- `Replica`, what the Mini promises of files in order, is implemented by one applier (`ApplyInOrder`) and by several
  (`Appliers`), where the journal is a constant and never moves. `Mirror`, what it promises of files in any order, is
  implemented by `PointInTime`, from the utility's triggers on, where the journal grows (`Emit`).
- `Service` takes `write_batch` as one step, which `Collect` refines into system calls, and asks what `Collect`, with its
  one database, cannot: isolation of databases and the wake-up by nudges.

### Apply and the code

One step of the model is one event of a file, inside the file's transaction, on the copy `tx`; `Commit` publishes it.
`db` is what other sessions see.

| Model | Code |
|---|---|
| `StartSpool`, `OpenNext`, `Finish`, `Before` | `apply_spool` lists once and loops in the order of `list_jsonl` |
| `StartFile`, `Begin` | `apply_file` reads the file, `apply_events` begins a transaction |
| `LogEvent`, `SkipEvent` | the loop of `apply_events`: insert, `bump_watermark`, `continue` or `apply_current` |
| `Deleted`, `Upserted`, `ApplyCurrent`, `Bumped`, `Retracted` | `apply_current`, `bump_watermark`, `retract_stale_current` |
| `Reject` | a line serde, the CHECK or jsonb refuses: the error leaves `apply_spool` |
| `Commit`, `Remove` | commit, then `remove_file` under `--delete-after` |
| `Crash` | the process dies or its connection breaks; Postgres rolls back |
| `Arrive` | rsync, which runs under the same lock as the applier (`pc = "idle"`) |

Abstractions: `(tbl, key)` is one value. `ts` and `before` are never read and are left out. Op `"X"` stands for every
refused line. A missing watermark row is 0 (seqs begin at 1). `remove_file` and the directory listing do not fail other
than by `Crash`. `migrate` is not modelled; it writes none of the three tables' rows. One applier
runs at a time: `pull.sh`'s lock guarantees it for launchd's runs. `Appliers` drops that assumption.

### Appliers and the code

`db` is what is committed, `own[p]` what the open transaction of applier `p` has written. A statement reads
`SeenEvents(p)`, `SeenCurrent(p)`: what is committed when it starts, and its own writes.

| Model | Code |
|---|---|
| `StartSpool`, `OpenNext`, `Finish`, `Remove` | `apply_spool`; a path the other applier has removed meanwhile fails the run |
| `Insert` | `insert_event`: waits for another transaction's insert of the same seq, then finds it or not |
| `Current`, `Write` | `apply_current`: the statement's snapshot (its `NOT EXISTS`, the rows its DELETE finds), then its write, which waits for the row and looks at it again |
| `Bump`, `Retract`, `Commit` | `bump_watermark`, `retract_stale_current`, commit |
| `Waits`, `DeadlockVictim` | Postgres (external): row and unique-key locks, the deadlock detector |
| `Abort`, `Crash` | an error or a kill: rollback, the run is over |
| `Arrive`, `Copy` | rsync, while `pull.sh`'s applier is idle; `Arrive` is a `Copy` that leaves no gap (`GapFree`), as it does while the collector does not publish under rsync's listing |

rsync's arrival is one step: a manual `apply` that lists the spool while a transfer is under way could see a later file
before an earlier one, the out-of-order delivery of `apply_late_delete` and `Pipeline`. A manual `apply --file` is in `Apply`
only. A cycle of waits longer than two needs a third applier.

### Collect and the code

A process takes one step per system call that another process or a power loss can observe.

| Model | Code |
|---|---|
| `Write`, `MissedWrite`, `BreakFeed`, `RepairFeed` | the utility (external), with its triggers or without |
| `StartDrain`, `Fetch`, `NextPage`, `Delete`, `EndDrain` | `drain_conn`, `fetch_outbox_page`, the `DELETE`, the short-page exit |
| `StartSnapshot`, `Emit`, `Reemitted`, `CommitSnapshot` | `snapshot_sqlite`, `floor_outbox_seq`, `enforce_snapshot_cap`, `snapshot_table`, `emit_batch`, `reserve_outbox_seq` |
| `Open`, `WriteLine`, `Sync`, `Rename`, `SyncDir` | `write_batch`, call by call |
| `Die`, `RenameFails`, `PowerLoss` | a kill, a failed call, `ENOENT` of the rename, loss of what is not fsynced |

The tmp name depends only on the page, so two processes with the same page share it: `fd` records whether a process's
open file is still the tmp file, has been renamed to the closed name by the other process, or is replaced. `tx` is the
outbox as the holder of `BEGIN IMMEDIATE` sees it; `box` is what is committed. `journal` is a history variable: every
event a trigger committed or a snapshot published.

Abstractions: one database with one captured table whose key is its rowid; events of a page are written in seq order,
so a file is a set; `ENOSPC`, `SQLITE_BUSY` and kills are all `Die`; a snapshot whose cap check refuses is not
started, because the refusal rolls back everything it did; the fsync of the directory is taken to succeed, although the
code ignores its error; malformed outbox JSON is left to `Service`; which columns a row has is left to `SnapshotRow`.

Three constants separate what holds from what does not, so that a passing run says exactly when a property holds:
`Overlap` (a second process may run beside the first), `EmitMayFail` (a snapshot may end early after it has published)
and `Missable` (which operations a broken feed loses).

### SnapshotRow and the code

| Model | Code |
|---|---|
| `JsonObject`, `TriggerText`, `TriggerKey`, `TriggerAfter` | capturable-state's triggers (external), as the docs and tests show them |
| `FromLastCall`, `PayloadOf` | `payload_from_insert_trigger`: `rfind`, the quoted identifiers up to the first `)` |
| `Accepted` | `captured_tables`' refusals |
| `Tables` | the tables themselves (external): every small one a utility can have |
| `OrderedColumns`, `Selected`, `Offset` | `ordered_cols`, the SELECTs of `fetch_rowid_page` and `snapshot_all_rows`, the offset each gives `row_snap` |
| `ValueOf`, `SnapKey`, `SnapAfter` | `row_snap` |

A trigger's text is a sequence of tokens. A payload column whose name is no identifier is left out of the snapshot's image
without an error, unless it is part of the key; `Agrees` states the agreement with that exception. `sql_value_to_json` is
left out (it turns a blob into null, where sqlite's `json_object` refuses a blob). What the code asks sqlite of a table is
given, not modelled: `table_columns` and `pk_columns` (PRAGMA `table_info`) and `is_without_rowid`, which looks for the words
WITHOUT ROWID in the table's text and could find them where they mean something else.

### Service and the code

An event is its seq; a database in hand goes through `open`, `fetch`, `publish`, `prune`, one step per call.

| Model | Code |
|---|---|
| `Tick`, `TickNext`, `TickDone`, `LoadDir` | the tick of `serve`, `drain_all`'s loop in file-name order, `load_dir`, `last_tick = now` |
| `LoadDirFails` | `read_dir` fails: `drain_all` returns before its first database, and `last_tick = now` all the same |
| `Listen`, `Recv` | `recv_from` with its 500 ms timeout; an empty or unknown name is passed over |
| `Open` | `drain_named`, `load_named`, `drain_sqlite` up to `has_outbox`, each of which may now say no |
| `Fetch`, `NextPage`, `Publish`, `Prune` | `drain_conn` and `fetch_outbox_page`; one field that is not JSON fails the page |
| `Return` | `drain_named` is back in the loop of `drain_all` or of `serve` |
| `Fail` | it is back with an error, which both log and go on |
| `CallFails`, `Die`, `Restart` | a failing call, a kill or an error of the socket, systemd's restart with `last_tick` in the past |
| `BindSock` | `bind_sock`: systemd's socket with what is in it, or the old one removed and an empty one bound |
| `Commit`, `Nudge`, `NudgeLost`, `Break`, `Repair`, `Elapse` | utilities, operator and clock (external) |

The socket outlives the service when systemd's socket unit holds it (`deploy/systemd`, `LISTEN_FDS`). A service that binds its own
removes the old one first; the nudges in that are then as lost as those that were never sent (`unheard`), and its first
tick makes up for them. A `bind` that fails ends the service before its loop: a restart that has yet to happen. `collect --once` is one tick; its exit code is not modelled. `unheard` and `asked` are
history variables: the databases of which a nudge, the socket or a drain failed since their `_outbox` was last read, and what a running
tick owes.

### Pipeline and the code

| Model | Code |
|---|---|
| `Rsync`, `Copy` | `pull.sh`: the lock; rsync, which copies each file that was closed when it began, and any that is closed meanwhile |
| `ListLocal` | rsync is done, `list_rel >"$before"` |
| `ApplyNext`, `RemoveApplied`, `FirstOf` | `apply --delete-after`, file by file in the order of `list_jsonl` |
| `InSeqOrder` | the lines of a file, in the order `write_batch` wrote them |
| `ListForget` | the loop over `$before`: what was listed and is gone locally |
| `Forget`, `PullDone` | `forget-spool.sh`, name by name; the end of the script |
| `PullFails`, `EndPull` | any command fails or the Mini goes down; `set -e`, and the lock goes with the process |
| `Collecting`, `Connected` | a step of `Collect`; a power loss of its host also ends rsync and ssh |

POSIX says of a directory that changes under `readdir` only that what was there all along is listed. `Rsync` therefore takes down the
names it is bound to copy, and `Copy` takes these in any order, and as many as it likes of the files closed since: a listing may have a
file and miss one closed before it. Then the Mini's watermark is above a gap, and when the missed file comes with a later
pull, a `D` in it removes the row whatever newer image it has (`apply.rs`, `DELETE` without a look at the seq). `late` records the rows
that this happened to, until an event later than all others of the row settles it again. What the bus promises is stated with these exceptions and no
others; `DAILY_OPS.md` says of the watermark that it is "max seq, not a contiguous fill", and `GapsAreSpooled` says where the gap's
contents are meanwhile. rsync's own temporary files do not match `*.jsonl`.

## Runs

| Run | Question | Instance and why it is enough |
|---|---|---|
| `apply_any_order` | what holds whatever the order of files | six files of two sources: an insert, update, delete and re-insert of one row spread over three files, a file that overlaps them, one that is refused. Every order, repetition and crash of these is reached |
| `apply_in_order` | does delivery without gaps give the live rows, implement `Replica`, and make progress | the same journal with an overlapping drain and an update without image |
| `apply_late_delete` (violation) | is `capture.current` the live row in any order | as `apply_any_order` |
| `collect` | does one collector at a time lose, split, reorder or renumber anything | 2 rows, 2 images, batch 2 (full, short and empty pages), seqs up to 4, `--min-seq` below and above the current seq, one death or power loss at any step |
| `snapshot` | does a snapshot repair a feed that lost inserts and updates; are its rows the trigger's | batch 1, so the emit pages; breaks and repairs at any time; one death. Every table over four column names, one of them no identifier: key of none, one or two columns, up to three captured ones in any order, with and without rowid |
| `collect_overlap` | two processes on one database: is what they leave at rest whole, complete and in order, and is everything published | one row, seqs up to 3, `--once` or `--snapshot` beside the service, no deaths |
| `appliers` | do two appliers amount to a serial one and still implement `Replica`, do files always get in | a row created, updated, deleted and created again, over three files that overlap, so that appliers meet on events, on the row and on the watermark; `--delete-after` or not, kills at any step |
| `service` | does one database's trouble reach another, is a wake-up ever lost | two databases, one of three rows with batch 2 (a full page and a short one), one of a single row, a socket for two datagrams, one mishap of any kind at any moment (a broken database, a failing call, a tick that cannot list the databases, a death), a restart with or without the old socket, repairs and lost nudges without bound |
| `pipeline` | is anything lost end to end, where is what the Mini misses, which rows may a reader trust and what do they show, does the bus implement `Mirror`, does it converge | two rows, so that a moment has parts, written three times in all; batch 2 (a repeated page grows, so names overlap or come again); one death, power loss or failed pull at any step. Listings that miss an earlier file, watermarks above a gap and late rows are all reached, the last by an insert, a missed delete and a re-insert; that a late row is settled again takes a fourth seq, and is left to the theorem |
| `tmp_race` (violation) | is a closed file whole at every moment | as `collect_overlap` |
| `snapshot_rollback` (violation) | is a seq unique when a snapshot dies after publishing | as `collect`, `EmitMayFail` |
| `ghost_row` (violation) | does a snapshot repair a feed that lost deletes | a feed that loses `D` |

Named bounds: `MaxSeq` (no change or snapshot passes it; in `Service`, one for each database), `MaxDeaths`, `MaxMishaps`, `MaxCaptured` (columns of a payload). `Write` and `StartSnapshot` have no other
reason to stop; draining and publishing go on at the bound. Nothing in the code depends on the size of a seq below
2^63, and `Batch`, `RowCap` are constants of the model in place of 5 000 and 100 000. `collect` and `snapshot` use
symmetry of the two images; runs with liveness use none. Deadlock is checked in all runs.

**Fairness.** `ApplyInOrder!FairSpec`: launchd starts `pull.sh` every 300 s, so a run is started again and again
(`WF` of `StartSpool`), and a started run is a sequential program that goes on (`WF` of `Run`). Arrival and `Crash` are not fair;
`EventuallyLogged` asks for progress only if kills cease; runs go on ending by themselves, when their files are done or at a refused line (`Crash => Run`). `Collect!FairSpec`: the service ticks (`WF` of `StartDrain(Service)`) and
system calls return (`WF` of each process's `Step`); the utility, the operator and deaths are not fair. `Appliers!FairSpec`: `WF` of
launchd's `StartSpool(Puller)`, and `SF` of each applier's steps: a statement that waits for a lock is enabled again and
again as holders come and go, and Postgres' lock queue serves it in the end. Manual runs and kills are not fair; as they may
also disturb for ever, `EventuallyLogged` asks for progress once they cease. `Service!FairSpec`: time passes (`WF` of `Elapse`) and the
service's calls return (`WF` of `Serve`); nothing is asked of utilities and nudges, so `SoundIsDrained` rests on the
tick alone. `MaxSeq` is part of that: a writer that commits faster than a drain publishes would keep it in one database
for ever. `Pipeline!PipelineFairness`: the service's fairness of `Collect` and `WF` of `Pull`, launchd's interval; rsync cannot copy for ever, because the files closed under it are
bounded by `MaxSeq`.

**What the violations say.** A `D` is applied whatever its seq, so one that is applied after a newer `I` of the row
removes it for good. A tmp file shared by two drains lets rsync see a partial file (`collect_overlap` shows it is
completed by the time both have finished without dying; a copy rsync took meanwhile is not, and since the first process has
deleted the rows by then, `NoEventLost` fails in that window too and for good if the second process dies in it). A snapshot that fails after its first
file gives its seqs back. A snapshot publishes no `D` for rows that went during a break.
Each is quoted with the sentence it disagrees with under `findings`.

## Proofs

A theorem holds for every value of the constants that its module's assumptions admit: any number of sources, rows, images,
files, processes and databases, any page, socket and bound. Nothing else is assumed except where a theorem's own ASSUME says
so.

### The Mini, one applier

`ApplyProofs` proves, for every set of files, that `Apply!Spec` keeps

- `TypeCorrect` (`TypeOK`), `NoRowResurrects` (`NoResurrection`), `RowsAreBacked` (`RowsBacked`), `WatermarksAreMax`
  (`WatermarkIsMax`), and the action properties `ReplayChangesNothing` (`ReplayIsNoop`) and `RemovedOnlyWhenLogged`
  (`RemovedWasLogged`).

None is inductive. The invariant `IInv` adds that the *open transaction's* tables have the same three properties, that
the file in hand is the file under its path, that every event passed is logged in `tx`, and that outside a transaction
`tx = db`. The heart is `CurrentStep`: logging an event and applying it keeps every current row backed, unique and newer than each
logged `D`. `RetractNothing` follows: with one applier the retract of `Commit` removes no row. `ReplayIsNoop` rests
on it too: a skipped event changes only the watermark, which is already at or above the event's seq.

`ApplyInOrderProofs` proves `CurrentStaysLatest` (`CurrentIsLatest`) and `ImplementsReplica` (`Replicates`: the Mini
implements `Replica` under the mapping `log <- db.events`, `live <- db.current`). Its invariant `IOInv` adds that both
`db` and `tx` are faithful (their rows are the live rows of their log, which is a prefix of each journal), that the spool has no gap, and that
what sorts before the file in hand is already committed. `NextIsLatest` then shows the next new event is later than all that is
logged of its source, so the blind delete of a `D` and the guarded upsert agree with `LiveRows` (`LiveRowsStep`, in `MiniTablesProofs`).

### The Mini, several appliers

`AppliersProofs` proves the same two of `Appliers!Spec`, `CurrentStaysLatest` and `ImplementsReplica`, with `TypeCorrect`,
`RemovedIsLogged` (`RemovedWasLogged`) and `ImplementsSerialMini` (`AppliesSerially`: the tables are those of whole files applied
one at a time, `SerialMini`): statement by statement under READ COMMITTED, for any number of appliers over any files.
The invariant has four layers.

- `TypeInv`: an applier that is not in a transaction has written nothing; the file in hand and each listed path are published files.
- `LogInv`: what precedes the file in hand is committed (`EarlierLogged`), what an applier has passed is committed or its own
  (`Passed`), what precedes a listed path is committed, listed or in hand (`Listed`). So two appliers with uncommitted events of one source
  would both have logged the least event of it that is not committed, and the primary key of `capture.events` lets only one of
  them: `OneLogger`.
- `RowInv`: the rows of its source that an applier reads are the live rows of the events it has been told of (`ReadsLiveRows`), and it changes rows of that source only.
- `MarkInv`: the watermark in an open transaction is the one that applying what it has passed, alone, gives; the lock on the
  watermark's row lets one transaction at a time hold a new mark of a source (`OneMarker`).

A commit is then `ApplyFile` of its file on the tables as they are at that moment (`CommitIsSerial`), however much others have
committed since it began: `AppliedInOrder` (`MiniTablesProofs`) gives what `ApplyFile` makes of a file that comes in order.

For `CurrentIsLatest` the argument uses the wait of the insert for another transaction's row of the same seq, and no other lock: neither the wait for the row of
`capture.current` nor that of `bump_watermark` is needed, and the retract never removes a row. `AppliesSerially` needs the
latter too, and breaks when the bump is not one statement (its mutant).

### The collector

`CollectProofs` proves, for any number of processes, overlapping or not, `TypeCorrect` (`TypeOK`), `OneEventPerSeq`
(`SeqUnique`), `JournalIsTheTable` (`JournalRebuildsTable`), `WholeWhenAtRest` (`WholeAtRest`) and `KeptWhenAtRest` (`KeptAtRest`). `SpoolProofs` adds, for
processes that do not overlap, `ClosedFilesAreComplete` (`ClosedComplete`), `NothingIsLost` (`NoEventLost`) and
`PublishesInOrder` (`PublishedInOrder`).

Their hypotheses are on the constants the runs set:

- `NoneFailsLate` (`~EmitMayFail \/ MaxDeaths = 0`), for all but `TypeCorrect`: a snapshot that has published goes on to its
  commit. Without it `snapshot_rollback` breaks `SeqUnique`. Every other death, power loss and failed call is admitted, any
  number of times.
- `~Overlap`, for the theorems of `SpoolProofs`: without it `tmp_race` breaks `ClosedComplete`.
- `MaxDeaths = 0`, for `WholeWhenAtRest` and `KeptWhenAtRest`: a process that dies while it writes a file another has renamed
  leaves it partial, and the other has deleted its rows. A rename that fails because another did it is admitted.
- For `JournalIsTheTable`, that a broken feed loses no `D` (`ghost_row`), and that rowids are above 0 unless the table is
  WITHOUT ROWID, because `fetch_rowid_page` starts after rowid 0.

The layers of the invariant in `CollectProofs`, none of which asks that one process run at a time:

- `LockInv`: the outbox has only seqs up to its counter, and a transaction takes rows from below and seqs from above. A
  snapshot emits under the write lock only. Nothing that is left of the outbox is below a page in hand, whoever deletes
  rows meanwhile, and a short page of the lock's holder is all there is.
- `JournalInv`: a seq is one event, none is above the counter (`SeqsTaken`); the outbox is the tail of the journal (`BoxIsTail`); a
  drain's page is all that the journal has under its name (`PagesWhole`), so two drains that publish one name have the same
  page (`SamePage`); a snapshot's page has seqs nobody has (`EmitsNew`), so no drain takes the tmp file of a snapshot
  (`NamesApart`, `EmitsToTmp`).
- `TableInv`: each row is in the journal as it is in the table, or is in the page in hand, or is still ahead of the rowid cursor, or the feed has
  missed it.
- `Owned`: a tmp or closed file that is not whole has a writer whose open descriptor is on it and who has everything that
  is missing still to write. The rename of another process moves that descriptor along from the tmp name to the closed
  one; opening the tmp file anew truncates it, and leaves all of it to the process that opened it. So what `tmp_race` publishes
  too early is completed by the last of them to finish.
- `SpanInv`: while nobody dies, what left the outbox is in the *name* of a closed file (`GoneSpanned`), and the names leave no
  earlier event out (`SpansInOrder`). This holds while a file under such a name is still empty, and it is inductive, where
  `NoEventLost` and `PublishedInOrder` are false in between; `Owned` turns names into contents once all rest.

and, over those, in `SpoolProofs`:

- `OneRuns`, `FileInv`: one process at most is not idle; the tmp file under its page's name has what it has written,
  and all of the page once it is synced.
- `SpoolInv(taken)`, given what a Mini has taken from the spool by now (nothing, for `Collect` alone): a file is the whole of the
  journal in its range; a journal event that is in no outbox is taken or in a durable file (`GoneIsKept`); what is taken
  or durable *and any one other closed file* hold all that is before them (`FilesInOrder`).

TLC refuted an earlier form of `FilesInOrder` before it was proved: a drain that dies after its rename leaves a file that
is not durable, and its repetition, under a longer name, another. A consequence: without overlap, `RenameFails` never happens.

### The whole bus

`SpoolProofs` proves, from `~Overlap` and `NoneFailsLate` again, what `Pipeline` promises from the utility's commit to
Postgres, with an rsync that may miss what is closed while it lists:

- `PipelineTypes` (`PipelineTypeOK`) and `NothingIsEverLost` (`NeverLost`: an event is in the outbox, in a closed file or in the
  Mini, although `forget-spool.sh` deletes closed files);
- `WhatIsMissingIsSpooled` (`GapsAreSpooled`: an event below the watermark that is not in the Mini is in a closed file that
  outlives a power loss) and `RsyncBringsAll` (`RsyncCatchesUp`: an rsync that ends well leaves no gap up to what was
  published when it began);
- `RowsFollowTheLog` (`LiveButLate`): the rows are the live rows of the log at every key but the late ones, and there they are wrong;
- `ImplementsMirror` (`Mirrors`): the bus implements `Mirror` under `log <- mini.events`, `live <- mini.current`. A collector's
  step is an `Emit` or stutters, an applied file is a `Grow`, the rest of pull.sh and every fault stutters;
- `MiniShowsAPastTable` (`ShowsAPastTable`), if moreover a broken feed loses no `D` and rowids are above 0 (the hypotheses of
  `JournalIsTheTable`): every row that is not late, and of which nothing up to the watermark is missing, is the utility's as
  it was when the event at the watermark was the last one.

The invariant is `PipeInv`. `CollectInv` is the collector's, with `SpoolInv(mini.events)`: what the Mini has logged takes the
place of the files that were forgotten, and the two together have no gap (`KeptInOrder`), whatever is missing from the Mini alone. `MiniInv` says what
the Mini is: events of the journal, images of these, their greatest seq. `HereInv` says that local files are whole,
`PullInv` that what rsync has yet to copy is closed, that pull.sh's list is the local spool while it applies, and that what
it has removed, and so will forget, is in the Mini. `BusInv` adds `LateInv`, which rows are right and what is missing from a late one,
and `ReachInv`, where all is that was published before rsync began. The steps that carry the proof:

- `ApplyTakes`: what a file's transaction makes of the Mini when neither the file nor the Mini need be contiguous with the
  other: `AppliedAnyOrder` (`MiniTablesProofs`) says which of its lines are new, and what each row is after them;
  `LateInvApplied` reads off which rows are right. (`AppliedInOrder`, for a file that comes in order, serves `Appliers`.)
- `TakenMore`: what the Mini logs may be taken out of what the spool has to keep.
- `FilesGo`: any file whose events are logged may be forgotten, also under the hands of a collector that
  has just published that name again and has neither synced the directory nor deleted the rows.
- `JournalGrows`, `CollectStep`: whatever the collector does, new events come after all there are.

`MiniShowsAPastTable` joins the two ends: `JournalIsTheTable` on the Oracle side, `RowsFollowTheLog` in Postgres, and time
between them. `was` records the table for each last seq of the journal while the journal tells it (`~missed`).

- `WasInv`: what was recorded at a seq is what the journal up to that seq still tells, because `JournalGrows` adds behind it;
  a new moment is recorded by `JournalIsTheTable`.
- `DatedInv`, for a feed that misses nothing: the watermark was recorded, because every event of the outbox and the end of every page
  and file were. So the property says of *every* watermark that it is a moment. When the feed misses changes, a
  watermark inside a snapshot's pages may belong to none, and the property is about the others.

No run has feed breaks on the whole bus (`MiniConverges` would need the break to be repaired, which nothing forces); there
`ShowsAPastTable` is the theorem's.

The attempt showed where `Pipeline` could not be reasoned about: a file's lines were sorted by a recursive operator of the
library; `InSeqOrder` now states the order, and `Sorted` proves there is one.

### The service

`ServiceProofs` proves `TypeCorrect` (`TypeOK`), `NothingOvertakes` (`NoOvertaking`), `NoWakeupLost` (`NoLostWakeup`) and
`TickDrains` (`TickDrainsAll`). `BoxInv`: the outbox and the spool of a database together have no holes, and the page in
hand is the lowest rows of the outbox. `DebtInv`: after the last page, rows that are still in the outbox came after it was
read and are owed a nudge (`BehindLastPage`); a database a tick is past has nothing left of what it owed (`TickOwes`).
The attempt to prove `NoLostWakeup` showed that the model forgot a failed drain too early, when the next one began rather than when it read the
outbox; `unheard` is now cleared by `Fetch`.

### Assumptions

All are named in the modules and evaluated by TLC on the instances. `EventConstants`, `FilesAssumption` (`MiniTables`); in `Delivery`,
`JournalAssumption` (a seq is one event), `BatchAssumption` (a file is sorted, of one source, whole over its range) and
`PathAssumption` (a name is one file) – what `CollectProofs` and `SpoolProofs` prove of the collector; `ApplierConstants` (no line of those files
is refused: refusals are in `Apply`; seqs begin at 1, as AUTOINCREMENT's do); `CollectConstants`, `ServiceConstants` (types; a page is not empty; a table has finitely
many rowids, and there are finitely many databases, of which `drain_all` takes the first by name).

### Only model-checked

- Liveness: `EventuallyLogged` (twice), `EventuallyPublished`, `SoundIsDrained`, `MiniConverges`. Fairness and ENABLED are out of
  the prover's reach.
- `SnapshotAgreesWithTrigger`: about the parser's recursion over a text.
- The violations, of course.

## Plan

Done: every component that keeps state, the bus they make, the implementations of `Replica`, `SerialMini` and `Mirror`, and
proofs of every safety property of the runs that the prover can reach. What would be new is a wider model: several captured
tables in one database, several appliers on files out of order, a sqlite that is recreated.

## Not modelled

- Command-line parsing, exit codes, the installer, unit files and CI keep no state the properties speak of; neither do
  logging and the wording of errors.
- `sync_dir` ignores the error of its fsync and the parent of a new directory is not synced: the models take directories
  as durable once `sync_dir` has run.
- A sqlite that is recreated starts its seqs again; nothing in the code detects it, and the operator's `--min-seq` is the
  remedy (`Collect` models the floor, not the new file).
- The entry of `sqlite_sequence` is `box.seq`, 0 when there is none, and never below the rows of `_outbox`:
  AUTOINCREMENT alone gives seqs in the model, so nothing tells `current_outbox_seq`'s maximum from the entry.
- PRAGMA `table_info` and the search for WITHOUT ROWID in a table's text (`SnapshotRow` is given the table).
- Rows with a rowid below 1: `fetch_rowid_page` starts after rowid 0 and never emits them; the runs of the snapshot use
  positive rowids, as AUTOINCREMENT and default rowids are.
- Several captured tables in one database: `tbl` and `key` are one value, so the loop over tables is one paging.
