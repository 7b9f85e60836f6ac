# Seatbelt in TLA+

Seatbelt validates a replication pipeline: it compares a source table with the
table a pipeline (CDC, ETL) copies it to, row by row, while both change. This
directory holds TLA+ models of its core, the TLC configurations that check
them, and theorems about them that TLAPS proves.

## 1. The system

A **run** (`seatbelt run`) has two halves. *Fetch* scans both tables into files
of `(pk, hash)` and drains a PostgreSQL replication slot into a file of
`(pk, source_hash, target_hash)`. *Shadow* merges the files into a table that
persists between runs in DuckDB, which remembers of each primary key the last
signatures and operations, classifies what happened, applies seven failure
rules, and prints counts. The first run may be an *initial load*, which has no
change stream and computes both hashes of each row itself.

| Component | State | Operations | Where it is hard | What makes it correct |
|---|---|---|---|---|
| Validation rules (`seatbelt_duckdb_extension.cpp`, reference `validation_logic.py`) | none | classify both sides, verify row integrity, seven rules, NULL handling | rules look at two runs; three-valued results | no error without history, no error that cannot clear, every settled mismatch found |
| Shadow table (`shadow.go`) | tables `shadow`, `shadow_new`, the views | `UpdateShadow`: upsert in a transaction, swap, commit, delete the Gone rows *outside* it, count; `ExplainAnalyzeUpdateShadow` | crash between any two statements; full outer joins that multiply rows; stale change signatures | errors come and go with a cause, nothing lingers, counts add up, whether or not a key has one row |
| Change stream consumer (`postgres_change_stream_consumer.go`) | batch, file, target LSN, `completionRequested`, two channels, client position; the slot on the server | replication loop, keepalives, batches, idle timeout, `ConsumeToCompletion`, `Close` | two goroutines share a connection, channels and fields; timeouts race completion; the slot is acknowledged on every exit | no change lost silently, a run returns, channels used safely |
| Fetch and commands (`fetch_data.go`, `main.go`) | files of the run, goroutines, context, signal handler | six commands; scans side by side in an errgroup, then the change stream; SIGINT | three moments of reading; partial failure; who still runs when a command returns | consistency of the three files; no truncated file, no goroutine left behind, an end |
| Sources and targets (`pkg/postgres`, `pkg/mysql`, `pkg/clickhouse`) | connections of a pool, temporary files | `Scan`, `ExtractScan`, `DataSize`, inspection | a broken connection looks like the last row; pools smaller than the scans need | all rows or an error |
| Component creation (`createComponents`) | open pools | construct in order | a later step fails; a mapper for other databases | nothing stays open, a mismatch is loud |
| Hashing (`hashtextextended.go`, `*_hasher.go`, xxh3) | none | 64-bit mixing, the SQL expressions, signed and unsigned readings | wrap-around, byte order, the tail of a text | agreement with the databases, bit by bit |
| Row mappers (`wasm_mapper.go`, `main.zig`, `generic_mapper.go`) | guest memory, schema, output, error; the mutex | construct, upload the schema, map a row, read back, free | ownership and reuse of buffers, calls that trap, concurrent callers | each caller gets its own row's text; that text is the one scans hash |
| Tables, configuration, type registry, CSV | maps read only | lookup, formatting | - | - |
| Analysis scripts | none | reports | - | - |

Interaction: `defaultFetchData` starts the consumer's loop *before* the scans,
waits for both scans, then calls `ConsumeToCompletion`, which forces a WAL
record, reads the server's position and waits until the loop has passed it.
Both that caller and the loop's own idle timeout may run
`determineTargetLSN`. The replication slot persists between runs, as the shadow
does; nothing ties the two together, so a run that acknowledged the slot and
then failed has consumed changes that the shadow never sees.

## 2. The modules

| Module | Models |
|---|---|
| `ValidationLogic` | the pure functions, from the C++ extension and the CASE in `shadow.go` |
| `Shadow` (EXTENDS it) | `UpdateShadow`, statement by statement, on files of any contents |
| `Validator` | what is promised of one primary key: the abstract specification that `Shadow` implements |
| `ShadowProofs` | theorems about `Shadow`, the refinement among them |
| `ChangeStreamConsumer` | the two goroutines, the slot, failures and crashes |
| `ChangeFeed` | what a change stream promises: the abstract specification that `ChangeStreamConsumer` implements |
| `ConsumerProofs` | theorems about `ChangeStreamConsumer`, the refinement among them |
| `Seatbelt` (EXTENDS `Shadow`) | source, pipeline, target, and whole runs |
| `SeatbeltProofs` | theorems about `Seatbelt`: types, and what `Shadow` promises, end to end |
| `JudgementProofs` (EXTENDS it) | what a status means: mismatches settle, Valid rows are replicated |
| `NoFalseErrorsProofs` (EXTENDS it) | no false alarms |
| `RunCommand` | one command in one process: components, scans, errgroup, signal |
| `RunCommandProofs` | theorems about `RunCommand` |
| `RowText` | the texts rows are hashed by, on every way a row can take |
| `WasmMapper` (EXTENDS it) | the WASM host, its mutex, the guest's memory and functions |
| `WasmMapperProofs` | theorems about `WasmMapper` |
| `HashText` | `hashtextextended` in 32-bit arithmetic, and the readings of its result |
| `HashTextProofs` | theorems about `HashText` |
| `MC...` | values for TLC: symmetry, tables and cells, test vectors |

Some definitions come with a *mutant* just before them: the same definition
with a plausible slip. Replacing the definition by it breaks a property; that
is how each property is shown to depend on the code it is about.

### ValidationLogic and Shadow

Signatures are opaque values and NULL is a value apart. `validation_error` is
three-valued: a NULL argument to the registered function gives NULL, and
`CASE WHEN NULL` is not taken, which is what a key gets when first seen.

`shadow` and `txShadow` are the committed table and the one inside the
transaction; `phase` names the last statement `UpdateShadow` completed. Each of
`InitialLoadUpsert`, `IncrementalUpsert`, `Commit`, `DeleteGone` and
`CalculateMetrics` is one statement or transaction step; `Abort` is an error
return or the death of the process, at any point. The creation of
`shadow_new`, the `TRUNCATE` and the swap happen inside the transaction and are
not visible apart from it, so they are part of upsert and commit. A row carries
`copy`, no column of the table, to keep rows apart that agree in all columns:
the table has no primary key, and a key gets two rows when the change file has two of
it (`MaxChangeRows`) or an initial load meets a filled table (`Reload`).
`target_dupes_counted` picks any signature of a duplicated key, so a target
file is a signature and a count. `target_count` is NULL in the SQL where the
model has 0; the status only asks whether it is above one.

### Validator

One primary key as its user sees it: is it followed, which signatures did the
last look find (`seen`), which sides had not moved then (`still`), and is it an
error. `Observe` is one look: it must make an error of a row missing for two looks
(`Missing`), one that only the target has (`Phantom`), a change that the target did not
follow (`Stalled`), a target that moves alone (`Corrupted`), and of an error when nothing
happened; and it may make one only as `MayBeError` says. What lies between is up to the
change signatures (rule 6) and to deletes (rule 2), which a signature pair does not show.
`Forget` drops a key that is nowhere. In `Shadow`, `OfKey(p)` maps the row of `p` to these
variables: a look is a commit (or the explain of an initial load, which inserts), `still` is read off the two operations, and
`Forget` is `DeleteGone`. A run that aborts before its commit is no step at all.
The mapping makes sense while the key has at most one row (`OneRow`), before and after
the step.

### ChangeStreamConsumer

The log is a sequence of entries, and a position a number: entry `k` fills what
is between `k - 1` and `k`. A hash pair is represented by the position of the
change it was computed from, so that a property can ask which change a file
row reflects. `loop` and `caller` are the program counters of
`runReplicationLoop` and `defaultFetchData`; an action ends at an unlock, a
channel operation or a call to the server, which is where the other goroutine
can come in. `completionRequested` is the flag of the same name,
`targetLSNReached` and `errorChan` the two channels, `batchCounter`,
`results`, `dataFile` the batch. `targetLSN` is written without the mutex
(line 421), so the model lets the loop read it before and after. `LoopExits`
is the deferred standby status: it acknowledges `clientXLogPos`
whatever made the loop return, unless the connection is gone. `ProcessDies`
keeps the slot and nothing else. `CurrentLSN` allows any position at or past
the last commit, as `pg_current_wal_lsn` does not follow unflushed messages.
`StatementErrors` is how a statement of `determineTargetLSN` can fail: with another one
on the same connection (`ConnectionShared`; the other may be the ticker's, which forces
the WAL ahead while the caller waits), with an error of the server, or with the error of
a context that ends, as after five seconds. The caller takes that last one for a
cancellation, from the loop too, and then finishes with success.
`unwritten` is history: rows that were logged as lost, because their batch
could not be written, because the row mapper failed on them (`RowNotMapped`) or because the
message could not be parsed (`SkipMessage`, which also leaves the position behind);
the code goes on in each case. `returned` is the file the caller holds.

Relation messages, the debug log and the keepalive's content are left out; what
the columns of a change turn into is `RowText`.

### ChangeFeed

Seven actions on seven variables: a run opens at the slot, may report rows as
lost, hands out one file that is complete from where it began up to a position,
moves the slot no further than that position, and ends; a signal takes the file
back. The mapping of `ImplementsFeed` reads these off the code's state: a run is
open while the caller is not idle or finished, it began at `startSlot`, its file is
`returned` unless the context was cancelled by a signal, the file is complete up to
`received`, and what was lost is `unwritten`. A run that fails may have moved the slot
anywhere: that is how the code behaves, and what `Seatbelt` has as `FailedRuns`.

### Seatbelt

A row is its content, and its signature is the content: hashes do not collide,
and the row mapper agrees with the pipeline. The tables and the pipeline are
not part of the code, so they are as free as constants allow:
`Behind` is how far the pipeline may lag when a run starts, `AtomicFetch` says
whether the tables stand still while a run reads them, `Reuse` whether a row
can get back a content it had or a deleted key come back, `PipelineFaults`
lets the pipeline drop a change or the target lose, change, duplicate or make
up a row, `FailedRuns` lets an incremental run end between consuming the slot
and committing. The change stream reports inserts and updates only (the loop
ignores deletes), the last one of a key. `agreed` is history: incremental runs
in a row that saw the same two signatures of a key.

The steps of the shadow are those of `Shadow`, unchanged (`Upsert`,
`CommitRun`, `DeleteGoneRows`, `FinishRun`); `RunFails` covers each
error return of `runCmd`. So that `Seatbelt` implements `Shadow` says nothing of the code, and
is no property of a run: the promises are about tables, pipeline and shadow together.

### RunCommand

The command and each scan have a program counter. A scan is the *sequence of its
calls* in the order of the code (`PostgresScan`, `MySQLScan`, `ClickHouseScan`,
and so on): create the file, take a connection, send a query, read rows, flush,
rewind. What a call does and how it can fail is said once for all scans, under
"Steps of a scan": a call to a server fails under a cancelled context, a row
stream that breaks looks to `rows.Next` like its end, and only a later
`rows.Err` tells the difference. A scan's deferred functions are part of `Fail`
and `GoOn`. The commands (`Plan`) say what is created and which scans are
awaited together. `Cancelled` is the errgroup's context: the signal, or the
first scan that failed. The handler takes one SIGINT, as nobody calls
`signal.Stop`; before it is installed a SIGINT kills the process. The consumer appears
as its caller sees it: a file or an error. Its inside is `ChangeStreamConsumer`.

### RowText and WasmMapper

A text is a sequence of tokens: a character, or a word of which the code only
asks whether it is there. The module has both ways a row is turned into a text:
a scan's (`ScannedText`, `ScannedTargetText`: an SQL expression evaluated by the
database) and a change's (`Tuple`, `parseRow`, `ValuesArray`, then `FormatSource` for
the source and the mapper for the target). A value is the text its type's output function
writes, which is what the stream has. What databases and pipelines make of it
(`CastText`, `TargetText`) is outside the repository and modelled from its
hashers, tests and docs. Columns have types, not only families, as a cast to text changes
a boolean and a `character(n)`, of the family of strings, which loses its blanks
(`RecastTypes`). Keys of a json object are sorted by an operator the module leaves
open (`normalizeJson`). What PeerDB's target writes is known for values that are `Canonical`
and not for others: NULL, json, bytes, a time with a zone or a fraction, and numbers whose
exponent PostgreSQL writes and ClickHouse does not (`SourceExponents`: 1e+20 is written
out, 1e+21 is 1e21).

`WasmMapper` has one step for each call of the guest (`alloc`, write,
`set_schema` or `transform_source`, read the output, `dealloc`), as another
goroutine could come in between if the mutex did not keep it out, and as each
call may trap. `regions` is what the guest has handed out, `leaked` what of it the host
gave up when `dealloc` trapped, whose answer nobody asks for (`FreeFails`), `output` and `err`
its two static buffers. `set_schema` counts the columns of both sides; the store for
their names is never full, as 64 names of at most 8 bytes a side fit in its 4096 bytes. `Leave` and the label it names say which deferred
functions still run.

### HashText

TLC's integers are 32 bits with a sign, so a `uint32` is a pair of 16-bit
halves, and addition, subtraction, exclusive or and rotation wrap as Go's do
(exclusive or nibble by nibble). The loop and the switch are recursive functions. The
state is a text that grows byte by byte and a seed. `HashBytesExtended` is the
reference: PostgreSQL's function as one fold over blocks padded with zeros,
without the loop and the switch that falls through.

## 3. The runs

Passing:

- **shadow** (`MCShadow.cfg`). Any two files after any others, an abort
  anywhere, keys that changed in two batches, and initial loads on a filled table, so that
  a key may have two rows. Rows gone on both sides never carry an error (`NoZombieError`), are
  deleted by the next run that completes (`NoLingeringRow`), a row missing in
  the target for two runs is an error (`MissingRowIsError`), the counts add up
  (`MetricsPartition`), and an error is only taken back by a change of the key
  (`ErrorClearsOnChange`). The first look at a key gives no status *Error*, unless the
  target has the key more than once (`ErrorNeedsHistory`): `docs/01-concepts.md:56-57` says of
  batch runs that they cannot confirm an error, but `TestUpdateShadow_DuplicateRows` expects
  duplicates to be errors after one initial load. While a key has one row
  it is validated as `Validator` says (`EachKeyValidated`, a refinement): dropping or
  narrowing any of the rules 1, 3, 4, 5 and 7 breaks it.
- **consumer_faults** (`MCConsumerFaults.cfg`). One run with everything that
  can go wrong: connection, statements, which may also time out, scans, file writes, messages
  that cannot be parsed, rows that cannot be mapped, idle timeouts at any time, SIGINT, the
  death of the process.
  `ChannelsSafe`: no send on a closed or full channel, no double close.
  `BatchHasOneWriter`: when the caller writes what is left in the batch, the loop adds nothing
  more to it, unless a signal made the caller go on; then the file is thrown away.
  `SuccessCoversAck`: what a successful run made the slot skip is in its file, or
  its loss was logged. `ReturnedFileIsOpen`: `Close`, which looks for an open
  file before it waits for the loop, neither closes the file it handed out nor
  leaves another one open, unless a signal made it run early. `ImplementsFeed`:
  loop and caller together implement `ChangeFeed`.
- **consumer_progress** (`MCConsumerProgress.cfg`). Two runs, so that the
  second starts from the slot the first left, possibly by crashing. Without
  idle timeouts every run returns (`CallerReturns`, under fairness), and a
  successful one has all changes committed before its scans were through
  (`FileCoversScans`).
- **seatbelt_one_run_behind** (`MCSeatbeltOneBehind.cfg`). A pipeline that has
  applied, when a run starts, what the run before it could see makes no error
  (`NoFalseErrors`), provided tables stand still during a fetch, contents are
  never repeated and runs do not fail. Each proviso is needed: without any one of them
  TLC finds an error that nobody made (with `Reuse`, for instance, a row that goes from A to B and
  back to A while the pipeline lags stands still on the source and moves on the target, rule 5).
- **seatbelt_faulty** (`MCSeatbeltFaulty.cfg`). Any lag, any fault, contents
  reused: a mismatch that two incremental runs in a row see alike is an error
  (`SettledMismatchIsError`), and a row that an incremental run calls Valid is the
  same on both sides and there once (`ValidIsReplicated`).
- **run_command** (`MCRunCommand.cfg`). Every command with every pair of
  databases, every mapper and pools of one connection; every call fails or
  not. `CreationAllOrNothing`: `createComponents` leaves nothing open when one of
  its steps fails. `NoSilentTruncation`: a scan that succeeds wrote all rows, but
  for `InspectExtractScan`, which does not ask `rows.Err`. `FetchJoinsItsScans`:
  when `FetchData` returns no scan runs and the consumer is closed.
  `InterruptStopsRun`: an interrupt that some scan can still see leaves the shadow
  alone. `MismatchIsLoud`: a mapper for other databases makes the run fail, except
  `generic` with ClickHouse, whose hash functions differ without an error.
  `CommandEnds` (under fairness): no failure and no lack of connections keeps a command from ending.
- **row_mapper** (`MCWasmMapper.cfg`). Two callers share one mapper, and every call of the
  guest may trap. `OwnText`: a caller gets the whole text of its own row or an error.
  `LeavesNothing`: between calls the guest holds just the regions whose `dealloc` trapped.
  `CallReturns` (under fairness): however often the guest
  traps. `ChangeTextIsScanText`: a change that was sent whole has the text that
  a scan of the source has for the row, if no column is a boolean or `character(n)`.
  `CommonTextIsTargetText`: what the mapper
  says the row looks like on the target is what a scan of the target hashes; with
  PeerDB's mapper if each value is `Canonical`: it writes `0` for NULL (`main.zig:158`), and
  pads only a time of whole seconds without a zone to the six digits of the target (line 209), so
  `2024-01-15 12:34:56+00` is passed on as it is. `EveryChangeShows`: rows that differ in one
  column differ in text.
- **hash_text** (`MCHashText.cfg`). `MatchesDatabase`: the hashes that
  `hashtextextended_test.go` quotes from PostgreSQL. `MatchesReference`: equal to
  the reference at every length from 0 to 29, with each of the texts' bytes and with
  255 as the last one. `TargetHashesAgree`: the SQL of `PostgresTarget.Scan` and
  `Uint64Hash` read the 64 bits alike.

Where the code does not do what the repository says:

- **consumer_hang**. The idle timeout fires after `ConsumeToCompletion` set its
  flag (the WAL is quiet, or the server is busy decoding a long transaction):
  the loop "just exits normally", closes no channel and sends no error, and the
  caller waits for ever.
- **consumer_early**. The idle timeout completes during a long scan: it
  closes `targetLSNReached` and resets the flag. `ConsumeToCompletion` then asks
  for a new target and finds the channel closed: it succeeds with its target not
  reached, and without the changes made since.
- **seatbelt_moving**. A row updated between the source scan and the end of the
  change stream carries a change signature that contradicts the scan.
  The next run, the first incremental one, finds it unchanged in both scans and not verified, and
  row corruption (rule 6) reports it though replication is perfect.
- **row_mapper_recast**. A scan hashes `col::text`, where a boolean is
  `true` and a `character(n)` has lost the blanks at its end; the replication stream carries
  `t` and all blanks. A changed row with a boolean column, or with such blanks,
  never has the signature its scan has.

What else was seen. These are no runs of their own; the model does each, in a run above or as
soon as the named constant is changed:

- An initial load stores *insert* as source operation even for a row only the
  target has; its status is Valid. (`PhantomOfInitialLoad` in the proofs.)
- The map that overwrites by key is dropped with each batch, the file is not: a
  key that changes in two batches has two rows in the file, and two shadow rows
  from then on. So has a key after a second initial load. `docs/02-architecture.md:61` says
  that the shadow has one row per primary key. The run `shadow` has both (`MaxChangeRows = 2`,
  `Reload = TRUE`), and its properties say what holds all the same.
- A message that is longer than its log record moves the acknowledgement past records that
  were not received (see the bounds): with 2 in `MessageLength`, `SuccessCoversAck` is violated.
- A run that fails after the slot was acknowledged has consumed its changes:
  later runs compare rows with change signatures that are too old. This is
  `FailedRuns`, without which `NoFalseErrors` is shown.
- A key inserted while a run reads, so that only the change stream has it, makes
  a Gone row that is deleted with its signatures; a corruption on its way is
  not found later, and the row is Valid for ever. This is `AtomicFetch = FALSE`,
  without which `SettledMismatchIsError` and `ValidIsReplicated` are shown.

### Bounds and why they are enough

Keys do not interact in the shadow: each statement treats a key by itself, so
one key with two signatures a side (equal, different, gone) shows each pattern
of the two runs that the rules look at; the table persists, so the number of
runs is not bounded. `MaxTargetCount = 2` gives one row and duplicates,
`MaxChangeRows = 2` a key in two batches.
`MaxCopies` bounds the copies of a key: two rows, each of which the next runs merge.

In the consumer a batch holds two messages (`ResultBatchSize`). With three
changes of two keys in one run (`MaxWrites`) a batch is filled and written, a
second one is left over for the end, and a key is in one batch, in both or in none.
`consumer_progress` has one key with two changes over two runs instead. The entries that are
not inserts or updates are the messages the consumer emits itself and, where
`MaxOthers` lets it, deletes and the like of the source; to the loop they are the same.
The guards marked *bound* limit them.
`MessageLength = {0, 1}` assumes that a replication message is not
longer than the log record it was decoded from. Line 382 adds that length to
the start of the record, so a longer one (a value whose text form is larger
than its stored form) would put the acknowledgement past the record: with 2 in
`MessageLength` TLC shows a slot past an entry that was never received, and lost. What is shown
about the consumer, by runs and by proofs, holds under this assumption and does not
defend it.

In `Seatbelt` the pipeline holds up to three changes of a key (`MaxBacklog`),
and a key has two to four contents, so that updates, deletes and reinsertions
are in flight across several runs.

In `RunCommand` a table has one row (`Rows = 1`), so a stream can break before it, after
it or not at all; a scan treats every row alike. One connection (`PoolSize = 1`) is the
worst case for waiting: two scans of an initial load share the source's pool
when `TestingSourceScan` has the source scanned as well. All commands are in
`Commands`; `run` may be an initial load, which differs from `fetch --initial-load` only
in what follows the fetch.

In `WasmMapper` a guest has three columns and an output of three tokens
(64 and 4 MiB in the code), so that a table can be too wide and a row too long.
`MCTables` has one table for each way in which a text depends on the table: decimals
with zeros to trim, floats with an exponent of each kind and times, times with a zone and json,
columns of one side only with NULLs, too many columns on either side;
each with its relation in another order. Two callers
and two regions are enough: a call uses one region at a time.

In `HashText` texts grow along those whose hash is known, up to 28 bytes, and
leave them by one byte: each position of the last block is reached by small,
large and negative bytes.

Deadlock is not checked in the consumer's runs, as the bound on runs ends
the behaviour; that no run gets stuck is `CallerReturns`. Nor is it in
`run_command`, where a process ends (`CommandEnds`), in `row_mapper`, where a
construction can fail for good (`CallReturns`), and in `hash_text`, where texts stop growing.

### Fairness

`FairSpec` assumes that the Go scheduler lets each goroutine that can go on do
so (weak fairness of the loop's and the caller's steps), that scans end, that the
one-second ticker of `ConsumeToCompletion` ticks, and that a walsender that has
an entry sends it eventually, however often `ReceiveMessage` returns with a
timeout before (strong fairness of `ReceiveMessage`). Nothing requires a
fault, a timeout, an interrupt or a write to the source to happen.

In `RunCommand` the command's goroutine and each scan go on when they can (weak
fairness of `CommandNext` and of each `ScanNext`): servers answer, if with an error.
That `ConsumeToCompletion` returns is taken as given there; `consumer_progress` shows
it without idle timeouts and `consumer_hang` that it can fail with them. In
`WasmMapper` calls of the guest return, if with a trap, and a caller that waits for
the mutex gets it if it is free again and again (strong fairness of `Lock`): Go's
mutex hands itself to a waiter that was starved for a millisecond.

## 4. What is proved

`ShadowProofs`, for every set of keys and signatures, every bound, files of any
contents, and any number of runs and aborts:

- `TypeCorrect`, `NoZombies`, `NothingLingers`, `MissingRowDetected`: the four
  invariants follow from one inductive invariant, `IInv`. None of them is
  inductive alone. The rules combine the operations of this run and of the
  last one, so one must know that the stored operations agree with the
  stored signatures (`OperationsAgree`): a row without source signature has an
  operation in {delete, does not exist}, except for the row that an initial load writes for a
  phantom, whose target operation is then an insert. It must hold of
  `txShadow` too, which the commit makes the table. `MergedRowConsistent` is
  the heart: a merged row is consistent if the row it was merged from is.
- `ErrorsHaveHistory`: the action property, from `HistoryInv`, which follows
  rows with an error from the transaction back to the table.
- `ErrorsStick`: an error is only taken back from a key one of whose signatures changed, however many
  rows the key has. `StickyInv` compares the transaction with the table while it is open:
  each row with an error has been merged into one that keeps it, or has other signatures.
- `ImplementsValidator`: `EachKeyValidated`, which is about keys that have one row, before a
  statement and after it. A look
  is decided when rows are merged and takes effect when they are committed, so
  `LookInv` says of each row in the transaction how it compares with the row it
  will replace (`FirstLook`, `NextLook`), and that no key of the table is left
  out. `MergedNextLook` goes through the rules; it needs `OperationsAgree` for the
  operations of the last run. A row that is Gone is on neither side
  (`GoneIsForgotten`).
- `CountsAddUp`: `MetricsPartition`, for every finite set of primary keys. Two things are
  needed beside it. Counts mean something only for a finite table, so the table and the
  transaction stay finite (`FiniteInductive`: a run joins, for each key, its shadow rows with its
  change rows). And when the counts are taken no row is Gone (`GoneDeleted`), so three
  of the four statuses partition the table (`StatusesPartition`).

`SeatbeltProofs`, for every lag, fault, repetition of contents and failed run:

- `SeatbeltTypeCorrect`, from `SeatbeltInv`, which adds that a change file comes
  with both scans: `Upsert` only asks for the change file, as the code does.
- `ShadowSound`: the invariants of the shadow hold end to end. `Seatbelt` does to the shadow
  what `Shadow` does, on files in range, so this takes `SeatbeltInv` and no more
  (`ImplementsShadow`, a step on the way and no result of its own).
- `SeatbeltValidates`: so does `EachKeyValidated`: what `Validator` promises of a key, as
  long as it has one row.

All assume `NullAssumption`, `ShadowAssumption` and `SeatbeltAssumption`: NULL is no signature,
operation or Boolean, the bounds are natural numbers, and in `Seatbelt` a target hash
stands for the same content as a source hash. `NullNoChanges` says that NULL is not a
change file, so that "not consumed yet" can be told from one.

`JudgementProofs`, for any tables, any lag and any fault of the pipeline, with
`AtomicFetch` and without `FailedRuns`, from one inductive invariant, `JudgementInv`:

- `MismatchSettles`: `SettledMismatchIsError`.
- `ValidMeansReplicated`: `ValidIsReplicated`.

Both say that a status can be trusted, and both rest on the change
signatures. A row merged from a scan and a change has the change's signatures if there
was one, and else those it had before; so the question is where the change is that made a key what
it is. `ChangesKept` follows it: in the slot, then in the change file, then in the
transaction, then in the table, where it stays, as `DeleteGoneRows` deletes only rows of keys
that the scan has not found (`RowsOfScan`). So the signatures on a row are those of
the content the source has (`RowsFaithful`), and a comparison with them is one with the
source. This is where both hypotheses enter: with `AtomicFetch = FALSE` a key can be in the
slot and not in the scan, and a failed run empties the slot without a commit; TLC
finds the counterexamples at once (section 3). `RowsHonest` excludes the insert an
initial load writes for a phantom, once an incremental run has merged the row, and `Settled` looks ahead from the transaction to
the commit.

`NoFalseErrorsProofs`, for any number of keys, contents and runs:

- `NoNoise`: `NoFalseErrors`, under `Faultless`: still tables, a pipeline that drops
  nothing and has applied, when a run starts, everything the last run could see (at best
  everything there is), contents that do not come back, runs that do not fail. These are
  the constants of `seatbelt_one_run_behind`. The docs promise no noise without these
  conditions; each is necessary (section 3), so the theorem says when the
  promise is kept, not that it always is.

The rules compare a run with the one before it, and what they compare are
positions in one history, the contents a key has had. No variable holds that
history. `BacklogLeadsToSource` says what the argument needs of its end: the backlog leads from
the target's row to the source's through contents that are all different.
`Since` says of a pair of contents once seen, on source and target, how far the pipeline has
got since then; each write, delete and replicated change preserves it, and when a run
starts, with nothing owed, it says that what the run reads `Follows` what the last one left. An
`Innocent` row gives none of the seven rules a reason; the lemma `MergedRowInnocent`
is that a row merged from an innocent row that the scans follow is innocent again.

`RunCommandProofs`, for tables of any size, pools of any size, any choice of commands,
databases and failures, from one inductive invariant, `RunInv`:

- `RunTypeCorrect`; with it, that a pool never hands out more connections than it has.
- `CreationLeavesNothing` (`CreationAllOrNothing`), `ScansNotTruncated` (`NoSilentTruncation`),
  `ScansJoined` (`FetchJoinsItsScans`), `InterruptHonoured` (`InterruptStopsRun`),
  `MismatchLoud` (`MismatchIsLoud`).

`ScanInv` follows a scan through its sequence of calls: what is behind its program counter
says what it has read, and a stream that broke unnoticed still has a call of `rows.Err` ahead.
So each sequence must be well-formed (`ScanWellFormed`: a query is sent, its rows are
read, and whoever reads rows in Go asks `rows.Err` later), which is shown of each
database's sequence. `JoinInv` ties the scans' counters to the command's: while it waits, only
scans of its batches run, and once it is past waiting none does. `EarlyInv` says that an interrupt which
comes while a scan still has its query to send makes that scan fail, and so the batch.

`WasmMapperProofs`, for any number of callers, tables, regions and traps, from one
inductive invariant, `WasmInv`:

- `OwnTextAlways` (`OwnText`), `GuestIsLeftEmpty` (`LeavesNothing`) and `WasmTypeCorrect`.

Whoever holds the mutex is the one party inside the guest (`MutexInv`); the guest has one
region while that party has one (`RegionOf`), with the content it wrote there
when it calls, apart from regions that are `leaked`; after the call the output is its row's text until it is read (`CallOf`).
No row is mapped before the schema is uploaded, and the families then stay those of the table
(`SchemaInv`).

And for tables of any width, columns of any of the types, and the values each property names
(`SentAsScanned`, `Canonical`; section 3 has what lies outside):

- `ChangeAgreesWithScan` (`ChangeTextIsScanText`), `CommonTextAgreesWithTarget`
  (`CommonTextIsTargetText`) and `ChangesShow` (`EveryChangeShows`).

Texts are joined by `FlattenSeq`, a recursive function, so what is true of every text is
true by induction. The library's induction takes an operator as a parameter,
but a set will do: `SetInduction`, which follows from the well-founded order of the natural numbers, says
that a set with 0 and all successors holds every number. With it the function is shown
to exist (`JoinedExists`), a join of texts to be a text (`FlattenIsText`), and a difference in one part
to show in the whole (`OneDifferenceShows`). The rest compares cells: a value is found by its
name (`ValueOfColumn`), and what the mapper trims is what the target does not write (`DecimalAgrees`, `FloatAgrees`).
`TablesAssumption` says that columns have names of their own, are in the relation, and that
the source columns `SelectSeq` picks are a sequence of the table's (`SelectSeq` is the
one operator the provers cannot expand); `CellsAssumption` says what texts
PostgreSQL writes: no ghost, one point in a decimal, a plus sign only before an
exponent, a time of one token if it has neither fraction nor zone. TLC evaluates both for the tables of the runs.

`ConsumerProofs`, for any number of runs, batches, writes, faults, signals and
crashes, from one inductive invariant, `ConsumerInv`:

- `ConsumerTypeCorrect` and `ChannelsAreSafe`.
- `BatchIsTakenAlone` (`BatchHasOneWriter`), `AcknowledgedIsCovered` (`SuccessCoversAck`) and
  `FileStaysOpen` (`ReturnedFileIsOpen`).
- `FeedImplemented`: `ChangeStreamConsumer` implements `ChangeFeed`, each action
  of the loop and of the caller a step of the feed or a stutter.
- `ScansCovered`: without idle timeouts a successful run has every change committed
  before its scans were through (`FileCoversScans`).

The invariant follows the rows. As long as the caller has no file, what is in the
open file, in the batch, or reported as lost covers everything received since
the run began (`Complete`), and all of it is real (`RowsReal`). Nothing could be
said of the file that is handed out if the loop still received: so the
invariant ties the two program counters together (`Control`): the caller
finalizes only after the loop has signalled its target, and from there it
only acknowledges and ends, unless a signal woke the caller.
`OwnEntry` is assumed, that a message ends within its own log record; without it
line 382 acknowledges too much (see the bounds), and TLC shows it. `NullNoFile` says that
NULL is not a set of rows, so that "no file" can be told from a file.

`HashTextProofs`, for texts of any length and bytes, and every seed:

- `PortMatchesReference` (`MatchesReference`): the port, with its loop over chunks of 12
  bytes and its switch that falls through from byte to byte, is
  `hash_bytes_extended` on blocks padded with zeros.
- `OneTargetSignature` (`TargetHashesAgree`): the signed number PostgreSQL returns, shifted
  as the SQL does, is the unsigned number the port gives a change.

The port adds a byte at a time to its registers, the reference a word that it puts together first:
the two agree because addition modulo 2^32 is associative (`AddAssociates`), carries and all
(`CarryFirst`), as long as the registers stay pairs of half words. Then the rounds agree by induction on the
chunks, and the end by the number of bytes left over (0 to 11). Recursive functions are shown to exist
first, and induction is over a set, as in `WasmMapperProofs`. `SeedsAssumption` and `BytesAssumption` say that
seeds are 64-bit and bytes 8-bit; TLC evaluates them. The second theorem is two's complement.

Only model-checked:

- `MatchesDatabase`, the answers that a test quotes from PostgreSQL: a value to compute, no
  argument to make.
- `CallerReturns`, `CommandEnds` and `CallReturns`: liveness under fairness, which the
  prover does not do.

## 5. What is not modelled

- `target_count` is an 8-bit column: 256 rows of one key make the insert fail. In the
  model a run can abort at any time, but the overflow is not its cause.
- xxh3, a library. That two hash functions differ is in `RunCommand` (`MismatchIsLoud`);
  that hashes do not collide is assumed in `Seatbelt`.
- In the mapper: how JSON is normalised (`normalizeJson` is any operator), and finding the family
  of a column type (`GetTypeInfo`; `Types` has its result). `transform_target`, with its own rules for floats and decimals, is
  called by tests only; so `docs/04`'s "equal data yields equal strings" is about code
  that no command runs.
- The commands map rows in one goroutine at a time; the concurrent callers in
  `WasmMapper` are those the type's comment allows. No command closes its mapper: the
  process ends.
- A column that is too large and unchanged is not in the replication message and
  is hashed as NULL (line 735): `RowText` has it, and the properties of texts are
  about changes that were sent whole.
- Deletes in the change stream, which the loop ignores. The content of keepalives.
- What `main.go` prints, flags and YAML: reading the configuration is one step that
  may fail. `pkg/config` and `pkg/csvutil` are imported by nothing, the type registry is a
  constant table, the analysis scripts only report.
- Temporary files that stay behind: `RunCommand` has them as `kept` and `removed`, but
  the code promises nothing of them. ClickHouse's scan removes none when it fails, and
  nobody removes a PostgreSQL scan's when the other scan fails.
- The Python reference takes no NULLs; apart from that it has the same rules.

## 6. What could follow

All that was planned is done: `ValidationLogic`, `Shadow`, `ShadowProofs`,
`ChangeStreamConsumer`, `Seatbelt`, `SeatbeltProofs`, `RunCommand`, `HashText`,
`RowText`, `WasmMapper`, `ChangeFeed`, `ConsumerProofs`, `RunCommandProofs`,
`WasmMapperProofs`, `JudgementProofs`, `NoFalseErrorsProofs`, `HashTextProofs`, `Validator`.
One step would tie them closer: `Seatbelt` takes a change file as a whole from the slot, and
could take it from `ChangeFeed` instead, with the rows and losses that allows.
