----------------------------- MODULE RunCommand -----------------------------
(***************************************************************************)
(* One command of main.go in one process: read the configuration, open     *)
(* source, target and row mapper, scan, and, for a full run, drain the     *)
(* change stream and update the shadow.                                    *)
(*                                                                         *)
(* The goroutines are the command itself, one for each scan of a fetch (an *)
(* errgroup), and the one that turns the first SIGINT into a cancelled     *)
(* context.  The change stream consumer appears here as its caller sees    *)
(* it; module ChangeStreamConsumer is the inside.                          *)
(*                                                                         *)
(* A scan is the sequence of the calls it makes, in the order of the code. *)
(* What each call does, and what its failure does, is said once, under     *)
(* "Steps of a scan".                                                      *)
(***************************************************************************)
EXTENDS Integers, Sequences, FiniteSets

CONSTANTS
  Rows,               \* rows of a table
  PoolSize,           \* connections a pool may open
  Commands,           \* commands the user gives
  InitialLoads,       \* those of them the user may give with --initial-load
  TestingSourceScan   \* does an initial load scan the source as well (a test's switch)?

Command == {"run", "fetch", "inspect", "source-scan", "source-extract-scan", "target-scan"}

ASSUME RunCommandAssumption ==
  /\ Rows \in Nat
  /\ PoolSize \in Nat \ {0}
  /\ Commands \subseteq Command
  /\ InitialLoads \subseteq {"run", "fetch"}
  /\ TestingSourceScan \in BOOLEAN

Side   == {"source", "target"}
Scheme == {"postgres", "mysql", "clickhouse"}
Mapper == {"peer_db", "generic", "unknown"}
Scan   == {"target", "source", "source-extract",
           "inspect-source", "inspect-source-extract", "inspect-target"}

VARIABLES
  \* chosen by the user
  command, scheme, mapper, initialLoad,
  \* the command
  main,         \* where it is; "uncreated": createComponents has returned an
                \* error; "exited": os.Exit(1)
  batch,        \* which of its Batches it waits for
  pool,         \* of each side: "none", "open" or "closed"
  consumer,     \* "none", "running" or "closed"
  dataFiles,    \* the files it was handed
  shadow,       \* has the shadow been updated?
  \* the scans
  at,           \* of each scan: its next step, 0 before it starts
  ended,        \* of each scan: "no", "done" or "failed"
  file,         \* of each scan: "none", "kept", "guarded" by a deferred remove, "removed"
  seen,         \* of each scan: rows it went through
  lost,         \* of each scan: are rows missing from what it wrote?
  connected,    \* of each scan: does it hold a connection of its pool?
  \* the signal
  handler,      \* "default", "armed" or "spent"
  interrupted,  \* has FetchData's context been cancelled?
  early         \* history: was that before some scan had sent its query?

user    == <<command, scheme, mapper, initialLoad>>
caller  == <<main, batch, pool, consumer, dataFiles, shadow>>
scans   == <<at, ended, file, seen, lost, connected>>
signals == <<handler, interrupted, early>>
vars    == <<user, caller, scans, signals>>

Over    == {"returned", "exited", "killed"}
Alive   == main \notin Over

(***************************************************************************)
(* The scans.                                                              *)
(***************************************************************************)
PostgresScan ==
  <<"temp-file", "setting", "acquire", "send", "send", "send", "copy", "flush", "rewind">>

PostgresExtractScan ==
  <<"temp-file", "header", "acquire", "send", "rows", "rows.Err", "flush", "rewind">>

PostgresInspectScan ==
  <<"temp-file", "acquire", "send", "copy", "flush", "rewind">>

PostgresInspectExtractScan ==
  <<"temp-file", "acquire", "send", "unchecked-rows", "rewind">>

PostgresTargetScan ==
  <<"temp-file", "acquire", "send", "copy", "flush", "rewind">>

\* "exec" runs on any connection of the pool.  Nothing removes the file of a
\* scan that fails.
ClickHouseScan ==
  <<"kept-file", "header", "setting", "exec", "acquire", "send", "rows",
    "flush", "rows.Err", "rewind">>

ClickHouseInspectScan ==
  <<"kept-file", "header", "acquire", "send", "rows", "flush", "rows.Err", "rewind">>

\* Mutant: what ended the rows is not asked.
MySQLScanUnchecked ==
  <<"temp-file", "header", "acquire", "send", "columns", "rows", "flush", "rewind">>

MySQLScan ==
  <<"temp-file", "header", "acquire", "send", "columns", "rows", "rows.Err", "flush", "rewind">>

PostgresDataSize   == <<"exec">>
MySQLDataSize      == <<"exec">>
ClickHouseDataSize == <<"exec", "exec">>

SideOf(s) == IF s \in {"target", "inspect-target"} THEN "target" ELSE "source"

DataSize(side) ==
  CASE scheme[side] = "postgres"   -> PostgresDataSize
    [] scheme[side] = "mysql"      -> MySQLDataSize
    [] scheme[side] = "clickhouse" -> ClickHouseDataSize

ScanSteps(s) ==
  CASE s = "source" -> IF scheme["source"] = "mysql" THEN MySQLScan ELSE PostgresScan
    [] s = "source-extract" ->
         IF scheme["source"] = "mysql" THEN MySQLScan ELSE PostgresExtractScan
    [] s = "target" ->
         IF scheme["target"] = "clickhouse" THEN ClickHouseScan ELSE PostgresTargetScan
    [] s = "inspect-source"         -> PostgresInspectScan
    [] s = "inspect-source-extract" -> PostgresInspectExtractScan
    [] s = "inspect-target"         -> ClickHouseInspectScan

IsFetch == command \in {"run", "fetch"}

\* A goroutine of the fetch asks for the size of the table first.
Steps(s) == IF IsFetch THEN DataSize(SideOf(s)) \o ScanSteps(s) ELSE ScanSteps(s)

(***************************************************************************)
(* The commands: what each creates, in which order, and the scans it then  *)
(* waits for.  A fetch waits for its scans together, the others for one    *)
(* after the other.                                                        *)
(***************************************************************************)
createComponents == <<"source", "target", "mapper">>

InitialLoadCommand ==
  [creates |-> createComponents,
   batches |-> <<{"target", "source-extract"}
                   \union IF TestingSourceScan THEN {"source"} ELSE {}>>]

DefaultCommand ==
  [creates |-> createComponents, batches |-> <<{"target", "source"}>>]

InspectCommand ==
  [creates |-> createComponents \o <<"inspectors">>,
   batches |-> <<{"inspect-source"}, {"inspect-source-extract"}, {"inspect-target"}>>]

SourceScanBenchmark ==
  [creates |-> <<"source", "mapper">>, batches |-> <<{"source"}>>]

SourceExtractScanBenchmark ==
  [creates |-> <<"source", "mapper">>, batches |-> <<{"source-extract"}>>]

TargetScanBenchmark ==
  [creates |-> <<"target", "mapper">>, batches |-> <<{"target"}>>]

Plan ==
  CASE IsFetch -> IF initialLoad THEN InitialLoadCommand ELSE DefaultCommand
    [] command = "inspect"             -> InspectCommand
    [] command = "source-scan"         -> SourceScanBenchmark
    [] command = "source-extract-scan" -> SourceExtractScanBenchmark
    [] command = "target-scan"         -> TargetScanBenchmark

Batches == Plan.batches

After(part) ==
  LET order == <<"config">> \o Plan.creates \o <<"start">>
  IN order[(CHOOSE n \in DOMAIN order : order[n] = part) + 1]

(***************************************************************************)
(* Steps of a scan.                                                        *)
(***************************************************************************)
Running(s) == Alive /\ at[s] > 0 /\ ended[s] = "no"
StepOf(s)  == Steps(s)[at[s]]

\* errgroup.WithContext: the first error cancels what the others use.
\* Mutant: the scans do not see the signal.
CancelledByScan == IsFetch /\ \E s \in Scan : ended[s] = "failed"

Cancelled == interrupted \/ (IsFetch /\ \E s \in Scan : ended[s] = "failed")

ConnectionFree(side) ==
  Cardinality({s \in Scan : connected[s] /\ SideOf(s) = side}) < PoolSize

\* Hash expressions are written for one database; ClickHouse takes
\* PostgreSQL's casts and concatenations as well.
Understands(database, dialect) ==
  dialect = database \/ (database = "clickhouse" /\ dialect = "postgres")

SourceDialect == IF mapper = "generic" THEN "mysql" ELSE "postgres"

\* Mutant: the expression of the other hasher.
OneTargetDialect == "postgres"

TargetDialect == IF mapper = "generic" THEN "postgres" ELSE "clickhouse"

\* The extracting scans and MySQL's select columns and hash in Go.
Rejected(s) ==
  CASE s \in {"source", "inspect-source"} ->
         scheme["source"] = "postgres" /\ ~Understands("postgres", SourceDialect)
    [] s \in {"target", "inspect-target"} -> ~Understands(scheme["target"], TargetDialect)
    [] OTHER -> FALSE

\* Mutant: the last step is not the last.
GoOnPastEnd(s) == at' = [at EXCEPT ![s] = @ + 1] /\ UNCHANGED <<ended, connected>>

\* Mutant: a scan that is through keeps its connection.
GoOnConnected(s) ==
  IF at[s] = Len(Steps(s))
  THEN ended' = [ended EXCEPT ![s] = "done"] /\ UNCHANGED <<at, connected>>
  ELSE at' = [at EXCEPT ![s] = @ + 1] /\ UNCHANGED <<ended, connected>>

GoOn(s) ==
  IF at[s] = Len(Steps(s))
  THEN /\ ended' = [ended EXCEPT ![s] = "done"]
       /\ connected' = [connected EXCEPT ![s] = FALSE]
       /\ UNCHANGED at
  ELSE at' = [at EXCEPT ![s] = @ + 1] /\ UNCHANGED <<ended, connected>>

\* An error is returned: the deferred functions run.
Fail(s) ==
  /\ ended' = [ended EXCEPT ![s] = "failed"]
  /\ connected' = [connected EXCEPT ![s] = FALSE]
  /\ file' = [file EXCEPT ![s] = IF @ = "guarded" THEN "removed" ELSE @]
  /\ UNCHANGED <<at, seen, lost>>

\* Temporary files, writes, settings: any of them can fail.
LocalStep(s) ==
  /\ Running(s)
  /\ StepOf(s) \in {"temp-file", "kept-file", "header", "setting", "columns", "flush", "rewind"}
  /\ \/ /\ file' = [file EXCEPT ![s] = IF StepOf(s) = "temp-file" THEN "guarded"
                                       ELSE IF StepOf(s) = "kept-file" THEN "kept" ELSE @]
        /\ GoOn(s) /\ UNCHANGED <<seen, lost>>
     \/ Fail(s)
  /\ UNCHANGED <<user, caller, signals>>

\* A call to the server fails at once under a cancelled context.
Acquire(s) ==
  /\ Running(s) /\ StepOf(s) = "acquire"
  /\ \/ /\ ~Cancelled /\ ConnectionFree(SideOf(s))
        /\ at' = [at EXCEPT ![s] = @ + 1]
        /\ connected' = [connected EXCEPT ![s] = TRUE]
        /\ UNCHANGED <<ended, file, seen, lost>>
     \/ Cancelled /\ Fail(s)
     \/ ConnectionFree(SideOf(s)) /\ Fail(s)
  /\ UNCHANGED <<user, caller, signals>>

ServerCall(s) ==
  /\ Running(s)
  /\ StepOf(s) \in {"exec", "send"}
  /\ StepOf(s) = "exec" => ConnectionFree(SideOf(s)) \/ Cancelled
  /\ \/ /\ ~Cancelled
        /\ StepOf(s) = "send" => ~Rejected(s)
        /\ GoOn(s) /\ UNCHANGED <<file, seen, lost>>
     \/ Fail(s)
  /\ UNCHANGED <<user, caller, signals>>

Streams == {"copy", "rows", "unchecked-rows"}

\* A row arrives and is written.  Where rows go through Go it may fail to be
\* mapped; where nobody looks at the write it may be lost.
NextRow(s) ==
  /\ Running(s) /\ StepOf(s) \in Streams
  /\ seen[s] < Rows
  /\ \/ /\ seen' = [seen EXCEPT ![s] = @ + 1]
        /\ lost' \in {lost} \union IF StepOf(s) = "unchecked-rows"
                                   THEN {[lost EXCEPT ![s] = TRUE]} ELSE {}
        /\ UNCHANGED <<at, ended, file, connected>>
     \/ Fail(s)
  /\ UNCHANGED <<user, caller, signals>>

LastRow(s) ==
  /\ Running(s) /\ StepOf(s) \in Streams
  /\ seen[s] = Rows
  /\ GoOn(s)
  /\ UNCHANGED <<file, seen, lost, user, caller, signals>>

\* The connection breaks or the context is cancelled: rows.Next returns FALSE
\* as it does at the end, and CopyTo returns the error.
StreamBreaks(s) ==
  /\ Running(s) /\ StepOf(s) \in Streams
  /\ IF StepOf(s) = "copy" THEN Fail(s)
     ELSE lost' = [lost EXCEPT ![s] = TRUE] /\ GoOn(s) /\ UNCHANGED <<file, seen>>
  /\ UNCHANGED <<user, caller, signals>>

RowsErr(s) ==
  /\ Running(s) /\ StepOf(s) = "rows.Err"
  /\ IF lost[s] THEN Fail(s) ELSE GoOn(s) /\ UNCHANGED <<file, seen, lost>>
  /\ UNCHANGED <<user, caller, signals>>

ScanNext(s) ==
  \/ LocalStep(s) \/ Acquire(s) \/ ServerCall(s)
  \/ NextRow(s) \/ LastRow(s) \/ StreamBreaks(s) \/ RowsErr(s)

(***************************************************************************)
(* The command, up to its components.                                      *)
(***************************************************************************)
Go(from, to) == main = from /\ main' = to

\* os.Exit(1): deferred cleanups do not run.
Exit(from) == Go(from, "exited") /\ UNCHANGED <<batch, pool, consumer, dataFiles, shadow>>

\* Not readable, not YAML, a required field missing, no key to inspect.
LoadConfigFails == Exit("config") /\ UNCHANGED <<user, scans, signals>>

LoadConfig ==
  /\ Go("config", After("config"))
  /\ UNCHANGED <<user, batch, pool, consumer, dataFiles, shadow, scans, signals>>

Supported == [source |-> {"postgres", "mysql"}, target |-> {"postgres", "clickhouse"}]

\* Open and ping.
CreateSide(side) ==
  /\ scheme[side] \in Supported[side]
  /\ Go(side, After(side))
  /\ pool' = [pool EXCEPT ![side] = "open"]
  /\ UNCHANGED <<user, batch, consumer, dataFiles, shadow, scans, signals>>

CloseOpen == [side \in Side |-> IF pool[side] = "open" THEN "closed" ELSE pool[side]]

\* The scheme is not supported, the pool cannot be opened, or the ping fails
\* and the pool just opened is closed.  A source opened before is closed too.
CreateSideFails(side) ==
  /\ Go(side, "uncreated")
  /\ pool' \in {CloseOpen} \union IF scheme[side] \in Supported[side]
                                  THEN {[CloseOpen EXCEPT ![side] = "closed"]} ELSE {}
  /\ UNCHANGED <<user, batch, consumer, dataFiles, shadow, scans, signals>>

IsBenchmark == ~IsFetch /\ command # "inspect"

MapperKnown == mapper = "peer_db" \/ (mapper = "generic" /\ ~IsBenchmark)

CreateMapper ==
  /\ MapperKnown
  /\ Go("mapper", After("mapper"))
  /\ UNCHANGED <<user, batch, pool, consumer, dataFiles, shadow, scans, signals>>

\* Mutant: the target is left open.
CreateMapperLeavesTarget ==
  /\ Go("mapper", "uncreated")
  /\ pool' = IF IsBenchmark THEN pool ELSE [CloseOpen EXCEPT !["target"] = pool["target"]]
  /\ UNCHANGED <<user, batch, consumer, dataFiles, shadow, scans, signals>>

\* Unknown, or the WASM module does not load.  The benchmarks just exit.
CreateMapperFails ==
  /\ Go("mapper", "uncreated")
  /\ pool' = IF IsBenchmark THEN pool ELSE CloseOpen
  /\ UNCHANGED <<user, batch, consumer, dataFiles, shadow, scans, signals>>

ExitUncreated == Exit("uncreated") /\ UNCHANGED <<user, scans, signals>>

\* Columns can be filtered for peer_db only, and not every source and target
\* can be inspected.
CheckInspectors ==
  /\ scheme["source"] = "postgres" /\ scheme["target"] = "clickhouse"
  /\ Go("inspectors", After("inspectors"))
  /\ UNCHANGED <<user, batch, pool, consumer, dataFiles, shadow, scans, signals>>

CheckInspectorsFails == Exit("inspectors") /\ UNCHANGED <<user, scans, signals>>

(***************************************************************************)
(* The command, from its components to the end.                            *)
(***************************************************************************)
StartBatch(b) ==
  /\ batch' = b
  /\ at' = [s \in Scan |-> IF s \in Batches[b] THEN 1 ELSE at[s]]
  /\ UNCHANGED <<ended, file, seen, lost, connected>>

StartScans ==
  /\ IsFetch => initialLoad
  /\ Go("start", "waiting")
  /\ StartBatch(1)
  /\ UNCHANGED <<user, pool, consumer, dataFiles, shadow, signals>>

\* defaultFetchData starts the consumer before its scans.
StartConsumer ==
  /\ IsFetch /\ ~initialLoad
  /\ scheme["source"] = "postgres"
  /\ Go("start", "waiting")
  /\ consumer' = "running"
  /\ StartBatch(1)
  /\ UNCHANGED <<user, pool, dataFiles, shadow, signals>>

\* MySQL has no change stream.
StartConsumerFails ==
  /\ IsFetch /\ ~initialLoad
  /\ Exit("start")
  /\ UNCHANGED <<user, scans, signals>>

\* Mutant: the first error is enough.
SomeEnded == \A s \in Batches[batch] : ended[s] = "done" \/ \E t \in Batches[batch] : ended[t] = "failed"

AllEnded == \A s \in Batches[batch] : ended[s] # "no"

Failed == \E s \in Batches[batch] : ended[s] = "failed"

WaitFails ==
  /\ AllEnded /\ Failed
  /\ Go("waiting", IF consumer = "running" THEN "closing" ELSE "exited")
  /\ UNCHANGED <<user, batch, pool, consumer, dataFiles, shadow, scans, signals>>

NextBatch ==
  /\ main = "waiting" /\ AllEnded /\ ~Failed
  /\ batch < Len(Batches)
  /\ StartBatch(batch + 1)
  /\ UNCHANGED <<user, main, pool, consumer, dataFiles, shadow, signals>>

\* The deferred cleanups.
Return(from) ==
  /\ Go(from, "returned")
  /\ pool' = CloseOpen
  /\ UNCHANGED <<user, batch, consumer, dataFiles, shadow, scans, signals>>

ScansDone == AllEnded /\ ~Failed /\ batch = Len(Batches)

SingleScansDone == ~IsFetch /\ ScansDone /\ Return("waiting")

InitialLoadDone ==
  /\ IsFetch /\ initialLoad /\ ScansDone
  /\ Go("waiting", "fetched")
  /\ dataFiles' = Batches[batch]
  /\ UNCHANGED <<user, batch, pool, consumer, shadow, scans, signals>>

\* With a file or with an error, and then the deferred Close.
ConsumeToCompletion ==
  /\ consumer = "running" /\ ScansDone
  /\ Go("waiting", "closing")
  /\ dataFiles' \in {{}, Batches[batch] \union {"changes"}}
  /\ UNCHANGED <<user, batch, pool, consumer, shadow, scans, signals>>

CloseConsumer ==
  /\ Go("closing", IF dataFiles = {} THEN "exited" ELSE "fetched")
  /\ consumer' = "closed"
  /\ UNCHANGED <<user, batch, pool, dataFiles, shadow, scans, signals>>

FetchOnly == command = "fetch" /\ Return("fetched")

\* The context of the update is not the one the signal cancels.
UpdateShadow ==
  /\ command = "run"
  /\ Go("fetched", "printing")
  /\ shadow' = TRUE
  /\ UNCHANGED <<user, batch, pool, consumer, dataFiles, scans, signals>>

UpdateShadowFails ==
  /\ command = "run"
  /\ Exit("fetched")
  /\ UNCHANGED <<user, scans, signals>>

PrintMetrics == Return("printing")

\* The keys in error cannot be written to their file.
PrintMetricsFails == Exit("printing") /\ UNCHANGED <<user, scans, signals>>

(***************************************************************************)
(* The signal.  FetchData's goroutine takes one, and nobody un-notifies.   *)
(***************************************************************************)
Notify ==
  /\ Alive /\ IsFetch /\ main \notin {"config", "source", "target", "mapper", "uncreated"}
  /\ handler = "default"
  /\ handler' = "armed"
  /\ UNCHANGED <<user, caller, scans, interrupted, early>>

ToSend(s) ==
  ended[s] = "no" /\ \E n \in DOMAIN Steps(s) : n >= at[s] /\ Steps(s)[n] = "send"

Interrupt ==
  /\ Alive /\ handler = "armed"
  /\ handler' = "spent"
  /\ interrupted' = TRUE
  /\ early' = (main \in {"start", "waiting"} /\ \E s \in Batches[1] : ToSend(s))
  /\ UNCHANGED <<user, caller, scans>>

\* Without the handler SIGINT ends the process; a second one has no effect.
Kill ==
  /\ Alive /\ handler = "default"
  /\ main' = "killed"
  /\ UNCHANGED <<user, batch, pool, consumer, dataFiles, shadow, scans, signals>>

Init ==
  /\ command \in Commands
  /\ scheme \in [Side -> Scheme]
  /\ mapper \in Mapper
  /\ initialLoad \in IF command \in InitialLoads THEN BOOLEAN ELSE {FALSE}
  /\ main = "config" /\ batch = 1
  /\ pool = [side \in Side |-> "none"] /\ consumer = "none"
  /\ dataFiles = {} /\ shadow = FALSE
  /\ at = [s \in Scan |-> 0] /\ ended = [s \in Scan |-> "no"]
  /\ file = [s \in Scan |-> "none"]
  /\ seen = [s \in Scan |-> 0] /\ lost = [s \in Scan |-> FALSE]
  /\ connected = [s \in Scan |-> FALSE]
  /\ handler = "default" /\ interrupted = FALSE /\ early = FALSE

CommandNext ==
  \/ LoadConfig \/ LoadConfigFails
  \/ \E side \in Side : CreateSide(side) \/ CreateSideFails(side)
  \/ CreateMapper \/ CreateMapperFails \/ ExitUncreated
  \/ CheckInspectors \/ CheckInspectorsFails
  \/ StartScans \/ StartConsumer \/ StartConsumerFails
  \/ WaitFails \/ NextBatch \/ SingleScansDone \/ InitialLoadDone
  \/ ConsumeToCompletion \/ CloseConsumer
  \/ FetchOnly \/ UpdateShadow \/ UpdateShadowFails \/ PrintMetrics \/ PrintMetricsFails

Next ==
  \/ CommandNext
  \/ \E s \in Scan : ScanNext(s)
  \/ Notify \/ Interrupt \/ Kill

Spec == Init /\ [][Next]_vars

\* The goroutines keep running and servers answer, if with an error; nobody
\* has to press a key.
Fairness == WF_vars(CommandNext) /\ \A s \in Scan : WF_vars(ScanNext(s))

FairSpec == Spec /\ Fairness

(***************************************************************************)
(* Properties.                                                             *)
(***************************************************************************)
TypeOK ==
  /\ command \in Command /\ scheme \in [Side -> Scheme] /\ mapper \in Mapper
  /\ {initialLoad, shadow, interrupted, early} \subseteq BOOLEAN
  /\ main \in {"config", "source", "target", "mapper", "uncreated", "inspectors", "start",
               "waiting", "closing", "fetched", "printing"} \union Over
  /\ batch \in 1..Len(Batches)
  /\ pool \in [Side -> {"none", "open", "closed"}]
  /\ consumer \in {"none", "running", "closed"}
  /\ dataFiles \subseteq Scan \union {"changes"}
  /\ at \in [Scan -> Nat] /\ \A s \in Scan : at[s] <= Len(Steps(s))
  /\ seen \in [Scan -> 0..Rows]
  /\ ended \in [Scan -> {"no", "done", "failed"}]
  /\ file \in [Scan -> {"none", "kept", "guarded", "removed"}]
  /\ lost \in [Scan -> BOOLEAN] /\ connected \in [Scan -> BOOLEAN]
  /\ handler \in {"default", "armed", "spent"}
  /\ \A side \in Side : Cardinality({s \in Scan : connected[s] /\ SideOf(s) = side}) <= PoolSize

\* createComponents hands over everything or leaves nothing open: whichever of
\* its steps fails, the pools opened before are closed.
CreationAllOrNothing ==
  main = "uncreated" /\ ~IsBenchmark => \A side \in Side : pool[side] # "open"

\* A scan that succeeds wrote every row of its table, whatever ended the rows
\* it read, a broken connection or a cancelled context; but for the one
\* inspection scan that asks for no error.
NoSilentTruncation ==
  \A s \in Scan \ {"inspect-source-extract"} :
    ended[s] = "done" => seen[s] = Rows /\ ~lost[s]

\* FetchData leaves no goroutine behind: when it returns, with files or with an
\* error, no scan still writes its file or holds a connection of a pool that
\* the command is about to close, and the consumer has been closed.
FetchJoinsItsScans ==
  main \in {"closing", "fetched", "printing", "returned", "exited"} =>
    /\ \A s \in Scan : (at[s] > 0 => ended[s] # "no") /\ ~connected[s]
    /\ main # "closing" => consumer # "running"

\* An interrupt that comes while a scan has yet to send its query stops the run:
\* no files are handed over and the shadow stays as it is.
InterruptStopsRun == early => dataFiles = {} /\ ~shadow

\* Nothing compares a row mapper with the two databases.  A mapper made for
\* others than those configured fails in the first scan, and does not compare
\* two hash functions; the exception is generic with a ClickHouse target, which
\* understands its expression and hashes it with another function.
ServerHash == IF scheme["target"] = "clickhouse" THEN "xxh3" ELSE "hashtextextended"
MapperHash == IF mapper = "generic" THEN "hashtextextended" ELSE "xxh3"

MismatchIsLoud ==
  dataFiles # {} /\ ServerHash # MapperHash =>
    mapper = "generic" /\ scheme["target"] = "clickhouse"

\* A command ends, whatever fails, and however few connections a pool has.
CommandEnds == main = "config" ~> main \in Over
=============================================================================
