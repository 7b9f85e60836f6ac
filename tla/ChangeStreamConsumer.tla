------------------------ MODULE ChangeStreamConsumer ------------------------
(***************************************************************************)
(* postgres_change_stream_consumer.go: one goroutine (the loop) receives   *)
(* the logical replication stream of a slot and batches hash pairs by      *)
(* primary key into a file; its caller, defaultFetchData, runs the scans,  *)
(* asks the loop to stop at a position of the log, and takes the file.     *)
(* They share the fields below "shared" and two channels.                  *)
(*                                                                         *)
(* The log is a sequence; entry k fills the positions between k - 1 and k, *)
(* and stands for a committed transaction with one insert or update of     *)
(* the primary key it holds, or NULL: a delete, a change of another table, *)
(* a message of pg_logical_emit_message.  A hash pair is known by the      *)
(* position of the change it was computed from.                            *)
(*                                                                         *)
(* An action of the loop or of the caller ends where another goroutine can *)
(* interfere: at an unlock, a channel operation, a call to the server.     *)
(***************************************************************************)
EXTENDS Integers, Sequences, FiniteSets

CONSTANTS
  PK,               \* primary keys
  NULL,
  ResultBatchSize,  \* messages in a batch (4096 in the code)
  MessageLength,    \* len(WALData), in entries: 0 ends inside its own entry,
                    \* 1 at its end, 2 at the end of the entry after it
  MaxWrites,        \* bound of the model: inserts and updates of the source
  MaxOthers,        \* bound of the model: other entries before it writes no more
  MaxRuns,          \* bound of the model: runs of defaultFetchData
  IdleTimeouts,     \* can idleTimeout expire?
  Interrupts,       \* can SIGINT cancel the context?
  Faults,           \* can a scan, a server call or the connection fail?
  WriteFaults       \* can a message, a row's text or the data file fail?

ASSUME ConsumerAssumption ==
  /\ NULL \notin PK /\ NULL \notin Nat
  /\ ResultBatchSize \in Nat \ {0}
  /\ MessageLength \subseteq Nat /\ MessageLength # {}
  /\ MaxWrites \in Nat /\ MaxOthers \in Nat /\ MaxRuns \in Nat
  /\ {IdleTimeouts, Interrupts, Faults, WriteFaults} \subseteq BOOLEAN

VARIABLES
  \* the server
  wal, slot,
  \* the loop
  loop, received, clientXLogPos, quiet,
  \* shared
  results, batchCounter, dataFile, targetLSN, completionRequested,
  targetLSNReached, errorChan, ctx, channels,
  \* the caller
  caller, needsClose, returned,
  \* history: runs started, the slot when this one was, the end of the log
  \* when its scans were through, the rows whose loss was logged
  runs, startSlot, scanEnd, unwritten

server   == <<wal, slot>>
looping  == <<loop, received, clientXLogPos, quiet>>
batch    == <<results, batchCounter, dataFile>>
signals  == <<targetLSN, completionRequested, targetLSNReached, errorChan, ctx, channels>>
calling  == <<caller, needsClose, returned>>
history  == <<runs, startSlot, scanEnd, unwritten>>
vars     == <<server, looping, batch, signals, calling, history>>

NoFile    == NULL
NoResults == [p \in PK |-> NULL]
Rows(res) == {[pk |-> p, version |-> res[p]] : p \in {q \in PK : res[q] # NULL}}
FileRows  == IF dataFile = NoFile THEN {} ELSE dataFile

(***************************************************************************)
(* The server.                                                             *)
(***************************************************************************)
SourceWrites(entry) ==
  /\ runs < MaxRuns \/ caller \notin {"idle", "finished"}      \* bound
  /\ IF entry = NULL                                         \* bound
     THEN Cardinality({k \in DOMAIN wal : wal[k] = NULL}) <= MaxOthers
     ELSE Cardinality({k \in DOMAIN wal : wal[k] # NULL}) < MaxWrites
  /\ wal' = Append(wal, entry)
  /\ UNCHANGED <<slot, looping, batch, signals, calling, history>>

\* pg_current_wal_lsn is at or past every commit, not every message.
CurrentLSN == {n \in DOMAIN wal : \A k \in DOMAIN wal : k > n => wal[k] = NULL}

(***************************************************************************)
(* determineTargetLSN, called by both goroutines on one connection that is *)
(* not made for it: a statement fails when the other one has its own there,*)
(* which may be the ticker's.  One that takes five seconds fails with the  *)
(* error of a context that ends, as it does when the context has ended.    *)
(***************************************************************************)
ConnectionShared ==
  loop \in {"forcing", "targeting"} /\ caller \in {"forcing", "targeting", "waiting"}

StatementErrors ==
  {error \in {"cancelled", "failed"} :
     \/ Faults
     \/ error = "cancelled" /\ ctx # "live"
     \/ error = "failed" /\ ConnectionShared}

ForceWalIncrement == wal' = Append(wal, NULL) /\ UNCHANGED slot

SetTargetLSN ==
  /\ targetLSN' \in CurrentLSN
  /\ UNCHANGED <<completionRequested, targetLSNReached, errorChan, ctx, channels>>

(***************************************************************************)
(* The loop.                                                               *)
(***************************************************************************)
GoLoop(from, to) ==
  /\ loop = from
  /\ loop' = to
  /\ UNCHANGED <<received, clientXLogPos, quiet>>

\* Mutant: the loop returns on an error and tells nobody.
LoopFailsSilently(from, to, error) ==
  GoLoop(from, to) /\ UNCHANGED <<server, batch, signals, calling, history>>

\* c.errorChan <- err, then return
LoopFails(from, to, error) ==
  /\ GoLoop(from, to)
  /\ errorChan' = error
  /\ UNCHANGED <<targetLSN, completionRequested, targetLSNReached, ctx, channels>>
  /\ UNCHANGED <<server, batch, calling, history>>

LoopCancelled ==
  /\ ctx # "live"
  /\ \E from \in {"starting", "top", "receiving"} : LoopFails(from, "exiting", "cancelled")

\* An error of the connection closes it: no status can be sent any more.
LoopFault ==
  /\ Faults
  /\ \E from \in {"starting", "receiving"} : LoopFails(from, "disconnected", "failed")

StartReplication ==
  /\ GoLoop("starting", "top")
  /\ UNCHANGED <<server, batch, signals, calling, history>>

CheckAndReceive ==
  /\ ctx = "live"
  /\ GoLoop("top", "receiving")
  /\ UNCHANGED <<server, batch, signals, calling, history>>

\* ReceiveMessage times out: the server sent nothing for half the idle timeout,
\* as it has nothing or is busy decoding what it has.
ReceiveTimeout ==
  /\ IdleTimeouts
  /\ loop = "receiving"
  /\ loop' = "top"
  /\ quiet' = TRUE
  /\ UNCHANGED <<received, clientXLogPos, server, batch, signals, calling, history>>

\* The ticker fires and lastActivity is too long ago; a completion already
\* requested makes the loop return without a word.
IdleTimeout ==
  /\ IdleTimeouts /\ quiet /\ ctx = "live"
  /\ GoLoop("top", IF completionRequested THEN "exiting" ELSE "completing")
  /\ UNCHANGED <<server, batch, signals, calling, history>>

IdleRequestsCompletion ==
  /\ GoLoop("completing", "forcing")
  /\ completionRequested' = TRUE
  /\ UNCHANGED <<targetLSN, targetLSNReached, errorChan, ctx, channels>>
  /\ UNCHANGED <<server, batch, calling, history>>

LoopForcesWal ==
  /\ GoLoop("forcing", "targeting")
  /\ ForceWalIncrement
  /\ UNCHANGED <<batch, signals, calling, history>>

LoopSetsTarget ==
  /\ GoLoop("targeting", "signalling")
  /\ SetTargetLSN
  /\ UNCHANGED <<server, batch, calling, history>>

LoopStatementFails ==
  \E from \in {"forcing", "targeting"} :
    \E error \in StatementErrors : LoopFails(from, "exiting", error)

\* Mutant: the loop goes on after it has said that it is through.
SignalAndGoOn ==
  /\ GoLoop("signalling", "top")
  /\ targetLSNReached' = TRUE
  /\ completionRequested' = FALSE
  /\ UNCHANGED <<targetLSN, errorChan, ctx, channels>>
  /\ UNCHANGED <<server, batch, calling, history>>

\* close(targetLSNReached) and completionRequested = false, then return; the
\* idle timeout and the position reached end alike.
SignalTargetReached ==
  /\ GoLoop("signalling", "exiting")
  /\ targetLSNReached' = TRUE
  /\ completionRequested' = FALSE
  /\ UNCHANGED <<targetLSN, errorChan, ctx, channels>>
  /\ UNCHANGED <<server, batch, calling, history>>

\* Mutant: each batch opens the file anew.
TruncatedFile(rows) == IF rows = {} THEN {dataFile} ELSE {rows}

\* What a write leaves in the file when it may stop half way.
WrittenFile(rows) ==
  IF rows = {} THEN {dataFile}
  ELSE {FileRows \union rows}
         \union IF WriteFaults
                THEN {dataFile} \union {FileRows \union part : part \in SUBSET rows}
                ELSE {}

Unwritten(rows, file) == IF file = NoFile THEN rows ELSE rows \ file

\* Mutant: the batch is written one message late.
BatchOverfull == batchCounter + 1 > ResultBatchSize

BatchFull == batchCounter + 1 >= ResultBatchSize

\* The batch is written and forgotten when the counter says so.
StoreRow(pk) ==
  LET res == [results EXCEPT ![pk] = received']
  IN IF BatchFull
     THEN /\ dataFile' \in WrittenFile(Rows(res))
          /\ unwritten' = unwritten \union Unwritten(Rows(res), dataFile')
          /\ results' = NoResults
          /\ batchCounter' = 0
     ELSE /\ results' = res
          /\ batchCounter' = batchCounter + 1
          /\ UNCHANGED <<dataFile, unwritten>>

\* FormatSource or the row mapper returned an error, which is logged.
RowNotMapped(pk) ==
  /\ WriteFaults
  /\ unwritten' = unwritten \union {[pk |-> pk, version |-> received']}
  /\ UNCHANGED batch

HandleDataMessage(pk) == StoreRow(pk) \/ RowNotMapped(pk)

\* replConn.ReceiveMessage returns XLogData.
TakeMessage(to) ==
  /\ loop = "receiving" /\ received < Len(wal)
  /\ received' = received + 1
  /\ quiet' = FALSE
  /\ loop' = to
  /\ UNCHANGED <<clientXLogPos, server, signals, calling, runs, startSlot, scanEnd>>

\* handleDataMessage runs for an insert or update.
ReceiveMessage ==
  /\ TakeMessage("handled")
  /\ IF wal[received'] # NULL
     THEN HandleDataMessage(wal[received'])
     ELSE UNCHANGED <<batch, unwritten>>

\* A message that cannot be parsed is logged and skipped: the position and the
\* completion check are left to the next one.
SkipMessage ==
  /\ TakeMessage("top")
  /\ wal[received'] # NULL                                   \* bound
  /\ RowNotMapped(wal[received'])

\* Mutant: WALStart is taken for the end of the message.
PositionPastMessage(len) == received + len

Position(len) == received - 1 + len

\* Mutant: a target that is not determined yet counts as reached.
UnsetTargetReached(position) == completionRequested /\ position >= targetLSN

TargetReached(position) == completionRequested /\ targetLSN # 0 /\ position >= targetLSN

\* clientXLogPos = WALStart + len(WALData), and the completion check.
UpdatePosition ==
  /\ loop = "handled"
  /\ \E len \in MessageLength :
       /\ clientXLogPos' = Position(len)
       /\ loop' = IF TargetReached(clientXLogPos') THEN "signalling" ELSE "top"
  /\ UNCHANGED <<received, quiet, server, batch, signals, calling, history>>

\* The deferred standby status: the server moves the slot to clientXLogPos,
\* whatever made the loop return.  A position of zero moves nothing.
LoopExits(acknowledged) ==
  /\ \E from \in {"exiting", "disconnected"} :
       /\ GoLoop(from, "done")
       /\ IF acknowledged THEN from = "exiting" ELSE Faults
  /\ slot' = IF acknowledged /\ clientXLogPos > slot THEN clientXLogPos ELSE slot
  /\ UNCHANGED <<wal, batch, signals, calling, history>>

(***************************************************************************)
(* The caller.                                                             *)
(***************************************************************************)
GoCaller(from, to) ==
  /\ caller = from
  /\ caller' = to
  /\ UNCHANGED <<needsClose, returned>>

\* NewPostgresChangeStreamConsumer.  The server streams from the slot on: an
\* entry that begins before it is skipped.
StartConsumer ==
  /\ caller \in {"idle", "finished"} /\ runs < MaxRuns      \* bound
  /\ caller' = "scanning" /\ needsClose' = FALSE /\ returned' = NoFile
  /\ loop' = "starting" /\ quiet' = FALSE /\ clientXLogPos' = 0
  /\ received' = slot
  /\ results' = NoResults /\ batchCounter' = 0 /\ dataFile' = NoFile
  /\ targetLSN' = 0 /\ completionRequested' = FALSE
  /\ targetLSNReached' = FALSE /\ errorChan' = "empty" /\ ctx' = "live" /\ channels' = "open"
  /\ runs' = runs + 1 /\ startSlot' = slot /\ scanEnd' = slot /\ unwritten' = {}
  /\ UNCHANGED <<wal, slot>>

\* sg.Wait returned an error: the deferred Close is next.
ScanFails ==
  /\ Faults \/ ctx # "live"
  /\ GoCaller("scanning", "closing")
  /\ UNCHANGED <<server, looping, batch, signals, history>>

\* The scans are through; ConsumeToCompletion takes the flag, or finds it taken.
RequestCompletion ==
  /\ GoCaller("scanning", IF completionRequested THEN "closing" ELSE "forcing")
  /\ completionRequested' = TRUE
  /\ scanEnd' = Len(wal)
  /\ UNCHANGED <<targetLSN, targetLSNReached, errorChan, ctx, channels>>
  /\ UNCHANGED <<server, looping, batch, runs, startSlot, unwritten>>

CallerForcesWal ==
  /\ GoCaller("forcing", "targeting")
  /\ ForceWalIncrement
  /\ UNCHANGED <<looping, batch, signals, history>>

CallerSetsTarget ==
  /\ GoCaller("targeting", "waiting")
  /\ SetTargetLSN
  /\ UNCHANGED <<server, looping, batch, history>>

CallerStatementFails ==
  /\ StatementErrors # {}
  /\ \E from \in {"forcing", "targeting"} : GoCaller(from, "closing")
  /\ UNCHANGED <<server, looping, batch, signals, history>>

\* The select.  An error taken from the channel is gone from it.
WaitEnds ==
  /\ \/ targetLSNReached /\ GoCaller("waiting", "finalizing") /\ UNCHANGED errorChan
     \/ errorChan = "cancelled" /\ GoCaller("waiting", "finalizing") /\ errorChan' = "empty"
     \/ errorChan = "failed" /\ GoCaller("waiting", "closing") /\ errorChan' = "empty"
     \/ ctx # "live" /\ GoCaller("waiting", "finalizing") /\ UNCHANGED errorChan
  /\ UNCHANGED <<targetLSN, completionRequested, targetLSNReached, ctx, channels>>
  /\ UNCHANGED <<server, looping, batch, history>>

\* walAdvanceTicker.  It adds nothing while an entry that would do is still to
\* come: a bound of the model.
WalAdvanceTick ==
  /\ caller = "waiting"
  /\ Len(wal) = received \/ Len(wal) <= targetLSN           \* bound
  /\ ForceWalIncrement
  /\ UNCHANGED <<looping, batch, signals, calling, history>>

\* Mutant: the file is handed out, but not forgotten.
FinalizeKeepingFile ==
  /\ caller = "finalizing"
  /\ caller' = "closing"
  /\ \E file \in WrittenFile(Rows(results)) :
       /\ dataFile' = file
       /\ returned' = IF file = NoFile THEN {} ELSE file
       /\ unwritten' = unwritten \union Unwritten(Rows(results), file)
  /\ UNCHANGED <<needsClose, results, batchCounter, runs, startSlot, scanEnd>>
  /\ UNCHANGED <<server, looping, signals>>

\* finalizeData, under the mutex throughout.  A failed write is logged only.
Finalize ==
  /\ caller = "finalizing"
  /\ caller' = "closing"
  /\ dataFile' = NoFile
  /\ \/ \E file \in WrittenFile(Rows(results)) :
          /\ returned' = IF file = NoFile THEN {} ELSE file
          /\ unwritten' = unwritten \union Unwritten(Rows(results), file)
     \/ WriteFaults /\ UNCHANGED <<returned, unwritten>>     \* open or rewind fails
  /\ UNCHANGED <<needsClose, results, batchCounter, runs, startSlot, scanEnd>>
  /\ UNCHANGED <<server, looping, signals>>

\* Close, up to waiting for the loop.  ConsumeToCompletion calls it on its
\* error paths too, and the second Close finds nothing left to do.
CloseCancels ==
  /\ caller = "closing"
  /\ caller' = "joining"
  /\ needsClose' = (dataFile # NoFile)
  /\ ctx' = IF ctx = "live" THEN "closed" ELSE ctx
  /\ UNCHANGED <<returned, targetLSN, completionRequested, targetLSNReached, errorChan, channels>>
  /\ UNCHANGED <<server, looping, batch, history>>

\* Mutant: Close does not wait for the loop.
LoopNotJoined == loop # "off"

LoopJoined == loop = "done"

\* loopWg.Wait returned: the connections, the file and the channels go.
CloseReleases ==
  /\ LoopJoined
  /\ GoCaller("joining", "finished")
  /\ dataFile' = IF needsClose THEN NoFile ELSE dataFile
  /\ channels' = "released"
  /\ UNCHANGED <<results, batchCounter, history>>
  /\ UNCHANGED <<targetLSN, completionRequested, targetLSNReached, errorChan, ctx>>
  /\ UNCHANGED <<server, looping>>

\* FetchData's signal handler.
Interrupt ==
  /\ Interrupts
  /\ caller \notin {"idle", "finished"} /\ ctx = "live"
  /\ ctx' = "interrupted"
  /\ UNCHANGED <<targetLSN, completionRequested, targetLSNReached, errorChan, channels>>
  /\ UNCHANGED <<server, looping, batch, calling, history>>

\* The process dies.  The server sees the connection go; nobody tells it more.
ProcessDies ==
  /\ Faults
  /\ caller \notin {"idle", "finished"}
  /\ caller' = "idle" /\ loop' = "off" /\ dataFile' = NoFile
  /\ UNCHANGED <<needsClose, returned, received, clientXLogPos, quiet, results, batchCounter>>
  /\ UNCHANGED <<server, signals, history>>

Init ==
  /\ wal = <<NULL>> /\ slot = 1
  /\ loop = "off" /\ received = 1 /\ clientXLogPos = 0 /\ quiet = FALSE
  /\ results = NoResults /\ batchCounter = 0 /\ dataFile = NoFile
  /\ targetLSN = 0 /\ completionRequested = FALSE
  /\ targetLSNReached = FALSE /\ errorChan = "empty" /\ ctx = "live" /\ channels = "open"
  /\ caller = "idle" /\ needsClose = FALSE /\ returned = NoFile
  /\ runs = 0 /\ startSlot = 1 /\ scanEnd = 1 /\ unwritten = {}

LoopNext ==
  \/ LoopCancelled \/ LoopFault \/ StartReplication \/ CheckAndReceive
  \/ ReceiveTimeout \/ IdleTimeout \/ IdleRequestsCompletion
  \/ LoopForcesWal \/ LoopSetsTarget \/ LoopStatementFails \/ SignalTargetReached
  \/ ReceiveMessage \/ SkipMessage \/ UpdatePosition
  \/ \E acknowledged \in BOOLEAN : LoopExits(acknowledged)

CallerNext ==
  \/ StartConsumer \/ ScanFails \/ RequestCompletion
  \/ CallerForcesWal \/ CallerSetsTarget \/ CallerStatementFails
  \/ WaitEnds \/ WalAdvanceTick \/ Finalize \/ CloseCancels \/ CloseReleases

Next ==
  \/ \E entry \in PK \union {NULL} : SourceWrites(entry)
  \/ LoopNext
  \/ CallerNext
  \/ Interrupt
  \/ ProcessDies

Spec == Init /\ [][Next]_vars

\* The goroutines keep running, a walsender that has an entry sends it in the
\* end, however often a receive times out before, and a tick comes in every
\* second of waiting; nothing has to fail, idle, be interrupted or be written.
Fairness ==
  /\ SF_vars(ReceiveMessage)
  /\ WF_vars(LoopNext)
  /\ WF_vars(ScanFails \/ RequestCompletion)
  /\ WF_vars(CallerForcesWal \/ CallerSetsTarget \/ CallerStatementFails)
  /\ WF_vars(WaitEnds) /\ WF_vars(WalAdvanceTick)
  /\ WF_vars(Finalize \/ CloseCancels \/ CloseReleases)

FairSpec == Spec /\ Fairness

(***************************************************************************)
(* Properties.                                                             *)
(***************************************************************************)
Version == DOMAIN wal

FileRow == [pk: PK, version: Version]

TypeOK ==
  /\ wal \in Seq(PK \union {NULL}) /\ wal # <<>>
  /\ slot \in Nat /\ received \in Nat /\ clientXLogPos \in Nat
  /\ loop \in {"off", "starting", "top", "receiving", "handled", "completing", "forcing",
               "targeting", "signalling", "exiting", "disconnected", "done"}
  /\ caller \in {"idle", "scanning", "forcing", "targeting", "waiting", "finalizing",
                 "closing", "joining", "finished"}
  /\ results \in [PK -> Version \union {NULL}]
  /\ batchCounter \in 0..ResultBatchSize - 1
  /\ dataFile = NoFile \/ dataFile \subseteq FileRow
  /\ returned = NoFile \/ returned \subseteq FileRow
  /\ unwritten \subseteq FileRow
  /\ targetLSN \in Nat
  /\ quiet \in BOOLEAN /\ completionRequested \in BOOLEAN
  /\ targetLSNReached \in BOOLEAN /\ needsClose \in BOOLEAN
  /\ errorChan \in {"empty", "cancelled", "failed"}
  /\ ctx \in {"live", "interrupted", "closed"}
  /\ channels \in {"open", "released"}

\* The two goroutines never make Go panic or hang on a channel: while the loop
\* runs nobody has released its channels, it closes targetLSNReached once, and
\* there is room for the one error it sends.
ChannelsSafe ==
  /\ loop \notin {"off", "done"} => channels = "open"
  /\ loop = "signalling" => ~targetLSNReached
  /\ loop \notin {"off", "exiting", "disconnected", "done"} => errorChan = "empty"

\* The loop and its caller share the batch and the file, and the caller takes
\* both without asking whether the loop has returned.  Whatever ended its wait,
\* a signal apart, nobody adds to what it hands out: the loop is past its last
\* message, in its deferred functions at most.
BatchHasOneWriter ==
  caller = "finalizing" /\ ctx # "interrupted" =>
    loop \in {"exiting", "disconnected", "done"}

Covered(rows, first, last) ==
  \A k \in DOMAIN wal :
    k > first /\ k <= last /\ wal[k] # NULL =>
      \E row \in rows : row.pk = wal[k] /\ row.version >= k

Succeeded == caller = "finished" /\ returned # NoFile

\* A run that succeeds loses nothing unless it says so: each change the slot moved
\* past in it has its row, or a newer one of its primary key, in the file the run
\* returned, if it is not among those whose loss was logged.
SuccessCoversAck ==
  Succeeded /\ ctx # "interrupted" => Covered(returned \union unwritten, startSlot, slot)

\* The file has every change that was committed when the scans were through,
\* so no scanned row is newer than what the file says of it.
FileCoversScans ==
  Succeeded /\ ctx # "interrupted" => Covered(returned \union unwritten, startSlot, scanEnd)

\* "Check if completion already happened and file was returned": Close finds no
\* file to close once a run took it, and none is opened after it has looked,
\* although it looks before the loop has ended.
ReturnedFileIsOpen ==
  caller \in {"joining", "finished"} /\ returned # NoFile /\ ctx # "interrupted" =>
    ~needsClose /\ dataFile = NoFile

\* "targetLSNReached  chan struct{}  // Closed when target LSN is reached": a
\* caller the channel let go finds the position at or past its target.
ReachedMeansReached ==
  caller = "finalizing" /\ ctx = "live" => clientXLogPos >= targetLSN

\* "Wait for the loop to reach the target LSN or exit with an error": a run
\* that starts returns.
CallerReturns == caller = "scanning" ~> caller \in {"idle", "finished"}

\* What the consumer promises.  An interrupted run promises nothing.
Feed == INSTANCE ChangeFeed WITH
  open <- caller \notin {"idle", "finished"},
  start <- startSlot,
  file <- IF ctx = "interrupted" THEN NoFile ELSE returned,
  upTo <- IF ctx = "interrupted" \/ returned = NoFile THEN 0 ELSE received,
  lost <- unwritten

\* The replication loop and its caller, with all their steps, faults and
\* crashes, implement the feed: one file for a run, complete up to a position
\* that the slot does not pass.
ImplementsFeed == Feed!FeedSpec
=============================================================================
