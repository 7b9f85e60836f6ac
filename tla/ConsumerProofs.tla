--------------------------- MODULE ConsumerProofs ---------------------------
(***************************************************************************)
(* Whatever the server, the two goroutines, signals and failures do, the   *)
(* consumer uses its channels safely, hands out files that nobody adds to  *)
(* and that are complete up to the slot, and implements ChangeFeed.  The   *)
(* argument needs that no message ends past its own entry.                 *)
(***************************************************************************)
EXTENDS ChangeStreamConsumer, SequenceTheorems, TLAPS

(***************************************************************************)
(* The inductive invariant.  What the caller will hand out, file and batch *)
(* and what was reported as lost, is complete up to the position received, *)
(* from the start of the run until it is handed out; and by then, unless   *)
(* the run was interrupted, the loop receives no more.                     *)
(***************************************************************************)
Ended      == {"exiting", "disconnected", "done", "off"}
Collecting == {"scanning", "forcing", "targeting", "waiting", "finalizing"}

\* The type invariant in two parts.
DataType ==
  /\ wal \in Seq(PK \union {NULL}) /\ wal # <<>>
  /\ slot \in Nat /\ received \in Nat /\ clientXLogPos \in Nat
  /\ results \in [PK -> Version \union {NULL}]
  /\ batchCounter \in 0..ResultBatchSize - 1
  /\ dataFile = NoFile \/ dataFile \subseteq FileRow
  /\ returned = NoFile \/ returned \subseteq FileRow
  /\ unwritten \subseteq FileRow

ControlType ==
  /\ loop \in {"off", "starting", "top", "receiving", "handled", "completing", "forcing",
               "targeting", "signalling", "exiting", "disconnected", "done"}
  /\ caller \in {"idle", "scanning", "forcing", "targeting", "waiting", "finalizing",
                 "closing", "joining", "finished"}
  /\ targetLSN \in Nat
  /\ quiet \in BOOLEAN /\ completionRequested \in BOOLEAN
  /\ targetLSNReached \in BOOLEAN /\ needsClose \in BOOLEAN
  /\ errorChan \in {"empty", "cancelled", "failed"}
  /\ ctx \in {"live", "interrupted", "closed"}
  /\ channels \in {"open", "released"}

\* The rows of changes received since the run began.
Real ==
  {row \in FileRow :
     startSlot < row.version /\ row.version <= received /\ wal[row.version] = row.pk}

Kept == FileRows \union Rows(results) \union unwritten

Positions ==
  /\ startSlot \in Nat /\ 1 <= startSlot /\ startSlot <= slot
  /\ slot <= received /\ received <= Len(wal)
  /\ clientXLogPos <= received

RowsReal ==
  /\ FileRows \subseteq Real /\ Rows(results) \subseteq Real /\ unwritten \subseteq Real
  /\ returned = NoFile \/ returned \subseteq Real

Control ==
  /\ loop = "off" <=> caller = "idle"
  /\ caller = "finished" => loop = "done"
  /\ channels = "released" => caller = "finished"
  /\ targetLSNReached => loop \in Ended
  /\ errorChan # "empty" => loop \in Ended
  /\ ctx = "closed" => caller \in {"joining", "finished", "idle"}
  /\ caller = "finalizing" /\ ctx # "interrupted" => loop \in Ended

Complete ==
  /\ caller \in Collecting =>
       returned = NoFile /\ Covered(Kept, startSlot, received)
  /\ returned # NoFile /\ ctx # "interrupted" =>
       /\ loop \in Ended
       /\ dataFile = NoFile
       /\ caller \in {"joining", "finished"} => ~needsClose
       /\ Covered(returned \union unwritten, startSlot, received)

ConsumerInv == DataType /\ ControlType /\ Positions /\ RowsReal /\ Control /\ Complete

\* What the proof assumes of the constants beyond ConsumerAssumption: a message
\* ends inside its own entry or with it, and NULL is not a file.
OwnEntry   == MessageLength \subseteq {0, 1}
NullNoFile == NULL \notin SUBSET [pk: PK, version: Nat]

-----------------------------------------------------------------------------
(***************************************************************************)
(* Steps that leave the rows and the positions alone.                      *)
(***************************************************************************)
data == <<wal, slot, received, clientXLogPos, results, batchCounter, dataFile, returned,
          startSlot, unwritten>>

\* Such a step keeps what is said of them.
LEMMA SameData ==
  ASSUME ConsumerInv, UNCHANGED data
  PROVE  /\ DataType' /\ Positions' /\ RowsReal'
         /\ Covered(Kept, startSlot, received)' <=> Covered(Kept, startSlot, received)
         /\ Covered(returned \union unwritten, startSlot, received)' <=>
              Covered(returned \union unwritten, startSlot, received)
<1>1. Positions'
  BY DEF data, ConsumerInv, Positions
<1>2. RowsReal'
  BY DEF data, ConsumerInv, RowsReal, Real, FileRow, Version, FileRows, Rows, NoFile
<1>3. Kept' = Kept
  BY DEF data, Kept, FileRows, Rows, NoFile
<1>4. DataType'
  BY DEF data, ConsumerInv, DataType, Version, FileRow, NoFile
<1> QED
  BY <1>1, <1>2, <1>3, <1>4 DEF data, Covered

\* The loop goes on, ends, or asks for completion.
LEMMA LoopControlInvariant ==
  ASSUME ConsumerInv,
         \/ LoopCancelled \/ LoopFault \/ StartReplication \/ CheckAndReceive
         \/ ReceiveTimeout \/ IdleTimeout \/ IdleRequestsCompletion
         \/ LoopSetsTarget \/ LoopStatementFails \/ SignalTargetReached
  PROVE  ConsumerInv'
<1> USE DEF ConsumerInv
<1>1. UNCHANGED <<data, caller, ctx, channels, needsClose>>
  BY DEF LoopCancelled, LoopFault, StartReplication, CheckAndReceive, ReceiveTimeout,
         IdleTimeout, IdleRequestsCompletion, LoopSetsTarget, LoopStatementFails,
         SignalTargetReached, LoopFails, GoLoop, SetTargetLSN, data, server, batch,
         calling, history, signals
<1>2. /\ loop \notin {"off", "exiting", "disconnected", "done"}
      /\ loop' \in {"top", "receiving", "completing", "forcing", "targeting", "signalling",
                   "exiting", "disconnected"}
  BY DEF LoopCancelled, LoopFault, StartReplication, CheckAndReceive, ReceiveTimeout,
         IdleTimeout, IdleRequestsCompletion, LoopSetsTarget, LoopStatementFails,
         SignalTargetReached, LoopFails, GoLoop
<1>3. /\ errorChan' # errorChan => loop' \in Ended /\ errorChan' \in {"cancelled", "failed"}
      /\ targetLSNReached' # targetLSNReached => loop' \in Ended
  BY DEF LoopCancelled, LoopFault, StartReplication, CheckAndReceive, ReceiveTimeout,
         IdleTimeout, IdleRequestsCompletion, LoopSetsTarget, LoopStatementFails,
         SignalTargetReached, LoopFails, GoLoop, SetTargetLSN, signals, Ended, StatementErrors
<1>4. /\ quiet' \in BOOLEAN /\ completionRequested' \in BOOLEAN
      /\ targetLSNReached' \in BOOLEAN
  BY DEF LoopCancelled, LoopFault, StartReplication, CheckAndReceive, ReceiveTimeout,
         IdleTimeout, IdleRequestsCompletion, LoopSetsTarget, LoopStatementFails,
         SignalTargetReached, LoopFails, GoLoop, SetTargetLSN, signals, ControlType
<1>5. targetLSN' \in Nat
  BY DEF LoopCancelled, LoopFault, StartReplication, CheckAndReceive, ReceiveTimeout,
         IdleTimeout, IdleRequestsCompletion, LoopSetsTarget, LoopStatementFails,
         SignalTargetReached, LoopFails, GoLoop, SetTargetLSN, signals, DataType, ControlType,
         CurrentLSN
<1>6. ControlType'
  BY <1>1, <1>2, <1>3, <1>4, <1>5 DEF ControlType
<1>7. Control'
  BY <1>1, <1>2, <1>3 DEF Control, Ended
<1>8. Complete'
  BY <1>1, <1>2, SameData DEF Complete, Ended, data, NoFile
<1> QED BY <1>1, <1>6, <1>7, <1>8, SameData

\* The caller goes on, gives up, stops waiting or starts to close; a signal.
LEMMA CallerControlInvariant ==
  ASSUME ConsumerInv,
         \/ ScanFails \/ RequestCompletion \/ CallerSetsTarget \/ CallerStatementFails
         \/ WaitEnds \/ CloseCancels \/ Interrupt
  PROVE  ConsumerInv'
<1> USE DEF ConsumerInv
<1>1. UNCHANGED <<data, loop, quiet, targetLSNReached, channels>>
  BY DEF ScanFails, RequestCompletion, CallerSetsTarget, CallerStatementFails, WaitEnds,
         CloseCancels, Interrupt, GoCaller, SetTargetLSN, data, server, looping, batch,
         signals, calling, history
<1>2. /\ caller \notin {"idle", "finished"}
      /\ caller' # caller =>
           /\ caller \in {"scanning", "forcing", "targeting", "waiting", "closing"}
           /\ caller' \in {"forcing", "targeting", "waiting", "finalizing", "closing", "joining"}
      /\ caller' \in Collecting => caller \in Collecting
  BY DEF ScanFails, RequestCompletion, CallerSetsTarget, CallerStatementFails, WaitEnds,
         CloseCancels, Interrupt, GoCaller, calling, Collecting
<1>3. /\ errorChan' # errorChan => errorChan' = "empty"
      /\ ctx' \in {"live", "interrupted", "closed"}
      /\ ctx = "interrupted" => ctx' = "interrupted"
      /\ ctx' = "closed" => ctx = "closed" \/ caller' = "joining"
      /\ ctx = "closed" => ctx' = "closed"
  BY DEF ScanFails, RequestCompletion, CallerSetsTarget, CallerStatementFails, WaitEnds,
         CloseCancels, Interrupt, SetTargetLSN, signals, ControlType
<1>4. needsClose' # needsClose => CloseCancels
  BY DEF ScanFails, RequestCompletion, CallerSetsTarget, CallerStatementFails, WaitEnds,
         Interrupt, GoCaller, calling
<1>5. caller' = "joining" /\ caller # "joining" => CloseCancels
  BY DEF ScanFails, RequestCompletion, CallerSetsTarget, CallerStatementFails, WaitEnds,
         Interrupt, GoCaller, calling
<1>6. completionRequested' \in BOOLEAN /\ needsClose' \in BOOLEAN /\ targetLSN' \in Nat
  <2>1. completionRequested' = completionRequested \/ completionRequested' = TRUE
    BY DEF ScanFails, RequestCompletion, CallerSetsTarget, CallerStatementFails, WaitEnds,
           CloseCancels, Interrupt, SetTargetLSN, signals
  <2>2. needsClose' = needsClose \/ needsClose' = (dataFile # NoFile)
    BY <1>4 DEF CloseCancels
  <2>3. targetLSN' = targetLSN \/ targetLSN' \in Nat
    BY DEF ScanFails, RequestCompletion, CallerSetsTarget, CallerStatementFails, WaitEnds,
           CloseCancels, Interrupt, SetTargetLSN, CurrentLSN, signals, DataType
  <2> QED BY <2>1, <2>2, <2>3 DEF ControlType
<1>7. ControlType'
  BY <1>1, <1>2, <1>3, <1>6 DEF ControlType
<1>8. caller' = "finalizing" /\ ctx' # "interrupted" => loop \in Ended
  <2>1. CASE WaitEnds
    BY <2>1 DEF WaitEnds, GoCaller, Control, ControlType
  <2>2. CASE ~WaitEnds
    BY <2>2, <1>3 DEF ScanFails, RequestCompletion, CallerSetsTarget, CallerStatementFails,
                      CloseCancels, Interrupt, GoCaller, calling, Control
  <2> QED BY <2>1, <2>2
<1>9. Control'
  BY <1>1, <1>2, <1>3, <1>8 DEF Control
<1>10. Complete'
  <2>1. returned' # NoFile /\ ctx' # "interrupted" /\ caller' \in {"joining", "finished"}
          => ~needsClose'
    <3>1. CASE CloseCancels
      BY <3>1, <1>1, <1>3 DEF CloseCancels, Complete, data, NoFile
    <3>2. CASE ~CloseCancels
      BY <3>2, <1>1, <1>2, <1>3, <1>4, <1>5 DEF Complete, data, NoFile
    <3> QED BY <3>1, <3>2
  <2> QED BY <1>1, <1>2, <1>3, <2>1, SameData DEF Complete, data, NoFile
<1> QED BY <1>1, <1>7, <1>9, <1>10, SameData

-----------------------------------------------------------------------------
(***************************************************************************)
(* The log grows.  What is said of its first entries stays true.           *)
(***************************************************************************)
LEMMA Appended ==
  ASSUME wal \in Seq(PK \union {NULL}), NEW entry \in PK \union {NULL},
         wal' = Append(wal, entry)
  PROVE  /\ wal' \in Seq(PK \union {NULL}) /\ wal' # <<>>
         /\ Len(wal) \in Nat /\ Len(wal') = Len(wal) + 1
         /\ DOMAIN wal = 1..Len(wal) /\ DOMAIN wal' = 1..Len(wal')
         /\ \A k \in DOMAIN wal : k \in DOMAIN wal' /\ wal'[k] = wal[k]
  OBVIOUS

LEMMA SameRows ==
  ASSUME ConsumerInv, NEW entry \in PK \union {NULL}, wal' = Append(wal, entry),
         UNCHANGED <<slot, received, clientXLogPos, batch, returned, startSlot, unwritten>>
  PROVE  /\ DataType' /\ Positions' /\ RowsReal'
         /\ Covered(Kept, startSlot, received)' <=> Covered(Kept, startSlot, received)
         /\ Covered(returned \union unwritten, startSlot, received)' <=>
              Covered(returned \union unwritten, startSlot, received)
<1> USE DEF ConsumerInv
<1>1. wal \in Seq(PK \union {NULL}) /\ received <= Len(wal) /\ received \in Nat
  BY DEF DataType, Positions
<1>2. Real \subseteq Real'
  BY <1>1, Appended DEF Real, FileRow, Version
<1>3. FileRows' = FileRows /\ Rows(results)' = Rows(results) /\ Kept' = Kept
  BY DEF batch, FileRows, Rows, NoFile, Kept
<1>4. RowsReal'
  BY <1>2, <1>3 DEF RowsReal, NoFile
<1>5. Positions'
  BY <1>1, Appended DEF Positions, DataType
<1>6. DataType'
  <2>1. Version \subseteq Version' /\ FileRow \subseteq FileRow'
    BY <1>1, Appended DEF Version, FileRow
  <2>2. results' \in [PK -> Version' \union {NULL}]
    BY <2>1 DEF DataType, batch
  <2> QED BY <1>1, <2>1, <2>2, Appended DEF DataType, batch, NoFile
<1>7. ASSUME NEW rows
      PROVE  (\A k \in DOMAIN wal : k > startSlot /\ k <= received /\ wal[k] # NULL =>
                \E row \in rows : row.pk = wal[k] /\ row.version >= k) <=>
             (\A k \in DOMAIN wal' : k > startSlot /\ k <= received /\ wal'[k] # NULL =>
                \E row \in rows : row.pk = wal'[k] /\ row.version >= k)
  <2>1. \A k \in DOMAIN wal' : k <= received => k \in DOMAIN wal
    BY <1>1, Appended
  <2> QED BY <1>1, <2>1, Appended
<1> QED
  BY <1>3, <1>4, <1>5, <1>6, <1>7 DEF Covered

LEMMA LogGrowsInvariant ==
  ASSUME ConsumerInv,
         \/ \E entry \in PK \union {NULL} : SourceWrites(entry)
         \/ LoopForcesWal \/ CallerForcesWal \/ WalAdvanceTick
  PROVE  ConsumerInv'
<1> USE DEF ConsumerInv
<1>1. PICK entry \in PK \union {NULL} : wal' = Append(wal, entry)
  BY DEF SourceWrites, LoopForcesWal, CallerForcesWal, WalAdvanceTick, ForceWalIncrement
<1>2. UNCHANGED <<slot, received, clientXLogPos, batch, returned, startSlot, unwritten,
                  quiet, signals, needsClose>>
  BY DEF SourceWrites, LoopForcesWal, CallerForcesWal, WalAdvanceTick, ForceWalIncrement,
         GoLoop, GoCaller, looping, calling, history
<1>3. /\ loop' # loop => loop = "forcing" /\ loop' = "targeting"
      /\ caller' # caller => caller = "forcing" /\ caller' = "targeting"
  BY DEF SourceWrites, LoopForcesWal, CallerForcesWal, WalAdvanceTick,
         GoLoop, GoCaller, looping, calling
<1>4. ControlType'
  BY <1>2, <1>3 DEF ControlType, signals
<1>5. Control'
  BY <1>2, <1>3 DEF Control, signals, Ended
<1>6. Complete'
  BY <1>1, <1>2, <1>3, SameRows DEF Complete, Collecting, Ended, signals, batch, NoFile
<1> QED BY <1>1, <1>2, <1>4, <1>5, <1>6, SameRows

-----------------------------------------------------------------------------
(***************************************************************************)
(* A row is batched, a batch is written, the file is handed out.  Nothing  *)
(* that is kept goes, but for a newer row of its primary key.              *)
(***************************************************************************)
\* What a write does not leave in the file was reported, and it leaves nothing else.
LEMMA WriteKeeps ==
  ASSUME NullNoFile, dataFile = NoFile \/ dataFile \subseteq [pk: PK, version: Nat],
         NEW rows \in SUBSET [pk: PK, version: Nat], NEW file \in WrittenFile(rows)
  PROVE  LET inFile == IF file = NoFile THEN {} ELSE file
         IN /\ inFile \subseteq FileRows \union rows
            /\ Unwritten(rows, file) \subseteq rows
            /\ FileRows \union rows \subseteq inFile \union Unwritten(rows, file)
            /\ file = NoFile \/ file = inFile
<1> DEFINE inFile == IF file = NoFile THEN {} ELSE file
<1>1. FileRows \subseteq [pk: PK, version: Nat]
  BY DEF FileRows
<1>2. file = dataFile \/ \E part \in SUBSET rows : file = FileRows \union part
  BY DEF WrittenFile
<1>3. rows = {} => file = dataFile
  BY DEF WrittenFile
<1>4. CASE file = dataFile
  BY <1>4 DEF FileRows, Unwritten
<1>5. ASSUME NEW part \in SUBSET rows, file = FileRows \union part
      PROVE  /\ inFile \subseteq FileRows \union rows
             /\ FileRows \union rows \subseteq inFile \union Unwritten(rows, file)
  <2>1. file \in SUBSET [pk: PK, version: Nat]
    BY <1>1, <1>5
  <2>2. inFile = file /\ Unwritten(rows, file) = rows \ file
    BY <2>1 DEF NullNoFile, NoFile, Unwritten
  <2> QED BY <1>5, <2>2
<1>6. Unwritten(rows, file) \subseteq rows
  BY DEF Unwritten
<1> QED BY <1>2, <1>4, <1>5, <1>6

\* Newer rows of the same primary keys cover what the older ones did.
LEMMA NewerCovers ==
  ASSUME NEW rows, NEW newer, NEW first \in Nat, NEW last \in Nat,
         wal \in Seq(PK \union {NULL}), Covered(rows, first, last),
         \A row \in rows : row.version \in Nat,
         \A row \in newer : row.version \in Nat,
         \A row \in rows : \E new \in newer : new.pk = row.pk /\ new.version >= row.version
  PROVE  Covered(newer, first, last)
<1> SUFFICES ASSUME NEW k \in DOMAIN wal, k > first, k <= last, wal[k] # NULL
             PROVE  \E new \in newer : new.pk = wal[k] /\ new.version >= k
  BY DEF Covered
<1>1. k \in Nat
  OBVIOUS
<1>2. PICK row \in rows : row.pk = wal[k] /\ row.version >= k
  BY DEF Covered
<1>3. PICK new \in newer : new.pk = row.pk /\ new.version >= row.version
  OBVIOUS
<1> QED BY <1>1, <1>2, <1>3

\* The row of a change replaces the one of the same primary key in the batch.
LEMMA BatchedRow ==
  ASSUME ConsumerInv, received < Len(wal), wal[received + 1] \in PK,
         received' = received + 1, UNCHANGED <<wal, startSlot>>
  PROVE  LET pk  == wal[received + 1]
             res == [results EXCEPT ![pk] = received']
         IN /\ res \in [PK -> Version \union {NULL}]
            /\ Rows(res) \subseteq Real'
            /\ [pk |-> pk, version |-> received'] \in Rows(res)
            /\ \A row \in Rows(results) : \E new \in Rows(res) :
                  new.pk = row.pk /\ new.version >= row.version
<1> USE DEF ConsumerInv
<1> DEFINE pk  == wal[received + 1]
           res == [results EXCEPT ![pk] = received + 1]
<1>1. received + 1 \in Version /\ received + 1 \in Nat /\ Version \subseteq Nat
  BY DEF DataType, Positions, Version
<1>2. results \in [PK -> Version \union {NULL}] /\ Rows(results) \subseteq Real
  BY DEF DataType, RowsReal
<1>3. res \in [PK -> Version \union {NULL}] /\ res[pk] = received + 1
      /\ \A p \in PK : p # pk => res[p] = results[p]
  BY <1>1, <1>2
<1>4. received + 1 # NULL
  BY <1>1, ConsumerAssumption
<1>5. [pk |-> pk, version |-> received + 1] \in Rows(res)
  BY <1>3, <1>4 DEF Rows
<1>6. Real \subseteq Real'
  BY <1>1 DEF Real, FileRow, Version, DataType
<1>7. [pk |-> pk, version |-> received + 1] \in Real'
  <2>1. [pk |-> pk, version |-> received + 1] \in FileRow'
    BY <1>1 DEF FileRow, Version
  <2>2. startSlot < received + 1
    BY DEF Positions, DataType
  <2> QED BY <2>1, <2>2, <1>1 DEF Real
<1>8. Rows(res) \subseteq Real'
  <2> SUFFICES ASSUME NEW p \in PK, res[p] # NULL
               PROVE  [pk |-> p, version |-> res[p]] \in Real'
    BY DEF Rows
  <2>1. CASE p = pk
    BY <2>1, <1>3, <1>7
  <2>2. CASE p # pk
    <3>1. [pk |-> p, version |-> results[p]] \in Rows(results)
      BY <2>2, <1>3 DEF Rows
    <3> QED BY <3>1, <2>2, <1>2, <1>3, <1>6
  <2> QED BY <2>1, <2>2
<1>9. ASSUME NEW row \in Rows(results)
      PROVE  \E new \in Rows(res) : new.pk = row.pk /\ new.version >= row.version
  <2>1. PICK p \in PK : results[p] # NULL /\ row = [pk |-> p, version |-> results[p]]
    BY DEF Rows
  <2>2. row.version <= received /\ row.version \in Nat
    BY <1>1, <1>2 DEF Real, FileRow
  <2>3. CASE p = pk
    BY <2>1, <2>2, <2>3, <1>1, <1>5 DEF DataType
  <2>4. CASE p # pk
    <3>1. row \in Rows(res)
      BY <2>1, <2>4, <1>3 DEF Rows
    <3> QED BY <3>1, <2>2
  <2> QED BY <2>3, <2>4
<1> QED BY <1>3, <1>5, <1>8, <1>9

LEMMA RowsAreRecords ==
  ASSUME ConsumerInv
  PROVE  /\ Real \subseteq [pk: PK, version: Nat]
         /\ Kept \subseteq Real /\ FileRow \subseteq [pk: PK, version: Nat]
         /\ dataFile = NoFile \/ dataFile \subseteq [pk: PK, version: Nat]
<1>1. Version \subseteq Nat
  BY DEF ConsumerInv, DataType, Version
<1> QED BY <1>1 DEF ConsumerInv, DataType, RowsReal, Kept, Real, FileRow

LEMMA ReceiveMessageInvariant ==
  ASSUME NullNoFile, ConsumerInv, ReceiveMessage \/ SkipMessage
  PROVE  ConsumerInv'
<1> USE DEF ConsumerInv
<1>1. /\ loop = "receiving" /\ loop' \in {"handled", "top"} /\ received < Len(wal)
      /\ received' = received + 1 /\ quiet' = FALSE
      /\ UNCHANGED <<wal, slot, clientXLogPos, startSlot, signals, calling>>
  BY DEF ReceiveMessage, SkipMessage, TakeMessage, server
<1>2. /\ received \in Nat /\ startSlot \in Nat /\ wal \in Seq(PK \union {NULL})
      /\ received + 1 \in DOMAIN wal /\ received + 1 \in Nat
  BY <1>1 DEF DataType, Positions
<1>3. Version' = Version /\ FileRow' = FileRow /\ Real \subseteq Real'
  BY <1>1, <1>2 DEF Version, FileRow, Real, DataType
<1>4. ControlType' /\ Control' /\ Positions'
  <2>1. ControlType'
    BY <1>1 DEF ControlType, signals, calling
  <2>2. Control'
    BY <1>1 DEF Control, signals, calling, Ended
  <2>3. Positions'
    BY <1>1, <1>2 DEF Positions, DataType
  <2> QED BY <2>1, <2>2, <2>3
<1>5. returned' = NoFile \/ (returned' \subseteq Real' /\ returned' \subseteq FileRow')
  BY <1>1, <1>3 DEF RowsReal, DataType, calling, NoFile
<1> DEFINE pk    == wal[received + 1]
           fresh == [pk |-> pk, version |-> received + 1]
           res   == [results EXCEPT ![pk] = received + 1]
           \* what the step owes, whatever it does with the row
           Owed  == /\ results' \in [PK -> Version \union {NULL}]
                    /\ batchCounter' \in 0..ResultBatchSize - 1
                    /\ dataFile' = NoFile \/ dataFile' \subseteq Real'
                    /\ Rows(results)' \subseteq Real' /\ unwritten' \subseteq Real'
                    /\ \A row \in Kept : \E new \in Kept' :
                          new.pk = row.pk /\ new.version >= row.version
                    /\ pk # NULL => fresh \in Kept'
<1>6. Kept \subseteq Real /\ Real \subseteq [pk: PK, version: Nat]
      /\ (dataFile = NoFile \/ dataFile \subseteq [pk: PK, version: Nat])
  BY RowsAreRecords
<1>7. \A row \in Kept : row.version \in Nat /\ row.version >= row.version
  BY <1>6
<1>8. ASSUME pk = NULL, UNCHANGED <<batch, unwritten>>
      PROVE  Owed
  <2>1. Kept' = Kept /\ Rows(results)' = Rows(results)
    BY <1>8 DEF Kept, FileRows, Rows, NoFile, batch
  <2>2. /\ results' \in [PK -> Version \union {NULL}]
        /\ batchCounter' \in 0..ResultBatchSize - 1
    BY <1>8 DEF DataType, batch
  <2>3. dataFile' = NoFile \/ dataFile' \subseteq Real'
    BY <1>8, <1>3 DEF RowsReal, FileRows, batch, NoFile
  <2>4. Rows(results)' \subseteq Real' /\ unwritten' \subseteq Real'
    BY <1>8, <1>3, <2>1 DEF RowsReal
  <2> QED BY <1>7, <1>8, <2>1, <2>2, <2>3, <2>4
<1>9. ASSUME pk # NULL
       PROVE  /\ res \in [PK -> Version \union {NULL}]
              /\ Rows(res) \subseteq Real'
              /\ fresh \in Rows(res)
              /\ \A row \in Rows(results) : \E new \in Rows(res) :
                    new.pk = row.pk /\ new.version >= row.version
  <2>1. pk \in PK
    BY <1>2, <1>9
  <2> QED BY <1>1, <2>1, BatchedRow
<1>10. ASSUME pk # NULL, RowNotMapped(pk)
      PROVE  Owed
  <2>1. fresh \in Real'
    BY <1>10, <1>9
  <2>2. UNCHANGED batch /\ unwritten' = unwritten \union {fresh}
    BY <1>10, <1>1 DEF RowNotMapped
  <2>3. Kept' = Kept \union {fresh} /\ Rows(results)' = Rows(results)
    BY <2>2 DEF Kept, FileRows, Rows, NoFile, batch
  <2>4. /\ results' \in [PK -> Version \union {NULL}]
        /\ batchCounter' \in 0..ResultBatchSize - 1
    BY <2>2 DEF DataType, batch
  <2>5. dataFile' = NoFile \/ dataFile' \subseteq Real'
    BY <2>2, <1>3 DEF RowsReal, FileRows, batch, NoFile
  <2>6. Rows(results)' \subseteq Real' /\ unwritten' \subseteq Real'
    BY <1>3, <2>1, <2>2, <2>3 DEF RowsReal
  <2> QED BY <1>7, <2>3, <2>4, <2>5, <2>6
<1>11. ASSUME pk # NULL, StoreRow(pk)
       PROVE  Owed
  <2>1. /\ res \in [PK -> Version \union {NULL}]
        /\ Rows(res) \subseteq Real'
        /\ fresh \in Rows(res)
        /\ \A row \in Rows(results) : \E new \in Rows(res) :
              new.pk = row.pk /\ new.version >= row.version
    BY <1>11, <1>9
  <2>2. Real' \subseteq [pk: PK, version: Nat]
    BY <1>2, <1>3 DEF Real, FileRow, Version
  <2>3. batchCounter \in Nat /\ ResultBatchSize \in Nat \ {0} /\ batchCounter < ResultBatchSize
    BY ConsumerAssumption DEF DataType
  <2>4. CASE BatchFull
    <3>1. /\ dataFile' \in WrittenFile(Rows(res))
          /\ unwritten' = unwritten \union Unwritten(Rows(res), dataFile')
          /\ results' = NoResults /\ batchCounter' = 0
      BY <2>4, <1>11, <1>1 DEF StoreRow
    <3>2. Rows(results') = {}
      BY <3>1 DEF NoResults, Rows
    <3>3. /\ FileRows' \subseteq FileRows \union Rows(res)
          /\ Unwritten(Rows(res), dataFile') \subseteq Rows(res)
          /\ FileRows \union Rows(res) \subseteq FileRows' \union Unwritten(Rows(res), dataFile')
          /\ dataFile' = NoFile \/ dataFile' = FileRows'
      <4>1. Rows(res) \in SUBSET [pk: PK, version: Nat]
        BY <2>1, <2>2
      <4>2. FileRows' = IF dataFile' = NoFile THEN {} ELSE dataFile'
        BY DEF FileRows, NoFile
      <4> HIDE DEF res
      <4> QED BY <3>1, <4>1, <4>2, <1>6, WriteKeeps
    <3>4. FileRows \union Rows(res) \union unwritten \subseteq Kept'
      BY <3>1, <3>3 DEF Kept
    <3>5. FileRows' \subseteq Real' /\ unwritten' \subseteq Real'
      BY <3>1, <3>3, <2>1, <1>3 DEF RowsReal
    <3>6. results' \in [PK -> Version \union {NULL}] /\ batchCounter' \in 0..ResultBatchSize - 1
      BY <3>1, <2>3 DEF NoResults
    <3>7. \A row \in Kept : \E new \in Kept' : new.pk = row.pk /\ new.version >= row.version
      BY <3>4, <2>1, <1>7 DEF Kept
    <3> QED BY <3>2, <3>3, <3>4, <3>5, <3>6, <3>7, <2>1, <1>3
  <2>5. CASE ~BatchFull
    <3>1. /\ results' = res /\ batchCounter' = batchCounter + 1
          /\ UNCHANGED <<dataFile, unwritten>>
      BY <2>5, <1>11, <1>1 DEF StoreRow
    <3>2. batchCounter' \in 0..ResultBatchSize - 1
      BY <3>1, <2>3, <2>5 DEF BatchFull
    <3>3. FileRows' = FileRows /\ Rows(results)' = Rows(res)
      BY <3>1 DEF FileRows, NoFile, Rows
    <3>4. FileRows \union Rows(res) \union unwritten \subseteq Kept'
      BY <3>1, <3>3 DEF Kept
    <3>5. \A row \in Kept : \E new \in Kept' : new.pk = row.pk /\ new.version >= row.version
      BY <3>4, <2>1, <1>7 DEF Kept
    <3>6. dataFile' = NoFile \/ dataFile' \subseteq Real'
      BY <3>1, <1>3 DEF RowsReal, FileRows, NoFile
    <3>7. Rows(results)' \subseteq Real' /\ unwritten' \subseteq Real'
      BY <3>1, <3>3, <2>1, <1>3 DEF RowsReal
    <3>8. results' \in [PK -> Version \union {NULL}]
      BY <3>1, <2>1
    <3> QED BY <3>2, <3>4, <3>5, <3>6, <3>7, <3>8, <2>1
  <2> QED BY <2>4, <2>5
<1>12. Owed
  <2>1. \/ pk # NULL /\ (StoreRow(pk) \/ RowNotMapped(pk))
        \/ pk = NULL /\ UNCHANGED <<batch, unwritten>>
    BY <1>1 DEF ReceiveMessage, SkipMessage, TakeMessage, HandleDataMessage
  <2> QED BY <2>1, <1>8, <1>10, <1>11
<1> HIDE DEF Owed
<1>13. Real' \subseteq FileRow' /\ FileRow' \subseteq [pk: PK, version: Nat]
  BY <1>2, <1>3 DEF Real, FileRow, Version
<1>14. DataType'
  BY <1>1, <1>2, <1>3, <1>5, <1>12, <1>13 DEF Owed, DataType, NoFile
<1>15. RowsReal'
  BY <1>5, <1>12 DEF Owed, RowsReal, FileRows
<1>16. Kept' \subseteq Real'
  BY <1>15 DEF RowsReal, Kept
<1>17. Complete'
  <2>1. ASSUME caller \in Collecting
        PROVE  Covered(Kept, startSlot, received)'
    <3>1. Covered(Kept, startSlot, received)
      BY <2>1 DEF Complete
    <3>2. \A row \in Kept' : row.version \in Nat
      BY <1>13, <1>16
    <3>3. Covered(Kept', startSlot, received)
      BY <3>1, <3>2, <1>2, <1>7, <1>12, NewerCovers DEF Owed
    <3>4. pk # NULL => \E row \in Kept' : row.pk = pk /\ row.version >= received + 1
      BY <1>2, <1>12 DEF Owed
    <3>5. ASSUME NEW k \in DOMAIN wal, k > startSlot, k <= received + 1, wal[k] # NULL
          PROVE  \E row \in Kept' : row.pk = wal[k] /\ row.version >= k
      <4>1. CASE k = received + 1
        BY <4>1, <3>4, <3>5
      <4>2. CASE k # received + 1
        <5>1. k <= received
          BY <4>2, <3>5, <1>2
        <5> QED BY <5>1, <3>3, <3>5 DEF Covered
      <4> QED BY <4>1, <4>2
    <3> QED BY <3>5, <1>1 DEF Covered
  <2>2. returned' = returned /\ caller' = caller /\ ctx' = ctx
    BY <1>1 DEF calling, signals
  <2>3. ~(returned # NoFile /\ ctx # "interrupted")
    BY <1>1 DEF Complete, Ended
  <2> QED BY <2>1, <2>2, <2>3 DEF Complete, NoFile
<1> QED BY <1>4, <1>14, <1>15, <1>17

\* What the caller takes is all that is kept, and nobody adds to it: unless it
\* was interrupted, the loop has ended.
LEMMA FinalizeInvariant ==
  ASSUME NullNoFile, ConsumerInv, Finalize
  PROVE  ConsumerInv'
<1> USE DEF ConsumerInv
<1>1. /\ caller = "finalizing" /\ caller' = "closing" /\ dataFile' = NoFile
      /\ UNCHANGED <<needsClose, results, batchCounter, wal, slot, looping, signals, startSlot>>
  BY DEF Finalize, server
<1>2. /\ Rows(results)' = Rows(results) /\ FileRows' = {} /\ Real' = Real
      /\ FileRow' = FileRow
  BY <1>1 DEF Rows, FileRows, NoFile, Real, FileRow, Version, looping
<1>3. returned = NoFile /\ Covered(Kept, startSlot, received)
  BY <1>1 DEF Complete, Collecting
<1>4. Kept \subseteq Real /\ Real \subseteq FileRow /\ FileRow \subseteq [pk: PK, version: Nat]
      /\ (dataFile = NoFile \/ dataFile \subseteq [pk: PK, version: Nat])
  BY RowsAreRecords DEF Real
<1>5. /\ returned' = NoFile \/ returned' \subseteq Real
      /\ unwritten' \subseteq Real
      /\ returned' # NoFile => Kept \subseteq returned' \union unwritten'
  <2>1. CASE UNCHANGED <<returned, unwritten>>
    BY <2>1, <1>3, <1>4 DEF Kept, NoFile
  <2>2. ASSUME NEW file \in WrittenFile(Rows(results)),
               returned' = IF file = NoFile THEN {} ELSE file,
               unwritten' = unwritten \union Unwritten(Rows(results), file)
        PROVE  /\ returned' \subseteq Real /\ unwritten' \subseteq Real
               /\ Kept \subseteq returned' \union unwritten'
    <3>1. Rows(results) \in SUBSET [pk: PK, version: Nat]
      BY <1>4 DEF Kept
    <3>2. /\ returned' \subseteq FileRows \union Rows(results)
          /\ Unwritten(Rows(results), file) \subseteq Rows(results)
          /\ FileRows \union Rows(results) \subseteq returned' \union Unwritten(Rows(results), file)
      BY <1>4, <2>2, <3>1, WriteKeeps
    <3> QED BY <2>2, <3>2, <1>4 DEF Kept
  <2> QED BY <2>1, <2>2 DEF Finalize
<1>6. DataType'
  BY <1>1, <1>2, <1>4, <1>5 DEF DataType, Version, NoFile, looping
<1>7. ControlType' /\ Positions'
  BY <1>1 DEF ControlType, Positions, looping, signals
<1>8. RowsReal'
  BY <1>2, <1>5 DEF RowsReal, NoFile
<1>9. Control'
  BY <1>1 DEF Control, looping, signals, Ended
<1>10. Complete'
  <2>1. ASSUME returned' # NoFile
        PROVE  Covered(returned \union unwritten, startSlot, received)'
    BY <2>1, <1>1, <1>3, <1>5 DEF Covered, looping
  <2> QED BY <1>1, <2>1 DEF Complete, Control, Collecting, NoFile, looping, signals
<1> QED BY <1>6, <1>7, <1>8, <1>9, <1>10

-----------------------------------------------------------------------------
(***************************************************************************)
(* Positions move.                                                         *)
(***************************************************************************)
LEMMA UpdatePositionInvariant ==
  ASSUME OwnEntry, ConsumerInv, UpdatePosition
  PROVE  ConsumerInv'
<1> USE DEF ConsumerInv
<1>1. /\ loop = "handled" /\ loop' \in {"signalling", "top"}
      /\ UNCHANGED <<received, quiet, server, batch, signals, calling, history>>
  BY DEF UpdatePosition
<1>2. PICK len \in MessageLength : clientXLogPos' = received - 1 + len
  BY DEF UpdatePosition, Position
<1>3. received \in Nat /\ 1 <= received /\ clientXLogPos' \in Nat /\ clientXLogPos' <= received
  <2>1. len = 0 \/ len = 1
    BY DEF OwnEntry
  <2>2. received \in Nat /\ 1 <= received
    BY DEF DataType, Positions
  <2> QED BY <1>2, <2>1, <2>2
<1>4. DataType'
  BY <1>1, <1>3 DEF DataType, Version, FileRow, NoFile, server, batch, calling, history
<1>5. ControlType' /\ Control'
  BY <1>1 DEF ControlType, Control, Ended, signals, calling
<1>6. Positions'
  BY <1>1, <1>3 DEF Positions, server, history
<1>7. RowsReal' /\ Kept' = Kept
  BY <1>1 DEF RowsReal, Real, FileRow, Version, FileRows, Rows, NoFile, Kept, server, batch,
              calling, history
<1>8. Complete'
  BY <1>1, <1>7 DEF Complete, Covered, Ended, server, batch, signals, calling, history, NoFile
<1> QED BY <1>4, <1>5, <1>6, <1>7, <1>8

LEMMA LoopExitsInvariant ==
  ASSUME ConsumerInv, NEW acknowledged \in BOOLEAN, LoopExits(acknowledged)
  PROVE  ConsumerInv'
<1> USE DEF ConsumerInv
<1>1. /\ loop \in {"exiting", "disconnected"} /\ loop' = "done"
      /\ UNCHANGED <<received, clientXLogPos, quiet, wal, batch, signals, calling, history>>
  BY DEF LoopExits, GoLoop
<1>2. slot' = slot \/ (slot' = clientXLogPos /\ clientXLogPos > slot)
  BY DEF LoopExits
<1>3. slot' \in Nat /\ startSlot <= slot' /\ slot' <= received
  BY <1>2 DEF DataType, Positions
<1>4. DataType'
  BY <1>1, <1>3 DEF DataType, Version, FileRow, NoFile, batch, calling, history
<1>5. ControlType' /\ Control'
  BY <1>1 DEF ControlType, Control, Ended, signals, calling
<1>6. Positions'
  BY <1>1, <1>3 DEF Positions, history
<1>7. RowsReal' /\ Kept' = Kept
  BY <1>1 DEF RowsReal, Real, FileRow, Version, FileRows, Rows, NoFile, Kept, batch,
              calling, history
<1>8. Complete'
  BY <1>1, <1>7 DEF Complete, Covered, Ended, batch, signals, calling, history, NoFile
<1> QED BY <1>4, <1>5, <1>6, <1>7, <1>8

-----------------------------------------------------------------------------
(***************************************************************************)
(* A run begins and ends.                                                  *)
(***************************************************************************)
LEMMA StartConsumerInvariant ==
  ASSUME ConsumerInv, StartConsumer
  PROVE  ConsumerInv'
<1> USE DEF ConsumerInv, StartConsumer
<1>1. ResultBatchSize \in Nat \ {0}
  BY ConsumerAssumption
<1>2. FileRows' = {} /\ Rows(results)' = {} /\ unwritten' = {} /\ Kept' = {}
  BY DEF FileRows, Rows, NoResults, NoFile, Kept
<1>3. DataType'
  BY <1>1 DEF DataType, Version, FileRow, NoFile, NoResults
<1>4. ControlType' /\ Control'
  BY DEF ControlType, Control, Ended
<1>5. Positions' /\ RowsReal'
  BY <1>2 DEF Positions, RowsReal, DataType, NoFile
<1>6. Covered(Kept, startSlot, received)'
  BY DEF Covered, DataType
<1>7. Complete'
  BY <1>6 DEF Complete, NoFile
<1> QED BY <1>3, <1>4, <1>5, <1>7

LEMMA EndInvariant ==
  ASSUME ConsumerInv, CloseReleases \/ ProcessDies
  PROVE  ConsumerInv'
<1> USE DEF ConsumerInv
<1>1. /\ UNCHANGED <<wal, slot, received, clientXLogPos, quiet, results, batchCounter,
                     needsClose, returned, targetLSN, completionRequested,
                     targetLSNReached, errorChan, ctx, history>>
      /\ dataFile' = dataFile \/ dataFile' = NoFile
  BY DEF CloseReleases, ProcessDies, GoCaller, LoopJoined, server, looping, signals
<1>2. \/ caller' = "finished" /\ caller = "joining" /\ loop = "done" /\ loop' = "done"
         /\ channels' = "released"
      \/ caller' = "idle" /\ loop' = "off" /\ channels' = channels
         /\ caller \notin {"idle", "finished"}
  BY DEF CloseReleases, ProcessDies, GoCaller, LoopJoined, looping, signals
<1>3. DataType'
  BY <1>1 DEF DataType, Version, FileRow, NoFile, history
<1>4. ControlType'
  BY <1>1, <1>2 DEF ControlType
<1>5. Control'
  BY <1>1, <1>2 DEF Control, Ended
<1>6. Positions'
  BY <1>1 DEF Positions, history
<1>7. RowsReal'
  BY <1>1 DEF RowsReal, Real, FileRow, Version, FileRows, Rows, NoFile, history
<1>8. Complete'
  BY <1>1, <1>2 DEF Complete, Covered, Ended, Collecting, history, NoFile
<1> QED BY <1>3, <1>4, <1>5, <1>6, <1>7, <1>8

LEMMA InitConsumerInvariant == Init => ConsumerInv
<1> SUFFICES ASSUME Init PROVE ConsumerInv
  OBVIOUS
<1> USE DEF Init
<1>1. ResultBatchSize \in Nat \ {0}
  BY ConsumerAssumption
<1>2. wal \in Seq(PK \union {NULL}) /\ wal # <<>> /\ Len(wal) = 1
  OBVIOUS
<1>3. FileRows = {} /\ Rows(results) = {}
  BY DEF FileRows, Rows, NoResults, NoFile
<1>4. DataType
  BY <1>1, <1>2 DEF DataType, NoResults, NoFile
<1>5. ControlType /\ Control
  BY DEF ControlType, Control, Ended
<1>6. Positions /\ RowsReal /\ Complete
  BY <1>2, <1>3 DEF Positions, RowsReal, Complete, Collecting, NoFile
<1> QED BY <1>4, <1>5, <1>6 DEF ConsumerInv

LEMMA NextConsumerInvariant ==
  ASSUME OwnEntry, NullNoFile, ConsumerInv, [Next]_vars
  PROVE  ConsumerInv'
<1>1. CASE UNCHANGED vars
  <2>1. UNCHANGED <<data, quiet, loop, signals, caller, needsClose>>
    BY <1>1 DEF vars, data, server, looping, batch, calling, history
  <2>2. ControlType' /\ Control'
    BY <2>1 DEF ConsumerInv, ControlType, Control, signals
  <2>3. Complete'
    BY <2>1, SameData DEF ConsumerInv, Complete, signals, data, NoFile
  <2> QED BY <2>1, <2>2, <2>3, SameData DEF ConsumerInv
<1>2. CASE Next
  BY <1>2, LoopControlInvariant, CallerControlInvariant, LogGrowsInvariant,
     ReceiveMessageInvariant, FinalizeInvariant, UpdatePositionInvariant,
     LoopExitsInvariant, StartConsumerInvariant, EndInvariant
  DEF Next, LoopNext, CallerNext
<1> QED BY <1>1, <1>2

\* The inductive invariant holds.
THEOREM ConsumerInvariant ==
  ASSUME OwnEntry, NullNoFile
  PROVE  Spec => []ConsumerInv
<1>1. ConsumerInv /\ [Next]_vars => ConsumerInv'
  BY NextConsumerInvariant
<1> QED BY <1>1, InitConsumerInvariant, PTL DEF Spec

\* Log, positions, files and control keep their types.
THEOREM ConsumerTypeCorrect ==
  ASSUME OwnEntry, NullNoFile
  PROVE  Spec => []TypeOK
<1>1. ConsumerInv => TypeOK
  BY DEF ConsumerInv, DataType, ControlType, TypeOK
<1> QED BY <1>1, ConsumerInvariant, PTL

\* No send, close or receive of the two goroutines panics or hangs.
THEOREM ChannelsAreSafe ==
  ASSUME OwnEntry, NullNoFile
  PROVE  Spec => []ChannelsSafe
<1>1. ConsumerInv => ChannelsSafe
  BY DEF ConsumerInv, ControlType, Control, Ended, ChannelsSafe
<1> QED BY <1>1, ConsumerInvariant, PTL

\* Whatever ends the caller's wait, but for a signal, ended the loop before.
THEOREM BatchIsTakenAlone ==
  ASSUME OwnEntry, NullNoFile
  PROVE  Spec => []BatchHasOneWriter
<1>1. ConsumerInv => BatchHasOneWriter
  BY DEF ConsumerInv, Control, Ended, BatchHasOneWriter
<1> QED BY <1>1, ConsumerInvariant, PTL

\* The file of a run that succeeds has all that the slot moved past, but for
\* what was logged as lost.
THEOREM AcknowledgedIsCovered ==
  ASSUME OwnEntry, NullNoFile
  PROVE  Spec => []SuccessCoversAck
<1>1. ConsumerInv => SuccessCoversAck
  <2> SUFFICES ASSUME ConsumerInv, Succeeded, ctx # "interrupted"
               PROVE  Covered(returned \union unwritten, startSlot, slot)
    BY DEF SuccessCoversAck
  <2>1. Covered(returned \union unwritten, startSlot, received)
    BY DEF ConsumerInv, Complete, Succeeded
  <2>2. \A k \in DOMAIN wal : k <= slot => k <= received
    BY DEF ConsumerInv, DataType, Positions
  <2> QED BY <2>1, <2>2 DEF Covered
<1> QED BY <1>1, ConsumerInvariant, PTL

\* Close, which looks at the file before it waits for the loop, does not close
\* the one that was handed out.
THEOREM FileStaysOpen ==
  ASSUME OwnEntry, NullNoFile
  PROVE  Spec => []ReturnedFileIsOpen
<1>1. ConsumerInv => ReturnedFileIsOpen
  BY DEF ConsumerInv, Complete, ReturnedFileIsOpen
<1> QED BY <1>1, ConsumerInvariant, PTL

-----------------------------------------------------------------------------
(***************************************************************************)
(* Refinement.  The file of the feed is the one the run returned, unless a *)
(* signal took it back, and it is complete up to the position received.    *)
(***************************************************************************)
file == IF ctx = "interrupted" THEN NoFile ELSE returned
upTo == IF ctx = "interrupted" \/ returned = NoFile THEN 0 ELSE received
open == caller \notin {"idle", "finished"}

LEMMA CoversIsCovered ==
  ASSUME NEW rows, NEW first, NEW last
  PROVE  Feed!Covers(rows, first, last) <=> Covered(rows, first, last)
  BY DEF Feed!Covers, Covered

\* A step that leaves the feed's view alone.
LEMMA FeedStutters ==
  ASSUME ConsumerInv,
         \/ LoopCancelled \/ LoopFault \/ StartReplication \/ CheckAndReceive
         \/ ReceiveTimeout \/ IdleTimeout \/ IdleRequestsCompletion
         \/ LoopSetsTarget \/ LoopStatementFails \/ SignalTargetReached \/ UpdatePosition
         \/ ScanFails \/ RequestCompletion \/ CallerSetsTarget \/ CallerStatementFails
         \/ WaitEnds \/ CloseCancels \/ UNCHANGED vars
  PROVE  UNCHANGED Feed!feed
<1>1. UNCHANGED <<wal, slot, received, returned, startSlot, unwritten>>
  BY DEF LoopCancelled, LoopFault, StartReplication, CheckAndReceive, ReceiveTimeout,
         IdleTimeout, IdleRequestsCompletion, LoopSetsTarget, LoopStatementFails,
         SignalTargetReached, UpdatePosition, ScanFails, RequestCompletion, CallerSetsTarget,
         CallerStatementFails, WaitEnds, CloseCancels, LoopFails, GoLoop, GoCaller,
         vars, server, looping, calling, history
<1>2. ctx' = "interrupted" <=> ctx = "interrupted"
  BY DEF LoopCancelled, LoopFault, StartReplication, CheckAndReceive, ReceiveTimeout,
         IdleTimeout, IdleRequestsCompletion, LoopSetsTarget, LoopStatementFails,
         SignalTargetReached, UpdatePosition, ScanFails, RequestCompletion, CallerSetsTarget,
         CallerStatementFails, WaitEnds, CloseCancels, LoopFails, SetTargetLSN, vars, signals
<1>3. open' = open
  BY DEF LoopCancelled, LoopFault, StartReplication, CheckAndReceive, ReceiveTimeout,
         IdleTimeout, IdleRequestsCompletion, LoopSetsTarget, LoopStatementFails,
         SignalTargetReached, UpdatePosition, ScanFails, RequestCompletion, CallerSetsTarget,
         CallerStatementFails, WaitEnds, CloseCancels, LoopFails, GoCaller, vars, calling, open
<1>4. file' = file /\ upTo' = upTo
  BY <1>1, <1>2 DEF file, upTo, NoFile
<1> QED BY <1>1, <1>3, <1>4 DEF Feed!feed, open, file, upTo

LEMMA FeedReceives ==
  ASSUME ConsumerInv, ConsumerInv', ReceiveMessage \/ SkipMessage
  PROVE  Feed!Report
<1>1. /\ loop = "receiving"
      /\ UNCHANGED <<wal, slot, signals, calling, startSlot>>
  BY DEF ReceiveMessage, SkipMessage, TakeMessage, server
<1>2. caller \notin {"idle", "finished"}
  BY <1>1 DEF ConsumerInv, Control
<1>3. ctx = "interrupted" \/ returned = NoFile
  BY <1>1 DEF ConsumerInv, Complete, Ended
<1>4. unwritten \subseteq unwritten'
  BY DEF ReceiveMessage, SkipMessage, TakeMessage, HandleDataMessage, StoreRow, RowNotMapped
<1>5. unwritten' \subseteq Real'
  BY DEF ConsumerInv, RowsReal
<1>6. Feed!Genuine(unwritten', startSlot)
  BY <1>1, <1>5 DEF Real, FileRow, Version, Feed!Genuine
<1> QED
  BY <1>1, <1>2, <1>3, <1>4, <1>6 DEF Feed!Report, NoFile, signals, calling

LEMMA FeedFinalizes ==
  ASSUME ConsumerInv, ConsumerInv', Finalize
  PROVE  Feed!HandOut \/ Feed!Report
<1>1. /\ caller = "finalizing" /\ caller' = "closing"
      /\ UNCHANGED <<wal, slot, received, ctx, startSlot, loop>>
  BY DEF Finalize, server, looping, signals
<1>2. returned = NoFile
  BY <1>1 DEF ConsumerInv, Complete, Collecting
<1>3. unwritten \subseteq unwritten'
  BY DEF Finalize
<1>4. /\ Feed!Genuine(unwritten', startSlot)
      /\ returned' # NoFile => Feed!Genuine(returned', startSlot)
  BY <1>1 DEF ConsumerInv, RowsReal, Real, FileRow, Version, Feed!Genuine, NoFile
<1>5. CASE ctx = "interrupted" \/ returned' = NoFile
  BY <1>1, <1>2, <1>3, <1>4, <1>5 DEF Feed!Report, NoFile
<1>6. CASE ctx # "interrupted" /\ returned' # NoFile
  <2>1. Covered(returned' \union unwritten', startSlot, received)
    BY <1>1, <1>6 DEF ConsumerInv, Complete, Covered, NoFile
  <2>2. Feed!Covers(returned' \union unwritten', startSlot, received)
    BY <2>1, CoversIsCovered
  <2>3. received >= slot /\ received <= Len(wal)
    BY DEF ConsumerInv, Positions, DataType
  <2> QED BY <1>1, <1>2, <1>3, <1>4, <1>6, <2>2, <2>3 DEF Feed!HandOut, NoFile
<1> QED BY <1>5, <1>6

LEMMA FeedAcknowledges ==
  ASSUME ConsumerInv, ConsumerInv', NEW acknowledged \in BOOLEAN, LoopExits(acknowledged)
  PROVE  Feed!Acknowledge
<1>1. /\ loop \in {"exiting", "disconnected"}
      /\ UNCHANGED <<wal, received, signals, calling, history>>
  BY DEF LoopExits, GoLoop
<1>2. caller \notin {"idle", "finished"}
  BY <1>1 DEF ConsumerInv, Control
<1>3. slot' >= slot
  BY DEF LoopExits, ConsumerInv, DataType
<1>4. slot' <= received /\ received <= Len(wal) /\ slot' <= Len(wal)
  BY <1>1 DEF ConsumerInv, Positions, DataType
<1> QED
  BY <1>1, <1>2, <1>3, <1>4 DEF Feed!Acknowledge, NoFile, signals, calling, history

LEMMA FeedStep ==
  ASSUME ConsumerInv, ConsumerInv', [Next]_vars
  PROVE  [Feed!FeedNext]_(Feed!feed)
<1>1. ASSUME \/ \E entry \in PK \union {NULL} : SourceWrites(entry)
             \/ LoopForcesWal \/ CallerForcesWal \/ WalAdvanceTick
      PROVE  \E entry \in PK \union {NULL} : Feed!Change(entry)
  <2>1. PICK entry \in PK \union {NULL} : wal' = Append(wal, entry)
    BY <1>1 DEF SourceWrites, LoopForcesWal, CallerForcesWal, WalAdvanceTick, ForceWalIncrement
  <2>2. UNCHANGED <<slot, received, returned, ctx, startSlot, unwritten>>
    BY <1>1 DEF SourceWrites, LoopForcesWal, CallerForcesWal, WalAdvanceTick,
                ForceWalIncrement, GoLoop, GoCaller, looping, signals, calling, history
  <2>3. open' = open
    BY <1>1 DEF SourceWrites, LoopForcesWal, CallerForcesWal, WalAdvanceTick, GoCaller,
                calling, open
  <2> QED BY <2>1, <2>2, <2>3 DEF Feed!Change, open, NoFile
<1>2. StartConsumer => Feed!Begin
  BY DEF StartConsumer, Feed!Begin, NoFile
<1>3. ASSUME CloseReleases \/ ProcessDies
      PROVE  Feed!End
  <2>1. caller \notin {"idle", "finished"} /\ caller' \in {"idle", "finished"}
    BY <1>3 DEF CloseReleases, ProcessDies, GoCaller
  <2>2. UNCHANGED <<wal, slot, received, returned, ctx, startSlot, unwritten>>
    BY <1>3 DEF CloseReleases, ProcessDies, GoCaller, server, looping, signals, history
  <2> QED BY <2>1, <2>2 DEF Feed!End, NoFile
<1>4. Interrupt => Feed!Interrupted
  BY DEF Interrupt, Feed!Interrupted, NoFile, server, looping, calling, history
<1>5. ReceiveMessage \/ SkipMessage => Feed!Report
  BY FeedReceives
<1>6. Finalize => Feed!HandOut \/ Feed!Report
  BY FeedFinalizes
<1>7. \A acknowledged \in BOOLEAN : LoopExits(acknowledged) => Feed!Acknowledge
  BY FeedAcknowledges
<1> QED
  BY <1>1, <1>2, <1>3, <1>4, <1>5, <1>6, <1>7, FeedStutters
  DEF Next, LoopNext, CallerNext, Feed!FeedNext

\* The loop, its caller, their faults, signals and crashes are a change feed:
\* one file for a run, complete up to a position the slot does not pass.
THEOREM FeedImplemented ==
  ASSUME OwnEntry, NullNoFile
  PROVE  Spec => ImplementsFeed
<1>1. Init => Feed!FeedInit
  BY DEF Init, Feed!FeedInit, NoFile
<1>2. ConsumerInv /\ ConsumerInv' /\ [Next]_vars => [Feed!FeedNext]_(Feed!feed)
  BY FeedStep
<1> QED
  BY <1>1, <1>2, ConsumerInvariant, PTL DEF Spec, ImplementsFeed, Feed!FeedSpec

-----------------------------------------------------------------------------
(***************************************************************************)
(* The scans.  Without idle timeouts only the caller sets a target, when   *)
(* its scans are through, and the loop stops there and nowhere before.     *)
(***************************************************************************)
\* The target is set, and everything up to it was received.
AtTarget == targetLSN # 0 /\ targetLSN <= received

TargetInv ==
  /\ scanEnd \in Nat /\ scanEnd <= Len(wal)
  /\ loop \notin {"completing", "forcing", "targeting"}
  /\ caller \in {"scanning", "forcing", "targeting"} => targetLSN = 0
  /\ targetLSN # 0 =>
       \A k \in DOMAIN wal : k > targetLSN /\ k <= scanEnd => wal[k] = NULL
  /\ loop = "signalling" \/ targetLSNReached => AtTarget
  /\ errorChan = "cancelled" => ctx # "live"
  /\ caller = "finalizing" /\ ctx # "interrupted" => AtTarget
  /\ returned # NoFile /\ ctx # "interrupted" => AtTarget

LEMMA TargetInit == Init => TargetInv
  BY DEF Init, TargetInv, NoFile

\* Nothing that TargetInv speaks of changes but the loop, which signals nothing.
LEMMA TargetUnmoved ==
  ASSUME ConsumerInv, TargetInv, ~IdleTimeouts,
         UNCHANGED <<wal, targetLSN, targetLSNReached, ctx, returned, scanEnd>>,
         received' \in Nat, received <= received',
         loop' \notin {"completing", "forcing", "targeting", "signalling"},
         errorChan' = "cancelled" => ctx # "live",
         caller' # caller => caller' \in {"forcing", "targeting", "closing", "joining", "finished", "idle"},
         caller' \in {"forcing", "targeting"} => caller \in {"scanning", "forcing", "targeting"}
  PROVE  TargetInv'
<1>1. AtTarget => AtTarget'
  BY DEF AtTarget, ConsumerInv, ControlType, DataType
<1> QED BY <1>1 DEF TargetInv, NoFile

LEMMA TargetLoop ==
  ASSUME OwnEntry, ConsumerInv, TargetInv, ~IdleTimeouts, LoopNext
  PROVE  TargetInv'
<1>1. CASE \/ LoopCancelled \/ LoopFault \/ StartReplication \/ CheckAndReceive
           \/ \E acknowledged \in BOOLEAN : LoopExits(acknowledged)
  <2>1. UNCHANGED <<wal, received, targetLSN, targetLSNReached, ctx, returned, scanEnd, caller>>
    BY <1>1 DEF LoopCancelled, LoopFault, StartReplication, CheckAndReceive, LoopExits,
                LoopFails, GoLoop, server, signals, calling, history
  <2>2. /\ loop' \notin {"completing", "forcing", "targeting", "signalling"}
        /\ errorChan' = "cancelled" => ctx # "live"
    BY <1>1 DEF LoopCancelled, LoopFault, StartReplication, CheckAndReceive, LoopExits,
                LoopFails, GoLoop, signals, TargetInv
  <2> QED BY <2>1, <2>2, TargetUnmoved DEF ConsumerInv, DataType
<1>2. CASE ReceiveMessage \/ SkipMessage
  BY <1>2, TargetUnmoved DEF ReceiveMessage, SkipMessage, TakeMessage, server, signals, calling, ConsumerInv, DataType, TargetInv
<1>3. CASE SignalTargetReached
  BY <1>3 DEF SignalTargetReached, GoLoop, TargetInv, AtTarget, server, calling, history, NoFile
<1>4. CASE UpdatePosition
  <2>1. UNCHANGED <<wal, received, signals, caller, returned, scanEnd>>
    BY <1>4 DEF UpdatePosition, server, calling, history
  <2>2. loop' = "signalling" => AtTarget
    <3>1. clientXLogPos' <= received /\ clientXLogPos' \in Nat
      BY <1>4, <2>1, UpdatePositionInvariant DEF ConsumerInv, DataType, Positions
    <3> QED
      BY <1>4, <3>1 DEF UpdatePosition, TargetReached, AtTarget, ConsumerInv, DataType, ControlType
  <2> QED BY <2>1, <2>2, <1>4 DEF UpdatePosition, TargetInv, AtTarget, signals, NoFile
<1>5. CASE \/ ReceiveTimeout \/ IdleTimeout \/ IdleRequestsCompletion
           \/ LoopForcesWal \/ LoopSetsTarget \/ LoopStatementFails
  BY <1>5 DEF ReceiveTimeout, IdleTimeout, IdleRequestsCompletion, LoopForcesWal,
              LoopSetsTarget, LoopStatementFails, LoopFails, GoLoop, TargetInv
<1> QED BY <1>1, <1>2, <1>3, <1>4, <1>5 DEF LoopNext

LEMMA TargetLogGrows ==
  ASSUME ConsumerInv, TargetInv,
         \/ \E entry \in PK \union {NULL} : SourceWrites(entry)
         \/ CallerForcesWal \/ WalAdvanceTick
  PROVE  TargetInv'
<1>1. PICK entry \in PK \union {NULL} : wal' = Append(wal, entry)
  BY DEF SourceWrites, CallerForcesWal, WalAdvanceTick, ForceWalIncrement
<1>2. /\ UNCHANGED <<loop, received, signals, returned, scanEnd>>
      /\ caller' # caller => caller = "forcing" /\ caller' = "targeting"
  BY DEF SourceWrites, CallerForcesWal, WalAdvanceTick, ForceWalIncrement, GoCaller, looping,
         calling, history
<1>3. scanEnd \in Nat /\ scanEnd <= Len(wal) /\ wal \in Seq(PK \union {NULL})
  BY DEF TargetInv, ConsumerInv, DataType
<1>4. scanEnd <= Len(wal') /\ \A k \in DOMAIN wal' : k <= scanEnd => k \in DOMAIN wal /\ wal'[k] = wal[k]
  BY <1>1, <1>3, Appended
<1> QED BY <1>2, <1>3, <1>4 DEF TargetInv, AtTarget, signals, NoFile

LEMMA TargetCaller ==
  ASSUME ConsumerInv, TargetInv, ~IdleTimeouts,
         \/ StartConsumer \/ ScanFails \/ RequestCompletion
         \/ CallerSetsTarget \/ CallerStatementFails
         \/ WaitEnds \/ Finalize \/ CloseCancels \/ CloseReleases
         \/ Interrupt \/ ProcessDies
  PROVE  TargetInv'
<1>1. CASE StartConsumer
  BY <1>1 DEF StartConsumer, TargetInv, ConsumerInv, DataType, Positions, NoFile
<1>2. CASE ScanFails \/ CallerStatementFails
  <2>1. UNCHANGED <<wal, targetLSN, targetLSNReached, ctx, errorChan, returned, scanEnd, loop, received>>
        /\ caller' = "closing"
    BY <1>2 DEF ScanFails, CallerStatementFails, GoCaller, server, looping, signals, history
  <2> QED BY <2>1 DEF TargetInv, AtTarget, NoFile
<1>3. CASE RequestCompletion
  BY <1>3 DEF RequestCompletion, GoCaller, TargetInv, AtTarget, server, looping, NoFile,
              ConsumerInv, DataType
<1>4. CASE CallerSetsTarget
  <2>1. /\ UNCHANGED <<wal, loop, received, targetLSNReached, errorChan, ctx, returned, scanEnd>>
        /\ caller = "targeting" /\ caller' = "waiting" /\ targetLSN' \in CurrentLSN
    BY <1>4 DEF CallerSetsTarget, GoCaller, SetTargetLSN, server, looping, history
  <2>2. targetLSN = 0 /\ loop # "signalling" /\ ~targetLSNReached
    BY <2>1 DEF TargetInv, AtTarget
  <2>3. returned = NoFile
    BY <2>1 DEF ConsumerInv, Complete, Collecting
  <2> QED BY <2>1, <2>2, <2>3 DEF TargetInv, AtTarget, CurrentLSN, NoFile
<1>5. CASE WaitEnds
  <2>1. /\ UNCHANGED <<wal, loop, received, targetLSN, targetLSNReached, ctx, returned, scanEnd>>
        /\ caller = "waiting" /\ caller' \in {"finalizing", "closing"}
        /\ errorChan' = errorChan \/ errorChan' = "empty"
        /\ caller' = "finalizing" => targetLSNReached \/ errorChan = "cancelled" \/ ctx # "live"
    BY <1>5 DEF WaitEnds, GoCaller, server, looping, history
  <2>2. ctx \in {"live", "interrupted"}
    BY <2>1 DEF ConsumerInv, ControlType, Control
  <2> QED BY <2>1, <2>2 DEF TargetInv, AtTarget, NoFile
<1>6. CASE Finalize
  BY <1>6 DEF Finalize, TargetInv, AtTarget, server, looping, signals, NoFile
<1>7. CASE CloseCancels \/ Interrupt
  BY <1>7 DEF CloseCancels, Interrupt, TargetInv, AtTarget, server, looping, calling, history,
              NoFile, ConsumerInv, ControlType
<1>8. CASE CloseReleases \/ ProcessDies
  BY <1>8 DEF CloseReleases, ProcessDies, GoCaller, TargetInv, AtTarget, server, looping,
              signals, history, NoFile
<1> QED BY <1>1, <1>2, <1>3, <1>4, <1>5, <1>6, <1>7, <1>8

\* With no idle timeout, the file of a run that succeeds has every change that
\* was committed when its scans ended, but for reported losses.
THEOREM ScansCovered ==
  ASSUME OwnEntry, NullNoFile, ~IdleTimeouts
  PROVE  Spec => []FileCoversScans
<1>1. ConsumerInv /\ TargetInv /\ [Next]_vars => TargetInv'
  <2> SUFFICES ASSUME ConsumerInv, TargetInv, [Next]_vars PROVE TargetInv'
    OBVIOUS
  <2>1. CASE UNCHANGED vars
    BY <2>1 DEF vars, server, looping, signals, calling, history, TargetInv, AtTarget, NoFile
  <2>2. CASE Next
    BY <2>2, TargetLoop, TargetLogGrows, TargetCaller DEF Next, CallerNext
  <2> QED BY <2>1, <2>2
<1>2. ConsumerInv /\ TargetInv => FileCoversScans
  <2> SUFFICES ASSUME ConsumerInv, TargetInv, Succeeded, ctx # "interrupted"
               PROVE  Covered(returned \union unwritten, startSlot, scanEnd)
    BY DEF FileCoversScans
  <2>1. AtTarget /\ Covered(returned \union unwritten, startSlot, received)
    BY DEF ConsumerInv, Complete, TargetInv, Succeeded
  <2>2. \A k \in DOMAIN wal : k <= scanEnd /\ wal[k] # NULL => k <= received
    BY <2>1 DEF TargetInv, AtTarget, ConsumerInv, DataType, ControlType
  <2> QED BY <2>1, <2>2 DEF Covered
<1> QED
  BY <1>1, <1>2, TargetInit, ConsumerInvariant, PTL DEF Spec
=============================================================================
