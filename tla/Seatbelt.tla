------------------------------ MODULE Seatbelt ------------------------------
(***************************************************************************)
(* The whole of a validation: a source table that changes, a pipeline that *)
(* replicates it to a target table, and runs of Seatbelt beside them, each *)
(* one the two scans and the change stream of fetch_data.go followed by    *)
(* the UpdateShadow of module Shadow.                                      *)
(*                                                                         *)
(* A row is its content, and a signature is the content it was computed    *)
(* from: the hashes do not collide and the row mapper maps a source row to *)
(* what the pipeline makes of it.  Source, target and pipeline are not     *)
(* part of the code; they are as free as the constants let them be.        *)
(***************************************************************************)
EXTENDS Shadow

CONSTANTS
  MaxBacklog,      \* bound of the model: changes the pipeline holds for one key
  AtomicFetch,     \* do the tables stand still while a run reads them?
  Behind,          \* how far the pipeline may be behind when a run starts: not
                   \* at all, not past what the last run saw, or by anything
  Reuse,           \* can a row get a content it had, a deleted key come back?
  PipelineFaults,  \* can the pipeline or the target go wrong?
  FailedRuns       \* can an incremental run end between the fetch and the commit?

ASSUME SeatbeltAssumption ==
  /\ TargetSignature = SourceSignature
  /\ MaxChangeRows > 0
  /\ MaxBacklog \in Nat
  /\ Behind \in {"nothing", "one-run", "anything"}
  /\ AtomicFetch \in BOOLEAN /\ Reuse \in BOOLEAN
  /\ PipelineFaults \in BOOLEAN /\ FailedRuns \in BOOLEAN

ASSUME NullNoChanges == NULL \notin SourceChanges

VARIABLES
  source,      \* the rows of the source table
  target,      \* the rows of the target table, with their number
  backlog,     \* what the pipeline has yet to apply
  owed,        \* how much of that was there when the last run had read it all
  slot,        \* the latest insert or update since the slot was acknowledged
  used,        \* contents each key has had
  run,         \* "none", "initial" or "incremental"
  sourceScan, targetScan, sourceChanges,    \* the files of the run
  agreed       \* incremental runs in a row that saw the same two signatures

environment == <<source, target, backlog, owed, slot, used>>
files       == <<run, sourceScan, targetScan, sourceChanges>>
allVars     == <<vars, environment, files, agreed>>

NoScan == NULL

(***************************************************************************)
(* The tables and the pipeline between them.                               *)
(***************************************************************************)
TablesMove == AtomicFetch => run = "none" \/ phase # "idle" \/ sourceChanges # NoScan

ChangeSource(p, content) ==
  /\ TablesMove
  /\ Len(backlog[p]) < MaxBacklog                           \* bound
  /\ source[p] # content
  /\ source' = [source EXCEPT ![p] = content]
  /\ backlog' = [backlog EXCEPT ![p] = Append(@, content)]
  /\ UNCHANGED <<target, owed, vars, files, agreed>>

\* Mutant: a change is added to the changes of its key.
WriteSourceAppending(p, content) ==
  /\ Reuse \/ (content \notin used[p] /\ (source[p] # NULL \/ used[p] = {}))
  /\ ChangeSource(p, content)
  /\ used' = [used EXCEPT ![p] = IF Reuse THEN @ ELSE @ \union {content}]
  /\ slot' = [slot EXCEPT ![p] = Append(@, [source_signature |-> content, target_signature |-> content])]

WriteSource(p, content) ==
  /\ Reuse \/ (content \notin used[p] /\ (source[p] # NULL \/ used[p] = {}))
  /\ ChangeSource(p, content)
  /\ used' = [used EXCEPT ![p] = IF Reuse THEN @ ELSE @ \union {content}]
  /\ slot' = [slot EXCEPT ![p] = <<[source_signature |-> content, target_signature |-> content]>>]

\* The change stream ignores deletes.
DeleteSource(p) ==
  /\ ChangeSource(p, NULL)
  /\ UNCHANGED <<used, slot>>

TargetRow(content) ==
  IF content = NULL THEN NoTarget
  ELSE [target_signature |-> content, target_count |-> 1]

TakeFromBacklog(p) ==
  /\ TablesMove
  /\ backlog[p] # <<>>
  /\ backlog' = [backlog EXCEPT ![p] = Tail(@)]
  /\ owed' = [owed EXCEPT ![p] = IF @ > 0 THEN @ - 1 ELSE 0]
  /\ UNCHANGED <<source, slot, used, vars, files, agreed>>

Deliver(p) ==
  /\ TakeFromBacklog(p)
  /\ target' = [target EXCEPT ![p] = TargetRow(Head(backlog[p]))]

Drop(p) ==
  /\ PipelineFaults
  /\ TakeFromBacklog(p)
  /\ UNCHANGED target

\* The target row is changed, lost, duplicated or made up.
Corrupt(p, row) ==
  /\ PipelineFaults
  /\ TablesMove
  /\ target' = [target EXCEPT ![p] = row]
  /\ UNCHANGED <<source, backlog, owed, slot, used, vars, files, agreed>>

(***************************************************************************)
(* Fetching.  The scans run side by side; the change stream is consumed to *)
(* its end after both, and an initial load has none.                       *)
(***************************************************************************)
StartRun(kind) ==
  /\ run = "none" /\ phase = "idle"
  /\ kind = "initial" => shadow = {}
  /\ Behind = "nothing" => \A p \in PK : backlog[p] = <<>>
  /\ Behind = "one-run" => \A p \in PK : owed[p] = 0
  /\ run' = kind
  /\ UNCHANGED <<environment, vars, agreed>>
  /\ UNCHANGED <<sourceScan, targetScan, sourceChanges>>

Fetching == run # "none" /\ phase = "idle" /\ sourceChanges = NoScan

ScanSource ==
  /\ Fetching /\ sourceScan = NoScan
  /\ sourceScan' = source
  /\ UNCHANGED <<vars, environment, run, targetScan, sourceChanges, agreed>>

ScanTarget ==
  /\ Fetching /\ targetScan = NoScan
  /\ targetScan' = target
  /\ UNCHANGED <<vars, environment, run, sourceScan, sourceChanges, agreed>>

NothingChanged == [p \in PK |-> <<>>]

\* Consuming acknowledges the slot; an initial load leaves it as it is.
ConsumeToCompletion ==
  /\ Fetching /\ sourceScan # NoScan /\ targetScan # NoScan
  /\ IF run = "incremental"
     THEN sourceChanges' = slot /\ slot' = NothingChanged
     ELSE sourceChanges' = NothingChanged /\ UNCHANGED slot
  /\ owed' = IF Behind = "one-run" THEN [p \in PK |-> Len(backlog[p])] ELSE owed
  /\ UNCHANGED <<vars, source, target, backlog, used, run, sourceScan, targetScan, agreed>>

ForgetFiles ==
  /\ run' = "none"
  /\ sourceScan' = NoScan /\ targetScan' = NoScan /\ sourceChanges' = NoScan

(***************************************************************************)
(* The shadow.                                                             *)
(***************************************************************************)
\* ExtractScan computes both hashes of each source row.
Extracted(scan) ==
  [p \in PK |-> [source_signature |-> scan[p], target_signature |-> scan[p]]]

Upsert ==
  /\ run # "none" /\ sourceChanges # NoScan
  /\ \/ run = "initial" /\ InitialLoadUpsert(Extracted(sourceScan), targetScan)
     \/ run = "incremental" /\ IncrementalUpsert(sourceScan, targetScan, sourceChanges)
  /\ UNCHANGED <<environment, files, agreed>>

SignaturesOf(table, p) ==
  {<<r.source_signature, r.target_signature>> : r \in {q \in table : q.pk = p}}

CommitRun ==
  /\ Commit
  /\ agreed' = [p \in PK |->
       IF run = "initial" THEN 0
       ELSE IF agreed[p] > 0 /\ SignaturesOf(txShadow, p) = SignaturesOf(shadow, p) THEN 2
       ELSE 1]
  /\ UNCHANGED <<environment, files>>

DeleteGoneRows == DeleteGone /\ UNCHANGED <<environment, files, agreed>>

FinishRun == CalculateMetrics /\ ForgetFiles /\ UNCHANGED <<environment, agreed>>

\* A run that ends before its commit leaves the shadow as it was, and takes with
\* it what it acknowledged: all the changes it consumed, or any of those that
\* arrived before.  One that ends later only has its count left to do.
RunFails ==
  /\ run # "none"
  /\ FailedRuns \/ run = "initial" \/ phase \in {"committed", "deleted"}
  /\ Abort \/ (phase = "idle" /\ UNCHANGED vars)
  /\ \E lost \in IF Fetching /\ run = "incremental" THEN SUBSET PK ELSE {{}} :
       slot' = [p \in PK |-> IF p \in lost THEN <<>> ELSE slot[p]]
  /\ ForgetFiles
  /\ UNCHANGED <<source, target, backlog, owed, used, agreed>>

SeatbeltInit ==
  /\ Init
  /\ source = [p \in PK |-> NULL] /\ target = [p \in PK |-> NoTarget]
  /\ backlog = [p \in PK |-> <<>>] /\ owed = [p \in PK |-> 0]
  /\ slot = NothingChanged /\ used = [p \in PK |-> {}]
  /\ run = "none"
  /\ sourceScan = NoScan /\ targetScan = NoScan /\ sourceChanges = NoScan
  /\ agreed = [p \in PK |-> 0]

TablesNext ==
  \E p \in PK :
    \/ \E content \in SourceSignature : WriteSource(p, content)
    \/ DeleteSource(p)
    \/ Deliver(p)
    \/ Drop(p)
    \/ \E content \in SourceSignature, count \in 1..MaxTargetCount :
         Corrupt(p, [target_signature |-> content, target_count |-> count])
    \/ Corrupt(p, NoTarget)

RunNext ==
  \/ \E kind \in {"initial", "incremental"} : StartRun(kind)
  \/ ScanSource \/ ScanTarget \/ ConsumeToCompletion
  \/ Upsert \/ CommitRun \/ DeleteGoneRows \/ FinishRun \/ RunFails

SeatbeltNext == TablesNext \/ RunNext

SeatbeltSpec == SeatbeltInit /\ [][SeatbeltNext]_allVars

(***************************************************************************)
(* Properties.                                                             *)
(***************************************************************************)
SeatbeltTypeOK ==
  /\ source \in SourceScan
  /\ target \in TargetScan
  /\ backlog \in [PK -> Seq(OrNull(SourceSignature))]
  /\ owed \in [PK -> Nat]
  /\ slot \in SourceChanges
  /\ used \in [PK -> SUBSET SourceSignature]
  /\ run \in {"none", "initial", "incremental"}
  /\ sourceScan # NoScan => sourceScan \in SourceScan
  /\ targetScan # NoScan => targetScan \in TargetScan
  /\ sourceChanges # NoScan => sourceChanges \in SourceChanges
  /\ agreed \in [PK -> 0..2]

\* "It verifies every row and column with no noise from false-positive alerts,
\* while the source keeps changing": a pipeline that applies every change makes
\* no row an error.
NoFalseErrors == WithStatus(StatusError) = {}

\* "The second cycle is what proves a Pending discrepancy was just lag or a
\* genuine failure": a row whose two sides disagree is in error when two
\* incremental runs in a row have seen it so.
SettledMismatchIsError ==
  phase # "upserted" =>
    \A r \in shadow :
      agreed[r.pk] = 2 /\ (r.source_signature # r.target_signature \/ r.target_count > 1)
      => ValidationStatus(r) = StatusError

\* A row an incremental run calls Valid is the same on both sides, and there once.
ValidIsReplicated ==
  metrics # NoMetrics =>
    \A r \in WithStatus(StatusValid) :
      agreed[r.pk] > 0 => r.source_signature = r.target_signature /\ r.target_count = 1
=============================================================================
