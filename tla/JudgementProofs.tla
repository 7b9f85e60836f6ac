-------------------------- MODULE JudgementProofs --------------------------
(***************************************************************************)
(* What a status means.  Two properties of whole validations, for any      *)
(* tables, any lag and any fault of the pipeline: a mismatch that two      *)
(* incremental runs see alike is an error, and a row an incremental run    *)
(* calls Valid is on both sides and the same.                              *)
(*                                                                         *)
(* Both rest on one fact about the change signatures: the row of a key the *)
(* source has carries those of the content it has there, because the change*)
(* was in the slot until a run merged it, and a row is deleted only when a *)
(* scan has not found the key.                                             *)
(***************************************************************************)
EXTENDS SeatbeltProofs

(***************************************************************************)
(* Rows.                                                                   *)
(***************************************************************************)
\* The change signatures are those of one content, the one the source has if it
\* has the row, and target rows are counted.
Faithful(r) ==
  /\ r.incremental_source_signature = r.incremental_target_signature
  /\ r.source_signature # NULL => r.incremental_source_signature = r.source_signature
  /\ r.target_signature = NULL <=> r.target_count = 0

\* No insert of nothing, as an initial load writes for a phantom.
Honest(r) == r.source_signature = NULL => r.source_operation \in Absent

Mismatch(r) == r.source_signature # r.target_signature \/ r.target_count > 1

\* No primary key has two rows.
Unique(table) == \A r1, r2 \in table : r1.pk = r2.pk => r1 = r2

UniqueInv == Unique(shadow) /\ Unique(txShadow)

\* The table has the change that made the key what it is.
CapturedIn(table, p, content) ==
  /\ \E r \in table : r.pk = p
  /\ \A r \in table : r.pk = p => r.incremental_source_signature = content

\* A change file has one change of a key, with the signatures of one content.
LatestOnly(changes) ==
  \A p \in PK :
    /\ DOMAIN changes[p] \subseteq {1}
    /\ changes[p] # <<>> => changes[p][1].source_signature = changes[p][1].target_signature

\* It is the change that led to the content there is.
LatestContents(changes, contents) ==
  \A p \in PK : contents[p] # NULL /\ changes[p] # <<>> => changes[p][1].source_signature = contents[p]

(***************************************************************************)
(* The strengthening.                                                      *)
(***************************************************************************)
RunControl ==
  /\ run = "none" => phase = "idle" /\ sourceScan = NoScan /\ targetScan = NoScan
  /\ phase # "idle" => sourceChanges # NoScan
  /\ run = "initial" /\ phase \in {"idle", "upserted"} => shadow = {}

\* The tables stand still while they are read, so what the source has now is in
\* the scan, or in the slot, or gone.
ScanCurrent ==
  /\ sourceScan # NoScan /\ sourceChanges = NoScan => sourceScan = source
  /\ sourceChanges # NoScan =>
       \A p \in PK : source[p] \in {sourceScan[p], NULL} \/ slot[p] # <<>>

RowsFaithful ==
  /\ LatestOnly(slot) /\ LatestContents(slot, source)
  /\ sourceChanges # NoScan =>
       LatestOnly(sourceChanges) /\ (run = "incremental" => LatestContents(sourceChanges, sourceScan))
  /\ UniqueInv
  /\ \A r \in shadow \union txShadow : Faithful(r)

\* The table has the contents of the scan.
TableIsScan(table) == \A r \in table : r.source_signature = sourceScan[r.pk]

RowsOfScan ==
  /\ phase = "upserted" => TableIsScan(txShadow)
  /\ phase = "committed" => TableIsScan(shadow)

\* Where the change signatures of a key are that the source has: in the slot, in
\* the change file, in the transaction, or in the table.
ChangesKept ==
  /\ run # "incremental" \/ sourceChanges = NoScan \/ phase \in {"committed", "deleted"} =>
       \A p \in PK : source[p] # NULL => slot[p] # <<>> \/ CapturedIn(shadow, p, source[p])
  /\ run = "incremental" /\ sourceChanges # NoScan /\ phase = "idle" =>
       \A p \in PK : sourceScan[p] # NULL => sourceChanges[p] # <<>> \/ CapturedIn(shadow, p, sourceScan[p])
  /\ run = "incremental" /\ phase = "upserted" =>
       \A p \in PK : sourceScan[p] # NULL => CapturedIn(txShadow, p, sourceScan[p])

\* An incremental run takes an insert of nothing away.
RowsHonest ==
  /\ \A r \in shadow : agreed[r.pk] > 0 => Honest(r)
  /\ run = "incremental" /\ phase = "upserted" => \A r \in txShadow : Honest(r)

\* What the commit will make of a mismatch seen before.
Settles(r) ==
  /\ agreed[r.pk] > 0
  /\ SignaturesOf(txShadow, r.pk) = SignaturesOf(shadow, r.pk)
  /\ Mismatch(r)

Settled ==
  /\ run = "incremental" /\ phase = "upserted" =>
       \A r \in txShadow : Settles(r) => ValidationStatus(r) = StatusError
  /\ \A r \in shadow : agreed[r.pk] = 2 /\ Mismatch(r) => ValidationStatus(r) = StatusError

Judged ==
  /\ RunControl
  /\ ScanCurrent
  /\ RowsFaithful
  /\ RowsOfScan
  /\ ChangesKept
  /\ RowsHonest
  /\ Settled

JudgementInv == SeatbeltInv /\ IInv /\ Judged

-----------------------------------------------------------------------------
(***************************************************************************)
(* Lemmas about rows.                                                      *)
(***************************************************************************)
\* An initial load writes one row for each primary key.
LEMMA InitialRowsUnique ==
  ASSUME NEW extract, NEW targets
  PROVE  Unique(InitialRows(extract, targets))
<1> SUFFICES ASSUME NEW r1 \in InitialRows(extract, targets),
                    NEW r2 \in InitialRows(extract, targets), r1.pk = r2.pk
             PROVE  r1 = r2
  BY DEF Unique
<1>1. PICK p1 \in PK : r1 = InitialRow(p1, extract[p1], targets[p1])
  BY DEF InitialRows
<1>2. PICK p2 \in PK : r2 = InitialRow(p2, extract[p2], targets[p2])
  BY DEF InitialRows
<1>3. p1 = p2
  BY <1>1, <1>2 DEF InitialRow
<1> QED BY <1>1, <1>2, <1>3

\* So does a merge into a table that has one, if the file has one change of it.
LEMMA IncrementalRowsUnique ==
  ASSUME Unique(shadow), NEW sources, NEW targets, NEW changes,
         \A p \in PK : DOMAIN changes[p] \subseteq {1}
  PROVE  Unique(IncrementalRows(sources, targets, changes))
<1> SUFFICES ASSUME NEW r1 \in IncrementalRows(sources, targets, changes),
                    NEW r2 \in IncrementalRows(sources, targets, changes), r1.pk = r2.pk
             PROVE  r1 = r2
  BY DEF Unique
<1>1. PICK p \in PK : r1 \in JoinedRows(p, sources[p], targets[p], changes[p])
  BY DEF IncrementalRows
<1>2. PICK q \in PK : r2 \in JoinedRows(q, sources[q], targets[q], changes[q])
  BY DEF IncrementalRows
<1>3. p = q
  <2>1. r1.pk = p /\ r2.pk = q
    BY <1>1, <1>2, JoinedRowForm
  <2> QED BY <2>1
<1> DEFINE olds == IF RowsOf(p) = {} THEN {NoRow} ELSE RowsOf(p)
           incs == IF changes[p] = <<>> THEN <<NoChange>> ELSE changes[p]
           merged(old, i) == MergedRow(p, old, sources[p], targets[p], incs[i], old.copy * Len(incs) + i - 1)
<1>4. /\ \E old \in olds, i \in DOMAIN incs : r1 = merged(old, i)
      /\ \E old \in olds, i \in DOMAIN incs : r2 = merged(old, i)
  BY <1>1, <1>2, <1>3 DEF JoinedRows
<1>5. \A o1, o2 \in olds : o1 = o2
  BY DEF RowsOf, Unique
<1>6. \A i \in DOMAIN incs : i = 1
  OBVIOUS
<1> HIDE DEF olds, incs, merged
<1> QED BY <1>4, <1>5, <1>6

\* A row of an incremental run is merged from the row of its primary key.
LEMMA MergedFromItsRow ==
  ASSUME Unique(shadow), NEW sources, NEW targets, NEW changes,
         NEW new \in IncrementalRows(sources, targets, changes),
         NEW old \in shadow, old.pk = new.pk
  PROVE  \E change, copy : new = MergedRow(new.pk, old, sources[new.pk], targets[new.pk], change, copy)
<1>1. PICK p \in PK : new \in JoinedRows(p, sources[p], targets[p], changes[p])
  BY DEF IncrementalRows
<1>2. new.pk = p
  BY <1>1, JoinedRowForm
<1>3. RowsOf(p) = {old}
  BY <1>2 DEF RowsOf, Unique
<1> QED BY <1>1, <1>2, <1>3, JoinedRowForm

TargetRows == {NoTarget} \union
              [target_signature: TargetSignature, target_count: 1..MaxTargetCount]

LEMMA TargetRowsCounted ==
  ASSUME NEW found \in TargetRows
  PROVE  /\ found.target_count \in Nat
         /\ found.target_signature = NULL <=> found.target_count = 0
<1>1. 0 \notin 1..MaxTargetCount /\ 1..MaxTargetCount \subseteq Nat
  BY ShadowAssumption
<1>2. NULL \notin TargetSignature
  BY ShadowAssumption
<1> QED BY <1>1, <1>2 DEF TargetRows, NoTarget

LEMMA InitialRowFaithful ==
  ASSUME NEW p \in PK, NEW scan, NEW found \in TargetRows
  PROVE  LET row == InitialRow(p, Extracted(scan)[p], found)
         IN Faithful(row) /\ row.pk = p /\ row.source_signature = scan[p]
  BY TargetRowsCounted DEF InitialRow, Extracted, Faithful

\* The change of a key: the one in the file, if there is one.
ChangeOf(changes, p) == IF changes[p] = <<>> THEN NoChange ELSE changes[p][1]

LEMMA ChangeOfPair ==
  ASSUME NEW changes \in SourceChanges, LatestOnly(changes), NEW p \in PK
  PROVE  /\ ChangeOf(changes, p).source_signature = ChangeOf(changes, p).target_signature
         /\ changes[p] # <<>> => ChangeOf(changes, p).source_signature \in SourceSignature
         /\ changes[p] = <<>> => ChangeOf(changes, p).source_signature = NULL
<1>1. CASE changes[p] = <<>>
  BY <1>1 DEF ChangeOf, NoChange
<1>2. CASE changes[p] # <<>>
  <2>1. PICK n \in 0..MaxChangeRows : changes[p] \in [1..n -> Change]
    BY DEF SourceChanges
  <2>2. n \in Nat /\ n # 0
    BY <1>2, <2>1, ShadowAssumption
  <2>3. changes[p][1] \in Change
    BY <2>1, <2>2
  <2> QED BY <1>2, <2>3 DEF ChangeOf, LatestOnly, Change
<1> QED BY <1>1, <1>2

LEMMA MergedRowFaithful ==
  ASSUME NEW p \in PK, NEW content, NEW found \in TargetRows, NEW change, NEW copy,
         NEW old, old = NoRow \/ Faithful(old),
         change.source_signature = change.target_signature,
         content # NULL =>
           content = Coalesce(change.source_signature, old.incremental_source_signature)
  PROVE  LET row == MergedRow(p, old, content, found, change, copy)
         IN /\ Faithful(row) /\ Honest(row)
            /\ row.pk = p /\ row.source_signature = content
            /\ content # NULL => row.incremental_source_signature = content
<1> DEFINE row == MergedRow(p, old, content, found, change, copy)
<1>1. old.incremental_source_signature = old.incremental_target_signature
  BY DEF NoRow, Faithful
<1>2. /\ row.pk = p /\ row.source_signature = content
      /\ row.target_signature = found.target_signature
      /\ row.target_count = found.target_count
      /\ row.source_operation = DetermineSourceOperation(content, old.source_signature)
      /\ row.incremental_source_signature
           = Coalesce(change.source_signature, old.incremental_source_signature)
      /\ row.incremental_target_signature
           = Coalesce(change.target_signature, old.incremental_target_signature)
  BY DEF MergedRow
<1> HIDE DEF row
<1>3. row.incremental_source_signature = row.incremental_target_signature
  BY <1>1, <1>2
<1>4. content # NULL => row.incremental_source_signature = content
  BY <1>2
<1>5. Faithful(row)
  BY <1>2, <1>3, <1>4, TargetRowsCounted DEF Faithful
<1>6. Honest(row)
  BY <1>2, OperationType DEF Honest
<1> QED BY <1>2, <1>4, <1>5, <1>6 DEF row

\* The second run that sees a mismatch makes it an error: row corruption if the
\* source has the row, or else an unreplicated delete or a phantom.
LEMMA SettledRow ==
  ASSUME NEW p \in PK, NEW content, NEW found \in TargetRows, NEW change, NEW copy,
         NEW old \in Row, RowConsistent(old), Honest(old),
         content = old.source_signature, found.target_signature = old.target_signature,
         Faithful(MergedRow(p, old, content, found, change, copy)),
         Mismatch(MergedRow(p, old, content, found, change, copy))
  PROVE  ValidationStatus(MergedRow(p, old, content, found, change, copy)) = StatusError
<1> DEFINE row == MergedRow(p, old, content, found, change, copy)
           sourceOp == DetermineSourceOperation(content, content)
           targetOp == DetermineSourceOperation(found.target_signature, found.target_signature)
           existing == Coalesce(old.validation_error, FALSE)
           verified == RowVerified(row)
<1>1. /\ row.source_signature = content
      /\ row.target_signature = found.target_signature
      /\ row.target_count = found.target_count
      /\ row.source_operation = sourceOp
      /\ row.target_operation = targetOp
      /\ row.validation_error = CheckForValidationErrorWithRowIntegrity(
           sourceOp, old.source_operation, targetOp, old.target_operation, existing, verified)
  BY DEF MergedRow, RowVerified
<1>2. /\ content # NULL => sourceOp = NOOP
      /\ content = NULL => sourceOp = DOES_NOT_EXIST
      /\ found.target_signature # NULL => targetOp = NOOP
      /\ found.target_signature = NULL => targetOp = DOES_NOT_EXIST
  BY DEF DetermineSourceOperation
<1>3. NULL \notin {sourceOp, old.source_operation, targetOp, old.target_operation}
  <2>1. NULL \notin Operation
    BY ShadowAssumption
  <2>2. old.source_operation \in Operation /\ old.target_operation \in Operation
    BY DEF Row
  <2>3. sourceOp \in Operation /\ targetOp \in Operation
    BY <1>2 DEF Operation
  <2> HIDE DEF sourceOp, targetOp
  <2> QED BY <2>1, <2>2, <2>3
<1> HIDE DEF sourceOp, targetOp, existing, verified
<1>4. \/ RowCorruption(sourceOp, verified)
      \/ UnreplicatedDelete(old.source_operation, targetOp)
      \/ PhantomInDestination(sourceOp, old.source_operation, targetOp)
      => ValidationStatus(row) = StatusError
  <2> HIDE DEF row
  <2> QED
    BY <1>1, <1>3
    DEF CheckForValidationErrorWithRowIntegrity, CheckForValidationErrorInternal, ValidationStatus
<1> HIDE DEF row
<1>5. CASE content = NULL
  <2>1. found.target_signature # NULL
    <3>1. found.target_signature = NULL => found.target_count = 0
      BY TargetRowsCounted
    <3> QED BY <1>1, <1>5, <3>1 DEF Mismatch, row
  <2>2. old.source_operation \in Absent
    BY <1>5 DEF Honest
  <2> QED BY <1>2, <1>4, <1>5, <2>1, <2>2 DEF UnreplicatedDelete, PhantomInDestination, Absent, row
<1>6. CASE content # NULL /\ content # found.target_signature
  <2>1. ~verified
    BY <1>1, <1>6 DEF verified, RowVerified, VerifyRowIntegrity, Faithful, row
  <2> QED BY <1>2, <1>4, <1>6, <2>1 DEF RowCorruption, row
<1>7. CASE content # NULL /\ content = found.target_signature
  <2>1. CASE ~verified
    BY <1>2, <1>4, <1>7, <2>1 DEF RowCorruption, row
  <2>2. CASE verified
    <3>1. sourceOp = NOOP /\ targetOp = NOOP
      BY <1>2, <1>7
    <3>2. ~Unreconciled(row) /\ row.source_operation \notin Absent
      BY <1>1, <2>2, <3>1 DEF Unreconciled, verified, Quiet, Absent, NOOP, DOES_NOT_EXIST, DELETE
    <3>3. row.target_count > 1
      BY <1>1, <1>7 DEF Mismatch, row
    <3> QED BY <3>2, <3>3 DEF ValidationStatus, row
  <2> QED BY <2>1, <2>2
<1> QED BY <1>5, <1>6, <1>7

\* A row that is Valid has passed the comparison with its change signatures, and
\* those are the signatures of one content.
LEMMA ValidRow ==
  ASSUME NEW r \in Row, RowConsistent(r), Faithful(r), Honest(r), ValidationStatus(r) = StatusValid
  PROVE  r.source_signature = r.target_signature /\ r.target_count = 1
<1>1. /\ ~Unreconciled(r)
      /\ ~(r.source_operation \in Absent /\ r.target_operation \in Absent)
      /\ ~(r.target_count > 1)
  BY DEF ValidationStatus, StatusValid, StatusError, StatusPending, StatusGone
<1>2. r.source_operation \notin Absent
  BY <1>1 DEF Unreconciled
<1>3. r.source_signature # NULL /\ RowVerified(r)
  BY <1>1, <1>2 DEF Unreconciled, Honest
<1>4. /\ r.source_signature = r.incremental_source_signature
      /\ r.target_signature = r.incremental_target_signature /\ r.target_signature # NULL
  BY <1>3 DEF RowVerified, VerifyRowIntegrity, Faithful
<1>5. r.target_count \in Nat /\ r.target_count # 0
  BY <1>4 DEF Row, Faithful
<1> QED BY <1>1, <1>4, <1>5 DEF Faithful

-----------------------------------------------------------------------------
(***************************************************************************)
(* Lemmas about tables: what an incremental run makes of the table, given  *)
(* that a key the source has is in the change file or captured in it.      *)
(***************************************************************************)
\* A row is merged from a shadow row of its key, or none, and the one change.
LEMMA MergedWithItsChange ==
  ASSUME NEW sources, NEW targets, NEW changes, LatestOnly(changes),
         NEW p \in PK, NEW r \in JoinedRows(p, sources[p], targets[p], changes[p])
  PROVE  \E old \in (IF RowsOf(p) = {} THEN {NoRow} ELSE RowsOf(p)) : \E copy :
           r = MergedRow(p, old, sources[p], targets[p], ChangeOf(changes, p), copy)
<1> DEFINE olds == IF RowsOf(p) = {} THEN {NoRow} ELSE RowsOf(p)
           incs == IF changes[p] = <<>> THEN <<NoChange>> ELSE changes[p]
<1>1. PICK old \in olds, i \in DOMAIN incs :
        r = MergedRow(p, old, sources[p], targets[p], incs[i], old.copy * Len(incs) + i - 1)
  BY DEF JoinedRows
<1>2. i = 1
  BY DEF LatestOnly
<1>3. incs[1] = ChangeOf(changes, p)
  BY DEF ChangeOf
<1> HIDE DEF olds, incs
<1>4. r = MergedRow(p, old, sources[p], targets[p], ChangeOf(changes, p), old.copy * Len(incs) + i - 1)
  BY <1>1, <1>2, <1>3
<1> QED BY <1>4 DEF olds

LEMMA IncrementalRowsFaithful ==
  ASSUME \A r \in shadow : Faithful(r),
         NEW sources \in SourceScan, NEW targets \in TargetScan,
         NEW changes \in SourceChanges, LatestOnly(changes),
         LatestContents(changes, sources),
         \A p \in PK : sources[p] # NULL => changes[p] # <<>> \/ CapturedIn(shadow, p, sources[p]),
         NEW r \in IncrementalRows(sources, targets, changes)
  PROVE  /\ r.pk \in PK /\ r.source_signature = sources[r.pk]
         /\ Faithful(r) /\ Honest(r)
         /\ sources[r.pk] # NULL => r.incremental_source_signature = sources[r.pk]
<1>1. PICK p \in PK : r \in JoinedRows(p, sources[p], targets[p], changes[p])
  BY DEF IncrementalRows
<1>2. PICK old \in (IF RowsOf(p) = {} THEN {NoRow} ELSE RowsOf(p)) : \E copy :
        r = MergedRow(p, old, sources[p], targets[p], ChangeOf(changes, p), copy)
  BY <1>1, MergedWithItsChange
<1>3. old = NoRow \/ Faithful(old)
  BY DEF RowsOf
<1>4. sources[p] # NULL =>
        sources[p] = Coalesce(ChangeOf(changes, p).source_signature, old.incremental_source_signature)
  <2>1. CASE changes[p] # <<>>
    <3>1. ChangeOf(changes, p).source_signature # NULL
      BY <2>1, ChangeOfPair, ShadowAssumption
    <3> QED BY <2>1, <3>1 DEF Coalesce, LatestContents, ChangeOf
  <2>2. CASE changes[p] = <<>> /\ sources[p] # NULL
    <3>1. old.incremental_source_signature = sources[p]
      BY <2>2 DEF CapturedIn, RowsOf
    <3> QED BY <2>2, <3>1, ChangeOfPair DEF Coalesce
  <2> QED BY <2>1, <2>2
<1>5. targets[p] \in TargetRows
  BY DEF TargetScan, TargetRows
<1>6. ChangeOf(changes, p).source_signature = ChangeOf(changes, p).target_signature
  BY ChangeOfPair
<1> QED BY <1>2, <1>3, <1>4, <1>5, <1>6, MergedRowFaithful

\* A key the source has gets a row, if only from what the scan has.
LEMMA IncrementalRowsCapture ==
  ASSUME \A r \in shadow : Faithful(r),
         NEW sources \in SourceScan, NEW targets \in TargetScan,
         NEW changes \in SourceChanges, LatestOnly(changes),
         LatestContents(changes, sources),
         \A p \in PK : sources[p] # NULL => changes[p] # <<>> \/ CapturedIn(shadow, p, sources[p]),
         NEW p \in PK, sources[p] # NULL
  PROVE  CapturedIn(IncrementalRows(sources, targets, changes), p, sources[p])
<1> DEFINE olds == IF RowsOf(p) = {} THEN {NoRow} ELSE RowsOf(p)
           incs == IF changes[p] = <<>> THEN <<NoChange>> ELSE changes[p]
<1>1. PICK old : old \in olds
  OBVIOUS
<1>2. 1 \in DOMAIN incs
  <2>1. PICK n \in 0..MaxChangeRows : changes[p] \in [1..n -> Change]
    BY DEF SourceChanges
  <2>2. CASE changes[p] # <<>>
    BY <2>1, <2>2, ShadowAssumption
  <2> QED BY <2>2
<1> DEFINE row == MergedRow(p, old, sources[p], targets[p], incs[1], old.copy * Len(incs) + 1 - 1)
<1>3. row \in JoinedRows(p, sources[p], targets[p], changes[p])
  <2> HIDE DEF row
  <2>1. JoinedRows(p, sources[p], targets[p], changes[p])
          = {MergedRow(p, o, sources[p], targets[p], incs[i], o.copy * Len(incs) + i - 1) :
               o \in olds, i \in DOMAIN incs}
    BY DEF JoinedRows
  <2> HIDE DEF olds, incs
  <2> QED BY <1>1, <1>2, <2>1 DEF row
<1>4. row \in IncrementalRows(sources, targets, changes) /\ row.pk = p
  BY <1>3 DEF IncrementalRows, MergedRow
<1> HIDE DEF row
<1> QED BY <1>4, IncrementalRowsFaithful DEF CapturedIn

\* What two incremental runs saw alike.
LEMMA SettledRows ==
  ASSUME Unique(shadow), shadow \subseteq Row, \A r \in shadow : RowConsistent(r),
         NEW sources, NEW targets \in TargetScan, NEW changes,
         NEW new \in IncrementalRows(sources, targets, changes), new.pk \in PK,
         NEW old \in shadow, old.pk = new.pk, Honest(old),
         new.source_signature = old.source_signature, new.target_signature = old.target_signature,
         Faithful(new), Mismatch(new)
  PROVE  ValidationStatus(new) = StatusError
<1>1. PICK change, copy :
        new = MergedRow(new.pk, old, sources[new.pk], targets[new.pk], change, copy)
  BY MergedFromItsRow
<1>2. /\ sources[new.pk] = new.source_signature
      /\ targets[new.pk].target_signature = new.target_signature
  BY <1>1 DEF MergedRow
<1>3. targets[new.pk] \in TargetRows
  BY DEF TargetScan, TargetRows
<1> QED BY <1>1, <1>2, <1>3, SettledRow

-----------------------------------------------------------------------------
(***************************************************************************)
(* Every step keeps the invariant: first the tables, then a run.           *)
(***************************************************************************)
LEMMA JudgedInit == SeatbeltInit => Judged
<1> SUFFICES ASSUME SeatbeltInit PROVE Judged
  OBVIOUS
<1>1. LatestOnly(slot) /\ LatestContents(slot, source)
  BY DEF SeatbeltInit, NothingChanged, LatestOnly, LatestContents
<1> QED
  BY <1>1
  DEF SeatbeltInit, Init, Judged, RunControl, ScanCurrent, RowsFaithful, RowsOfScan, ChangesKept,
      RowsHonest, Settled, UniqueInv, Unique

\* The source only gains a content together with a change in the slot.
LEMMA TablesStep ==
  ASSUME AtomicFetch, Judged, TablesMove, UNCHANGED <<vars, files, agreed>>,
         LatestOnly(slot'), LatestContents(slot', source'),
         \A p \in PK : /\ slot[p] # <<>> => slot'[p] # <<>>
                       /\ source'[p] \in {source[p], NULL} \/ slot'[p] # <<>>
  PROVE  Judged'
<1> USE DEF Judged
<1>1. UNCHANGED <<shadow, txShadow, phase, run, sourceScan, targetScan, sourceChanges, agreed>>
  BY DEF vars, files
<1>2. RunControl' /\ RowsOfScan' /\ RowsHonest' /\ Settled'
  BY <1>1
  DEF RunControl, RowsOfScan, TableIsScan, RowsHonest, Settled, Settles, SignaturesOf
<1>3. ScanCurrent'
  BY <1>1 DEF ScanCurrent, RunControl, TablesMove
<1>4. RowsFaithful'
  BY <1>1 DEF RowsFaithful, UniqueInv
<1>5. ChangesKept'
  <2>1. \A p \in PK : source'[p] # NULL => source'[p] = source[p] \/ slot'[p] # <<>>
    OBVIOUS
  <2> QED BY <1>1, <2>1 DEF ChangesKept
<1> QED BY <1>2, <1>3, <1>4, <1>5

LEMMA TablesKeepJudged ==
  ASSUME AtomicFetch, SeatbeltInv, Judged, TablesNext
  PROVE  Judged'
<1>0. /\ LatestOnly(slot) /\ LatestContents(slot, source)
      /\ source \in [PK -> OrNull(SourceSignature)] /\ slot \in SourceChanges
  BY DEF Judged, RowsFaithful, SeatbeltInv, SeatbeltTypeOK, SourceScan
<1>1. PICK p \in PK :
        \/ \E content \in SourceSignature : WriteSource(p, content)
        \/ DeleteSource(p)
        \/ Deliver(p)
        \/ Drop(p)
        \/ \E row : Corrupt(p, row)
  BY DEF TablesNext
<1>2. ASSUME NEW content \in SourceSignature, WriteSource(p, content) PROVE Judged'
  <2>1. /\ source' = [source EXCEPT ![p] = content]
        /\ slot' = [slot EXCEPT ![p] = <<[source_signature |-> content, target_signature |-> content]>>]
        /\ TablesMove /\ UNCHANGED <<vars, files, agreed>>
    BY <1>2 DEF WriteSource, ChangeSource
  <2>2. slot'[p] # <<>> /\ \A q \in PK : q # p => slot'[q] = slot[q] /\ source'[q] = source[q]
    BY <1>0, <2>1 DEF SourceChanges
  <2>3. LatestOnly(slot')
    BY <1>0, <2>1, <2>2 DEF LatestOnly, SourceChanges
  <2>4. LatestContents(slot', source')
    BY <1>0, <2>1, <2>2 DEF LatestContents, SourceChanges
  <2>5. \A q \in PK : /\ slot[q] # <<>> => slot'[q] # <<>>
                      /\ source'[q] \in {source[q], NULL} \/ slot'[q] # <<>>
    BY <2>2
  <2> QED BY <2>1, <2>3, <2>4, <2>5, TablesStep
<1>3. CASE DeleteSource(p)
  <2>1. /\ source' = [source EXCEPT ![p] = NULL] /\ slot' = slot
        /\ TablesMove /\ UNCHANGED <<vars, files, agreed>>
    BY <1>3 DEF DeleteSource, ChangeSource
  <2>2. \A q \in PK : source'[q] \in {source[q], NULL}
    BY <1>0, <2>1
  <2>3. LatestContents(slot', source')
    BY <1>0, <2>1, <2>2 DEF LatestContents
  <2> QED BY <1>0, <2>1, <2>2, <2>3, TablesStep
<1>4. CASE Deliver(p) \/ Drop(p) \/ \E row : Corrupt(p, row)
  <2>1. /\ UNCHANGED <<source, slot>>
        /\ TablesMove /\ UNCHANGED <<vars, files, agreed>>
    BY <1>4 DEF Deliver, Drop, TakeFromBacklog, Corrupt
  <2> QED BY <1>0, <2>1, TablesStep
<1> QED BY <1>1, <1>2, <1>3, <1>4

\* A run starts on what the last one left.
LEMMA StartRunKeepsJudged ==
  ASSUME SeatbeltInv, Judged, NEW kind \in {"initial", "incremental"}, StartRun(kind)
  PROVE  Judged'
<1>1. /\ run = "none" /\ phase = "idle" /\ run' = kind
      /\ kind = "initial" => shadow = {}
      /\ UNCHANGED <<shadow, txShadow, phase, source, slot, agreed>>
      /\ UNCHANGED <<sourceScan, targetScan, sourceChanges>>
  BY DEF StartRun, environment, vars
<1>2. sourceScan = NoScan /\ targetScan = NoScan /\ sourceChanges = NoScan
  BY <1>1 DEF Judged, RunControl, SeatbeltInv, FilesComplete
<1>3. ChangesKept'
  BY <1>1, <1>2 DEF Judged, ChangesKept
<1>4. Settled' /\ RowsHonest'
  BY <1>1 DEF Judged, Settled, RowsHonest
<1>5. RowsFaithful'
  BY <1>1, <1>2 DEF Judged, RowsFaithful, UniqueInv
<1> QED
  BY <1>1, <1>2, <1>3, <1>4, <1>5 DEF Judged, RunControl, ScanCurrent, RowsOfScan

LEMMA ScansKeepJudged ==
  ASSUME Judged, ScanSource \/ ScanTarget
  PROVE  Judged'
<1>1. /\ run # "none" /\ phase = "idle" /\ sourceChanges = NoScan
      /\ sourceScan' = sourceScan \/ sourceScan' = source
      /\ UNCHANGED <<shadow, txShadow, phase, source, slot, agreed, run, sourceChanges>>
  BY DEF ScanSource, ScanTarget, Fetching, environment, vars
<1>2. ChangesKept'
  BY <1>1 DEF Judged, ChangesKept
<1>3. Settled' /\ RowsHonest'
  BY <1>1 DEF Judged, Settled, RowsHonest
<1>4. RowsFaithful'
  BY <1>1 DEF Judged, RowsFaithful, UniqueInv
<1> QED
  BY <1>1, <1>2, <1>3, <1>4 DEF Judged, RunControl, ScanCurrent, RowsOfScan

\* What was in the slot is in the change file.
LEMMA ConsumeKeepsJudged ==
  ASSUME SeatbeltInv, Judged, ConsumeToCompletion
  PROVE  Judged'
<1>1. /\ run # "none" /\ phase = "idle" /\ sourceChanges = NoScan /\ sourceScan # NoScan
      /\ UNCHANGED <<shadow, txShadow, phase, source, agreed, run, sourceScan, targetScan>>
  BY DEF ConsumeToCompletion, Fetching, vars
<1>2. sourceScan = source
  BY <1>1 DEF Judged, ScanCurrent
<1>3. LatestOnly(NothingChanged) /\ LatestContents(NothingChanged, source)
  BY DEF NothingChanged, LatestOnly, LatestContents
<1>4. /\ LatestOnly(slot') /\ LatestOnly(sourceChanges')
      /\ LatestContents(slot', source)
      /\ run = "incremental" => LatestContents(sourceChanges', source)
  BY <1>3 DEF ConsumeToCompletion, Judged, RowsFaithful
<1>5. RowsFaithful'
  BY <1>1, <1>2, <1>4 DEF Judged, RowsFaithful, UniqueInv
<1>6. ChangesKept'
  <2>1. CASE run = "incremental"
    <3>1. sourceChanges' = slot /\ slot \in SourceChanges
      BY <2>1 DEF ConsumeToCompletion, SeatbeltInv, SeatbeltTypeOK
    <3>2. sourceChanges' # NoScan
      BY <3>1, NullNoChanges DEF NoScan
    <3>3. \A p \in PK : source[p] # NULL => slot[p] # <<>> \/ CapturedIn(shadow, p, source[p])
      BY <1>1 DEF Judged, ChangesKept
    <3> QED BY <1>1, <1>2, <2>1, <3>1, <3>2, <3>3 DEF ChangesKept
  <2>2. CASE run # "incremental"
    <3>1. slot' = slot
      BY <2>2 DEF ConsumeToCompletion
    <3>2. \A p \in PK : source[p] # NULL => slot[p] # <<>> \/ CapturedIn(shadow, p, source[p])
      BY <2>2 DEF Judged, ChangesKept
    <3> QED BY <1>1, <2>2, <3>1, <3>2 DEF ChangesKept
  <2> QED BY <2>1, <2>2
<1>7. Settled' /\ RowsHonest'
  BY <1>1 DEF Judged, Settled, RowsHonest
<1> QED
  BY <1>1, <1>2, <1>5, <1>6, <1>7 DEF Judged, RunControl, ScanCurrent, RowsOfScan

\* An initial load merges nothing, and finds no table.
LEMMA InitialUpsertKeepsJudged ==
  ASSUME SeatbeltInv, Judged, Upsert, run = "initial"
  PROVE  Judged'
<1> DEFINE rows == InitialRows(Extracted(sourceScan), targetScan)
<1>1. /\ phase = "idle" /\ sourceChanges # NoScan
      /\ InitialLoadUpsert(Extracted(sourceScan), targetScan)
      /\ UNCHANGED <<source, slot, run, sourceScan, targetScan, sourceChanges, agreed>>
  BY DEF Upsert, InitialLoadUpsert, BeginTransaction, environment, files
<1>2. /\ sourceScan \in SourceScan /\ targetScan \in TargetScan
      /\ shadow = {}
  BY <1>1 DEF SeatbeltInv, SeatbeltTypeOK, FilesComplete, Judged, RunControl
<1>3. phase' = "upserted" /\ shadow' = shadow /\ txShadow' = rows
  BY <1>1, <1>2 DEF InitialLoadUpsert, BeginTransaction
<1>4. \A r \in rows : Faithful(r) /\ r.source_signature = sourceScan[r.pk]
  <2>1. ASSUME NEW r \in rows PROVE Faithful(r) /\ r.source_signature = sourceScan[r.pk]
    <3>1. PICK p \in PK : r = InitialRow(p, Extracted(sourceScan)[p], targetScan[p])
      BY DEF InitialRows
    <3>2. targetScan[p] \in TargetRows
      BY <1>2 DEF TargetScan, TargetRows
    <3> QED BY <3>1, <3>2, InitialRowFaithful
  <2> QED BY <2>1
<1>5. Unique(rows)
  BY InitialRowsUnique
<1> HIDE DEF rows
<1>6. RowsFaithful'
  BY <1>1, <1>2, <1>3, <1>4, <1>5 DEF Judged, RowsFaithful, UniqueInv, Unique
<1>7. RowsOfScan'
  BY <1>1, <1>3, <1>4 DEF RowsOfScan, TableIsScan
<1>8. ChangesKept'
  BY <1>1, <1>3 DEF Judged, ChangesKept
<1>9. Settled' /\ RowsHonest'
  BY <1>1, <1>2, <1>3 DEF Settled, RowsHonest
<1>10. RunControl' /\ ScanCurrent'
  BY <1>1, <1>2, <1>3 DEF Judged, RunControl, ScanCurrent
<1> QED BY <1>6, <1>7, <1>8, <1>9, <1>10 DEF Judged

\* An incremental run merges the change file, captures every key the scan has and
\* settles what it sees for the second time.
LEMMA IncrementalUpsertKeepsJudged ==
  ASSUME SeatbeltInv, IInv, Judged, Upsert, run = "incremental"
  PROVE  Judged'
<1> DEFINE rows == IncrementalRows(sourceScan, targetScan, sourceChanges)
<1>1. /\ phase = "idle" /\ sourceChanges # NoScan
      /\ IncrementalUpsert(sourceScan, targetScan, sourceChanges)
      /\ UNCHANGED <<source, slot, run, sourceScan, targetScan, sourceChanges, agreed>>
  BY DEF Upsert, IncrementalUpsert, BeginTransaction, environment, files
<1>2. /\ sourceScan \in SourceScan /\ targetScan \in TargetScan
      /\ sourceChanges \in SourceChanges /\ LatestOnly(sourceChanges)
      /\ LatestContents(sourceChanges, sourceScan)
      /\ \A r \in shadow : Faithful(r) /\ RowConsistent(r)
      /\ shadow \subseteq Row /\ Unique(shadow)
  BY <1>1
  DEF SeatbeltInv, SeatbeltTypeOK, FilesComplete, Judged, RowsFaithful, UniqueInv, IInv, TypeOK
<1>3. phase' = "upserted" /\ shadow' = shadow /\ txShadow' = rows
  BY <1>1 DEF IncrementalUpsert, BeginTransaction
<1>4. \A p \in PK : sourceScan[p] # NULL => sourceChanges[p] # <<>> \/ CapturedIn(shadow, p, sourceScan[p])
  BY <1>1 DEF Judged, ChangesKept
<1>5. \A r \in rows : /\ r.pk \in PK /\ r.source_signature = sourceScan[r.pk]
                     /\ Faithful(r) /\ Honest(r)
  BY <1>2, <1>4, IncrementalRowsFaithful
<1>6. \A p \in PK : sourceScan[p] # NULL => CapturedIn(rows, p, sourceScan[p])
  BY <1>2, <1>4, IncrementalRowsCapture
<1>7. Unique(rows)
  BY <1>2, IncrementalRowsUnique DEF LatestOnly
<1>8. ASSUME NEW new \in rows, agreed[new.pk] > 0,
             SignaturesOf(rows, new.pk) = SignaturesOf(shadow, new.pk), Mismatch(new)
      PROVE  ValidationStatus(new) = StatusError
  <2>1. <<new.source_signature, new.target_signature>> \in SignaturesOf(shadow, new.pk)
    BY <1>8 DEF SignaturesOf
  <2>2. PICK old \in shadow :
          /\ old.pk = new.pk
          /\ <<new.source_signature, new.target_signature>>
               = <<old.source_signature, old.target_signature>>
    BY <2>1 DEF SignaturesOf
  <2>3. Honest(old)
    BY <1>8, <2>2 DEF Judged, RowsHonest
  <2> QED BY <1>2, <1>5, <1>8, <2>2, <2>3, SettledRows
<1> HIDE DEF rows
<1>9. RowsFaithful'
  BY <1>1, <1>3, <1>5, <1>7 DEF Judged, RowsFaithful, UniqueInv
<1>10. RowsOfScan'
  BY <1>1, <1>3, <1>5 DEF RowsOfScan, TableIsScan
<1>11. ChangesKept'
  BY <1>1, <1>3, <1>6 DEF ChangesKept
<1>12. RowsHonest'
  BY <1>1, <1>3, <1>5 DEF Judged, RowsHonest
<1>13. Settled'
  BY <1>1, <1>3, <1>8 DEF Judged, Settled, Settles
<1>14. RunControl' /\ ScanCurrent'
  BY <1>1, <1>3 DEF Judged, RunControl, ScanCurrent
<1> QED BY <1>9, <1>10, <1>11, <1>12, <1>13, <1>14 DEF Judged

\* What was captured in the transaction is captured in the table.
LEMMA CommitKeepsJudged ==
  ASSUME SeatbeltInv, IInv, Judged, CommitRun
  PROVE  Judged'
<1>1. /\ phase = "upserted" /\ phase' = "committed" /\ shadow' = txShadow /\ txShadow' = {}
      /\ UNCHANGED <<source, slot, run, sourceScan, targetScan, sourceChanges>>
  BY DEF CommitRun, Commit, environment, files
<1>2. sourceChanges # NoScan /\ run \in {"initial", "incremental"}
  BY <1>1 DEF Judged, RunControl, SeatbeltInv, SeatbeltTypeOK
<1>3. RowsFaithful'
  BY <1>1 DEF Judged, RowsFaithful, UniqueInv, Unique
<1>4. RowsOfScan'
  BY <1>1 DEF Judged, RowsOfScan, TableIsScan
<1>5. ASSUME NEW p \in PK, source[p] # NULL, slot[p] = <<>>
      PROVE  CapturedIn(txShadow, p, source[p])
  <2>1. source[p] = sourceScan[p]
    BY <1>2, <1>5 DEF Judged, ScanCurrent
  <2>2. CASE run = "incremental"
    BY <1>1, <1>5, <2>1, <2>2 DEF Judged, ChangesKept
  <2>3. CASE run = "initial"
    <3>1. CapturedIn(shadow, p, source[p]) /\ shadow = {}
      BY <1>1, <1>5, <2>3 DEF Judged, ChangesKept, RunControl
    <3> QED BY <3>1 DEF CapturedIn
  <2> QED BY <1>2, <2>2, <2>3
<1>6. ChangesKept'
  BY <1>1, <1>5 DEF ChangesKept
<1>7. ASSUME NEW r \in txShadow, agreed'[r.pk] > 0
      PROVE  run = "incremental" /\ (agreed'[r.pk] = 2 /\ Mismatch(r) => Settles(r))
  <2>1. r.pk \in PK
    BY DEF IInv, TypeOK, Row
  <2>2. agreed'[r.pk] = IF run = "initial" THEN 0
                        ELSE IF /\ agreed[r.pk] > 0
                                /\ SignaturesOf(txShadow, r.pk) = SignaturesOf(shadow, r.pk) THEN 2
                        ELSE 1
    BY <2>1 DEF CommitRun
  <2> QED BY <1>2, <1>7, <2>2 DEF Settles
<1>8. RowsHonest'
  BY <1>1, <1>7 DEF Judged, RowsHonest
<1>9. Settled'
  BY <1>1, <1>7 DEF Judged, Settled
<1>10. RunControl' /\ ScanCurrent'
  BY <1>1, <1>2 DEF Judged, RunControl, ScanCurrent
<1> QED BY <1>3, <1>4, <1>6, <1>8, <1>9, <1>10 DEF Judged

\* A row that is deleted is one the scan did not have.
LEMMA DeleteGoneKeepsJudged ==
  ASSUME IInv, Judged, DeleteGoneRows
  PROVE  Judged'
<1>1. /\ phase = "committed" /\ phase' = "deleted" /\ txShadow' = txShadow
      /\ shadow' = {r \in shadow : ValidationStatus(r) # StatusGone}
      /\ UNCHANGED <<source, slot, run, sourceScan, targetScan, sourceChanges, agreed>>
  BY DEF DeleteGoneRows, DeleteGone, environment, files
<1>2. shadow' \subseteq shadow /\ sourceChanges # NoScan
  BY <1>1 DEF Judged, RunControl
<1>3. RowsFaithful'
  BY <1>1, <1>2 DEF Judged, RowsFaithful, UniqueInv, Unique
<1>4. ASSUME NEW p \in PK, source[p] # NULL, slot[p] = <<>>
      PROVE  CapturedIn(shadow', p, source[p])
  <2>1. source[p] = sourceScan[p]
    BY <1>2, <1>4 DEF Judged, ScanCurrent
  <2>2. CapturedIn(shadow, p, source[p])
    BY <1>1, <1>4 DEF Judged, ChangesKept
  <2>3. ASSUME NEW r \in shadow, r.pk = p PROVE ValidationStatus(r) # StatusGone
    <3>1. r.source_signature # NULL
      BY <1>1, <1>4, <2>1, <2>3 DEF Judged, RowsOfScan, TableIsScan
    <3>2. r.source_operation \in Present
      BY <3>1 DEF IInv, RowConsistent, OperationsAgree
    <3>3. r.source_operation \notin Absent
      BY <3>2 DEF Present, Absent, INSERT, UPDATE, NOOP, DOES_NOT_EXIST, DELETE
    <3> QED
      BY <3>3 DEF ValidationStatus, StatusGone, StatusError, StatusPending, StatusValid
  <2> QED BY <1>1, <2>2, <2>3 DEF CapturedIn
<1>5. ChangesKept'
  BY <1>1, <1>4 DEF ChangesKept
<1>6. RowsHonest' /\ Settled'
  BY <1>1, <1>2 DEF Judged, RowsHonest, Settled
<1> QED
  BY <1>1, <1>2, <1>3, <1>5, <1>6 DEF Judged, RunControl, ScanCurrent, RowsOfScan

\* The end of a run, complete or not: a run that fails after it has consumed
\* changes has committed them, or is an initial load, which consumes none.
LEMMA EndKeepsJudged ==
  ASSUME ~FailedRuns, SeatbeltInv, Judged, FinishRun \/ RunFails
  PROVE  Judged'
<1>1. /\ run' = "none" /\ phase' = "idle"
      /\ sourceScan' = NoScan /\ targetScan' = NoScan /\ sourceChanges' = NoScan
      /\ UNCHANGED <<shadow, source, agreed>> /\ (txShadow' = {} \/ txShadow' = txShadow)
  BY DEF FinishRun, RunFails, ForgetFiles, CalculateMetrics, Abort, environment, vars
<1>2. run # "incremental" \/ phase \in {"committed", "deleted"}
  BY DEF FinishRun, CalculateMetrics, RunFails
<1>3. slot' = slot
  <2>1. CASE FinishRun
    BY <2>1 DEF FinishRun, environment
  <2>2. CASE RunFails
    <3>1. ~(Fetching /\ run = "incremental")
      BY <1>2 DEF Fetching
    <3>2. slot' = [p \in PK |-> slot[p]]
      BY <2>2, <3>1 DEF RunFails
    <3> QED BY <3>2 DEF SeatbeltInv, SeatbeltTypeOK, SourceChanges
  <2> QED BY <2>1, <2>2
<1>4. RowsFaithful'
  BY <1>1, <1>3 DEF Judged, RowsFaithful, UniqueInv, Unique
<1>5. ChangesKept'
  BY <1>1, <1>2, <1>3 DEF Judged, ChangesKept
<1>6. RowsHonest' /\ Settled'
  BY <1>1 DEF Judged, RowsHonest, Settled
<1> QED
  BY <1>1, <1>4, <1>5, <1>6 DEF Judged, RunControl, ScanCurrent, RowsOfScan

LEMMA RunKeepsJudged ==
  ASSUME ~FailedRuns, SeatbeltInv, IInv, Judged, RunNext
  PROVE  Judged'
<1>1. CASE Upsert
  BY <1>1, InitialUpsertKeepsJudged, IncrementalUpsertKeepsJudged DEF Upsert
<1> QED
  BY <1>1, StartRunKeepsJudged, ScansKeepJudged, ConsumeKeepsJudged, CommitKeepsJudged,
     DeleteGoneKeepsJudged, EndKeepsJudged
  DEF RunNext

LEMMA StutterKeepsJudged == Judged /\ UNCHANGED allVars => Judged'
  BY DEF allVars, vars, environment, files, Judged, RunControl, ScanCurrent, RowsFaithful, UniqueInv,
         RowsOfScan, TableIsScan, ChangesKept, RowsHonest, Settled, Settles, SignaturesOf

\* Under still tables and runs that do not fail in between.
THEOREM JudgementInvariant ==
  ASSUME AtomicFetch, ~FailedRuns
  PROVE  SeatbeltSpec => []JudgementInv
<1>1. SeatbeltInv /\ IInv /\ Judged /\ [SeatbeltNext]_allVars => Judged'
  BY TablesKeepJudged, RunKeepsJudged, StutterKeepsJudged DEF SeatbeltNext
<1>2. SeatbeltInv /\ IInv /\ Judged <=> JudgementInv
  BY DEF JudgementInv
<1> QED
  BY <1>1, <1>2, JudgedInit, SeatbeltInvariant, ImplementsShadow, Invariant, PTL DEF SeatbeltSpec

-----------------------------------------------------------------------------
\* A row whose two sides disagree, or that the target has twice, is in error once
\* two incremental runs in a row have seen it so, whatever the pipeline did before,
\* between and after.
THEOREM MismatchSettles ==
  ASSUME AtomicFetch, ~FailedRuns
  PROVE  SeatbeltSpec => []SettledMismatchIsError
<1>1. JudgementInv => SettledMismatchIsError
  BY DEF JudgementInv, Judged, Settled, Mismatch, SettledMismatchIsError
<1> QED BY <1>1, JudgementInvariant, PTL

\* A row that an incremental run calls Valid is the same on both sides, and there
\* once.
THEOREM ValidMeansReplicated ==
  ASSUME AtomicFetch, ~FailedRuns
  PROVE  SeatbeltSpec => []ValidIsReplicated
<1>1. ASSUME JudgementInv, NEW r \in shadow, ValidationStatus(r) = StatusValid, agreed[r.pk] > 0
      PROVE  r.source_signature = r.target_signature /\ r.target_count = 1
  <2>1. r \in Row /\ RowConsistent(r) /\ Faithful(r) /\ Honest(r)
    BY <1>1 DEF JudgementInv, IInv, TypeOK, Judged, RowsFaithful, RowsHonest
  <2> QED BY <1>1, <2>1, ValidRow
<1>2. JudgementInv => ValidIsReplicated
  BY <1>1 DEF ValidIsReplicated, WithStatus
<1> QED BY <1>2, JudgementInvariant, PTL
=============================================================================
