---------------------------- MODULE ShadowProofs ----------------------------
(***************************************************************************)
(* What holds of the shadow table for every set of primary keys and of     *)
(* signatures, for files of any contents, and across any number of runs    *)
(* that complete, fail or die half way.                                    *)
(***************************************************************************)
EXTENDS Shadow, FiniteSetTheorems, TLAPS

(***************************************************************************)
(* The strengthening.  Each row's operations agree with its signatures;    *)
(* the one exception is the row an initial load writes for a target row    *)
(* that has no source row, an INSERT of nothing.                           *)
(***************************************************************************)
Present == {INSERT, UPDATE, NOOP}

PhantomOfInitialLoad(r) ==
  /\ r.source_signature = NULL /\ r.source_operation = INSERT
  /\ r.target_signature # NULL /\ r.target_operation = INSERT
  /\ r.validation_error = FALSE

OperationsAgree(r) ==
  /\ r.source_signature # NULL => r.source_operation \in Present
  /\ r.source_signature = NULL => r.source_operation \in Absent \/ PhantomOfInitialLoad(r)
  /\ r.target_signature # NULL => r.target_operation \in Present
  /\ r.target_signature = NULL => r.target_operation \in Absent

RowConsistent(r) ==
  /\ OperationsAgree(r)
  /\ r.validation_error = TRUE => ~BothAbsent(r)
  /\ r.source_operation = NOOP /\ r.target_operation = DOES_NOT_EXIST => r.validation_error = TRUE

IInv ==
  /\ TypeOK
  /\ \A r \in shadow \union txShadow : RowConsistent(r)
  /\ NoLingeringRow

-----------------------------------------------------------------------------
(***************************************************************************)
(* Rows.                                                                   *)
(***************************************************************************)
\* What the functions of the extension return, by type.
LEMMA OperationType ==
  ASSUME NEW now, NEW before
  PROVE  /\ DetermineSourceOperation(now, before) \in {DOES_NOT_EXIST, NOOP, INSERT, UPDATE, DELETE}
         /\ now # NULL => DetermineSourceOperation(now, before) \in Present
         /\ now = NULL => DetermineSourceOperation(now, before) \in Absent
         /\ DetermineSourceOperation(now, before) = DOES_NOT_EXIST <=> now = NULL /\ before = NULL
         /\ DetermineSourceOperation(now, before) = NOOP => before # NULL
  BY DEF DetermineSourceOperation, Present, Absent, DOES_NOT_EXIST, NOOP, INSERT, UPDATE, DELETE

\* The row an initial load writes is a row of the table, and consistent.
LEMMA InitialRowConsistent ==
  ASSUME NEW p \in PK,
         NEW extract \in Change \union {NoChange},
         NEW target \in {NoTarget} \union
                        [target_signature: TargetSignature, target_count: 1..MaxTargetCount],
         extract # NoChange \/ target # NoTarget
  PROVE  /\ InitialRow(p, extract, target) \in Row
         /\ RowConsistent(InitialRow(p, extract, target))
<1> DEFINE row == InitialRow(p, extract, target)
<1>1. FreshCopy(p) \in Nat
  <2>1. \E c \in 0..MaxCopies : c = MaxCopies \/ \A r \in RowsOf(p) : r.copy # c
    BY ShadowAssumption
  <2>2. FreshCopy(p) \in 0..MaxCopies
    BY <2>1 DEF FreshCopy
  <2> QED BY <2>2, ShadowAssumption
<1>2. row \in Row
  BY <1>1, ShadowAssumption
  DEF InitialRow, Row, OrNull, Change, NoChange, NoTarget, Operation, INSERT, DOES_NOT_EXIST
<1>3. extract = NoChange => target.target_signature # NULL
  BY ShadowAssumption DEF NoTarget
<1>4. extract.source_signature = NULL => extract = NoChange
  BY ShadowAssumption DEF Change
<1>5. RowConsistent(row)
  BY <1>3, <1>4
  DEF InitialRow, RowConsistent, OperationsAgree, PhantomOfInitialLoad, Present, Absent, BothAbsent,
      INSERT, DOES_NOT_EXIST, DELETE, NOOP, UPDATE
<1> QED BY <1>2, <1>5

\* Merging one shadow row, or none, with what the files have for its primary
\* key gives a consistent row.
LEMMA MergedRowConsistent ==
  ASSUME NEW p \in PK,
         NEW old, old = NoRow \/ (old \in Row /\ RowConsistent(old)),
         NEW source \in OrNull(SourceSignature),
         NEW target \in {NoTarget} \union
                        [target_signature: TargetSignature, target_count: 1..MaxTargetCount],
         NEW change \in Change \union {NoChange},
         NEW copy \in Nat
  PROVE  /\ MergedRow(p, old, source, target, change, copy) \in Row
         /\ RowConsistent(MergedRow(p, old, source, target, change, copy))
<1> DEFINE row == MergedRow(p, old, source, target, change, copy)
           sourceOp == DetermineSourceOperation(source, old.source_signature)
           targetOp == DetermineSourceOperation(target.target_signature, old.target_signature)
           incSource == Coalesce(change.source_signature, old.incremental_source_signature)
           incTarget == Coalesce(change.target_signature, old.incremental_target_signature)
           existing == Coalesce(old.validation_error, FALSE)
           verified == VerifyRowIntegrity(incSource, incTarget, source, target.target_signature)
           error == CheckForValidationErrorWithRowIntegrity(
                      sourceOp, old.source_operation, targetOp, old.target_operation,
                      existing, verified)
<1>1. /\ sourceOp \in {DOES_NOT_EXIST, NOOP, INSERT, UPDATE, DELETE}
      /\ targetOp \in {DOES_NOT_EXIST, NOOP, INSERT, UPDATE, DELETE}
      /\ source # NULL => sourceOp \in Present
      /\ source = NULL => sourceOp \in Absent
      /\ target.target_signature # NULL => targetOp \in Present
      /\ target.target_signature = NULL => targetOp \in Absent
  BY OperationType
<1>2. error \in OrNull(BOOLEAN)
  BY DEF CheckForValidationErrorWithRowIntegrity, CheckForValidationErrorInternal, OrNull
<1>3. row \in Row
  <2>1. incSource \in OrNull(SourceSignature) /\ incTarget \in OrNull(TargetSignature)
    BY DEF Coalesce, Change, NoChange, NoRow, Row, OrNull
  <2>2. target.target_signature \in OrNull(TargetSignature) /\ target.target_count \in Nat
    BY ShadowAssumption DEF NoTarget, OrNull
  <2>3. sourceOp \in Operation /\ targetOp \in Operation
    BY <1>1 DEF Operation
  <2> HIDE DEF sourceOp, targetOp, incSource, incTarget, error
  <2>4. [pk |-> p, copy |-> copy, source_signature |-> source,
         target_signature |-> target.target_signature,
         incremental_source_signature |-> incSource,
         incremental_target_signature |-> incTarget,
         source_operation |-> sourceOp, target_operation |-> targetOp,
         validation_error |-> error, target_count |-> target.target_count] \in Row
    BY <2>1, <2>2, <2>3, <1>2 DEF Row
  <2> QED BY <2>4 DEF MergedRow, sourceOp, targetOp, incSource, incTarget, error
<1>4. /\ row.source_signature = source
      /\ row.target_signature = target.target_signature
      /\ row.source_operation = sourceOp
      /\ row.target_operation = targetOp
      /\ row.validation_error = error
  BY DEF MergedRow
<1>5. OperationsAgree(row)
  <2> HIDE DEF row, sourceOp, targetOp, error
  <2> QED BY <1>1, <1>4 DEF OperationsAgree
<1>6. ASSUME error = TRUE, source = NULL, target.target_signature = NULL
      PROVE  FALSE
  <2>1. /\ NULL \notin {sourceOp, old.source_operation, targetOp, old.target_operation}
        /\ CheckForValidationErrorInternal(sourceOp, old.source_operation, targetOp,
                                           old.target_operation, existing, verified)
    BY <1>6, NullAssumption DEF CheckForValidationErrorWithRowIntegrity
  <2>2. old # NoRow
    BY <2>1 DEF NoRow
  <2>3. /\ OperationsAgree(old)
        /\ old.validation_error = TRUE => ~BothAbsent(old)
    BY <2>2 DEF RowConsistent
  <2>4. sourceOp \in Absent /\ targetOp \in Absent
    BY <1>1, <1>6
  <2>5. sourceOp = DOES_NOT_EXIST => old.source_signature = NULL
    BY OperationType
  <2>6. targetOp = DOES_NOT_EXIST => old.target_signature = NULL
    BY OperationType
  <2>7. existing => old.validation_error = TRUE
    BY <2>2, NullAssumption DEF Coalesce, Row, OrNull
  <2> HIDE DEF sourceOp, targetOp, existing, verified
  <2> QED
    BY <2>1, <2>3, <2>4, <2>5, <2>6, <2>7
    DEF CheckForValidationErrorInternal, StalledPropagation, UnreplicatedDelete, MissingInDestination,
        PhantomInDestination, DestinationCorruption, RowCorruption, StickyError,
        OperationsAgree, PhantomOfInitialLoad, BothAbsent, Present, Absent, Quiet,
        DOES_NOT_EXIST, NOOP, INSERT, UPDATE, DELETE
<1>7. ASSUME sourceOp = NOOP, targetOp = DOES_NOT_EXIST
      PROVE  error = TRUE
  <2>1. old.source_signature # NULL
    BY <1>7, OperationType
  <2>2. old # NoRow
    BY <2>1 DEF NoRow
  <2>3. old \in Row /\ OperationsAgree(old)
    BY <2>2 DEF RowConsistent
  <2>4. old.source_operation \in Present
    BY <2>1, <2>3 DEF OperationsAgree
  <2>5. NULL \notin {sourceOp, old.source_operation, targetOp, old.target_operation}
    BY <1>1, <2>3, ShadowAssumption DEF Row, Operation
  <2> HIDE DEF sourceOp, targetOp, existing, verified
  <2> QED
    BY <1>7, <2>4, <2>5
    DEF CheckForValidationErrorWithRowIntegrity, CheckForValidationErrorInternal, MissingInDestination,
        Present, NOOP, INSERT, UPDATE, DOES_NOT_EXIST
<1> QED BY <1>3, <1>4, <1>5, <1>6, <1>7 DEF RowConsistent, BothAbsent

\* What the join brings for a primary key is merged from one of its shadow rows
\* (or none), its scanned signatures and one of its changes (or none).
LEMMA JoinedRowForm ==
  ASSUME NEW p, NEW source, NEW target, NEW changes,
         NEW r \in JoinedRows(p, source, target, changes)
  PROVE  /\ \E old \in (IF RowsOf(p) = {} THEN {NoRow} ELSE RowsOf(p)) :
               \E change, copy : r = MergedRow(p, old, source, target, change, copy)
         /\ r.pk = p
<1>1. PICK old \in (IF RowsOf(p) = {} THEN {NoRow} ELSE RowsOf(p)) :
        \E change, copy : r = MergedRow(p, old, source, target, change, copy)
  BY DEF JoinedRows
<1>2. ASSUME NEW change, NEW copy
      PROVE  MergedRow(p, old, source, target, change, copy).pk = p
  BY DEF MergedRow
<1> QED BY <1>1, <1>2

\* The rows of an incremental run are consistent when those of the table are.
LEMMA IncrementalRowsConsistent ==
  ASSUME shadow \subseteq Row, \A r \in shadow : RowConsistent(r),
         NEW source \in SourceScan, NEW target \in TargetScan, NEW changes \in SourceChanges,
         NEW r \in IncrementalRows(source, target, changes)
  PROVE  r \in Row /\ RowConsistent(r)
<1>1. PICK p \in PK : r \in JoinedRows(p, source[p], target[p], changes[p])
  BY DEF IncrementalRows
<1> DEFINE olds == IF RowsOf(p) = {} THEN {NoRow} ELSE RowsOf(p)
           incs == IF changes[p] = <<>> THEN <<NoChange>> ELSE changes[p]
<1>2. PICK old \in olds, i \in DOMAIN incs :
        r = MergedRow(p, old, source[p], target[p], incs[i], old.copy * Len(incs) + i - 1)
  BY <1>1 DEF JoinedRows
<1>3. old = NoRow \/ (old \in Row /\ RowConsistent(old))
  BY DEF RowsOf
<1>4. PICK n \in 0..MaxChangeRows : changes[p] \in [1..n -> Change]
  BY DEF SourceChanges
<1>5. /\ incs[i] \in Change \union {NoChange}
      /\ i \in Nat \ {0}
      /\ Len(incs) \in Nat
  <2>1. CASE changes[p] = <<>>
    BY <2>1
  <2>2. CASE changes[p] # <<>>
    BY <2>2, <1>4, ShadowAssumption
  <2> QED BY <2>1, <2>2
<1>6. old.copy \in Nat
  BY <1>3 DEF NoRow, Row
<1>7. old.copy * Len(incs) + i - 1 \in Nat
  <2>1. old.copy * Len(incs) \in Nat
    BY <1>5, <1>6
  <2> QED BY <2>1, <1>5
<1> HIDE DEF olds, incs
<1> QED
  BY <1>2, <1>3, <1>5, <1>7, MergedRowConsistent DEF SourceScan, TargetScan

\* So are those of an initial load.
LEMMA InitialRowsConsistent ==
  ASSUME NEW extract \in SourceExtractScan, NEW target \in TargetScan,
         NEW r \in InitialRows(extract, target)
  PROVE  r \in Row /\ RowConsistent(r)
<1>1. PICK p \in PK : /\ extract[p] # NoChange \/ target[p] # NoTarget
                      /\ r = InitialRow(p, extract[p], target[p])
  BY DEF InitialRows
<1> QED BY <1>1, InitialRowConsistent DEF SourceExtractScan, TargetScan

\* Deleting the Gone rows leaves no row that is on neither side, except one
\* whose delete the target has yet to have anything to do with.
LEMMA DeletedRowsLinger ==
  ASSUME NEW r, RowConsistent(r), BothAbsent(r), ValidationStatus(r) # StatusGone
  PROVE  r.source_operation = DELETE /\ r.target_operation = DOES_NOT_EXIST
<1>1. r.validation_error # TRUE
  BY DEF RowConsistent
<1>2. r.source_operation \in Absent /\ r.target_operation \in Absent
  BY DEF RowConsistent, OperationsAgree, PhantomOfInitialLoad, BothAbsent
<1>3. Unreconciled(r)
  BY <1>1, <1>2 DEF ValidationStatus
<1> QED
  BY <1>2, <1>3 DEF Unreconciled, Absent, Quiet, DOES_NOT_EXIST, DELETE, NOOP

-----------------------------------------------------------------------------
(***************************************************************************)
(* The inductive invariant.                                                *)
(***************************************************************************)
\* It holds of a table just created.
LEMMA InitInvariant == Init => IInv
  BY DEF Init, IInv, TypeOK, NoLingeringRow

\* Every statement of UpdateShadow keeps it.
LEMMA NextInvariant == IInv /\ [Next]_vars => IInv'
<1> SUFFICES ASSUME IInv, [Next]_vars PROVE IInv'
  OBVIOUS
<1>0. /\ TypeOK /\ NoLingeringRow
      /\ shadow \subseteq Row /\ txShadow \subseteq Row
      /\ \A r \in shadow \union txShadow : RowConsistent(r)
  BY DEF IInv, TypeOK
<1>1. ASSUME NEW extract \in SourceExtractScan, NEW target \in TargetScan,
             InitialLoadUpsert(extract, target)
      PROVE  IInv'
  <2>1. \A r \in txShadow' : r \in Row /\ RowConsistent(r)
    BY <1>0, <1>1, InitialRowsConsistent DEF InitialLoadUpsert, BeginTransaction
  <2>2. shadow' = shadow /\ phase' = "upserted" /\ metrics' = NoMetrics
    BY <1>1 DEF InitialLoadUpsert, BeginTransaction
  <2> QED BY <2>1, <2>2, <1>0 DEF IInv, TypeOK, NoLingeringRow, RunComplete
<1>2. ASSUME NEW extract \in SourceExtractScan, NEW target \in TargetScan,
             ExplainAnalyzeUpdateShadow(extract, target)
      PROVE  IInv'
  <2>1. \A r \in shadow' : r \in Row /\ RowConsistent(r)
    BY <1>0, <1>2, InitialRowsConsistent DEF ExplainAnalyzeUpdateShadow
  <2>2. txShadow' = txShadow /\ phase = "idle" /\ phase' = phase /\ metrics' = NoMetrics
    BY <1>2 DEF ExplainAnalyzeUpdateShadow
  <2> QED BY <2>1, <2>2, <1>0 DEF IInv, TypeOK, NoLingeringRow, RunComplete
<1>3. ASSUME NEW source \in SourceScan, NEW target \in TargetScan, NEW changes \in SourceChanges,
             IncrementalUpsert(source, target, changes)
      PROVE  IInv'
  <2>1. \A r \in txShadow' : r \in Row /\ RowConsistent(r)
    BY <1>0, <1>3, IncrementalRowsConsistent DEF IncrementalUpsert, BeginTransaction
  <2>2. shadow' = shadow /\ phase' = "upserted" /\ metrics' = NoMetrics
    BY <1>3 DEF IncrementalUpsert, BeginTransaction
  <2> QED BY <2>1, <2>2, <1>0 DEF IInv, TypeOK, NoLingeringRow, RunComplete
<1>4. CASE Commit
  BY <1>0, <1>4 DEF Commit, IInv, TypeOK, NoLingeringRow, RunComplete
<1>5. CASE DeleteGone
  <2>1. shadow' \subseteq shadow /\ txShadow' = txShadow /\ metrics' = metrics
    BY <1>5 DEF DeleteGone
  <2>2. TypeOK'
    BY <1>0, <1>5, <2>1 DEF DeleteGone, TypeOK
  <2>3. \A r \in shadow' : BothAbsent(r) => r.source_operation = DELETE /\ r.target_operation = DOES_NOT_EXIST
    BY <1>0, <1>5, DeletedRowsLinger DEF DeleteGone
  <2> QED BY <1>0, <2>1, <2>2, <2>3 DEF IInv, NoLingeringRow
<1>6. CASE CalculateMetrics
  <2>1. shadow' = shadow /\ txShadow' = txShadow /\ phase = "deleted" /\ phase' = "idle"
    BY <1>6 DEF CalculateMetrics
  <2> QED BY <1>0, <2>1 DEF IInv, TypeOK, NoLingeringRow, RunComplete
<1>7. CASE Abort
  BY <1>0, <1>7 DEF Abort, IInv, TypeOK, NoLingeringRow, RunComplete
<1>8. CASE UNCHANGED vars
  BY <1>0, <1>8 DEF vars, IInv, TypeOK, NoLingeringRow, RunComplete
<1> QED
  BY <1>1, <1>2, <1>3, <1>4, <1>5, <1>6, <1>7, <1>8 DEF Next

\* The rows of the table, committed or not, are consistent after any sequence
\* of statements, failures and restarts.
THEOREM Invariant == Spec => []IInv
<1> QED BY InitInvariant, NextInvariant, PTL DEF Spec

\* The table keeps its type: rows of the columns createShadowTableSQL declares.
THEOREM TypeCorrect == Spec => []TypeOK
<1>1. IInv => TypeOK
  BY DEF IInv
<1> QED BY <1>1, Invariant, PTL

\* An error flag never sits on a row that neither side has (UpdateShadow could
\* then neither clear the error nor delete the row).
THEOREM NoZombies == Spec => []NoZombieError
<1>1. IInv => NoZombieError
  BY DEF IInv, RowConsistent, NoZombieError
<1> QED BY <1>1, Invariant, PTL

\* A run that is through leaves no row deleted on both sides.
THEOREM NothingLingers == Spec => []NoLingeringRow
<1>1. IInv => NoLingeringRow
  BY DEF IInv
<1> QED BY <1>1, Invariant, PTL

\* A row missing from the target in two runs with the source unchanged between
\* them is in error.
THEOREM MissingRowDetected == Spec => []MissingRowIsError
<1>1. IInv => MissingRowIsError
  BY DEF IInv, RowConsistent, MissingRowIsError
<1> QED BY <1>1, Invariant, PTL

-----------------------------------------------------------------------------
(***************************************************************************)
(* The first look at a key makes no error, but for duplicates.             *)
(***************************************************************************)
NotOfOneLook(r) ==
  ValidationStatus(r) = StatusError => RowsOf(r.pk) # {} \/ r.target_count > 1

\* The rows a transaction is about to commit with an error have predecessors.
HistoryInv == phase = "upserted" => \A r \in txShadow : NotOfOneLook(r)

\* The status of a row without a validation error comes from the count only.
LEMMA StatusWithoutError ==
  ASSUME NEW r, r.validation_error # TRUE, ValidationStatus(r) = StatusError
  PROVE  r.target_count > 1
  BY DEF ValidationStatus, StatusError, StatusPending, StatusGone, StatusValid

\* A primary key that was not in the table gets NULL, not TRUE.
LEMMA NewRowHasNoError ==
  ASSUME NEW source \in SourceScan, NEW target \in TargetScan, NEW changes \in SourceChanges,
         NEW r \in IncrementalRows(source, target, changes)
  PROVE  NotOfOneLook(r)
<1>1. PICK p \in PK : r \in JoinedRows(p, source[p], target[p], changes[p])
  BY DEF IncrementalRows
<1>2. r.pk = p
  BY <1>1, JoinedRowForm
<1>3. ASSUME RowsOf(p) = {}
      PROVE  r.validation_error = NULL
  <2>1. PICK change, copy : r = MergedRow(p, NoRow, source[p], target[p], change, copy)
    BY <1>1, <1>3, JoinedRowForm
  <2> QED BY <2>1 DEF MergedRow, NoRow, CheckForValidationErrorWithRowIntegrity
<1> QED
  BY <1>2, <1>3, NullAssumption, StatusWithoutError DEF NotOfOneLook

\* Nor does a row that an initial load writes.
LEMMA LoadedRowHasNoError ==
  ASSUME NEW extract, NEW target, NEW r \in InitialRows(extract, target)
  PROVE  NotOfOneLook(r)
<1>1. r.validation_error = FALSE
  BY DEF InitialRows, InitialRow
<1> QED BY <1>1, StatusWithoutError DEF NotOfOneLook

\* [][...]_vars of the run: the status Error comes on a primary key that the
\* table had before, or that the target has twice.
THEOREM ErrorsHaveHistory == Spec => ErrorNeedsHistory
<1>1. Init => HistoryInv
  BY DEF Init, HistoryInv
<1>2. HistoryInv /\ [Next]_vars => HistoryInv'
  <2> SUFFICES ASSUME HistoryInv, [Next]_vars, phase' = "upserted", NEW r \in txShadow'
               PROVE  NotOfOneLook(r)'
    BY DEF HistoryInv
  <2>1. ASSUME shadow' = shadow, NotOfOneLook(r)
        PROVE  NotOfOneLook(r)'
    BY <2>1 DEF NotOfOneLook, RowsOf
  <2>2. ASSUME NEW q \in shadow
        PROVE  NotOfOneLook(q)
    BY DEF NotOfOneLook, RowsOf
  <2>3. ASSUME NEW extract \in SourceExtractScan, NEW target \in TargetScan,
               InitialLoadUpsert(extract, target)
        PROVE  NotOfOneLook(r)'
    BY <2>1, <2>2, <2>3, LoadedRowHasNoError DEF InitialLoadUpsert, BeginTransaction
  <2>4. ASSUME NEW source \in SourceScan, NEW target \in TargetScan, NEW changes \in SourceChanges,
               IncrementalUpsert(source, target, changes)
        PROVE  NotOfOneLook(r)'
    BY <2>1, <2>4, NewRowHasNoError DEF IncrementalUpsert, BeginTransaction
  <2>5. ASSUME NEW extract \in SourceExtractScan, NEW target \in TargetScan,
               ExplainAnalyzeUpdateShadow(extract, target)
        PROVE  FALSE
    BY <2>5 DEF ExplainAnalyzeUpdateShadow
  <2>6. CASE UNCHANGED vars
    BY <2>1, <2>6 DEF vars, HistoryInv
  <2> QED
    BY <2>3, <2>4, <2>5, <2>6 DEF Next, Commit, DeleteGone, CalculateMetrics, Abort
<1>3. HistoryInv /\ [Next]_vars => [\A r \in shadow' : NotOfOneLook(r)]_vars
  <2> SUFFICES ASSUME HistoryInv, Next, NEW r \in shadow'
               PROVE  NotOfOneLook(r)
    BY DEF vars
  <2>1. ASSUME NEW extract \in SourceExtractScan, NEW target \in TargetScan,
               ExplainAnalyzeUpdateShadow(extract, target), r \notin shadow
        PROVE  NotOfOneLook(r)
    BY <2>1, LoadedRowHasNoError DEF ExplainAnalyzeUpdateShadow
  <2>2. CASE Commit
    BY <2>2 DEF Commit, HistoryInv
  <2>3. CASE r \in shadow
    BY <2>3 DEF NotOfOneLook, RowsOf
  <2> QED
    BY <2>1, <2>2, <2>3
    DEF Next, InitialLoadUpsert, IncrementalUpsert, BeginTransaction, DeleteGone, CalculateMetrics, Abort
<1> QED BY <1>1, <1>2, <1>3, PTL DEF Spec, ErrorNeedsHistory, NotOfOneLook

-----------------------------------------------------------------------------
(***************************************************************************)
(* An error is only taken back by something that happened.                 *)
(***************************************************************************)
Accounted(old, new) ==
  /\ new.pk = old.pk
  /\ \/ new.validation_error = TRUE
     \/ new.source_signature # old.source_signature
     \/ new.target_signature # old.target_signature

StickyInv ==
  phase = "upserted" =>
    \A old \in shadow :
      old.validation_error = TRUE => \E new \in txShadow : Accounted(old, new)

\* Two equal signatures are quiet operations, so rule 7 keeps the error.
LEMMA MergedRowKeepsError ==
  ASSUME NEW p, NEW target, NEW change, NEW copy,
         NEW old \in Row, old.validation_error = TRUE,
         target.target_signature = old.target_signature
  PROVE  MergedRow(p, old, old.source_signature, target, change, copy).validation_error = TRUE
<1> DEFINE sourceOp == DetermineSourceOperation(old.source_signature, old.source_signature)
           targetOp == DetermineSourceOperation(target.target_signature, old.target_signature)
           verified == VerifyRowIntegrity(
                         Coalesce(change.source_signature, old.incremental_source_signature),
                         Coalesce(change.target_signature, old.incremental_target_signature),
                         old.source_signature, target.target_signature)
<1>1. sourceOp \in Quiet /\ targetOp \in Quiet
  BY DEF DetermineSourceOperation, Quiet
<1>2. NULL \notin {sourceOp, old.source_operation, targetOp, old.target_operation}
  BY <1>1, ShadowAssumption DEF Row, Quiet, Operation
<1>3. Coalesce(old.validation_error, FALSE) = TRUE
  BY NullAssumption DEF Coalesce
<1>4. MergedRow(p, old, old.source_signature, target, change, copy).validation_error
        = CheckForValidationErrorWithRowIntegrity(
            sourceOp, old.source_operation, targetOp, old.target_operation, TRUE, verified)
  BY <1>3 DEF MergedRow
<1> HIDE DEF sourceOp, targetOp, verified
<1> QED
  BY <1>1, <1>2, <1>4
  DEF CheckForValidationErrorWithRowIntegrity, CheckForValidationErrorInternal, StickyError

\* Each row of the table has one of an incremental run that is merged from it.
LEMMA RowIsMerged ==
  ASSUME TypeOK, NEW old \in shadow, NEW source, NEW target, NEW changes \in SourceChanges
  PROVE  \E new \in IncrementalRows(source, target, changes) : \E change, copy :
           new = MergedRow(old.pk, old, source[old.pk], target[old.pk], change, copy)
<1> DEFINE p == old.pk
           incs == IF changes[p] = <<>> THEN <<NoChange>> ELSE changes[p]
           new == MergedRow(p, old, source[p], target[p], incs[1], old.copy * Len(incs) + 1 - 1)
<1>1. p \in PK /\ old \in RowsOf(p)
  BY DEF TypeOK, Row, RowsOf
<1>2. PICK n \in 0..MaxChangeRows : changes[p] \in [1..n -> Change]
  BY <1>1 DEF SourceChanges
<1>3. 1 \in DOMAIN incs
  BY <1>2, ShadowAssumption
<1>4. new \in JoinedRows(p, source[p], target[p], changes[p])
  BY <1>1, <1>3 DEF JoinedRows
<1>5. new \in IncrementalRows(source, target, changes)
  BY <1>1, <1>4 DEF IncrementalRows
<1> QED BY <1>5

LEMMA StickyInductive ==
  ASSUME TypeOK, StickyInv, [Next]_vars
  PROVE  StickyInv'
<1>1. ASSUME NEW extract \in SourceExtractScan, NEW target \in TargetScan,
             InitialLoadUpsert(extract, target)
      PROVE  StickyInv'
  BY <1>1 DEF InitialLoadUpsert, BeginTransaction, StickyInv, Accounted
<1>2. ASSUME NEW source \in SourceScan, NEW target \in TargetScan, NEW changes \in SourceChanges,
             IncrementalUpsert(source, target, changes)
      PROVE  StickyInv'
  <2>1. txShadow' = IncrementalRows(source, target, changes) /\ shadow' = shadow
    BY <1>2 DEF IncrementalUpsert, BeginTransaction
  <2>2. ASSUME NEW old \in shadow, old.validation_error = TRUE
        PROVE  \E new \in IncrementalRows(source, target, changes) : Accounted(old, new)
    <3>0. PICK new \in IncrementalRows(source, target, changes) : \E change, copy :
            new = MergedRow(old.pk, old, source[old.pk], target[old.pk], change, copy)
      BY RowIsMerged
    <3>1. PICK change, copy :
            new = MergedRow(old.pk, old, source[old.pk], target[old.pk], change, copy)
      BY <3>0
    <3>2. /\ new.pk = old.pk
          /\ new.source_signature = source[old.pk]
          /\ new.target_signature = target[old.pk].target_signature
      BY <3>1 DEF MergedRow
    <3>3. old \in Row
      BY DEF TypeOK
    <3>4. ASSUME source[old.pk] = old.source_signature,
                 target[old.pk].target_signature = old.target_signature
          PROVE  new.validation_error = TRUE
      BY <2>2, <3>1, <3>3, <3>4, MergedRowKeepsError
    <3> QED BY <3>2, <3>4 DEF Accounted
  <2> QED BY <2>1, <2>2 DEF StickyInv
<1>3. ASSUME NEW extract \in SourceExtractScan, NEW target \in TargetScan,
             ExplainAnalyzeUpdateShadow(extract, target)
      PROVE  StickyInv'
  BY <1>3 DEF ExplainAnalyzeUpdateShadow, StickyInv
<1>4. CASE Commit \/ DeleteGone \/ CalculateMetrics \/ Abort \/ UNCHANGED vars
  BY <1>4 DEF Commit, DeleteGone, CalculateMetrics, Abort, vars, StickyInv
<1> QED BY <1>1, <1>2, <1>3, <1>4 DEF Next

\* [][...]_vars of the run: a commit takes an error back only from a primary key
\* one of whose signatures is not what it was, however many rows it has.
THEOREM ErrorsStick == Spec => ErrorClearsOnChange
<1>1. Init => StickyInv
  BY DEF Init, StickyInv
<1>2. TypeOK /\ StickyInv /\ [Next]_vars => StickyInv'
  BY StickyInductive
<1>3. StickyInv /\ [Next]_vars =>
        [phase = "upserted" /\ phase' = "committed" =>
           \A old \in shadow :
             old.validation_error = TRUE => \E new \in shadow' : Accounted(old, new)]_vars
  <2>1. [Next]_vars /\ phase = "upserted" /\ phase' = "committed" => shadow' = txShadow
    BY DEF Next, InitialLoadUpsert, IncrementalUpsert, BeginTransaction, Commit, DeleteGone,
           CalculateMetrics, Abort, ExplainAnalyzeUpdateShadow, vars
  <2> QED BY <2>1 DEF StickyInv
<1> QED BY <1>1, <1>2, <1>3, TypeCorrect, PTL DEF Spec, ErrorClearsOnChange, Accounted
-----------------------------------------------------------------------------
(***************************************************************************)
(* The table implements Validator, for each of its primary keys.  A look   *)
(* is decided when the rows are merged and takes effect when they are      *)
(* committed, so the invariant says of the rows that wait in between how   *)
(* each compares with the row it will replace.                             *)
(***************************************************************************)
LookOf(r) == [source |-> r.source_signature, target |-> r.target_signature]

SourceSame(old, new) == new.source_signature = old.source_signature

TargetSame(old, new) == new.target_signature = old.target_signature

FirstLook(new) ==
  /\ new.validation_error # TRUE
  /\ new.source_operation \in Quiet => new.source_signature = NULL
  /\ new.target_operation \in Quiet => new.target_signature = NULL

QuietIffSame(old, new) ==
  /\ new.source_operation \in Quiet <=> SourceSame(old, new)
  /\ new.target_operation \in Quiet <=> TargetSame(old, new)

Flagged(old, new) ==
  \/ /\ old.source_signature # NULL /\ new.source_signature # NULL
     /\ TargetSame(old, new) /\ new.target_signature = NULL
  \/ /\ SourceSame(old, new) /\ TargetSame(old, new)
     /\ \/ /\ new.source_signature = NULL /\ new.target_signature # NULL
           /\ old.source_operation \in Quiet
        \/ /\ new.source_signature # NULL
           /\ old.source_operation \notin Quiet /\ old.target_operation \in Quiet
        \/ old.validation_error = TRUE

FlaggedAsCorrupt(old, new) ==
  /\ SourceSame(old, new) /\ new.source_signature # NULL /\ old.source_operation \in Quiet
  /\ ~TargetSame(old, new) /\ old.validation_error # TRUE

Allowed(old, new) ==
  /\ ~BothAbsent(new)
  /\ \/ SourceSame(old, new)
     \/ TargetSame(old, new) /\ (new.target_signature = NULL \/ old.source_signature = NULL)

NextLook(old, new) ==
  /\ QuietIffSame(old, new)
  /\ Flagged(old, new) \/ FlaggedAsCorrupt(old, new) => new.validation_error = TRUE
  /\ new.validation_error = TRUE => Allowed(old, new)

OneIn(table, p) == \A r1, r2 \in table : r1.pk = p /\ r2.pk = p => r1 = r2

\* The rows of a key that has one in the table and one in the transaction.  An
\* initial load leaves the rows that are there as they are.
Looked(table, new) ==
  OneRow(new.pk) /\ OneIn(table, new.pk) =>
    /\ RowsOf(new.pk) = {} => FirstLook(new)
    /\ \A old \in RowsOf(new.pk) : new = old \/ NextLook(old, new)

LookInv ==
  phase = "upserted" =>
    /\ \A new \in txShadow : Looked(txShadow, new)
    /\ \A old \in shadow : \E new \in txShadow : new.pk = old.pk

\* An operation says whether a side moved, and which way.
LEMMA OperationCases ==
  ASSUME NEW now, NEW before
  PROVE  LET op == DetermineSourceOperation(now, before) IN
         /\ op \in Quiet <=> now = before
         /\ op = NOOP <=> now = before /\ now # NULL
         /\ op = DOES_NOT_EXIST <=> now = NULL /\ before = NULL
         /\ op \in {NOOP, UPDATE} <=> now # NULL /\ before # NULL
         /\ op = DELETE <=> now = NULL /\ before # NULL
         /\ op = INSERT <=> now # NULL /\ before = NULL
         /\ op \in {DOES_NOT_EXIST, NOOP, INSERT, UPDATE, DELETE}
  BY DEF DetermineSourceOperation, Quiet, DOES_NOT_EXIST, NOOP, INSERT, UPDATE, DELETE

\* The first row of a primary key has no error: the rules need a history.
LEMMA MergedFirstLook ==
  ASSUME NEW p, NEW source, NEW target, NEW change, NEW copy
  PROVE  FirstLook(MergedRow(p, NoRow, source, target, change, copy))
<1> DEFINE new == MergedRow(p, NoRow, source, target, change, copy)
<1>1. /\ new.source_signature = source
      /\ new.target_signature = target.target_signature
      /\ new.source_operation = DetermineSourceOperation(source, NULL)
      /\ new.target_operation = DetermineSourceOperation(target.target_signature, NULL)
  BY DEF MergedRow, NoRow
<1>2. new.validation_error = NULL
  BY DEF MergedRow, NoRow, CheckForValidationErrorWithRowIntegrity
<1> HIDE DEF new
<1>3. /\ new.source_operation \in Quiet => source = NULL
      /\ new.target_operation \in Quiet => target.target_signature = NULL
  BY <1>1, OperationCases
<1>4. FirstLook(new)
  BY <1>1, <1>2, <1>3, NullAssumption DEF FirstLook
<1> QED BY <1>4 DEF new

\* The rules on the row that is there, in the terms of Validator.
LEMMA MergedNextLook ==
  ASSUME NEW p, NEW source, NEW target, NEW change, NEW copy,
         NEW old \in Row, RowConsistent(old),
         RowConsistent(MergedRow(p, old, source, target, change, copy))
  PROVE  NextLook(old, MergedRow(p, old, source, target, change, copy))
<1> DEFINE new == MergedRow(p, old, source, target, change, copy)
           error == Coalesce(old.validation_error, FALSE)
           verified == VerifyRowIntegrity(
                         Coalesce(change.source_signature, old.incremental_source_signature),
                         Coalesce(change.target_signature, old.incremental_target_signature),
                         source, target.target_signature)
<1>1. /\ new.source_signature = source
      /\ new.target_signature = target.target_signature
      /\ new.source_operation = DetermineSourceOperation(source, old.source_signature)
      /\ new.target_operation
           = DetermineSourceOperation(target.target_signature, old.target_signature)
  BY DEF MergedRow
<1>2. new.validation_error
        = CheckForValidationErrorWithRowIntegrity(
            new.source_operation, old.source_operation,
            new.target_operation, old.target_operation, error, verified)
  BY DEF MergedRow
<1>0. RowConsistent(new)
  OBVIOUS
<1>3. /\ error \in BOOLEAN
      /\ error <=> old.validation_error = TRUE
  BY NullAssumption DEF Row, OrNull, Coalesce
<1>4. verified \in BOOLEAN
  BY DEF VerifyRowIntegrity
<1> HIDE DEF new, error, verified
<1>5. QuietIffSame(old, new)
  BY <1>1, OperationCases DEF QuietIffSame, SourceSame, TargetSame
<1>6. /\ new.source_operation = NOOP <=> SourceSame(old, new) /\ new.source_signature # NULL
      /\ new.source_operation = DOES_NOT_EXIST
           <=> SourceSame(old, new) /\ new.source_signature = NULL
      /\ new.source_operation \in {NOOP, UPDATE}
           <=> new.source_signature # NULL /\ old.source_signature # NULL
      /\ new.target_operation = NOOP <=> TargetSame(old, new) /\ new.target_signature # NULL
      /\ new.target_operation = DOES_NOT_EXIST
           <=> TargetSame(old, new) /\ new.target_signature = NULL
  BY <1>1, OperationCases DEF SourceSame, TargetSame
<1>7. /\ old.source_signature # NULL => old.source_operation \in {INSERT, UPDATE, NOOP}
      /\ old.source_signature = NULL
           => old.source_operation \in {DOES_NOT_EXIST, DELETE, INSERT}
  BY DEF RowConsistent, OperationsAgree, PhantomOfInitialLoad, Present, Absent
<1>8. NULL \notin {new.source_operation, old.source_operation,
                   new.target_operation, old.target_operation}
  BY <1>1, OperationCases, ShadowAssumption DEF Row, Operation
<1>9. new.validation_error
        = CheckForValidationErrorInternal(
            new.source_operation, old.source_operation,
            new.target_operation, old.target_operation, error, verified)
  BY <1>2, <1>8 DEF CheckForValidationErrorWithRowIntegrity
<1>10. ASSUME Flagged(old, new) \/ FlaggedAsCorrupt(old, new)
       PROVE  new.validation_error = TRUE
  <2>1. CASE /\ old.source_signature # NULL /\ new.source_signature # NULL
             /\ TargetSame(old, new) /\ new.target_signature = NULL
    <3>1. MissingInDestination(new.source_operation, old.source_operation, new.target_operation)
      BY <1>6, <1>7, <2>1 DEF MissingInDestination
    <3> QED BY <1>9, <3>1 DEF CheckForValidationErrorInternal
  <2>2. CASE /\ SourceSame(old, new) /\ TargetSame(old, new)
             /\ new.source_signature = NULL /\ new.target_signature # NULL
             /\ old.source_operation \in Quiet
    <3>1. PhantomInDestination(new.source_operation, old.source_operation, new.target_operation)
      BY <1>6, <1>7, <2>2
      DEF PhantomInDestination, SourceSame, Quiet, DOES_NOT_EXIST, NOOP, INSERT, DELETE
    <3> QED BY <1>9, <3>1 DEF CheckForValidationErrorInternal
  <2>3. CASE /\ SourceSame(old, new) /\ TargetSame(old, new)
             /\ new.source_signature # NULL
             /\ old.source_operation \notin Quiet /\ old.target_operation \in Quiet
    <3>1. StalledPropagation(new.source_operation, old.source_operation,
                             new.target_operation, old.target_operation)
      BY <1>5, <1>7, <2>3
      DEF StalledPropagation, QuietIffSame, SourceSame, Quiet, NOOP, INSERT, UPDATE, DELETE
    <3> QED BY <1>9, <3>1 DEF CheckForValidationErrorInternal
  <2>4. CASE SourceSame(old, new) /\ TargetSame(old, new) /\ old.validation_error = TRUE
    <3>1. StickyError(new.source_operation, new.target_operation, error)
      BY <1>3, <1>5, <2>4 DEF StickyError, QuietIffSame
    <3> QED BY <1>9, <3>1 DEF CheckForValidationErrorInternal
  <2>5. CASE FlaggedAsCorrupt(old, new)
    <3>1. DestinationCorruption(new.source_operation, old.source_operation,
                                new.target_operation, error)
      BY <1>3, <1>6, <1>7, <2>5
      DEF DestinationCorruption, FlaggedAsCorrupt, SourceSame, Quiet,
          DOES_NOT_EXIST, NOOP, INSERT, UPDATE
    <3> QED BY <1>9, <3>1 DEF CheckForValidationErrorInternal
  <2> QED BY <1>10, <2>1, <2>2, <2>3, <2>4, <2>5 DEF Flagged
<1>11. ASSUME new.validation_error = TRUE
       PROVE  Allowed(old, new)
  <2>1. ~BothAbsent(new)
    BY <1>0, <1>11 DEF RowConsistent
  <2>2. \/ SourceSame(old, new)
        \/ TargetSame(old, new) /\ (new.target_signature = NULL \/ old.source_signature = NULL)
    <3>1. CASE \/ StalledPropagation(new.source_operation, old.source_operation,
                                     new.target_operation, old.target_operation)
               \/ RowCorruption(new.source_operation, verified)
               \/ DestinationCorruption(new.source_operation, old.source_operation,
                                        new.target_operation, error)
               \/ PhantomInDestination(new.source_operation, old.source_operation,
                                       new.target_operation)
               \/ StickyError(new.source_operation, new.target_operation, error)
      <4>1. new.source_operation \in Quiet
        BY <3>1
        DEF StalledPropagation, RowCorruption, DestinationCorruption, PhantomInDestination,
            StickyError, Quiet
      <4> QED BY <4>1, <1>5 DEF QuietIffSame
    <3>2. CASE UnreplicatedDelete(old.source_operation, new.target_operation)
      BY <3>2, <1>6, <1>7 DEF UnreplicatedDelete, DELETE, NOOP, INSERT, UPDATE
    <3>3. CASE MissingInDestination(new.source_operation, old.source_operation,
                                    new.target_operation)
      BY <3>3, <1>6 DEF MissingInDestination
    <3> QED BY <1>9, <1>11, <3>1, <3>2, <3>3 DEF CheckForValidationErrorInternal
  <2> QED BY <2>1, <2>2 DEF Allowed
<1> QED BY <1>5, <1>10, <1>11 DEF NextLook, new

\* The first row that an initial load writes for a key has no error.
LEMMA InitialFirstLook ==
  ASSUME NEW extract, NEW target, NEW new \in InitialRows(extract, target)
  PROVE  FirstLook(new)
<1>1. PICK p \in PK : new = InitialRow(p, extract[p], target[p])
  BY DEF InitialRows
<1> QED
  BY <1>1 DEF InitialRow, FirstLook, Quiet, INSERT, NOOP, DOES_NOT_EXIST

\* The rows a transaction writes are looks: the first at a key the table does
\* not have, the next at one it has.  Every key it has is looked at.
LEMMA LookInductive ==
  ASSUME IInv, LookInv, [Next]_vars
  PROVE  LookInv'
<1>1. ASSUME NEW extract \in SourceExtractScan, NEW target \in TargetScan,
             InitialLoadUpsert(extract, target)
      PROVE  LookInv'
  <2>1. txShadow' = shadow \union InitialRows(extract, target) /\ shadow' = shadow
    BY <1>1 DEF InitialLoadUpsert, BeginTransaction
  <2>2. ASSUME NEW new \in txShadow'
        PROVE  Looked(txShadow', new)
    <3>1. CASE RowsOf(new.pk) = {}
      <4>1. new \in InitialRows(extract, target)
        BY <2>1, <3>1 DEF RowsOf
      <4> QED BY <3>1, <4>1, InitialFirstLook DEF Looked
    <3>2. CASE RowsOf(new.pk) # {}
      <4>1. RowsOf(new.pk) \subseteq txShadow' /\ \A old \in RowsOf(new.pk) : old.pk = new.pk
        BY <2>1 DEF RowsOf
      <4> QED BY <3>2, <4>1 DEF Looked, OneIn
    <3> QED BY <3>1, <3>2
  <2>3. ASSUME NEW new \in txShadow'
        PROVE  Looked(txShadow, new)'
    BY <2>1, <2>2 DEF Looked, OneIn, OneRow, RowsOf
  <2>4. \A old \in shadow' : \E new \in txShadow' : new.pk = old.pk
    BY <2>1
  <2> QED BY <2>3, <2>4 DEF LookInv
<1>2. ASSUME NEW source \in SourceScan, NEW target \in TargetScan, NEW changes \in SourceChanges,
             IncrementalUpsert(source, target, changes)
      PROVE  LookInv'
  <2>1. txShadow' = IncrementalRows(source, target, changes) /\ shadow' = shadow
    BY <1>2 DEF IncrementalUpsert, BeginTransaction
  <2>2. ASSUME NEW new \in IncrementalRows(source, target, changes), RowsOf(new.pk) = {}
        PROVE  FirstLook(new)
    <3>1. PICK p \in PK : new \in JoinedRows(p, source[p], target[p], changes[p])
      BY <2>2 DEF IncrementalRows
    <3>2. new.pk = p
      BY <3>1, JoinedRowForm
    <3>3. \E change, copy : new = MergedRow(p, NoRow, source[p], target[p], change, copy)
      BY <2>2, <3>1, <3>2, JoinedRowForm
    <3> QED BY <3>3, MergedFirstLook
  <2>3. ASSUME NEW new \in IncrementalRows(source, target, changes),
               OneIn(IncrementalRows(source, target, changes), new.pk),
               NEW old \in RowsOf(new.pk)
        PROVE  NextLook(old, new)
    <3>1. old \in shadow /\ old.pk = new.pk
      BY DEF RowsOf
    <3>2. PICK merged \in IncrementalRows(source, target, changes) : \E change, copy :
            merged = MergedRow(new.pk, old, source[new.pk], target[new.pk], change, copy)
      BY <3>1, RowIsMerged DEF IInv
    <3>3. PICK change, copy :
            merged = MergedRow(new.pk, old, source[new.pk], target[new.pk], change, copy)
      BY <3>2
    <3>4. new = merged
      <4>1. merged.pk = new.pk
        BY <3>3 DEF MergedRow
      <4> QED BY <2>3, <4>1 DEF OneIn
    <3>5. old \in Row /\ RowConsistent(old)
      BY <3>1 DEF IInv, TypeOK
    <3>6. RowConsistent(new)
      BY <2>3, IncrementalRowsConsistent DEF IInv, TypeOK
    <3> QED BY <3>3, <3>4, <3>5, <3>6, MergedNextLook
  <2>4. ASSUME NEW new \in txShadow'
        PROVE  Looked(txShadow', new)
    BY <2>1, <2>2, <2>3 DEF Looked
  <2>5. ASSUME NEW new \in txShadow'
        PROVE  Looked(txShadow, new)'
    BY <2>1, <2>4 DEF Looked, OneIn, OneRow, RowsOf
  <2>6. ASSUME NEW old \in shadow
        PROVE  \E new \in IncrementalRows(source, target, changes) : new.pk = old.pk
    <3>1. PICK new \in IncrementalRows(source, target, changes) : \E change, copy :
            new = MergedRow(old.pk, old, source[old.pk], target[old.pk], change, copy)
      BY RowIsMerged DEF IInv
    <3>2. new.pk = old.pk
      BY <3>1 DEF MergedRow
    <3> QED BY <3>2
  <2> QED BY <2>1, <2>5, <2>6 DEF LookInv
<1>3. ASSUME NEW extract \in SourceExtractScan, NEW target \in TargetScan,
             ExplainAnalyzeUpdateShadow(extract, target)
      PROVE  LookInv'
  BY <1>3 DEF ExplainAnalyzeUpdateShadow, LookInv
<1>4. CASE Commit \/ DeleteGone \/ CalculateMetrics \/ Abort
  BY <1>4 DEF Commit, DeleteGone, CalculateMetrics, Abort, LookInv
<1>5. CASE UNCHANGED vars
  BY <1>5 DEF vars, LookInv, Looked, OneIn, OneRow, RowsOf
<1> QED BY <1>1, <1>2, <1>3, <1>4, <1>5 DEF Next

\* What a key with one row, or none, is in Validator, before a step and after.
KeyIs(p, known, seen, still, error) ==
  /\ (RowsOf(p) # {}) = known
  /\ LastLook(p) = seen
  /\ QuietSides(p) = still
  /\ (\E r \in RowsOf(p) : r.validation_error = TRUE) = error

QuietOf(r) == {side \in {"source", "target"} : OperationOn(side, r) \in Quiet}

LEMMA KeyOfOneRow ==
  ASSUME NEW p, NEW r, RowsOf(p) = {r}
  PROVE  KeyIs(p, TRUE, LookOf(r), QuietOf(r), r.validation_error = TRUE)
<1>1. RowOf(p) = r
  BY DEF RowOf
<1> QED BY <1>1 DEF KeyIs, LastLook, LookOf, QuietSides, QuietOf

LEMMA KeyOfOneRowNext ==
  ASSUME NEW p, NEW r, RowsOf(p)' = {r}
  PROVE  KeyIs(p, TRUE, LookOf(r), QuietOf(r), r.validation_error = TRUE)'
<1>1. RowOf(p)' = r
  BY DEF RowOf
<1> QED BY <1>1 DEF KeyIs, LastLook, LookOf, QuietSides, QuietOf

LEMMA KeyOfNoRow ==
  ASSUME NEW p, RowsOf(p) = {}
  PROVE  KeyIs(p, FALSE, OfKey(p)!Nothing, OfKey(p)!Side, FALSE)
  BY DEF KeyIs, LastLook, QuietSides, OfKey!Nothing, OfKey!Side

LEMMA KeyOfNoRowNext ==
  ASSUME NEW p, RowsOf(p)' = {}
  PROVE  KeyIs(p, FALSE, OfKey(p)!Nothing, OfKey(p)!Side, FALSE)'
  BY DEF KeyIs, LastLook, QuietSides, OfKey!Nothing, OfKey!Side

\* A first row is an observation of Validator.
LEMMA FirstLookObserves ==
  ASSUME NEW p, NEW new \in Row, RowsOf(p) = {}, RowsOf(p)' = {new}, FirstLook(new)
  PROVE  OfKey(p)!ValidatorNext
<1>1. KeyIs(p, FALSE, OfKey(p)!Nothing, OfKey(p)!Side, FALSE)
  BY KeyOfNoRow
<1>2. KeyIs(p, TRUE, LookOf(new), QuietOf(new), new.validation_error = TRUE)'
  BY KeyOfOneRowNext
<1>3. LookOf(new) \in OfKey(p)!Look
  BY DEF LookOf, OfKey!Look, Row, OrNull
<1>4. QuietOf(new) \subseteq {side \in OfKey(p)!Side : OfKey(p)!Nothing[side] = LookOf(new)[side]}
  BY DEF QuietOf, OperationOn, LookOf, OfKey!Side, OfKey!Nothing, FirstLook
<1>5. OfKey(p)!Observe(LookOf(new))
  BY <1>1, <1>2, <1>4
  DEF KeyIs, FirstLook, OfKey!Observe, OfKey!MustBeError, OfKey!Same
<1> QED BY <1>3, <1>5 DEF OfKey!ValidatorNext

\* So is the row that replaces the one there was.
LEMMA NextLookObserves ==
  ASSUME NEW p, NEW old, NEW new \in Row,
         RowsOf(p) = {old}, RowsOf(p)' = {new}, NextLook(old, new)
  PROVE  OfKey(p)!ValidatorNext
<1> DEFINE look == LookOf(new)
<1>1. KeyIs(p, TRUE, LookOf(old), QuietOf(old), old.validation_error = TRUE)
  BY KeyOfOneRow
<1>2. KeyIs(p, TRUE, look, QuietOf(new), new.validation_error = TRUE)'
  BY KeyOfOneRowNext
<1>3. look \in OfKey(p)!Look
  BY DEF LookOf, OfKey!Look, Row, OrNull
<1>4. /\ OfKey(p)!Same("source", look) <=> SourceSame(old, new)
      /\ OfKey(p)!Same("target", look) <=> TargetSame(old, new)
      /\ look = LastLook(p) <=> SourceSame(old, new) /\ TargetSame(old, new)
      /\ look = OfKey(p)!Nothing <=> BothAbsent(new)
  BY <1>1
  DEF KeyIs, LookOf, OfKey!Same, OfKey!Nothing, SourceSame, TargetSame, BothAbsent
<1>5. QuietOf(new) = {side \in OfKey(p)!Side : OfKey(p)!Same(side, look)}
  BY <1>4 DEF QuietOf, OperationOn, OfKey!Side, NextLook, QuietIffSame
<1>6. /\ "source" \in QuietSides(p) <=> old.source_operation \in Quiet
      /\ "target" \in QuietSides(p) <=> old.target_operation \in Quiet
  BY <1>1 DEF KeyIs, QuietOf, OperationOn
<1>7. /\ look.source = new.source_signature /\ look.target = new.target_signature
      /\ LastLook(p).source = old.source_signature
      /\ LastLook(p).target = old.target_signature
  BY <1>1 DEF KeyIs, LookOf
<1> HIDE DEF look
<1>8. ASSUME OfKey(p)!MustBeError(look)
      PROVE  new.validation_error = TRUE
  <2>1. Flagged(old, new) \/ FlaggedAsCorrupt(old, new)
    BY <1>1, <1>4, <1>6, <1>7, <1>8
    DEF KeyIs, Flagged, FlaggedAsCorrupt, TargetSame, OfKey!MustBeError, OfKey!Missing, OfKey!Phantom,
        OfKey!Stalled, OfKey!Corrupted
  <2> QED BY <2>1 DEF NextLook
<1>9. ASSUME new.validation_error = TRUE
      PROVE  OfKey(p)!MayBeError(look)
  <2>1. Allowed(old, new)
    BY <1>9 DEF NextLook
  <2> QED BY <2>1, <1>1, <1>4, <1>7 DEF KeyIs, Allowed, OfKey!MayBeError
<1>10. OfKey(p)!Observe(look)
  BY <1>1, <1>2, <1>5, <1>8, <1>9 DEF KeyIs, OfKey!Observe
<1> QED BY <1>3, <1>10 DEF OfKey!ValidatorNext

\* A row is only deleted when there is nothing left to say about its key.
LEMMA GoneIsForgotten ==
  ASSUME NEW p, NEW old, RowConsistent(old), RowsOf(p) = {old}, RowsOf(p)' = {},
         ValidationStatus(old) = StatusGone
  PROVE  OfKey(p)!ValidatorNext
<1>1. /\ old.validation_error # TRUE
      /\ old.source_operation \in Absent /\ old.target_operation \in Absent
  BY DEF ValidationStatus, StatusGone, StatusError, StatusPending, StatusValid
<1>2. BothAbsent(old)
  BY <1>1
  DEF RowConsistent, OperationsAgree, Present, Absent, BothAbsent,
      DOES_NOT_EXIST, DELETE, INSERT, UPDATE, NOOP
<1>3. KeyIs(p, TRUE, LookOf(old), QuietOf(old), old.validation_error = TRUE)
  BY KeyOfOneRow
<1>4. KeyIs(p, FALSE, OfKey(p)!Nothing, OfKey(p)!Side, FALSE)'
  BY KeyOfNoRowNext
<1>5. LookOf(old) = OfKey(p)!Nothing
  BY <1>2 DEF LookOf, BothAbsent, OfKey!Nothing
<1>6. OfKey(p)!Forget
  BY <1>1, <1>3, <1>4, <1>5 DEF KeyIs, OfKey!Forget
<1> QED BY <1>6 DEF OfKey!ValidatorNext

\* A step that leaves the rows of a key alone is no step of Validator for it.
LEMMA SameKey ==
  ASSUME NEW p, RowsOf(p)' = RowsOf(p)
  PROVE  UNCHANGED OfKey(p)!validator
  BY DEF OfKey!validator, LastLook, QuietSides, RowOf

\* Every statement is a step of Validator, or none, for each primary key that
\* has no more than one row on either side of it.
LEMMA KeySteps ==
  ASSUME IInv, LookInv, [Next]_vars, NEW p \in PK, OneRow(p), OneRow(p)'
  PROVE  OfKey(p)!ValidatorNext \/ UNCHANGED OfKey(p)!validator
<1>1. ASSUME NEW extract \in SourceExtractScan, NEW target \in TargetScan,
             ExplainAnalyzeUpdateShadow(extract, target)
      PROVE  OfKey(p)!ValidatorNext \/ UNCHANGED OfKey(p)!validator
  <2>1. shadow' = shadow \union InitialRows(extract, target)
    BY <1>1 DEF ExplainAnalyzeUpdateShadow
  <2>2. CASE RowsOf(p)' = RowsOf(p)
    BY <2>2, SameKey
  <2>3. CASE RowsOf(p)' # RowsOf(p)
    <3>1. RowsOf(p) \subseteq RowsOf(p)'
      BY <2>1 DEF RowsOf
    <3>2. RowsOf(p) = {}
      BY <2>3, <3>1 DEF OneRow
    <3>3. PICK new \in InitialRows(extract, target) : RowsOf(p)' = {new}
      BY <2>1, <2>3, <3>2 DEF OneRow, RowsOf
    <3>4. new \in Row
      BY InitialRowsConsistent
    <3> QED BY <3>2, <3>3, <3>4, InitialFirstLook, FirstLookObserves
  <2> QED BY <2>2, <2>3
<1>2. CASE Commit
  <2>1. /\ shadow' = txShadow /\ txShadow \subseteq Row
        /\ \A new \in txShadow : Looked(txShadow, new)
        /\ \A old \in shadow : \E new \in txShadow : new.pk = old.pk
    BY <1>2 DEF Commit, LookInv, IInv, TypeOK
  <2>2. CASE RowsOf(p)' = RowsOf(p)
    BY <2>2, SameKey
  <2>3. CASE RowsOf(p)' # RowsOf(p)
    <3>1. RowsOf(p)' # {}
      BY <2>1, <2>3 DEF RowsOf
    <3>2. PICK new \in txShadow : new.pk = p /\ RowsOf(p)' = {new}
      BY <2>1, <3>1 DEF RowsOf, OneRow
    <3>3. OneIn(txShadow, p)
      BY <2>1 DEF OneIn, OneRow, RowsOf
    <3>4. CASE RowsOf(p) = {}
      <4>1. FirstLook(new)
        BY <2>1, <3>2, <3>3, <3>4 DEF Looked
      <4> QED BY <2>1, <3>2, <3>4, <4>1, FirstLookObserves
    <3>5. CASE RowsOf(p) # {}
      <4>1. PICK old \in RowsOf(p) : RowsOf(p) = {old}
        BY <3>5 DEF OneRow
      <4>2. new # old
        BY <2>3, <3>2, <4>1
      <4>3. NextLook(old, new)
        BY <2>1, <3>2, <3>3, <4>1, <4>2 DEF Looked
      <4> QED BY <2>1, <3>2, <4>1, <4>3, NextLookObserves
    <3> QED BY <3>4, <3>5
  <2> QED BY <2>2, <2>3
<1>3. CASE DeleteGone
  <2>1. shadow' = {r \in shadow : ValidationStatus(r) # StatusGone}
    BY <1>3 DEF DeleteGone
  <2>2. CASE RowsOf(p)' = RowsOf(p)
    BY <2>2, SameKey
  <2>3. CASE RowsOf(p)' # RowsOf(p)
    <3>1. PICK old \in shadow : old.pk = p /\ ValidationStatus(old) = StatusGone
      BY <2>1, <2>3 DEF RowsOf
    <3>2. RowsOf(p) = {old}
      BY <3>1 DEF RowsOf, OneRow
    <3>3. RowsOf(p)' = {}
      BY <2>1, <3>1, <3>2 DEF RowsOf
    <3>4. RowConsistent(old)
      BY <3>1 DEF IInv
    <3> QED BY <3>1, <3>2, <3>3, <3>4, GoneIsForgotten
  <2> QED BY <2>2, <2>3
<1>4. CASE shadow' = shadow
  <2>1. RowsOf(p)' = RowsOf(p)
    BY <1>4 DEF RowsOf
  <2> QED BY <2>1, SameKey
<1> QED
  BY <1>1, <1>2, <1>3, <1>4
  DEF Next, InitialLoadUpsert, IncrementalUpsert, BeginTransaction, CalculateMetrics, Abort, vars

\* The refinement the run checks: for every set of primary keys, each of them is
\* validated as Validator has it while it has one row.
THEOREM ImplementsValidator == Spec => EachKeyValidated
<1>1. ASSUME Init, NEW p \in PK
      PROVE  OfKey(p)!ValidatorInit
  <2>1. RowsOf(p) = {}
    BY <1>1 DEF Init, RowsOf
  <2> QED
    BY <2>1, KeyOfNoRow DEF KeyIs, OfKey!ValidatorInit
<1>2. Init => LookInv
  BY DEF Init, LookInv
<1>3. IInv /\ LookInv /\ [Next]_vars => LookInv'
  BY LookInductive
<1>4. IInv /\ LookInv /\ [Next]_vars =>
        [\A p \in PK :
           OneRow(p) /\ OneRow(p)' =>
             OfKey(p)!ValidatorNext \/ UNCHANGED OfKey(p)!validator]_vars
  BY KeySteps
<1>5. Init => \A p \in PK : OfKey(p)!ValidatorInit
  BY <1>1
<1> QED BY <1>2, <1>3, <1>4, <1>5, Invariant, PTL DEF Spec, EachKeyValidated

-----------------------------------------------------------------------------
(***************************************************************************)
(* The counts UpdateShadow prints account for every row of the table,      *)
(* whatever the table was and whichever statements failed before.          *)
(*                                                                         *)
(* A count only means something if the table is finite, and the model's    *)
(* rows are not bounded by their type.  So the table is shown to stay      *)
(* finite first: a run adds, for each primary key, no more rows than it    *)
(* has shadow rows times change rows.                                      *)
(***************************************************************************)
\* An initial load writes at most one row for a primary key.
LEMMA InitialRowsFinite ==
  ASSUME IsFiniteSet(PK), NEW extract, NEW target
  PROVE  IsFiniteSet(InitialRows(extract, target))
<1> DEFINE loaded == {q \in PK : extract[q] # NoChange \/ target[q] # NoTarget}
           f == [p \in loaded |-> InitialRow(p, extract[p], target[p])]
<1>1. IsFiniteSet(loaded)
  BY FS_Subset
<1>2. InitialRows(extract, target) = {f[p] : p \in loaded}
  BY DEF InitialRows
<1> HIDE DEF loaded
<1>3. f \in Surjection(loaded, {f[p] : p \in loaded})
  BY DEF Surjection
<1> QED BY <1>1, <1>2, <1>3, FS_Surjection

\* The join of one primary key has a row for each pair of a shadow row and a
\* change row.
LEMMA JoinedRowsFinite ==
  ASSUME IsFiniteSet(shadow), NEW p \in PK,
         NEW source, NEW target, NEW changes \in UNION {[1..n -> Change] : n \in 0..MaxChangeRows}
  PROVE  IsFiniteSet(JoinedRows(p, source, target, changes))
<1> DEFINE olds == IF RowsOf(p) = {} THEN {NoRow} ELSE RowsOf(p)
           incs == IF changes = <<>> THEN <<NoChange>> ELSE changes
           pairs == olds \X DOMAIN incs
           f == [x \in pairs |->
                   MergedRow(p, x[1], source, target, incs[x[2]], x[1].copy * Len(incs) + x[2] - 1)]
<1>1. IsFiniteSet(olds)
  <2>1. IsFiniteSet(RowsOf(p))
    BY FS_Subset DEF RowsOf
  <2> QED BY <2>1, FS_Singleton
<1>2. IsFiniteSet(DOMAIN incs)
  <2>1. PICK n \in 0..MaxChangeRows : changes \in [1..n -> Change]
    OBVIOUS
  <2>2. DOMAIN changes = 1..n /\ n \in Int
    BY <2>1, ShadowAssumption
  <2>3. DOMAIN <<NoChange>> = {1}
    OBVIOUS
  <2>4. IsFiniteSet(1..n)
    BY <2>2, FS_Interval
  <2>5. IsFiniteSet({1})
    BY FS_Singleton
  <2> QED BY <2>2, <2>3, <2>4, <2>5
<1>3. IsFiniteSet(pairs)
  BY <1>1, <1>2, FS_Product
<1>4. JoinedRows(p, source, target, changes) \subseteq {f[x] : x \in pairs}
  <2> SUFFICES ASSUME NEW r \in JoinedRows(p, source, target, changes)
               PROVE  \E x \in pairs : r = f[x]
    OBVIOUS
  <2>1. PICK old \in olds, i \in DOMAIN incs :
          r = MergedRow(p, old, source, target, incs[i], old.copy * Len(incs) + i - 1)
    BY DEF JoinedRows
  <2>2. <<old, i>> \in pairs /\ r = f[<<old, i>>]
    BY <2>1
  <2> QED BY <2>2
<1> HIDE DEF pairs
<1>5. f \in Surjection(pairs, {f[x] : x \in pairs})
  BY DEF Surjection
<1>6. IsFiniteSet({f[x] : x \in pairs})
  BY <1>3, <1>5, FS_Surjection
<1> QED BY <1>4, <1>6, FS_Subset

\* So an incremental run writes finitely many rows.
LEMMA IncrementalRowsFinite ==
  ASSUME IsFiniteSet(PK), IsFiniteSet(shadow),
         NEW source, NEW target, NEW changes \in SourceChanges
  PROVE  IsFiniteSet(IncrementalRows(source, target, changes))
<1> DEFINE f == [p \in PK |-> JoinedRows(p, source[p], target[p], changes[p])]
           joined == {f[p] : p \in PK}
<1>1. f \in Surjection(PK, joined)
  BY DEF Surjection
<1>2. IsFiniteSet(joined)
  BY <1>1, FS_Surjection
<1>3. \A T \in joined : IsFiniteSet(T)
  <2>1. \A p \in PK : changes[p] \in UNION {[1..n -> Change] : n \in 0..MaxChangeRows}
    BY DEF SourceChanges
  <2> QED BY <2>1, JoinedRowsFinite
<1>4. IncrementalRows(source, target, changes) = UNION joined
  BY DEF IncrementalRows
<1> HIDE DEF joined
<1> QED BY <1>2, <1>3, <1>4, FS_UNION

Finite == IsFiniteSet(shadow) /\ IsFiniteSet(txShadow)

LEMMA FiniteInductive ==
  ASSUME IsFiniteSet(PK), Finite, [Next]_vars
  PROVE  Finite'
<1>1. ASSUME NEW extract \in SourceExtractScan, NEW target \in TargetScan,
             \/ InitialLoadUpsert(extract, target)
             \/ ExplainAnalyzeUpdateShadow(extract, target)
      PROVE  Finite'
  <2>1. IsFiniteSet(shadow \union InitialRows(extract, target))
    BY InitialRowsFinite, FS_Union DEF Finite
  <2> QED
    BY <1>1, <2>1 DEF InitialLoadUpsert, BeginTransaction, ExplainAnalyzeUpdateShadow, Finite
<1>2. ASSUME NEW source \in SourceScan, NEW target \in TargetScan, NEW changes \in SourceChanges,
             IncrementalUpsert(source, target, changes)
      PROVE  Finite'
  <2>1. IsFiniteSet(IncrementalRows(source, target, changes))
    BY IncrementalRowsFinite DEF Finite
  <2> QED BY <1>2, <2>1 DEF IncrementalUpsert, BeginTransaction, Finite
<1>3. CASE Commit \/ Abort
  BY <1>3, FS_EmptySet DEF Commit, Abort, Finite
<1>4. CASE DeleteGone
  <2>1. shadow' \subseteq shadow /\ txShadow' = txShadow
    BY <1>4 DEF DeleteGone
  <2> QED BY <2>1, FS_Subset DEF Finite
<1>5. CASE CalculateMetrics \/ UNCHANGED vars
  BY <1>5 DEF CalculateMetrics, vars, Finite
<1> QED BY <1>1, <1>2, <1>3, <1>4, <1>5 DEF Next

-----------------------------------------------------------------------------
(***************************************************************************)
(* The counts.                                                             *)
(***************************************************************************)
\* Four statuses, and the view gives each row one.
LEMMA StatusOfRow ==
  ASSUME NEW r
  PROVE  ValidationStatus(r) \in {StatusError, StatusPending, StatusGone, StatusValid}
  BY DEF ValidationStatus

\* A finite table without Gone rows is in error, pending or valid, row by row.
LEMMA StatusesPartition ==
  ASSUME IsFiniteSet(shadow), \A r \in shadow : ValidationStatus(r) # StatusGone
  PROVE  Cardinality(shadow) = Cardinality(WithStatus(StatusError))
                                 + Cardinality(WithStatus(StatusPending))
                                 + Cardinality(WithStatus(StatusValid))
<1> DEFINE E == WithStatus(StatusError)
           P == WithStatus(StatusPending)
           V == WithStatus(StatusValid)
<1>1. IsFiniteSet(E) /\ IsFiniteSet(P) /\ IsFiniteSet(V)
  BY FS_Subset DEF WithStatus
<1>2. shadow = (E \union P) \union V
  BY StatusOfRow DEF WithStatus
<1>3. E \cap P = {} /\ (E \union P) \cap V = {}
  BY DEF WithStatus, StatusError, StatusPending, StatusValid
<1> HIDE DEF E, P, V
<1>4. /\ IsFiniteSet(E \union P)
      /\ Cardinality(E \union P) = Cardinality(E) + Cardinality(P) - Cardinality({})
  BY <1>1, <1>3, FS_Union
<1>5. Cardinality((E \union P) \union V) =
        Cardinality(E \union P) + Cardinality(V) - Cardinality({})
  BY <1>1, <1>3, <1>4, FS_Union
<1>6. /\ Cardinality(E) \in Nat /\ Cardinality(P) \in Nat /\ Cardinality(V) \in Nat
      /\ Cardinality({}) = 0
  BY <1>1, FS_CardinalityType, FS_EmptySet
<1>7. Cardinality(shadow) = Cardinality(E) + Cardinality(P) + Cardinality(V)
  BY <1>2, <1>4, <1>5, <1>6
<1> QED BY <1>7 DEF E, P, V

\* Gone rows are deleted before the counts are taken.
GoneDeleted == phase = "deleted" => \A r \in shadow : ValidationStatus(r) # StatusGone

CountInv == Finite /\ GoneDeleted /\ MetricsPartition

LEMMA CountInductive ==
  ASSUME IsFiniteSet(PK), CountInv, [Next]_vars
  PROVE  CountInv'
<1>1. Finite'
  BY FiniteInductive DEF CountInv
<1>2. GoneDeleted'
  BY DEF Next, vars, CountInv, GoneDeleted, InitialLoadUpsert, IncrementalUpsert, BeginTransaction,
         Commit, DeleteGone, CalculateMetrics, Abort, ExplainAnalyzeUpdateShadow
<1>3. MetricsPartition'
  <2>1. CASE CalculateMetrics
    <3>1. metrics'.seatbelt_size = Cardinality(shadow)
      BY <2>1 DEF CalculateMetrics
    <3>2. /\ metrics'.error_count = Cardinality(WithStatus(StatusError))
          /\ metrics'.pending_count = Cardinality(WithStatus(StatusPending))
          /\ metrics'.valid_count = Cardinality(WithStatus(StatusValid))
          /\ metrics'.error_pks = {r.pk : r \in WithStatus(StatusError)}
      BY <2>1 DEF CalculateMetrics
    <3>3. /\ IsFiniteSet(shadow)
          /\ \A r \in shadow : ValidationStatus(r) # StatusGone
      BY <2>1 DEF CalculateMetrics, CountInv, Finite, GoneDeleted
    <3>4. metrics'.seatbelt_size =
            metrics'.error_count + metrics'.pending_count + metrics'.valid_count
      BY <3>1, <3>2, <3>3, StatusesPartition
    <3>5. IsFiniteSet(WithStatus(StatusError))
      BY <3>3, FS_Subset DEF WithStatus
    <3>6. metrics'.error_count = 0 <=> WithStatus(StatusError) = {}
      BY <3>2, <3>5, FS_EmptySet
    <3>7. metrics'.error_pks = {} <=> WithStatus(StatusError) = {}
      BY <3>2
    <3> QED BY <3>4, <3>6, <3>7 DEF MetricsPartition
  <2>2. CASE metrics' = NoMetrics
    BY <2>2 DEF MetricsPartition
  <2>3. CASE metrics' = metrics
    BY <2>3 DEF MetricsPartition, CountInv
  <2> QED
    BY <2>1, <2>2, <2>3
    DEF Next, vars, InitialLoadUpsert, IncrementalUpsert, BeginTransaction, Commit, DeleteGone,
        Abort, ExplainAnalyzeUpdateShadow
<1> QED BY <1>1, <1>2, <1>3 DEF CountInv

\* "seatbelt_size", "error_count", "pending_count" and "valid_count" of
\* calculateMetrics add up after every run, and the keys in error are listed
\* exactly when some are counted, for any finite set of primary keys.
THEOREM CountsAddUp ==
  ASSUME IsFiniteSet(PK)
  PROVE  Spec => []MetricsPartition
<1>1. Init => CountInv
  BY FS_EmptySet DEF Init, CountInv, Finite, GoneDeleted, MetricsPartition
<1>2. CountInv /\ [Next]_vars => CountInv'
  BY CountInductive
<1>3. CountInv => MetricsPartition
  BY DEF CountInv
<1> QED BY <1>1, <1>2, <1>3, PTL DEF Spec
=============================================================================
