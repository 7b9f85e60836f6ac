------------------------------- MODULE Shadow -------------------------------
(***************************************************************************)
(* The shadow table of shadow.go and the one operation on it, UpdateShadow:*)
(* merge the files of a run into the table inside a transaction, delete    *)
(* the rows that are gone on both sides outside of it, count the statuses. *)
(* The statement that fails and the process that dies have one effect, to  *)
(* stop there and roll back an open transaction, and are one action.       *)
(*                                                                         *)
(* The files are inputs, and any contents are allowed: what holds here     *)
(* holds whatever the scans and the change stream bring.                   *)
(*                                                                         *)
(* The table has no key.  It is a set of rows; "copy" tells apart rows     *)
(* that agree in every column of the table and stands for no column.       *)
(***************************************************************************)
EXTENDS ValidationLogic, FiniteSets, Sequences

CONSTANTS
  PK,                 \* primary keys
  SourceSignature,    \* BIGINT hashes of a source row
  TargetSignature,    \* UBIGINT hashes of a target row
  MaxTargetCount,     \* what target_count UTINYINT can hold (255 in the code)
  MaxChangeRows,      \* rows of the change file for one primary key
  MaxCopies,          \* bound of the model on the copies of one primary key
  Reload              \* may an initial load run on a table that has rows?

ASSUME ShadowAssumption ==
  /\ NULL \notin SourceSignature \union TargetSignature \union Operation
  /\ MaxTargetCount \in Nat \ {0}
  /\ MaxChangeRows \in Nat
  /\ MaxCopies \in Nat \ {0}
  /\ Reload \in BOOLEAN

VARIABLES
  shadow,     \* the committed table
  txShadow,   \* the table as the open transaction sees it
  phase,      \* the last statement UpdateShadow completed
  metrics     \* what the last completed run printed, NULL before that

vars == <<shadow, txShadow, phase, metrics>>

OrNull(S) == S \union {NULL}

Row == [pk: PK, copy: Nat,
        source_signature: OrNull(SourceSignature),
        target_signature: OrNull(TargetSignature),
        incremental_source_signature: OrNull(SourceSignature),
        incremental_target_signature: OrNull(TargetSignature),
        source_operation: Operation,
        target_operation: Operation,
        validation_error: OrNull(BOOLEAN),
        target_count: Nat]

RowsOf(p) == {r \in shadow : r.pk = p}

(***************************************************************************)
(* The files.  A target file is what target_dupes_counted makes of it: one *)
(* signature per primary key, any of those found (ANY_VALUE), and how many *)
(* rows there were.  A change is a (source_hash, target_hash) pair.        *)
(***************************************************************************)
NoTarget == [target_signature |-> NULL, target_count |-> 0]
NoChange == [source_signature |-> NULL, target_signature |-> NULL]

Change == [source_signature: SourceSignature, target_signature: TargetSignature]

SourceScan        == [PK -> OrNull(SourceSignature)]
SourceExtractScan == [PK -> Change \union {NoChange}]
TargetScan        == [PK -> {NoTarget} \union
                            [target_signature: TargetSignature, target_count: 1..MaxTargetCount]]
SourceChanges     == [PK -> UNION {[1..n -> Change] : n \in 0..MaxChangeRows}]

(***************************************************************************)
(* The two upserts.                                                        *)
(***************************************************************************)
FreshCopy(p) ==
  CHOOSE c \in 0..MaxCopies : c = MaxCopies \/ \A r \in RowsOf(p) : r.copy # c

InitialRow(p, extract, target) ==
  [pk |-> p,
   copy |-> FreshCopy(p),
   source_signature |-> extract.source_signature,
   target_signature |-> target.target_signature,
   incremental_source_signature |-> extract.source_signature,
   incremental_target_signature |-> extract.target_signature,
   source_operation |-> INSERT,
   target_operation |-> IF target.target_signature = NULL THEN DOES_NOT_EXIST ELSE INSERT,
   validation_error |-> FALSE,
   target_count |-> target.target_count]

InitialRows(extract, target) ==
  {InitialRow(p, extract[p], target[p]) :
     p \in {q \in PK : extract[q] # NoChange \/ target[q] # NoTarget}}

\* What the outer join supplies for a primary key the shadow does not have.
NoRow ==
  [copy |-> 0, source_signature |-> NULL, target_signature |-> NULL,
   incremental_source_signature |-> NULL, incremental_target_signature |-> NULL,
   source_operation |-> NULL, target_operation |-> NULL, validation_error |-> NULL]

MergedRow(p, old, source, target, change, copy) ==
  LET incSource == Coalesce(change.source_signature, old.incremental_source_signature)
      incTarget == Coalesce(change.target_signature, old.incremental_target_signature)
      sourceOp  == DetermineSourceOperation(source, old.source_signature)
      targetOp  == DetermineSourceOperation(target.target_signature, old.target_signature)
  IN [pk |-> p,
      copy |-> copy,
      source_signature |-> source,
      target_signature |-> target.target_signature,
      incremental_source_signature |-> incSource,
      incremental_target_signature |-> incTarget,
      source_operation |-> sourceOp,
      target_operation |-> targetOp,
      validation_error |->
        CheckForValidationErrorWithRowIntegrity(
          sourceOp, old.source_operation, targetOp, old.target_operation,
          Coalesce(old.validation_error, FALSE),
          VerifyRowIntegrity(incSource, incTarget, source, target.target_signature)),
      target_count |-> target.target_count]

\* The full outer join of one primary key: each of its shadow rows with each
\* of its change rows; nothing when the key is in none of the four inputs.
JoinedRows(p, source, target, changes) ==
  LET olds == IF RowsOf(p) = {} THEN {NoRow} ELSE RowsOf(p)
      incs == IF changes = <<>> THEN <<NoChange>> ELSE changes
  IN IF RowsOf(p) = {} /\ source = NULL /\ target = NoTarget /\ changes = <<>>
     THEN {}
     ELSE {MergedRow(p, old, source, target, incs[i], old.copy * Len(incs) + i - 1) :
             old \in olds, i \in DOMAIN incs}

IncrementalRows(source, target, changes) ==
  UNION {JoinedRows(p, source[p], target[p], changes[p]) : p \in PK}

(***************************************************************************)
(* UpdateShadow, statement by statement.                                   *)
(***************************************************************************)
NoMetrics == NULL

BeginTransaction(rows) ==
  /\ phase = "idle"
  /\ txShadow' = rows
  /\ phase' = "upserted"
  /\ metrics' = NoMetrics
  /\ UNCHANGED shadow

InitialLoadUpsert(extract, target) ==
  /\ Reload \/ shadow = {}
  /\ \A r \in InitialRows(extract, target) : r.copy < MaxCopies    \* bound
  /\ BeginTransaction(shadow \union InitialRows(extract, target))

IncrementalUpsert(source, target, changes) ==
  /\ \A p \in PK : \A old \in RowsOf(p) \union {NoRow} :
       (old.copy + 1) * Len(changes[p]) <= MaxCopies                 \* bound
  /\ BeginTransaction(IncrementalRows(source, target, changes))

Commit ==
  /\ phase = "upserted"
  /\ shadow' = txShadow
  /\ txShadow' = {}
  /\ phase' = "committed"
  /\ UNCHANGED metrics

\* Mutant: only rows that both sides just deleted.
DeleteJustDeleted ==
  /\ phase = "committed"
  /\ shadow' = {r \in shadow : r.source_operation # DELETE \/ r.target_operation # DELETE}
  /\ phase' = "deleted"
  /\ UNCHANGED <<txShadow, metrics>>

DeleteGone ==
  /\ phase = "committed"
  /\ shadow' = {r \in shadow : ValidationStatus(r) # StatusGone}
  /\ phase' = "deleted"
  /\ UNCHANGED <<txShadow, metrics>>

WithStatus(status) == {r \in shadow : ValidationStatus(r) = status}

CalculateMetrics ==
  /\ phase = "deleted"
  /\ metrics' = [source_size   |-> Cardinality({r \in shadow : r.source_signature # NULL}),
                 target_size   |-> Cardinality({r \in shadow : r.target_signature # NULL}),
                 seatbelt_size |-> Cardinality(shadow),
                 error_count   |-> Cardinality(WithStatus(StatusError)),
                 pending_count |-> Cardinality(WithStatus(StatusPending)),
                 valid_count   |-> Cardinality(WithStatus(StatusValid)),
                 error_pks     |-> {r.pk : r \in WithStatus(StatusError)}]
  /\ phase' = "idle"
  /\ UNCHANGED <<shadow, txShadow>>

\* A statement returns an error, or the process dies.
Abort ==
  /\ phase # "idle"
  /\ phase' = "idle"
  /\ txShadow' = {}
  /\ UNCHANGED <<shadow, metrics>>

\* EXPLAIN ANALYZE executes the statement it explains.  On an initial load
\* that inserts into shadow itself, outside any transaction; on an incremental
\* run into shadow_new, which the next run drops.
ExplainAnalyzeUpdateShadow(extract, target) ==
  /\ phase = "idle"
  /\ Reload \/ shadow = {}
  /\ \A r \in InitialRows(extract, target) : r.copy < MaxCopies    \* bound
  /\ shadow' = shadow \union InitialRows(extract, target)
  /\ metrics' = NoMetrics
  /\ UNCHANGED <<txShadow, phase>>

Init ==
  /\ shadow = {}
  /\ txShadow = {}
  /\ phase = "idle"
  /\ metrics = NoMetrics

Next ==
  \/ /\ phase = "idle"
     /\ \E target \in TargetScan :
          \/ \E extract \in SourceExtractScan :
               \/ InitialLoadUpsert(extract, target)
               \/ ExplainAnalyzeUpdateShadow(extract, target)
          \/ \E source \in SourceScan, changes \in SourceChanges :
               IncrementalUpsert(source, target, changes)
  \/ Commit
  \/ DeleteGone
  \/ CalculateMetrics
  \/ Abort

Spec == Init /\ [][Next]_vars

(***************************************************************************)
(* What the table says of one primary key, in the terms of Validator.      *)
(***************************************************************************)
OneRow(p) == \A r1, r2 \in RowsOf(p) : r1 = r2

RowOf(p) == CHOOSE r \in RowsOf(p) : TRUE

LastLook(p) ==
  IF RowsOf(p) = {} THEN [source |-> NULL, target |-> NULL]
  ELSE [source |-> RowOf(p).source_signature, target |-> RowOf(p).target_signature]

OperationOn(side, r) == IF side = "source" THEN r.source_operation ELSE r.target_operation

QuietSides(p) ==
  {side \in {"source", "target"} : \A r \in RowsOf(p) : OperationOn(side, r) \in Quiet}

OfKey(p) == INSTANCE Validator WITH
  known <- RowsOf(p) # {},
  seen  <- LastLook(p),
  still <- QuietSides(p),
  error <- \E r \in RowsOf(p) : r.validation_error = TRUE

(***************************************************************************)
(* Properties.                                                             *)
(***************************************************************************)
TypeOK ==
  /\ shadow \subseteq Row
  /\ txShadow \subseteq Row
  /\ phase \in {"idle", "upserted", "committed", "deleted"}
  /\ metrics # NoMetrics => phase = "idle"

BothAbsent(r) == r.source_signature = NULL /\ r.target_signature = NULL

\* An error outlives quiet runs (rule 7) and is tested before Gone in the
\* status, so an error on a row that is on neither side could never clear and
\* the row never be deleted: no sequence of runs and aborts makes one.
NoZombieError == \A r \in shadow : r.validation_error = TRUE => ~BothAbsent(r)

\* When a run is through, a row that is on neither side is there only because
\* this run saw its source delete and the target never had it: rows deleted
\* on both sides do not pile up, whatever aborts left behind before.
RunComplete == phase = "deleted" \/ metrics # NoMetrics

NoLingeringRow ==
  RunComplete =>
    \A r \in shadow :
      BothAbsent(r) => r.source_operation = DELETE /\ r.target_operation = DOES_NOT_EXIST

\* A row the source has had unchanged since the last run, and the target has in
\* neither run, is an error after this one, whatever happened to it before.
MissingRowIsError ==
  \A r \in shadow :
    r.source_operation = NOOP /\ r.target_operation = DOES_NOT_EXIST => r.validation_error = TRUE

\* The three counts printed account for every row of the table: no status is
\* left over once the rows that are Gone have been deleted.
MetricsPartition ==
  metrics # NoMetrics =>
    /\ metrics.seatbelt_size = metrics.error_count + metrics.pending_count + metrics.valid_count
    /\ metrics.error_count = 0 <=> metrics.error_pks = {}

\* A primary key that has at most one row before a statement and after it is
\* validated as Validator has it, whatever the other keys do and whichever runs
\* abort: the operations kept in a row and the rules say an error when they must
\* and only when they may, one look per commit.
EachKeyValidated ==
  /\ \A p \in PK : OfKey(p)!ValidatorInit
  /\ [][\A p \in PK :
          OneRow(p) /\ OneRow(p)' =>
            OfKey(p)!ValidatorNext \/ UNCHANGED OfKey(p)!validator]_vars

\* The first look at a primary key gives it the status Error only if the target
\* has the key more than once.
ErrorNeedsHistory ==
  [][\A r \in shadow' :
       ValidationStatus(r) = StatusError => RowsOf(r.pk) # {} \/ r.target_count > 1]_vars

\* An error is only taken back by something that happened: a primary key with an
\* error before a commit has one after it, or a row whose signatures are not
\* those of the error, however many rows the key has.
ErrorClearsOnChange ==
  [][phase = "upserted" /\ phase' = "committed" =>
       \A old \in shadow :
         old.validation_error = TRUE =>
           \E new \in shadow' :
             /\ new.pk = old.pk
             /\ \/ new.validation_error = TRUE
                \/ new.source_signature # old.source_signature
                \/ new.target_signature # old.target_signature]_vars
=============================================================================
