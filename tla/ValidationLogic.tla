--------------------------- MODULE ValidationLogic ---------------------------
(***************************************************************************)
(* The pure functions the DuckDB extension registers and the SQL of        *)
(* shadow.go calls: classification of what happened to a row on each side, *)
(* the hash-triangulation check, the seven failure rules, and the CASE     *)
(* expression that turns a shadow row into a validation status.            *)
(*                                                                         *)
(* A signature is a 64-bit hash; nothing here looks inside one, so it is   *)
(* any value, and NULL (SQL NULL, an absent row) is a value apart.         *)
(* validation_error is a three-valued SQL boolean.                         *)
(***************************************************************************)
EXTENDS Integers

CONSTANT NULL

ASSUME NullAssumption == NULL \notin BOOLEAN

DOES_NOT_EXIST    == "DOES_NOT_EXIST"
NOOP              == "NOOP"
INSERT            == "INSERT"
UPDATE            == "UPDATE"
DELETE            == "DELETE"
INSERT_AND_UPDATE == "INSERT_AND_UPDATE"
UPDATE_AND_DELETE == "UPDATE_AND_DELETE"
TRANSIENT_UPDATE  == "TRANSIENT_UPDATE"

Operation == {DOES_NOT_EXIST, NOOP, INSERT, UPDATE, DELETE,
              INSERT_AND_UPDATE, UPDATE_AND_DELETE, TRANSIENT_UPDATE}

Quiet  == {NOOP, DOES_NOT_EXIST}     \* nothing happened on that side
Absent == {DOES_NOT_EXIST, DELETE}   \* the row is not there at the end

Coalesce(x, default) == IF x = NULL THEN default ELSE x

(***************************************************************************)
(* Operations.  The SQL classifies both sides by signature, with the int   *)
(* and the uint variant of one function; the three-flag classifier of the  *)
(* destination is registered but no statement of shadow.go calls it.       *)
(***************************************************************************)
\* Mutant: a row absent before and now has no operation at all.
DetermineSourceOperationOrNull(now, before) ==
  IF now = NULL
  THEN IF before = NULL THEN NULL ELSE DELETE
  ELSE IF before = NULL THEN INSERT
       ELSE IF now # before THEN UPDATE ELSE NOOP

DetermineSourceOperation(now, before) ==
  IF now = NULL
  THEN IF before = NULL THEN DOES_NOT_EXIST ELSE DELETE
  ELSE IF before = NULL THEN INSERT
       ELSE IF now # before THEN UPDATE ELSE NOOP

DetermineDestinationOperation(presentEnd, updated, presentStart) ==
  IF updated
  THEN IF presentEnd
       THEN IF presentStart THEN UPDATE ELSE INSERT_AND_UPDATE
       ELSE IF presentStart THEN UPDATE_AND_DELETE ELSE TRANSIENT_UPDATE
  ELSE IF presentEnd
       THEN IF presentStart THEN NOOP ELSE INSERT
       ELSE IF presentStart THEN DELETE ELSE DOES_NOT_EXIST

\* Mutant: only the source is checked.
VerifySourceIntegrity(incSource, incTarget, source, target) ==
  \/ incSource = NULL
  \/ incTarget = NULL
  \/ source # NULL /\ incSource = source

\* Do the observed signatures match the pair the change log promised?
VerifyRowIntegrity(incSource, incTarget, source, target) ==
  \/ incSource = NULL
  \/ incTarget = NULL
  \/ /\ source # NULL /\ incSource = source
     /\ target # NULL /\ incTarget = target

(***************************************************************************)
(* The failure rules, in the order of the code.                            *)
(***************************************************************************)
\* Mutant: a destination that just moved counts as stalled.
ImpatientStall(src, prevSrc, dst, prevDst) ==
  /\ prevSrc \notin Quiet \union {DELETE}
  /\ prevDst \in Quiet
  /\ src \in Quiet

StalledPropagation(src, prevSrc, dst, prevDst) ==
  /\ prevSrc \notin Quiet \union {DELETE}
  /\ prevDst \in Quiet
  /\ dst \in Quiet
  /\ src \in Quiet

\* Mutant: looks for the delete on the side that missed it.
ReplicatedDelete(prevSrc, dst) == prevSrc = DELETE /\ dst = DELETE

UnreplicatedDelete(prevSrc, dst) == prevSrc = DELETE /\ dst = NOOP

\* Mutant: forgets the row inserted at the run before.
MissingOldRow(src, prevSrc, dst) ==
  src \in {NOOP, UPDATE} /\ prevSrc \in {NOOP, UPDATE} /\ dst = DOES_NOT_EXIST

MissingInDestination(src, prevSrc, dst) ==
  /\ src \in {NOOP, UPDATE}
  /\ prevSrc \in {NOOP, UPDATE, INSERT}
  /\ dst = DOES_NOT_EXIST

PhantomInDestination(src, prevSrc, dst) ==
  src = DOES_NOT_EXIST /\ prevSrc = DOES_NOT_EXIST /\ dst = NOOP

\* Mutant: a row the target deletes by itself is no corruption.
UpdateCorruption(src, prevSrc, dst, existingError) ==
  src = NOOP /\ prevSrc = NOOP /\ dst \notin Absent \union {NOOP} /\ ~existingError

DestinationCorruption(src, prevSrc, dst, existingError) ==
  src = NOOP /\ prevSrc = NOOP /\ dst # NOOP /\ ~existingError

RowCorruption(src, rowVerified) == src = NOOP /\ ~rowVerified

\* Mutant: the destination need not be quiet.
SourceStickyError(src, dst, existingError) == existingError /\ src \in Quiet

\* Mutant: an error is kept while things happen and dropped when they stop.
ErrorWhileBusy(src, dst, existingError) ==
  existingError /\ src \notin Quiet /\ dst \notin Quiet

StickyError(src, dst, existingError) ==
  existingError /\ src \in Quiet /\ dst \in Quiet

CheckForValidationErrorInternal(src, prevSrc, dst, prevDst, existingError, rowVerified) ==
  \/ StalledPropagation(src, prevSrc, dst, prevDst)
  \/ UnreplicatedDelete(prevSrc, dst)
  \/ MissingInDestination(src, prevSrc, dst)
  \/ PhantomInDestination(src, prevSrc, dst)
  \/ DestinationCorruption(src, prevSrc, dst, existingError)
  \/ RowCorruption(src, rowVerified)
  \/ StickyError(src, dst, existingError)

\* Mutant: without a history the row integrity decides.
CheckWithoutHistory(src, prevSrc, dst, prevDst, existingError, rowVerified) ==
  IF NULL \in {src, prevSrc, dst, prevDst}
  THEN ~rowVerified
  ELSE CheckForValidationErrorInternal(src, prevSrc, dst, prevDst, existingError, rowVerified)

\* The registered function: one NULL argument makes the answer NULL, which is
\* what a primary key gets the first time it is seen (no previous operations).
CheckForValidationErrorWithRowIntegrity(src, prevSrc, dst, prevDst, existingError, rowVerified) ==
  IF NULL \in {src, prevSrc, dst, prevDst}
  THEN NULL
  ELSE CheckForValidationErrorInternal(src, prevSrc, dst, prevDst, existingError, rowVerified)

(***************************************************************************)
(* validation_status of a shadow row.                                      *)
(***************************************************************************)
StatusValid   == "Valid"
StatusPending == "Pending"
StatusError   == "Error"
StatusGone    == "Gone"

RowVerified(row) ==
  VerifyRowIntegrity(row.incremental_source_signature, row.incremental_target_signature,
                     row.source_signature, row.target_signature)

Unreconciled(row) ==
  \/ row.source_operation \notin Quiet /\ row.target_operation \in Quiet
  \/ ~RowVerified(row) /\ row.source_operation \notin Absent
  \/ row.source_operation \in Absent /\ row.target_operation \notin Absent

\* target_count is 0 where the SQL has NULL: either way it is not above one.
ValidationStatus(row) ==
  IF row.validation_error = TRUE THEN StatusError
  ELSE IF Unreconciled(row) THEN StatusPending
  ELSE IF row.source_operation \in Absent /\ row.target_operation \in Absent THEN StatusGone
  ELSE IF row.target_count > 1 THEN StatusError
  ELSE StatusValid
=============================================================================
