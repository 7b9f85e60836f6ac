------------------------ MODULE NoFalseErrorsProofs ------------------------
(***************************************************************************)
(* No false alarms.  When the pipeline applies every change, has applied   *)
(* what the last run saw before the next one starts, and no content comes  *)
(* back, no run ever makes a row an error, for any number of keys,         *)
(* contents and runs, however far the pipeline lags between them.          *)
(*                                                                         *)
(* The seven rules compare a run with the one before it.  What they        *)
(* compare are positions in one history, the contents a key has had: the   *)
(* scan of the source is where the history ends, the scan of the target    *)
(* some content before that, and the next scan of the target is not before *)
(* the last one of the source.  The state does not have the history.  What *)
(* the argument needs of it is said of its end, the target row and the     *)
(* backlog, and of the row the last run wrote.                             *)
(***************************************************************************)
EXTENDS JudgementProofs

Faultless ==
  /\ AtomicFetch /\ Behind \in {"nothing", "one-run"}
  /\ ~Reuse /\ ~PipelineFaults /\ ~FailedRuns

(***************************************************************************)
(* The pipeline.                                                           *)
(***************************************************************************)
TargetContent(p) == target[p].target_signature

\* A key that is deleted stays so.
Dead(p) == source[p] = NULL /\ used[p] # {}

\* The backlog leads from the target row to the source row, through contents that
\* are all different; a delete is the last.
BacklogLeadsToSource(p) ==
  /\ backlog[p] = <<>> => TargetContent(p) = source[p]
  /\ backlog[p] # <<>> => backlog[p][Len(backlog[p])] = source[p]
  /\ \A i \in DOMAIN backlog[p] :
       /\ backlog[p][i] = NULL => i = Len(backlog[p])
       /\ backlog[p][i] # NULL => backlog[p][i] \in used[p]
       /\ \A j \in DOMAIN backlog[p] : backlog[p][i] = backlog[p][j] => i = j
  /\ backlog[p] # <<>> => used[p] # {}
  /\ TargetContent(p) \in OrNull(used[p])
  /\ target[p].target_count <= 1
  /\ owed[p] <= Len(backlog[p])
  /\ Behind = "nothing" => owed[p] = 0

\* What a run saw, a content on each side, and how far the pipeline has got since.
\* While something is owed it ends with the content the source had.  After that
\* the target is not behind that content: it has it as long as the source does,
\* and misses the row only when the source does.  "gone" is set when the run knew
\* the key to be deleted.
Since(p, from, to, gone) ==
  /\ from \in OrNull(used[p]) /\ to \in OrNull(used[p])
  /\ owed[p] > 0 => backlog[p][owed[p]] = from
  /\ owed[p] = 0 /\ from # NULL =>
       /\ source[p] = from => backlog[p] = <<>>
       /\ TargetContent(p) = NULL => backlog[p] = <<>>
  /\ gone => Dead(p) /\ owed[p] = Len(backlog[p])
  /\ to # NULL /\ to # from => source[p] # to

\* The source has deleted the row, or never will have it again.
GoneWhenSeen(r) ==
  r.source_signature = NULL /\ (r.target_signature # NULL \/ r.source_operation = DELETE)

SinceRow(r) == Since(r.pk, r.source_signature, r.target_signature, GoneWhenSeen(r))

(***************************************************************************)
(* The scans.                                                              *)
(***************************************************************************)
\* What a run finds, of what the last one left.
Follows(r, from, to) ==
  /\ r.source_signature # NULL =>
       /\ from = r.source_signature => to = from
       /\ to = NULL => from = NULL
  /\ GoneWhenSeen(r) => from = NULL /\ to = NULL
  /\ r.target_signature # NULL /\ r.target_signature # r.source_signature
       => from # r.target_signature

GoneInScan(p) ==
  /\ sourceScan[p] = NULL
  /\ \/ targetScan[p].target_signature # NULL
     \/ \E r \in shadow : r.pk = p /\ r.source_signature # NULL

(***************************************************************************)
(* Rows without a reason for an error.                                     *)
(***************************************************************************)
Innocent(r) ==
  /\ r.validation_error # TRUE
  /\ r.target_count <= 1
  /\ r.source_operation \in {INSERT, UPDATE} /\ r.target_operation \in Quiet
       => r.source_signature # r.target_signature
  /\ r.source_operation = NOOP => r.source_signature = r.target_signature

(***************************************************************************)
(* The strengthening.                                                      *)
(***************************************************************************)
PipelineOrdered == \A p \in PK : source[p] \in OrNull(used[p]) /\ BacklogLeadsToSource(p)

\* A run starts when nothing is owed, and the tables stand still.
StartsClean ==
  run # "none" /\ sourceChanges = NoScan =>
    \A p \in PK : owed[p] = 0 /\ (Behind = "nothing" => backlog[p] = <<>>)

TargetStill ==
  targetScan # NoScan /\ sourceChanges = NoScan => targetScan = target

ScansFollow ==
  sourceChanges # NoScan /\ phase = "idle" =>
    /\ \A p \in PK :
         /\ targetScan[p].target_count <= 1
         /\ Since(p, sourceScan[p], targetScan[p].target_signature, GoneInScan(p))
    /\ \A r \in shadow : Follows(r, sourceScan[r.pk], targetScan[r.pk].target_signature)

RowsSince ==
  /\ sourceChanges = NoScan \/ phase \in {"committed", "deleted"} => \A r \in shadow : SinceRow(r)
  /\ phase = "upserted" => \A r \in txShadow : SinceRow(r)

RowsInnocent == \A r \in shadow \union txShadow : Innocent(r)

Quietly ==
  /\ PipelineOrdered
  /\ StartsClean
  /\ TargetStill
  /\ ScansFollow
  /\ RowsSince
  /\ RowsInnocent

-----------------------------------------------------------------------------
(***************************************************************************)
(* Rows: none of the seven rules speaks against a row that follows an      *)
(* innocent one.                                                           *)
(***************************************************************************)
LEMMA OperationMeaning ==
  ASSUME NEW now, NEW before
  PROVE  LET op == DetermineSourceOperation(now, before)
         IN /\ op = NOOP <=> now # NULL /\ now = before
            /\ op = DOES_NOT_EXIST <=> now = NULL /\ before = NULL
            /\ op = DELETE <=> now = NULL /\ before # NULL
            /\ op = INSERT <=> now # NULL /\ before = NULL
            /\ op = UPDATE <=> now # NULL /\ before # NULL /\ now # before
  BY DEF DetermineSourceOperation, DOES_NOT_EXIST, NOOP, INSERT, UPDATE, DELETE

LEMMA MergedRowInnocent ==
  ASSUME NEW p \in PK, NEW from, NEW found \in TargetRows, found.target_count <= 1,
         NEW change, NEW copy, NEW old \in Row, RowConsistent(old), Innocent(old),
         Follows(old, from, found.target_signature),
         Faithful(MergedRow(p, old, from, found, change, copy))
  PROVE  Innocent(MergedRow(p, old, from, found, change, copy))
<1> DEFINE row == MergedRow(p, old, from, found, change, copy)
           to == found.target_signature
           src == DetermineSourceOperation(from, old.source_signature)
           dst == DetermineSourceOperation(to, old.target_signature)
           prevSrc == old.source_operation
           prevDst == old.target_operation
           existing == Coalesce(old.validation_error, FALSE)
           verified == RowVerified(row)
<1>1. /\ row.source_signature = from /\ row.target_signature = to
      /\ row.source_operation = src /\ row.target_operation = dst
      /\ row.target_count = found.target_count
      /\ row.validation_error =
           CheckForValidationErrorWithRowIntegrity(src, prevSrc, dst, prevDst, existing, verified)
  BY DEF MergedRow, RowVerified
<1>2. /\ src = NOOP <=> from # NULL /\ from = old.source_signature
      /\ src = DOES_NOT_EXIST <=> from = NULL /\ old.source_signature = NULL
      /\ src = INSERT <=> from # NULL /\ old.source_signature = NULL
      /\ src = UPDATE <=> from # NULL /\ old.source_signature # NULL /\ from # old.source_signature
      /\ dst = NOOP <=> to # NULL /\ to = old.target_signature
      /\ dst = DOES_NOT_EXIST <=> to = NULL /\ old.target_signature = NULL
  BY OperationMeaning
<1>3. existing = FALSE
  BY DEF Row, OrNull, Coalesce, Innocent
<1>4. src = NOOP => to = from
  BY <1>2 DEF Follows
<1>5. verified \/ src # NOOP
  BY <1>1, <1>2, <1>4 DEF Faithful, RowVerified, VerifyRowIntegrity
<1> HIDE DEF row, to, src, dst, existing, verified
<1>6. old.source_signature # NULL => prevSrc \in Present
  BY DEF RowConsistent, OperationsAgree
<1>7. ~StalledPropagation(src, prevSrc, dst, prevDst)
  <2> SUFFICES ASSUME prevSrc \notin Quiet \union {DELETE}, prevDst \in Quiet, dst \in Quiet, src \in Quiet
               PROVE  FALSE
    BY DEF StalledPropagation
  <2>1. old.source_signature # NULL
    BY DEF RowConsistent, OperationsAgree, PhantomOfInitialLoad, Absent, Quiet,
           DOES_NOT_EXIST, NOOP, INSERT, DELETE
  <2>2. prevSrc \in {INSERT, UPDATE}
    BY <1>6, <2>1 DEF Present, Quiet
  <2>3. src = NOOP
    BY <1>2, <2>1 DEF Quiet
  <2>4. to = old.target_signature
    BY <1>2 DEF Quiet
  <2>5. old.source_signature = old.target_signature
    BY <1>2, <1>4, <2>3, <2>4
  <2> QED BY <2>2, <2>5 DEF Innocent
<1>8. ~UnreplicatedDelete(prevSrc, dst)
  <2> SUFFICES ASSUME prevSrc = DELETE, dst = NOOP PROVE FALSE
    BY DEF UnreplicatedDelete
  <2>1. old.source_signature = NULL
    BY <1>6 DEF Present, INSERT, UPDATE, NOOP, DELETE
  <2>2. to = NULL
    BY <2>1 DEF Follows, GoneWhenSeen, to
  <2> QED BY <1>2, <2>2
<1>9. ~MissingInDestination(src, prevSrc, dst)
  BY <1>2 DEF MissingInDestination, Follows, to
<1>10. ~PhantomInDestination(src, prevSrc, dst)
  <2> SUFFICES ASSUME src = DOES_NOT_EXIST, dst = NOOP PROVE FALSE
    BY DEF PhantomInDestination
  <2>1. GoneWhenSeen(old)
    BY <1>2 DEF GoneWhenSeen
  <2> QED BY <1>2, <2>1 DEF Follows, to
<1>11. ~DestinationCorruption(src, prevSrc, dst, existing)
  BY <1>2, <1>4 DEF DestinationCorruption, Innocent
<1>12. ~RowCorruption(src, verified)
  BY <1>5 DEF RowCorruption
<1>13. ~StickyError(src, dst, existing)
  BY <1>3 DEF StickyError
<1>14. row.validation_error # TRUE
  BY <1>1, <1>7, <1>8, <1>9, <1>10, <1>11, <1>12, <1>13, NullAssumption
  DEF CheckForValidationErrorWithRowIntegrity, CheckForValidationErrorInternal
<1>15. ASSUME src \in {INSERT, UPDATE}, dst \in Quiet, from = to PROVE FALSE
  <2>1. from # NULL /\ to = old.target_signature
    BY <1>2, <1>15 DEF Quiet
  <2>2. CASE src = INSERT
    <3>1. GoneWhenSeen(old)
      BY <1>2, <1>15, <2>1, <2>2 DEF GoneWhenSeen
    <3> QED BY <2>1, <3>1 DEF Follows, to
  <2>3. CASE src = UPDATE
    BY <1>2, <1>15, <2>1, <2>3 DEF Follows, to
  <2> QED BY <1>15, <2>2, <2>3
<1> QED
  BY <1>1, <1>4, <1>14, <1>15 DEF Innocent, row

\* A row of a key the table did not have has no history to be judged by.
LEMMA FirstRowInnocent ==
  ASSUME NEW p \in PK, NEW from, NEW found \in TargetRows, found.target_count <= 1,
         NEW change, NEW copy
  PROVE  Innocent(MergedRow(p, NoRow, from, found, change, copy))
<1> DEFINE row == MergedRow(p, NoRow, from, found, change, copy)
           src == DetermineSourceOperation(from, NULL)
           dst == DetermineSourceOperation(found.target_signature, NULL)
<1>1. /\ row.source_signature = from /\ row.target_signature = found.target_signature
      /\ row.source_operation = src /\ row.target_operation = dst
      /\ row.target_count = found.target_count
      /\ row.validation_error = NULL
  BY DEF MergedRow, NoRow, CheckForValidationErrorWithRowIntegrity
<1>2. /\ src # NOOP /\ src # UPDATE
      /\ src = INSERT => from # NULL
      /\ dst \in Quiet => found.target_signature = NULL
  BY OperationMeaning DEF Quiet
<1> HIDE DEF row, src, dst
<1> QED BY <1>1, <1>2, NullAssumption DEF Innocent, row

LEMMA InitialRowInnocent ==
  ASSUME NEW p \in PK, NEW scan, NEW found \in TargetRows, found.target_count <= 1,
         Extracted(scan)[p] # NoChange \/ found # NoTarget
  PROVE  Innocent(InitialRow(p, Extracted(scan)[p], found))
<1>1. found.target_signature = NULL => found = NoTarget
  BY ShadowAssumption DEF TargetRows
<1>2. found.target_signature = NULL => scan[p] # NULL
  BY <1>1 DEF Extracted, NoChange
<1> QED
  BY <1>2, NullAssumption
  DEF InitialRow, Extracted, Innocent, Quiet, INSERT, UPDATE, NOOP, DOES_NOT_EXIST

-----------------------------------------------------------------------------
(***************************************************************************)
(* The pipeline: what it has still to do leads to the source, whatever     *)
(* source and pipeline do.                                                 *)
(***************************************************************************)
\* What a step of the tables does to a key is done to what the state says of it.
KeyKept(p) ==
  /\ (source[p] \in OrNull(used[p]))' /\ BacklogLeadsToSource(p)'
  /\ \A from, to : \A gone \in BOOLEAN : Since(p, from, to, gone) => Since(p, from, to, gone)'

LEMMA OtherKeysKept ==
  ASSUME NEW q \in PK, source[q] \in OrNull(used[q]), BacklogLeadsToSource(q),
         source'[q] = source[q], target'[q] = target[q], backlog'[q] = backlog[q],
         owed'[q] = owed[q], used'[q] = used[q]
  PROVE  KeyKept(q)
  BY DEF KeyKept, BacklogLeadsToSource, Since, TargetContent, Dead

\* A write brings a content the key never had.
LEMMA WriteKeepsKey ==
  ASSUME Faultless, SeatbeltTypeOK, NEW p \in PK, NEW content \in SourceSignature,
         source[p] \in OrNull(used[p]), BacklogLeadsToSource(p), WriteSource(p, content)
  PROVE  KeyKept(p)
<1> DEFINE b == backlog[p]
           n == Len(b)
<1>1. /\ content \notin used[p] /\ (source[p] # NULL \/ used[p] = {})
      /\ source'[p] = content /\ backlog'[p] = Append(b, content)
      /\ used'[p] = used[p] \union {content}
      /\ target' = target /\ owed' = owed
  BY DEF WriteSource, ChangeSource, Faultless, SeatbeltTypeOK, SourceScan
<1>2. b \in Seq(OrNull(SourceSignature)) /\ n \in Nat /\ DOMAIN b = 1..n
  BY DEF SeatbeltTypeOK
<1>3. /\ DOMAIN backlog'[p] = 1..n+1 /\ Len(backlog'[p]) = n + 1
      /\ \A i \in 1..n : backlog'[p][i] = b[i]
      /\ backlog'[p][n + 1] = content
      /\ backlog'[p] # <<>>
  BY <1>1, <1>2 DEF OrNull
<1>4. content # NULL
  BY ShadowAssumption
<1>5. \A i \in 1..n : b[i] # NULL /\ b[i] \in used[p]
  <2> SUFFICES ASSUME NEW i \in 1..n PROVE b[i] # NULL /\ b[i] \in used[p]
    OBVIOUS
  <2>1. b # <<>> /\ used[p] # {}
    BY <1>2 DEF BacklogLeadsToSource
  <2>2. source[p] # NULL
    BY <1>1, <2>1
  <2> QED BY <1>2, <2>1, <2>2 DEF BacklogLeadsToSource
<1>6. owed[p] \in Nat /\ owed[p] <= n
  BY DEF SeatbeltTypeOK, BacklogLeadsToSource
<1> HIDE DEF b, n
<1>7. BacklogLeadsToSource(p)'
  <2>1. ASSUME NEW i \in 1..n+1
        PROVE  /\ backlog'[p][i] # NULL /\ backlog'[p][i] \in used'[p]
               /\ \A j \in 1..n+1 : backlog'[p][i] = backlog'[p][j] => i = j
    <3>1. \A k \in 1..n+1 : k \in 1..n \/ k = n + 1
      BY <1>2
    <3>2. \A k, j \in 1..n : b[k] = b[j] => k = j
      BY <1>2 DEF BacklogLeadsToSource, b
    <3>3. \A k \in 1..n : backlog'[p][k] # content
      BY <1>1, <1>3, <1>5
    <3> QED BY <1>1, <1>3, <1>4, <1>5, <3>1, <3>2, <3>3
  <2>2. TargetContent(p)' \in OrNull(used'[p]) /\ target'[p].target_count <= 1
    BY <1>1 DEF TargetContent, BacklogLeadsToSource, OrNull
  <2>3. owed'[p] <= n + 1 /\ (Behind = "nothing" => owed'[p] = 0)
    BY <1>1, <1>2, <1>6 DEF BacklogLeadsToSource
  <2>4. used'[p] # {}
    BY <1>1
  <2> QED BY <1>1, <1>3, <2>1, <2>2, <2>3, <2>4 DEF BacklogLeadsToSource
<1>8. ASSUME NEW from, NEW to, NEW gone \in BOOLEAN, Since(p, from, to, gone)
      PROVE  Since(p, from, to, gone)'
  <2>1. from \in OrNull(used'[p]) /\ to \in OrNull(used'[p])
    BY <1>1, <1>8 DEF Since, OrNull
  <2>2. owed'[p] > 0 => backlog'[p][owed'[p]] = from
    <3>1. owed[p] > 0 => owed[p] \in 1..n
      BY <1>2, <1>6
    <3> QED BY <1>1, <1>3, <1>8, <3>1 DEF Since, b
  <2>3. owed'[p] = 0 /\ from # NULL => source'[p] # from /\ TargetContent(p)' # NULL
    <3> SUFFICES ASSUME owed[p] = 0, from # NULL PROVE source'[p] # from /\ TargetContent(p)' # NULL
      BY <1>1
    <3>1. from \in used[p]
      BY <1>8 DEF Since, OrNull
    <3>2. source'[p] # from
      BY <1>1, <3>1
    <3>3. TargetContent(p) # NULL
      BY <1>1, <1>8, <3>1 DEF Since, BacklogLeadsToSource
    <3> QED BY <1>1, <3>2, <3>3 DEF TargetContent
  <2>4. ~gone
    BY <1>1, <1>8 DEF Since, Dead
  <2>5. to # NULL => source'[p] # to
    BY <1>1, <1>8 DEF Since, OrNull
  <2> QED BY <2>1, <2>2, <2>3, <2>4, <2>5 DEF Since
<1>9. (source[p] \in OrNull(used[p]))'
  BY <1>1 DEF OrNull
<1> QED BY <1>7, <1>8, <1>9 DEF KeyKept

\* A delete is the last of its key.
LEMMA DeleteKeepsKey ==
  ASSUME Faultless, SeatbeltTypeOK, NEW p \in PK,
         source[p] \in OrNull(used[p]), BacklogLeadsToSource(p), DeleteSource(p)
  PROVE  KeyKept(p)
<1> DEFINE b == backlog[p]
           n == Len(b)
<1>1. /\ source[p] # NULL
      /\ source'[p] = NULL /\ backlog'[p] = Append(b, NULL)
      /\ used' = used /\ target' = target /\ owed' = owed
  BY DEF DeleteSource, ChangeSource, SeatbeltTypeOK, SourceScan
<1>2. b \in Seq(OrNull(SourceSignature)) /\ n \in Nat /\ DOMAIN b = 1..n
  BY DEF SeatbeltTypeOK
<1>3. /\ DOMAIN backlog'[p] = 1..n+1 /\ Len(backlog'[p]) = n + 1
      /\ \A i \in 1..n : backlog'[p][i] = b[i]
      /\ backlog'[p][n + 1] = NULL
      /\ backlog'[p] # <<>>
  BY <1>1, <1>2 DEF OrNull
<1>4. used[p] # {}
  BY <1>1 DEF OrNull
<1>5. \A i \in 1..n : b[i] # NULL /\ b[i] \in used[p]
  BY <1>1, <1>2 DEF BacklogLeadsToSource
<1>6. owed[p] \in Nat /\ owed[p] <= n
  BY DEF SeatbeltTypeOK, BacklogLeadsToSource
<1> HIDE DEF b, n
<1>7. BacklogLeadsToSource(p)'
  <2>1. ASSUME NEW i \in 1..n+1
        PROVE  /\ backlog'[p][i] = NULL => i = n + 1
               /\ backlog'[p][i] # NULL => backlog'[p][i] \in used'[p]
               /\ \A j \in 1..n+1 : backlog'[p][i] = backlog'[p][j] => i = j
    <3>1. \A k \in 1..n+1 : k \in 1..n \/ k = n + 1
      BY <1>2
    <3>2. \A k, j \in 1..n : b[k] = b[j] => k = j
      BY <1>2 DEF BacklogLeadsToSource, b
    <3> QED BY <1>1, <1>3, <1>5, <3>1, <3>2
  <2>2. TargetContent(p)' \in OrNull(used'[p]) /\ target'[p].target_count <= 1
    BY <1>1 DEF TargetContent, BacklogLeadsToSource
  <2>3. owed'[p] <= n + 1 /\ (Behind = "nothing" => owed'[p] = 0)
    BY <1>1, <1>2, <1>6 DEF BacklogLeadsToSource
  <2> QED BY <1>1, <1>3, <1>4, <2>1, <2>2, <2>3 DEF BacklogLeadsToSource
<1>8. ASSUME NEW from, NEW to, NEW gone \in BOOLEAN, Since(p, from, to, gone)
      PROVE  Since(p, from, to, gone)'
  <2>2. owed'[p] > 0 => backlog'[p][owed'[p]] = from
    <3>1. owed[p] > 0 => owed[p] \in 1..n
      BY <1>2, <1>6
    <3> QED BY <1>1, <1>3, <1>8, <3>1 DEF Since, b
  <2>3. owed'[p] = 0 /\ from # NULL => source'[p] # from /\ TargetContent(p)' # NULL
    BY <1>1, <1>8 DEF Since, BacklogLeadsToSource, TargetContent
  <2>4. ~gone
    BY <1>1, <1>8 DEF Since, Dead
  <2> QED BY <1>1, <1>8, <2>2, <2>3, <2>4 DEF Since
<1>9. (source[p] \in OrNull(used[p]))'
  BY <1>1 DEF OrNull
<1> QED BY <1>7, <1>8, <1>9 DEF KeyKept

\* The target gets the next content.
LEMMA DeliverKeepsKey ==
  ASSUME Faultless, SeatbeltTypeOK, NEW p \in PK,
         source[p] \in OrNull(used[p]), BacklogLeadsToSource(p), Deliver(p)
  PROVE  KeyKept(p)
<1> DEFINE b == backlog[p]
           n == Len(b)
           m == n - 1
<1>1. /\ b # <<>> /\ backlog'[p] = Tail(b)
      /\ owed'[p] = IF owed[p] > 0 THEN owed[p] - 1 ELSE 0
      /\ source' = source /\ used' = used
      /\ target'[p] = TargetRow(Head(b))
  BY DEF Deliver, TakeFromBacklog, SeatbeltTypeOK, TargetScan
<1>2. b \in Seq(OrNull(SourceSignature)) /\ n \in Nat /\ DOMAIN b = 1..n
  BY DEF SeatbeltTypeOK
<1>3. n # 0 /\ m \in Nat /\ n = m + 1
  BY <1>1, <1>2
<1>4. /\ DOMAIN backlog'[p] = 1..m /\ Len(backlog'[p]) = m
      /\ \A i \in 1..m : backlog'[p][i] = b[i + 1]
      /\ backlog'[p] = <<>> <=> m = 0
  <2>1. /\ Tail(b) \in Seq(OrNull(SourceSignature)) /\ Len(Tail(b)) = m
        /\ \A i \in 1..Len(Tail(b)) : Tail(b)[i] = b[i + 1]
    BY <1>1, <1>2, HeadTailProperties
  <2>2. DOMAIN Tail(b) = 1..m
    BY <2>1, LenProperties
  <2>3. Tail(b) = <<>> <=> m = 0
    BY <2>1, EmptySeq
  <2> HIDE DEF b, m
  <2> QED BY <1>1, <2>1, <2>2, <2>3
<1>5. target'[p].target_signature = b[1] /\ target'[p].target_count <= 1
  BY <1>1, <1>2 DEF TargetRow, NoTarget
<1>6. /\ b[n] = source[p] /\ used[p] # {}
      /\ \A i \in 1..n : /\ b[i] = NULL => i = n
                         /\ b[i] # NULL => b[i] \in used[p]
                         /\ \A j \in 1..n : b[i] = b[j] => i = j
      /\ owed[p] \in Nat /\ owed[p] <= n
  BY <1>1, <1>2 DEF BacklogLeadsToSource, SeatbeltTypeOK
<1> HIDE DEF b, n, m
<1>7. BacklogLeadsToSource(p)'
  <2>1. \A i \in 1..m : i + 1 \in 1..n
    BY <1>3
  <2>2. ASSUME NEW i \in 1..m
        PROVE  /\ backlog'[p][i] = NULL => i = m
               /\ backlog'[p][i] # NULL => backlog'[p][i] \in used'[p]
               /\ \A j \in 1..m : backlog'[p][i] = backlog'[p][j] => i = j
    <3>1. i + 1 = n => i = m
      BY <1>3
    <3>2. \A j \in 1..m : i + 1 = j + 1 => i = j
      BY <1>3
    <3> QED BY <1>1, <1>4, <1>6, <2>1, <3>1, <3>2
  <2>3. TargetContent(p)' \in OrNull(used'[p])
    <3>1. 1 \in 1..n
      BY <1>2, <1>3
    <3> QED BY <1>1, <1>5, <1>6, <3>1 DEF TargetContent, OrNull
  <2>4. m = 0 => TargetContent(p)' = source'[p]
    BY <1>1, <1>3, <1>5, <1>6 DEF TargetContent
  <2>5. m # 0 => backlog'[p][m] = source'[p]
    <3>1. m # 0 => m \in 1..m
      BY <1>3
    <3> QED BY <1>1, <1>3, <1>4, <1>6, <3>1
  <2>6. owed'[p] <= m
    BY <1>1, <1>3, <1>6
  <2>7. Behind = "nothing" => owed'[p] = 0
    BY <1>1 DEF BacklogLeadsToSource
  <2> QED BY <1>1, <1>4, <1>5, <1>6, <2>2, <2>3, <2>4, <2>5, <2>6, <2>7 DEF BacklogLeadsToSource
<1>8. ASSUME NEW from, NEW to, NEW gone \in BOOLEAN, Since(p, from, to, gone)
      PROVE  Since(p, from, to, gone)'
  <2>1. ASSUME owed'[p] > 0 PROVE backlog'[p][owed'[p]] = from
    <3>1. owed[p] > 0 /\ owed'[p] \in 1..m /\ owed'[p] + 1 = owed[p]
      BY <1>1, <1>3, <1>6, <2>1
    <3> QED BY <1>4, <1>8, <3>1 DEF Since, b
  <2>2. ASSUME owed'[p] = 0, from # NULL
        PROVE  /\ source'[p] = from => backlog'[p] = <<>>
               /\ TargetContent(p)' = NULL => backlog'[p] = <<>>
    <3>1. 1 \in 1..n /\ n \in 1..n
      BY <1>2, <1>3
    <3>2. b[1] = NULL => m = 0
      BY <1>3, <1>6, <3>1
    <3>3. source[p] = from => m = 0
      <4>1. CASE owed[p] = 0
        BY <1>1, <1>8, <2>2, <4>1 DEF Since, b
      <4>2. CASE owed[p] # 0
        <5>1. owed[p] = 1
          BY <1>1, <1>6, <2>2, <4>2
        <5>2. b[1] = from
          BY <1>8, <5>1 DEF Since, b
        <5> QED BY <1>3, <1>6, <3>1, <5>2
      <4> QED BY <4>1, <4>2
    <3> QED BY <1>1, <1>4, <1>5, <3>2, <3>3 DEF TargetContent
  <2>3. ASSUME gone PROVE owed'[p] = m
    <3>1. owed[p] = n
      BY <1>8, <2>3 DEF Since, b, n
    <3> QED BY <1>1, <1>3, <3>1
  <2> QED BY <1>1, <1>4, <1>8, <2>1, <2>2, <2>3 DEF Since, Dead
<1>9. (source[p] \in OrNull(used[p]))'
  BY <1>1
<1> QED BY <1>7, <1>8, <1>9 DEF KeyKept

\* The tables: no key loses its order, and a run that reads sees none of it.
LEMMA TablesKeepKeys ==
  ASSUME Faultless, SeatbeltTypeOK, PipelineOrdered, TablesNext
  PROVE  \A p \in PK : KeyKept(p)
<1>1. PICK p \in PK : \/ \E content \in SourceSignature : WriteSource(p, content)
                     \/ DeleteSource(p) \/ Deliver(p)
  BY DEF TablesNext, Faultless, Drop, Corrupt
<1>2. source[p] \in OrNull(used[p]) /\ BacklogLeadsToSource(p)
  BY DEF PipelineOrdered
<1>3. KeyKept(p)
  BY <1>1, <1>2, WriteKeepsKey, DeleteKeepsKey, DeliverKeepsKey
<1>4. ASSUME NEW q \in PK, q # p PROVE KeyKept(q)
  <2>1. /\ source'[q] = source[q] /\ target'[q] = target[q] /\ backlog'[q] = backlog[q]
        /\ owed'[q] = owed[q] /\ used'[q] = used[q]
    BY <1>1, <1>4
    DEF WriteSource, DeleteSource, ChangeSource, Deliver, TakeFromBacklog, SeatbeltTypeOK,
        SourceScan, TargetScan
  <2> QED BY <2>1, OtherKeysKept DEF PipelineOrdered
<1> QED BY <1>3, <1>4

LEMMA TablesKeepQuietly ==
  ASSUME Faultless, SeatbeltInv, IInv, Judged, Quietly, TablesNext
  PROVE  Quietly'
<1>1. TablesMove /\ UNCHANGED <<vars, files, agreed>>
  BY DEF TablesNext, WriteSource, DeleteSource, ChangeSource, Deliver, Drop, TakeFromBacklog, Corrupt
<1>2. UNCHANGED <<shadow, txShadow, phase, run, sourceScan, targetScan, sourceChanges>>
  BY <1>1 DEF vars, files
<1>3. run = "none" \/ sourceChanges # NoScan
  BY <1>1 DEF TablesMove, Faultless, Judged, RunControl
<1>4. \A p \in PK : KeyKept(p)
  BY TablesKeepKeys DEF SeatbeltInv, Quietly
<1>5. PipelineOrdered'
  BY <1>4 DEF PipelineOrdered, KeyKept
<1>6. StartsClean' /\ TargetStill'
  BY <1>2, <1>3 DEF StartsClean, TargetStill, Judged, RunControl
<1>7. ScansFollow'
  <2> SUFFICES ASSUME sourceChanges # NoScan, phase = "idle" PROVE ScansFollow'
    BY <1>2 DEF ScansFollow
  <2>1. ASSUME NEW p \in PK
        PROVE  Since(p, sourceScan[p], targetScan[p].target_signature, GoneInScan(p))'
    <3>1. Since(p, sourceScan[p], targetScan[p].target_signature, GoneInScan(p))
      BY DEF Quietly, ScansFollow
    <3>2. GoneInScan(p)' = GoneInScan(p) /\ GoneInScan(p) \in BOOLEAN
      BY <1>2 DEF GoneInScan
    <3> QED BY <1>2, <1>4, <3>1, <3>2 DEF KeyKept, Since, TargetContent, Dead
  <2> QED BY <1>2, <2>1 DEF Quietly, ScansFollow
<1>8. ASSUME NEW r \in Row, SinceRow(r) PROVE SinceRow(r)'
  <2>1. r.pk \in PK /\ GoneWhenSeen(r) \in BOOLEAN
    BY DEF Row, GoneWhenSeen
  <2> QED BY <1>4, <1>8, <2>1 DEF KeyKept, SinceRow
<1>9. RowsSince'
  BY <1>2, <1>8 DEF Quietly, RowsSince, IInv, TypeOK
<1>10. RowsInnocent'
  BY <1>2 DEF Quietly, RowsInnocent
<1> QED BY <1>5, <1>6, <1>7, <1>9, <1>10 DEF Quietly

-----------------------------------------------------------------------------
(***************************************************************************)
(* A run.                                                                  *)
(***************************************************************************)
\* What the state says of a key has no more to do with runs than what is owed.
LEMMA OrderOfSameTables ==
  ASSUME UNCHANGED <<source, target, backlog, owed, used>>
  PROVE  /\ PipelineOrdered => PipelineOrdered'
         /\ \A p, from, to, gone : Since(p, from, to, gone) => Since(p, from, to, gone)'
         /\ \A r : SinceRow(r) => SinceRow(r)'
  BY DEF PipelineOrdered, BacklogLeadsToSource, Since, SinceRow, TargetContent, Dead

\* A run starts on time, and reads the tables as they are.
LEMMA ReadingKeepsQuietly ==
  ASSUME Faultless, SeatbeltInv, Judged, Quietly,
         \/ \E kind \in {"initial", "incremental"} : StartRun(kind)
         \/ ScanSource \/ ScanTarget
  PROVE  Quietly'
<1>1. /\ UNCHANGED <<source, target, backlog, owed, used>>
      /\ UNCHANGED <<shadow, txShadow, phase, sourceChanges>>
      /\ phase = "idle" /\ sourceChanges = NoScan
  BY DEF StartRun, ScanSource, ScanTarget, Fetching, environment, vars, Judged, RunControl,
         SeatbeltInv, FilesComplete
<1>2. PipelineOrdered' /\ \A r : SinceRow(r) => SinceRow(r)'
  BY <1>1, OrderOfSameTables DEF Quietly
<1>3. RowsSince' /\ RowsInnocent' /\ ScansFollow'
  BY <1>1, <1>2 DEF Quietly, RowsSince, RowsInnocent, ScansFollow
<1>4. StartsClean'
  <2>1. CASE \E kind \in {"initial", "incremental"} : StartRun(kind)
    BY <1>1, <2>1 DEF StartRun, StartsClean, Faultless, Quietly, PipelineOrdered, BacklogLeadsToSource
  <2>2. CASE ScanSource \/ ScanTarget
    BY <1>1, <2>2 DEF ScanSource, ScanTarget, Fetching, StartsClean, Quietly
  <2> QED BY <2>1, <2>2
<1>5. TargetStill'
  BY <1>1 DEF StartRun, ScanSource, ScanTarget, Fetching, TargetStill, Quietly
<1> QED BY <1>2, <1>3, <1>4, <1>5 DEF Quietly

\* Nothing is owed while a run reads, so what it reads follows on what the last one
\* left; from then on the backlog is owed.
LEMMA ConsumeKeepsQuietly ==
  ASSUME Faultless, SeatbeltInv, IInv, Judged, Quietly, ConsumeToCompletion
  PROVE  Quietly'
<1>1. /\ run # "none" /\ phase = "idle" /\ sourceChanges = NoScan
      /\ sourceScan # NoScan /\ targetScan # NoScan
      /\ UNCHANGED <<shadow, txShadow, phase, source, target, backlog, used>>
      /\ UNCHANGED <<run, sourceScan, targetScan>>
      /\ owed' = IF Behind = "one-run" THEN [p \in PK |-> Len(backlog[p])] ELSE owed
  BY DEF ConsumeToCompletion, Fetching, vars
<1>2. sourceScan = source /\ targetScan = target
  BY <1>1 DEF Judged, ScanCurrent, Quietly, TargetStill
<1>3. sourceChanges' # NoScan
  <2>1. sourceChanges' \in SourceChanges
    BY NothingChangedType DEF ConsumeToCompletion, SeatbeltInv, SeatbeltTypeOK
  <2> QED BY <2>1, NullNoChanges DEF NoScan
<1>4. \A p \in PK : /\ owed[p] = 0 /\ owed'[p] = Len(backlog[p])
                    /\ Behind = "nothing" => owed'[p] = 0
  <2> SUFFICES ASSUME NEW p \in PK
               PROVE  /\ owed[p] = 0 /\ owed'[p] = Len(backlog[p])
                      /\ Behind = "nothing" => owed'[p] = 0
    OBVIOUS
  <2>1. owed[p] = 0 /\ (Behind = "nothing" => backlog[p] = <<>>)
    BY <1>1 DEF Quietly, StartsClean
  <2>2. CASE Behind = "nothing"
    <3>1. Len(backlog[p]) = 0
      BY <2>1, <2>2
    <3> QED BY <1>1, <2>1, <2>2, <3>1
  <2>3. CASE Behind = "one-run"
    BY <1>1, <2>1, <2>3
  <2> QED BY <2>2, <2>3 DEF Faultless
<1>5. \A p \in PK : /\ source[p] \in OrNull(used[p]) /\ BacklogLeadsToSource(p)
                    /\ backlog[p] \in Seq(OrNull(SourceSignature))
                    /\ Len(backlog[p]) \in Nat
                    /\ Len(backlog[p]) = 0 <=> backlog[p] = <<>>
  BY LenProperties DEF Quietly, PipelineOrdered, SeatbeltInv, SeatbeltTypeOK
<1>6. PipelineOrdered'
  BY <1>1, <1>4, <1>5 DEF PipelineOrdered, BacklogLeadsToSource, TargetContent
<1>7. \A r \in shadow : r.pk \in PK /\ SinceRow(r)
  BY <1>1 DEF Quietly, RowsSince, IInv, TypeOK, Row
<1>8. ASSUME NEW r \in shadow
      PROVE  Follows(r, source[r.pk], TargetContent(r.pk))
  <2>1. /\ r.pk \in PK /\ owed[r.pk] = 0
        /\ Since(r.pk, r.source_signature, r.target_signature, GoneWhenSeen(r))
    BY <1>4, <1>7 DEF SinceRow
  <2>2. backlog[r.pk] = <<>> => TargetContent(r.pk) = source[r.pk]
    BY <1>5, <2>1 DEF BacklogLeadsToSource
  <2>3. Len(backlog[r.pk]) = 0 => backlog[r.pk] = <<>>
    BY <1>5, <2>1
  <2>4. GoneWhenSeen(r) => source[r.pk] = NULL /\ backlog[r.pk] = <<>>
    BY <2>1, <2>3 DEF Since, Dead
  <2> HIDE DEF GoneWhenSeen
  <2> QED BY <2>1, <2>2, <2>4 DEF Since, Follows
<1>9. ASSUME NEW p \in PK
      PROVE  Since(p, source[p], TargetContent(p), GoneInScan(p))'
  <2>1. GoneInScan(p)' => source[p] = NULL /\ used[p] # {}
    <3>1. source[p] = NULL /\ TargetContent(p) # NULL => used[p] # {}
      BY <1>5 DEF BacklogLeadsToSource, OrNull
    <3>2. \A r \in shadow : r.pk = p /\ r.source_signature # NULL => used[p] # {}
      BY <1>7 DEF SinceRow, Since, OrNull
    <3> QED BY <1>1, <1>2, <3>1, <3>2 DEF GoneInScan, TargetContent
  <2>2. backlog[p] # <<>> => backlog[p][Len(backlog[p])] = source[p]
    BY <1>5 DEF BacklogLeadsToSource
  <2>3. TargetContent(p) \in OrNull(used[p])
    BY <1>5 DEF BacklogLeadsToSource
  <2>4. owed'[p] = Len(backlog[p]) /\ (owed'[p] = 0 <=> backlog[p] = <<>>) /\ owed'[p] \in Nat
    BY <1>4, <1>5
  <2> QED BY <1>1, <1>5, <2>1, <2>2, <2>3, <2>4 DEF Since, Dead, TargetContent
<1>10. ScansFollow'
  <2>1. \A p \in PK : targetScan'[p].target_count <= 1
    BY <1>1, <1>2, <1>5 DEF BacklogLeadsToSource
  <2>2. \A p \in PK :
          Since(p, sourceScan[p], targetScan[p].target_signature, GoneInScan(p))'
    BY <1>1, <1>2, <1>9 DEF TargetContent, Since, Dead
  <2>3. \A r \in shadow : Follows(r, sourceScan[r.pk], targetScan[r.pk].target_signature)
    BY <1>2, <1>8 DEF TargetContent
  <2> QED BY <1>1, <2>1, <2>2, <2>3 DEF ScansFollow
<1>11. StartsClean' /\ TargetStill' /\ RowsSince' /\ RowsInnocent'
  BY <1>1, <1>3 DEF StartsClean, TargetStill, RowsSince, RowsInnocent, Quietly
<1> QED BY <1>6, <1>10, <1>11 DEF Quietly

\* The rows of a run tell no more than its scans do.
LEMMA ScansGiveRows ==
  ASSUME NEW r, r.pk \in PK, Since(r.pk, sourceScan[r.pk], targetScan[r.pk].target_signature, GoneInScan(r.pk)),
         r.source_signature = sourceScan[r.pk],
         r.target_signature = targetScan[r.pk].target_signature,
         r.source_operation = DELETE => \E old \in shadow : old.pk = r.pk /\ old.source_signature # NULL
  PROVE  SinceRow(r)
<1>1. GoneWhenSeen(r) => GoneInScan(r.pk)
  BY DEF GoneWhenSeen, GoneInScan
<1> QED BY <1>1 DEF SinceRow, Since

LEMMA UpsertKeepsQuietly ==
  ASSUME Faultless, SeatbeltInv, IInv, Judged, Judged', Quietly, Upsert
  PROVE  Quietly'
<1>1. /\ phase = "idle" /\ sourceChanges # NoScan
      /\ phase' = "upserted" /\ shadow' = shadow
      /\ UNCHANGED <<source, target, backlog, owed, used>>
      /\ UNCHANGED <<run, sourceScan, targetScan, sourceChanges>>
  BY DEF Upsert, InitialLoadUpsert, IncrementalUpsert, BeginTransaction, environment, files
<1>2. /\ sourceScan \in SourceScan /\ targetScan \in TargetScan /\ sourceChanges \in SourceChanges
      /\ LatestOnly(sourceChanges)
  BY <1>1 DEF SeatbeltInv, SeatbeltTypeOK, FilesComplete, Judged, RowsFaithful
<1>3. /\ \A p \in PK : /\ targetScan[p] \in TargetRows /\ targetScan[p].target_count <= 1
                       /\ Since(p, sourceScan[p], targetScan[p].target_signature, GoneInScan(p))
      /\ \A r \in shadow : Follows(r, sourceScan[r.pk], targetScan[r.pk].target_signature)
  BY <1>1, <1>2 DEF Quietly, ScansFollow, TargetScan, TargetRows
<1>4. \A r \in shadow : r \in Row /\ RowConsistent(r) /\ Innocent(r)
  BY DEF IInv, TypeOK, Quietly, RowsInnocent
<1>5. ASSUME run = "initial", NEW r \in txShadow' PROVE SinceRow(r) /\ Innocent(r)
  <2>1. txShadow' = shadow \union InitialRows(Extracted(sourceScan), targetScan) /\ shadow = {}
    BY <1>1, <1>5 DEF Upsert, InitialLoadUpsert, BeginTransaction, Judged, RunControl
  <2>2. PICK p \in PK :
          /\ Extracted(sourceScan)[p] # NoChange \/ targetScan[p] # NoTarget
          /\ r = InitialRow(p, Extracted(sourceScan)[p], targetScan[p])
    BY <1>5, <2>1 DEF InitialRows
  <2>3. Innocent(r)
    BY <1>3, <2>2, InitialRowInnocent
  <2>4. /\ r.pk = p /\ r.source_signature = sourceScan[p]
        /\ r.target_signature = targetScan[p].target_signature
        /\ r.source_operation # DELETE
    BY <2>2 DEF InitialRow, Extracted, INSERT, DELETE
  <2> QED BY <1>3, <2>3, <2>4, ScansGiveRows
<1>6. ASSUME run = "incremental", NEW r \in txShadow' PROVE SinceRow(r) /\ Innocent(r)
  <2>1. txShadow' = IncrementalRows(sourceScan, targetScan, sourceChanges)
    BY <1>6 DEF Upsert, IncrementalUpsert, BeginTransaction
  <2>2. PICK p \in PK : r \in JoinedRows(p, sourceScan[p], targetScan[p], sourceChanges[p])
    BY <1>6, <2>1 DEF IncrementalRows
  <2>3. PICK old \in (IF RowsOf(p) = {} THEN {NoRow} ELSE RowsOf(p)) : \E copy :
          r = MergedRow(p, old, sourceScan[p], targetScan[p], ChangeOf(sourceChanges, p), copy)
    BY <1>2, <2>2, MergedWithItsChange
  <2>4. PICK copy :
          r = MergedRow(p, old, sourceScan[p], targetScan[p], ChangeOf(sourceChanges, p), copy)
    BY <2>3
  <2>5. Faithful(r)
    BY <1>6 DEF Judged, RowsFaithful
  <2>6. /\ r.pk = p /\ r.source_signature = sourceScan[p]
        /\ r.target_signature = targetScan[p].target_signature
        /\ r.source_operation = DetermineSourceOperation(sourceScan[p], old.source_signature)
    BY <2>4 DEF MergedRow
  <2>7. CASE old = NoRow
    <3>1. Innocent(r)
      BY <1>3, <2>4, <2>7, FirstRowInnocent
    <3>2. r.source_operation # DELETE
      BY <2>6, <2>7, OperationMeaning DEF NoRow
    <3> QED BY <1>3, <2>6, <3>1, <3>2, ScansGiveRows
  <2>8. CASE old # NoRow
    <3>1. old \in shadow /\ old.pk = p
      BY <2>8 DEF RowsOf
    <3>2. Innocent(r)
      BY <1>3, <1>4, <2>4, <2>5, <3>1, MergedRowInnocent
    <3>3. r.source_operation = DELETE => old.source_signature # NULL
      BY <2>6, OperationMeaning
    <3> QED BY <1>3, <2>6, <3>1, <3>2, <3>3, ScansGiveRows
  <2> QED BY <2>7, <2>8
<1>7. \A r \in txShadow' : SinceRow(r) /\ Innocent(r)
  BY <1>5, <1>6 DEF Upsert
<1>8. PipelineOrdered' /\ \A r : SinceRow(r) => SinceRow(r)'
  BY <1>1, OrderOfSameTables DEF Quietly
<1>9. RowsSince' /\ RowsInnocent'
  BY <1>1, <1>4, <1>7, <1>8 DEF RowsSince, RowsInnocent
<1>10. StartsClean' /\ TargetStill' /\ ScansFollow'
  BY <1>1 DEF StartsClean, TargetStill, ScansFollow
<1> QED BY <1>8, <1>9, <1>10 DEF Quietly

\* Committing, deleting and counting change no row.
LEMMA FinishingKeepsQuietly ==
  ASSUME Faultless, IInv, Judged, Quietly,
         CommitRun \/ DeleteGoneRows \/ FinishRun \/ RunFails
  PROVE  Quietly'
<1>1. UNCHANGED <<source, target, backlog, owed, used>>
  BY DEF CommitRun, DeleteGoneRows, FinishRun, RunFails, environment
<1>2. PipelineOrdered' /\ \A r : SinceRow(r) => SinceRow(r)'
  BY <1>1, OrderOfSameTables DEF Quietly
<1>3. CASE CommitRun
  <2>1. /\ phase = "upserted" /\ phase' = "committed" /\ shadow' = txShadow /\ txShadow' = {}
        /\ UNCHANGED files /\ sourceChanges # NoScan
    BY <1>3 DEF CommitRun, Commit, Judged, RunControl
  <2> QED
    BY <1>2, <2>1
    DEF Quietly, StartsClean, TargetStill, ScansFollow, RowsSince, RowsInnocent, files
<1>4. CASE DeleteGoneRows
  <2>1. /\ phase = "committed" /\ phase' = "deleted" /\ shadow' \subseteq shadow /\ txShadow' = txShadow
        /\ UNCHANGED files /\ sourceChanges # NoScan
    BY <1>4 DEF DeleteGoneRows, DeleteGone, Judged, RunControl
  <2> QED
    BY <1>2, <2>1
    DEF Quietly, StartsClean, TargetStill, ScansFollow, RowsSince, RowsInnocent, files
<1>5. CASE FinishRun \/ RunFails
  <2>1. /\ run' = "none" /\ phase' = "idle"
        /\ targetScan' = NoScan /\ sourceChanges' = NoScan
        /\ shadow' = shadow /\ (txShadow' = {} \/ txShadow' = txShadow)
    BY <1>5 DEF FinishRun, RunFails, ForgetFiles, CalculateMetrics, Abort, vars
  <2>2. run = "initial" \/ phase \in {"committed", "deleted"}
    BY <1>5 DEF FinishRun, CalculateMetrics, RunFails, Faultless
  <2>3. \A r \in shadow : SinceRow(r)
    <3>1. CASE phase \in {"committed", "deleted"}
      BY <3>1 DEF Quietly, RowsSince
    <3>2. CASE run = "initial" /\ phase \in {"idle", "upserted"}
      BY <3>2 DEF Judged, RunControl
    <3> QED BY <2>2, <3>1, <3>2 DEF IInv, TypeOK
  <2> QED
    BY <1>2, <2>1, <2>3
    DEF Quietly, StartsClean, TargetStill, ScansFollow, RowsSince, RowsInnocent
<1> QED BY <1>3, <1>4, <1>5

LEMMA StutterKeepsQuietly == Quietly /\ UNCHANGED allVars => Quietly'
<1> SUFFICES ASSUME Quietly, UNCHANGED allVars PROVE Quietly'
  OBVIOUS
<1>1. UNCHANGED <<source, target, backlog, owed, used>> /\ UNCHANGED <<vars, files>>
  BY DEF allVars, environment
<1>2. PipelineOrdered' /\ (\A r : SinceRow(r) => SinceRow(r)')
      /\ \A p, from, to, gone : Since(p, from, to, gone) => Since(p, from, to, gone)'
  BY <1>1, OrderOfSameTables DEF Quietly
<1>3. StartsClean' /\ TargetStill' /\ RowsSince' /\ RowsInnocent'
  BY <1>1, <1>2 DEF vars, files, Quietly, StartsClean, TargetStill, RowsSince, RowsInnocent
<1>4. ScansFollow'
  BY <1>1, <1>2 DEF vars, files, Quietly, ScansFollow, GoneInScan, Since, TargetContent, Dead
<1> QED BY <1>2, <1>3, <1>4 DEF Quietly

LEMMA QuietlyInit == SeatbeltInit => Quietly
  BY DEF SeatbeltInit, Init, Quietly, PipelineOrdered, BacklogLeadsToSource, TargetContent, NoTarget,
         OrNull, StartsClean, TargetStill, ScansFollow, RowsSince, RowsInnocent

LEMMA NextKeepsQuietly ==
  ASSUME Faultless, SeatbeltInv, IInv, Judged, Judged', Quietly, [SeatbeltNext]_allVars
  PROVE  Quietly'
  BY TablesKeepQuietly, ReadingKeepsQuietly, ConsumeKeepsQuietly, UpsertKeepsQuietly,
     FinishingKeepsQuietly, StutterKeepsQuietly
  DEF SeatbeltNext, RunNext

\* An error needs a rule, or a second row on the target.
LEMMA InnocentIsNoError ==
  ASSUME NEW r \in Row, Innocent(r)
  PROVE  ValidationStatus(r) # StatusError
<1>1. ~(r.target_count > 1)
  BY DEF Row, Innocent
<1>2. r.validation_error # TRUE
  BY DEF Innocent
<1> QED
  BY <1>1, <1>2 DEF ValidationStatus, StatusError, StatusPending, StatusGone, StatusValid

-----------------------------------------------------------------------------
\* "No noise from false-positive alerts": a pipeline that applies every change, and
\* is never more than a run behind when one starts, makes no row an error.
THEOREM NoNoise ==
  ASSUME Faultless
  PROVE  SeatbeltSpec => []NoFalseErrors
<1>1. AtomicFetch /\ ~FailedRuns
  BY DEF Faultless
<1>2. JudgementInv /\ JudgementInv' /\ Quietly /\ [SeatbeltNext]_allVars => Quietly'
  BY NextKeepsQuietly DEF JudgementInv
<1>3. JudgementInv /\ Quietly => NoFalseErrors
  BY InnocentIsNoError
  DEF JudgementInv, IInv, TypeOK, Quietly, RowsInnocent, NoFalseErrors, WithStatus
<1>4. SeatbeltSpec => []JudgementInv
  BY <1>1, JudgementInvariant
<1> QED BY <1>2, <1>3, <1>4, QuietlyInit, PTL DEF SeatbeltSpec
=============================================================================
