--------------------------- MODULE SeatbeltProofs ---------------------------
(***************************************************************************)
(* Whatever source, pipeline and target do, and wherever a run fails, the  *)
(* part of Seatbelt that is the shadow behaves as module Shadow says, so   *)
(* what is proved there for files of any contents holds here.              *)
(***************************************************************************)
EXTENDS Seatbelt, ShadowProofs, SequenceTheorems

(***************************************************************************)
(* The type invariant is inductive.  What a step of the shadow reads are   *)
(* the files, and once there is a change file there are both scans.        *)
(***************************************************************************)
FilesComplete == sourceChanges # NoScan => sourceScan # NoScan /\ targetScan # NoScan

SeatbeltInv == SeatbeltTypeOK /\ FilesComplete

\* A change file that has at most one change of a key is a change file.
LEMMA OneChange ==
  /\ <<>> \in UNION {[1..n -> Change] : n \in 0..MaxChangeRows}
  /\ \A c \in Change : <<c>> \in UNION {[1..n -> Change] : n \in 0..MaxChangeRows}
<1>1. 0 \in 0..MaxChangeRows /\ 1 \in 0..MaxChangeRows
  <2>1. MaxChangeRows \in Nat
    BY ShadowAssumption
  <2>2. MaxChangeRows > 0
    BY SeatbeltAssumption
  <2> QED BY <2>1, <2>2
<1>2. <<>> \in [1..0 -> Change]
  OBVIOUS
<1>3. \A c \in Change : <<c>> \in [1..1 -> Change]
  OBVIOUS
<1> QED BY <1>1, <1>2, <1>3

LEMMA NothingChangedType == NothingChanged \in SourceChanges
  BY OneChange DEF NothingChanged, SourceChanges

\* What the pipeline makes of a content is a row a target scan can find.
LEMMA TargetRowType ==
  ASSUME NEW content \in OrNull(SourceSignature)
  PROVE  TargetRow(content) \in {NoTarget} \union
           [target_signature: TargetSignature, target_count: 1..MaxTargetCount]
<1>1. 1 \in 1..MaxTargetCount
  BY ShadowAssumption
<1>2. content = NULL \/ content \in TargetSignature
  BY SeatbeltAssumption DEF OrNull
<1> QED BY <1>1, <1>2 DEF TargetRow

\* An extract scan pairs each content with its own signatures.
LEMMA ExtractedType ==
  ASSUME NEW scan \in SourceScan
  PROVE  Extracted(scan) \in SourceExtractScan
  BY SeatbeltAssumption DEF Extracted, SourceScan, SourceExtractScan, Change, NoChange, OrNull

-----------------------------------------------------------------------------
LEMMA SeatbeltInitInvariant == SeatbeltInit => SeatbeltInv
<1> SUFFICES ASSUME SeatbeltInit PROVE SeatbeltInv
  OBVIOUS
<1>1. source \in SourceScan /\ target \in TargetScan
  BY DEF SeatbeltInit, SourceScan, TargetScan, OrNull
<1>2. backlog \in [PK -> Seq(OrNull(SourceSignature))]
  BY DEF SeatbeltInit
<1>3. slot \in SourceChanges
  BY NothingChangedType DEF SeatbeltInit
<1> QED
  BY <1>1, <1>2, <1>3 DEF SeatbeltInit, SeatbeltInv, SeatbeltTypeOK, FilesComplete

\* A change of the source.
LEMMA ChangeSourceType ==
  ASSUME SeatbeltInv, NEW p \in PK, NEW content \in OrNull(SourceSignature),
         ChangeSource(p, content), slot' \in SourceChanges, used' \in [PK -> SUBSET SourceSignature]
  PROVE  SeatbeltInv'
<1>1. source' \in SourceScan
  BY DEF SeatbeltInv, SeatbeltTypeOK, ChangeSource, SourceScan
<1>2. backlog' \in [PK -> Seq(OrNull(SourceSignature))]
  <2>1. Append(backlog[p], content) \in Seq(OrNull(SourceSignature))
    BY DEF SeatbeltInv, SeatbeltTypeOK
  <2> QED BY <2>1 DEF SeatbeltInv, SeatbeltTypeOK, ChangeSource
<1> QED
  BY <1>1, <1>2 DEF SeatbeltInv, SeatbeltTypeOK, FilesComplete, ChangeSource, files

\* The pipeline takes its oldest change, whatever becomes of it.
LEMMA TakeFromBacklogType ==
  ASSUME SeatbeltInv, NEW p \in PK, TakeFromBacklog(p), target' \in TargetScan
  PROVE  SeatbeltInv'
<1>1. backlog' \in [PK -> Seq(OrNull(SourceSignature))]
  <2>1. Tail(backlog[p]) \in Seq(OrNull(SourceSignature))
    BY HeadTailProperties DEF SeatbeltInv, SeatbeltTypeOK, TakeFromBacklog
  <2> QED BY <2>1 DEF SeatbeltInv, SeatbeltTypeOK, TakeFromBacklog
<1>2. owed' \in [PK -> Nat]
  BY DEF SeatbeltInv, SeatbeltTypeOK, TakeFromBacklog
<1> QED
  BY <1>1, <1>2 DEF SeatbeltInv, SeatbeltTypeOK, FilesComplete, TakeFromBacklog, files

LEMMA TablesNextInvariant == SeatbeltInv /\ TablesNext => SeatbeltInv'
<1> SUFFICES ASSUME SeatbeltInv, NEW p \in PK,
                    \/ \E content \in SourceSignature : WriteSource(p, content)
                    \/ DeleteSource(p)
                    \/ Deliver(p)
                    \/ Drop(p)
                    \/ \E content \in SourceSignature, count \in 1..MaxTargetCount :
                         Corrupt(p, [target_signature |-> content, target_count |-> count])
                    \/ Corrupt(p, NoTarget)
             PROVE  SeatbeltInv'
  BY DEF TablesNext
<1>1. ASSUME NEW content \in SourceSignature, WriteSource(p, content) PROVE SeatbeltInv'
  <2>1. [source_signature |-> content, target_signature |-> content] \in Change
    BY SeatbeltAssumption DEF Change
  <2>2. slot' \in SourceChanges
    BY <1>1, <2>1, OneChange DEF WriteSource, SeatbeltInv, SeatbeltTypeOK, SourceChanges
  <2>3. used' \in [PK -> SUBSET SourceSignature]
    BY <1>1 DEF WriteSource, SeatbeltInv, SeatbeltTypeOK
  <2> QED BY <1>1, <2>2, <2>3, ChangeSourceType DEF WriteSource, OrNull
<1>2. CASE DeleteSource(p)
  <2>1. slot' \in SourceChanges /\ used' \in [PK -> SUBSET SourceSignature]
    BY <1>2 DEF DeleteSource, SeatbeltInv, SeatbeltTypeOK
  <2> QED BY <1>2, <2>1, ChangeSourceType DEF DeleteSource, OrNull
<1>3. CASE Deliver(p)
  <2>1. Head(backlog[p]) \in OrNull(SourceSignature)
    BY <1>3, HeadTailProperties DEF Deliver, TakeFromBacklog, SeatbeltInv, SeatbeltTypeOK
  <2>2. target' \in TargetScan
    BY <1>3, <2>1, TargetRowType DEF Deliver, SeatbeltInv, SeatbeltTypeOK, TargetScan
  <2> QED BY <1>3, <2>2, TakeFromBacklogType DEF Deliver
<1>4. CASE Drop(p)
  <2>1. target' \in TargetScan
    BY <1>4 DEF Drop, SeatbeltInv, SeatbeltTypeOK
  <2> QED BY <1>4, <2>1, TakeFromBacklogType DEF Drop
<1>5. ASSUME NEW row \in {NoTarget} \union
                           [target_signature: TargetSignature, target_count: 1..MaxTargetCount],
             Corrupt(p, row)
      PROVE  SeatbeltInv'
  <2>1. target' \in TargetScan
    BY <1>5 DEF Corrupt, SeatbeltInv, SeatbeltTypeOK, TargetScan
  <2> QED BY <1>5, <2>1 DEF Corrupt, SeatbeltInv, SeatbeltTypeOK, FilesComplete, files
<1>6. \A content \in SourceSignature, count \in 1..MaxTargetCount :
        [target_signature |-> content, target_count |-> count] \in
          [target_signature: TargetSignature, target_count: 1..MaxTargetCount]
  BY SeatbeltAssumption
<1> QED BY <1>1, <1>2, <1>3, <1>4, <1>5, <1>6

LEMMA RunNextInvariant == SeatbeltInv /\ RunNext => SeatbeltInv'
<1> SUFFICES ASSUME SeatbeltInv, RunNext PROVE SeatbeltInv'
  OBVIOUS
<1> USE DEF SeatbeltInv, SeatbeltTypeOK, FilesComplete
<1>1. ASSUME NEW kind \in {"initial", "incremental"}, StartRun(kind) PROVE SeatbeltInv'
  BY <1>1 DEF StartRun, environment
<1>2. CASE ScanSource
  BY <1>2 DEF ScanSource, Fetching, environment
<1>3. CASE ScanTarget
  BY <1>3 DEF ScanTarget, Fetching, environment
<1>4. CASE ConsumeToCompletion
  <2>1. slot' \in SourceChanges /\ sourceChanges' \in SourceChanges
    BY <1>4, NothingChangedType DEF ConsumeToCompletion
  <2>2. owed' \in [PK -> Nat]
    BY <1>4, LenProperties DEF ConsumeToCompletion
  <2> QED BY <1>4, <2>1, <2>2 DEF ConsumeToCompletion
<1>5. CASE Upsert
  BY <1>5 DEF Upsert, environment, files
<1>6. CASE CommitRun
  BY <1>6 DEF CommitRun, environment, files
<1>7. CASE DeleteGoneRows
  BY <1>7 DEF DeleteGoneRows, environment, files
<1>8. CASE FinishRun
  BY <1>8 DEF FinishRun, ForgetFiles, environment
<1>9. CASE RunFails
  <2>1. slot' \in SourceChanges
    BY <1>9, OneChange DEF RunFails, SourceChanges
  <2> QED BY <1>9, <2>1 DEF RunFails, ForgetFiles
<1> QED BY <1>1, <1>2, <1>3, <1>4, <1>5, <1>6, <1>7, <1>8, <1>9 DEF RunNext

\* Tables, pipeline, slot and files keep their types, and a change file comes
\* with both scans.
THEOREM SeatbeltInvariant == SeatbeltSpec => []SeatbeltInv
<1>1. SeatbeltInv /\ UNCHANGED allVars => SeatbeltInv'
  BY DEF SeatbeltInv, SeatbeltTypeOK, FilesComplete, allVars, environment, files
<1> QED
  BY <1>1, SeatbeltInitInvariant, TablesNextInvariant, RunNextInvariant, PTL
  DEF SeatbeltSpec, SeatbeltNext

\* The state of source, pipeline, target, slot and run is what the model says.
THEOREM SeatbeltTypeCorrect == SeatbeltSpec => []SeatbeltTypeOK
<1>1. SeatbeltInv => SeatbeltTypeOK
  BY DEF SeatbeltInv
<1> QED BY <1>1, SeatbeltInvariant, PTL

-----------------------------------------------------------------------------
(***************************************************************************)
(* Refinement.  The shadow's variables are the ones of module Shadow, so   *)
(* the mapping is the identity.                                            *)
(***************************************************************************)
\* A step of the tables leaves the shadow alone; a step of a run is a statement
\* of UpdateShadow on files that are in range, an abort, or none of its business.
LEMMA StepSimulation == SeatbeltInv /\ [SeatbeltNext]_allVars => [Next]_vars
<1> SUFFICES ASSUME SeatbeltInv, [SeatbeltNext]_allVars PROVE [Next]_vars
  OBVIOUS
<1>1. CASE TablesNext
  BY <1>1
  DEF TablesNext, WriteSource, DeleteSource, ChangeSource, Deliver, Drop, TakeFromBacklog, Corrupt
<1>2. CASE \/ \E kind \in {"initial", "incremental"} : StartRun(kind)
           \/ ScanSource \/ ScanTarget \/ ConsumeToCompletion
  BY <1>2 DEF StartRun, ScanSource, ScanTarget, ConsumeToCompletion
<1>3. CASE Upsert
  <2>1. /\ sourceScan \in SourceScan /\ targetScan \in TargetScan
        /\ sourceChanges \in SourceChanges
    BY <1>3 DEF Upsert, SeatbeltInv, SeatbeltTypeOK, FilesComplete
  <2>2. Extracted(sourceScan) \in SourceExtractScan
    BY <2>1, ExtractedType
  <2>3. phase = "idle"
    BY <1>3 DEF Upsert, InitialLoadUpsert, IncrementalUpsert, BeginTransaction
  <2> QED BY <1>3, <2>1, <2>2, <2>3 DEF Upsert, Next
<1>4. CASE CommitRun \/ DeleteGoneRows \/ FinishRun \/ RunFails
  BY <1>4 DEF CommitRun, DeleteGoneRows, FinishRun, RunFails, Next
<1>5. CASE UNCHANGED allVars
  BY <1>5 DEF allVars
<1> QED BY <1>1, <1>2, <1>3, <1>4, <1>5 DEF SeatbeltNext, RunNext

\* Every behaviour of the whole is one of the shadow.
THEOREM ImplementsShadow == SeatbeltSpec => Spec
<1>1. SeatbeltInit => Init
  BY DEF SeatbeltInit
<1> QED
  BY <1>1, StepSimulation, SeatbeltInvariant, PTL DEF SeatbeltSpec, Spec

\* End to end: no sequence of changes, faults of the pipeline and failed runs
\* leaves an error on a row that is nowhere, a row that is gone from both sides,
\* or a row missing from the target that two runs saw without an error.
THEOREM ShadowSound == SeatbeltSpec => [](NoZombieError /\ NoLingeringRow /\ MissingRowIsError)
<1> QED
  BY ImplementsShadow, NoZombies, NothingLingers, MissingRowDetected, PTL

\* End to end, each primary key is validated as Validator has it while it has one
\* row, whatever the other keys do, the pipeline does to their rows and the runs
\* that fail leave.
THEOREM SeatbeltValidates == SeatbeltSpec => EachKeyValidated
<1> QED
  BY ImplementsShadow, ImplementsValidator, PTL
=============================================================================
