----------------------------- MODULE Validator -----------------------------
(***************************************************************************)
(* What Seatbelt promises for one primary key: the verdict after each look *)
(* at the two databases.  A look takes effect in whole or not at all.      *)
(* There is a band between what must be an error and what may be one: the  *)
(* change log (row integrity) and deletes decide there.                    *)
(***************************************************************************)
CONSTANTS SourceSignature, TargetSignature, NULL

VARIABLES
  known,   \* is the key being followed?
  seen,    \* the signatures of the last look, NULL for an absent row
  still,   \* the sides that had not moved at that look
  error    \* its verdict

validator == <<known, seen, still, error>>

Side == {"source", "target"}

Look == [source: SourceSignature \union {NULL}, target: TargetSignature \union {NULL}]

Nothing == [source |-> NULL, target |-> NULL]

Same(side, look) == look[side] = seen[side]

(***************************************************************************)
(* What must be an error.                                                  *)
(***************************************************************************)
\* The source has had the row for two looks, the target has it in neither.
Missing(look) ==
  NULL \notin {seen.source, look.source} /\ seen.target = NULL /\ look.target = NULL

\* Only the target has it, and the source did not for three looks.
Phantom(look) ==
  look = seen /\ look.source = NULL /\ look.target # NULL /\ "source" \in still

\* The source moved, and the target has not in two looks.
Stalled(look) ==
  look = seen /\ look.source # NULL /\ "source" \notin still /\ "target" \in still

\* The target moves while the source does not; once reported, it may be a repair.
Corrupted(look) ==
  /\ Same("source", look) /\ look.source # NULL /\ "source" \in still
  /\ ~Same("target", look) /\ ~error

MustBeError(look) ==
  known /\ \/ Missing(look) \/ Phantom(look) \/ Stalled(look) \/ Corrupted(look)
           \/ error /\ look = seen

\* What may be one: a row seen before that is somewhere, and whose source has
\* not moved, or has while the target stood still and one of them was absent.
MayBeError(look) ==
  /\ known
  /\ look # Nothing
  /\ \/ Same("source", look)
     \/ Same("target", look) /\ (look.target = NULL \/ seen.source = NULL)

\* The first look may take a side that has no row for one that moved: an
\* initial load does with the source of a row that only the target has.
Observe(look) ==
  /\ known' = TRUE
  /\ seen' = look
  /\ still' \subseteq {side \in Side : Same(side, look)}
  /\ known => still' = {side \in Side : Same(side, look)}
  /\ error' \in BOOLEAN
  /\ MustBeError(look) => error'
  /\ error' => MayBeError(look)

\* A key that is nowhere is no longer followed.
Forget ==
  /\ known /\ seen = Nothing /\ ~error
  /\ known' = FALSE
  /\ still' = Side
  /\ UNCHANGED <<seen, error>>

ValidatorInit == known = FALSE /\ seen = Nothing /\ still = Side /\ error = FALSE

ValidatorNext == (\E look \in Look : Observe(look)) \/ Forget

ValidatorSpec == ValidatorInit /\ [][ValidatorNext]_validator
=============================================================================
