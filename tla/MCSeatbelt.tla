----------------------------- MODULE MCSeatbelt -----------------------------
(***************************************************************************)
(* Seatbelt for TLC.  A content is a model value: rows are only compared.  *)
(***************************************************************************)
EXTENDS Seatbelt, TLC

Symmetry == Permutations(SourceSignature)
=============================================================================
