----------------------- MODULE MCChangeStreamConsumer -----------------------
(***************************************************************************)
(* ChangeStreamConsumer for TLC.                                           *)
(***************************************************************************)
EXTENDS ChangeStreamConsumer, TLC

Symmetry == Permutations(PK)
=============================================================================
