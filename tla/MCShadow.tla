------------------------------ MODULE MCShadow ------------------------------
(***************************************************************************)
(* Shadow for TLC.  Signatures are interchangeable: the code only compares *)
(* them.                                                                   *)
(***************************************************************************)
EXTENDS Shadow, TLC

Symmetry == Permutations(PK) \union Permutations(SourceSignature) \union Permutations(TargetSignature)
=============================================================================
