---------------------------- MODULE MCRunCommand ----------------------------
(***************************************************************************)
(* RunCommand for TLC.                                                     *)
(***************************************************************************)
EXTENDS RunCommand
=============================================================================
