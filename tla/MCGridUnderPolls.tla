-------------------------- MODULE MCGridUnderPolls --------------------------
(***************************************************************************)
(* Small instances of GridUnderPolls for TLC.                              *)
(***************************************************************************)
EXTENDS GridUnderPolls
=============================================================================
