---------------------------- MODULE MCInProcess -----------------------------
(***************************************************************************)
(* Small instances of InProcess.                                           *)
(***************************************************************************)
EXTENDS InProcess, TLC
=============================================================================
