----------------------------- MODULE MCAdmission -----------------------------
(***************************************************************************)
(* A small instance of Admission for TLC.                                  *)
(***************************************************************************)
EXTENDS Admission
=============================================================================
