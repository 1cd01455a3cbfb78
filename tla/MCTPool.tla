------------------------------- MODULE MCTPool -------------------------------
(***************************************************************************)
(* A small instance of TPool for TLC.                                      *)
(***************************************************************************)
EXTENDS TPool
=============================================================================
