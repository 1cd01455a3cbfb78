---------------------------- MODULE MCBatchDecode ----------------------------
(***************************************************************************)
(* A small instance of the microbatch split.                               *)
(***************************************************************************)
EXTENDS BatchDecode
=============================================================================
