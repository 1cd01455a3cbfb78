----------------------------- MODULE MCScheduler -----------------------------
(***************************************************************************)
(* Small instances of the scheduler.                                       *)
(***************************************************************************)
EXTENDS Scheduler, TLC

SlotSymmetry == Permutations(Slots)
=============================================================================
