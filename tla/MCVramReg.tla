------------------------------ MODULE MCVramReg ------------------------------
(***************************************************************************)
(* Two processes; the first may hold two claims (two slots of one server). *)
(***************************************************************************)
EXTENDS VramReg

CONSTANTS p1, p2, a1, a2, b1

MCOwner    == [c \in Claims |-> IF c = b1 THEN p2 ELSE p1]
MCNeed     == [c \in Claims |-> IF c = a2 THEN 2 ELSE 1]
MCPriority == [c \in Claims |-> IF c = b1 THEN 1 ELSE 0]
=============================================================================
