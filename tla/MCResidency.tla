----------------------------- MODULE MCResidency -----------------------------
(***************************************************************************)
(* Small instances of the residency manager: a server of two registry      *)
(* models, and a single-model server with a draft and --yield-on-request.  *)
(***************************************************************************)
EXTENDS Residency

CONSTANTS m1, m2

Swap == [registry |-> {m1, m2}, preloaded |-> NoModel, draft |-> FALSE, yield |-> FALSE]
Single == [registry |-> {m1}, preloaded |-> m1, draft |-> TRUE, yield |-> TRUE]

Both == {Swap, Single}
OnlySwap == {Swap}
=============================================================================
