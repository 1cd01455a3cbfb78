---------------------------- MODULE MCPrefixStore ----------------------------
(***************************************************************************)
(* Instances of PrefixStore for TLC: prompts over the tokens 1, 2 that     *)
(* extend, cover and diverge from each other, and contexts among them.     *)
(***************************************************************************)
EXTENDS PrefixStore

Family == {<<1, 1, 2, 1>>, <<2, 2>>}
Bases == {<<1, 1>>, <<1, 1, 2>>}

Turns == {<<1, 1, 1>>, <<1, 1, 2, 1>>, <<1, 1, 2, 1, 2>>}
Ends == {<<1, 1>>, <<1, 1, 2, 1>>}

Symmetry == Permutations(Slots)
NameSymmetry == Permutations(Names)
=============================================================================
