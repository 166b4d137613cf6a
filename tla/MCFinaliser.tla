---------------------------- MODULE MCFinaliser ----------------------------
(* Finaliser for TLC: three userdata slots and three events, one of them  *)
(* outside the destructed metatable's list.                               *)
EXTENDS Finaliser, TLC

CONSTANTS u1, u2, u3

MCUds == {u1, u2, u3}
MCEvents == {"__index", "__tostring", "__close"}

Symm == Permutations(MCUds)
=============================================================================
