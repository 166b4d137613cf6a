---------------------------- MODULE MCStackGuard ----------------------------
(* Small instance of StackGuard: a stack of at most 3 values, two nested   *)
(* guards, declared changes from -1 to +1.                                 *)
EXTENDS StackGuard

MCChanges == -1..1
=============================================================================
