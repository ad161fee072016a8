---------------------------- MODULE MCFreshArray ----------------------------
(***************************************************************************)
(* Instances of FreshArray for TLC: ids up to one over every bound, a      *)
(* container that fills before the bound is met and one that does not.     *)
(***************************************************************************)
EXTENDS FreshArray

MCBounds == {Schema(3), Cap(3), Cap(0)}
=============================================================================
