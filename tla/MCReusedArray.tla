--------------------------- MODULE MCReusedArray ---------------------------
(***************************************************************************)
(* Instances of ReusedArray for TLC: ids up to one over every bound, a     *)
(* container that fills before the bound is met and one that does not,     *)
(* and any number of decodes one after another.                            *)
(***************************************************************************)
EXTENDS ReusedArray

MCBounds == {Schema(4), Cap(3)}
=============================================================================
