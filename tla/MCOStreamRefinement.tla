------------------------ MODULE MCOStreamRefinement ------------------------
(***************************************************************************)
(* Instances of OStreamRefinement for TLC; see MCOStream for the values.   *)
(***************************************************************************)
EXTENDS OStreamRefinement, MCOStream
=============================================================================
