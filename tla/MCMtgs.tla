------------------------------- MODULE MCMtgs -------------------------------
(* Mtgs and its refinement of MtgsQueue, for the runs of TLC. *)
EXTENDS MtgsRefinement
=============================================================================
