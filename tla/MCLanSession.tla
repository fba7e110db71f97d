---------------------------- MODULE MCLanSession ----------------------------
(***************************************************************************)
(* LanSession with model values for headsets, connection threads and       *)
(* workers.                                                                *)
(***************************************************************************)
EXTENDS LanSession, TLC

Symmetry == Permutations(Workers) \union Permutations(Headsets)
WorkerSymmetry == Permutations(Workers)
=============================================================================
