--------------------------- MODULE MCControlServer ---------------------------
(***************************************************************************)
(* Two headsets, three pairings, two wrong codes to a cooldown of two      *)
(* seconds, a heartbeat window of one: in six seconds the guard locks      *)
(* three times, devices expire, and ids are revoked twice.                 *)
(***************************************************************************)
EXTENDS ControlServer, TLC

Symmetry == Permutations(Headsets)
=============================================================================
