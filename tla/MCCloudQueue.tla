---------------------------- MODULE MCCloudQueue ----------------------------
(***************************************************************************)
(* CloudQueue with a ring of three slots: it holds two frames, so a third  *)
(* one overflows it, and four frames wrap both indices.  Every slot and    *)
(* the sender can own a block: VQ + 1 blocks are enough.                   *)
(***************************************************************************)
EXTENDS CloudQueue
=============================================================================
