---------------------------- MODULE MCDeltaQueue ----------------------------
(***************************************************************************)
(* Instances of DeltaQueue for TLC.                                        *)
(***************************************************************************)
EXTENDS DeltaQueue, TLC
=============================================================================
