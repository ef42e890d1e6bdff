---------------------------- MODULE MCFileVersions ----------------------------
(***************************************************************************)
(* Instances of FileVersions for TLC.                                      *)
(***************************************************************************)
EXTENDS FileVersions, TLC

Symmetric == Permutations(Clients)
=============================================================================
