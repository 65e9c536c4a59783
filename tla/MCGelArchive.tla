---------------------------- MODULE MCGelArchive ----------------------------
(***************************************************************************)
(* Instances of GelArchive for TLC.                                        *)
(***************************************************************************)
EXTENDS GelArchive, TLC

\* Actions are only compared with each other.
ActionSymmetry == Permutations(Actions)
=============================================================================
