-------------------------- MODULE MCConflictInbox --------------------------
(***************************************************************************)
(* Instances of ConflictInbox for TLC.                                     *)
(***************************************************************************)
EXTENDS ConflictInbox, TLC

\* Action ids are only compared with each other.
ActionSymmetry == Permutations(Actions)
=============================================================================
