---------------------------- MODULE MCNonceStore ----------------------------
(***************************************************************************)
(* Instances of NonceStore for TLC.                                        *)
(***************************************************************************)
EXTENDS NonceStore, TLC

\* Nonces are only compared with each other.
NonceSymmetry == Permutations(Nonces)
=============================================================================
