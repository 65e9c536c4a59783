--------------------------- MODULE MCEffectStore ---------------------------
(***************************************************************************)
(* Instances of EffectStore for TLC: Warrants w1 and w2 are for one        *)
(* operation, w3 is for another one.                                       *)
(***************************************************************************)
EXTENDS EffectStore, TLC

CONSTANTS w1, w2, w3, op1, op2, n1, n2

\* Each Warrant with its operation, a nonce of its own and its expiry.
MCScopeOf == [w \in Warrants |-> IF w = w3 THEN op2 ELSE op1]

\* w3 carries the nonce of w1: the nonce column must refuse it.
MCNonceOf == [w \in Warrants |-> IF w = w2 THEN n2 ELSE n1]

\* w2 outlives the clock, the others expire at its bound.
MCExpiresAt == [w \in Warrants |-> IF w = w2 THEN MaxTime + 1 ELSE MaxTime]

MCSymmetry == Permutations(Dispatchers) \union Permutations(ObsIds)
=============================================================================
