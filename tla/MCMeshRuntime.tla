--------------------------- MODULE MCMeshRuntime ---------------------------
(***************************************************************************)
(* Instances of MeshRuntime for TLC: one root, one edge, one envelope, and *)
(* at most one witness.                                                    *)
(***************************************************************************)
EXTENDS MeshRuntime

CONSTANTS e1, w1

MCEdgeOf == [c \in Calls |-> e1]

\* A partition cuts the edge off from the root.
MCCutOff == {{{e1, Root}}}

\* With a witness, or from everyone.
MCIsolate == MCCutOff \union {{{e1, Root}, {e1, w1}}}

\* The evaluations of one edge are interchangeable, and so are its loops.
Symmetry == Permutations(Calls) \union Permutations(Loops)
=============================================================================
