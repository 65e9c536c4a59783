------------------------- MODULE MCExecutionControl -------------------------
(***************************************************************************)
(* Instances of ExecutionControl for TLC: r1, r2 and r4 are the same       *)
(* canonical action h1 (a client and its retries), r3 is h2.               *)
(***************************************************************************)
EXTENDS ExecutionControl, TLC

CONSTANTS r1, r2, r3, r4, h1, h2, i1, i2, Criticality

MCHashOf == [r \in Requests |-> IF r = r3 THEN h2 ELSE h1]

\* The retry goes to the other instance, where there is one.
MCInstanceOf == [r \in Requests |-> IF r \in {r2, r3} /\ i2 \in Instances THEN i2 ELSE i1]

\* Both actions are admissible; h2's envelope expires when the clock reaches its bound.
MCInputOf ==
    [h \in Hashes |->
       [wardFound |-> TRUE, subjectInWard |-> TRUE, criticality |-> Criticality,
        envelope |-> "matching", policyVersion |-> "same",
        expires_at |-> IF h = h1 THEN MaxTime + 1 ELSE MaxTime,
        missingRuntime |-> FALSE, denied |-> FALSE, allowed |-> TRUE,
        constraintsPass |-> TRUE, physicalOk |-> TRUE,
        wardClearance |-> {}, envelopeClearance |-> {}, label |-> {}]]

\* r3 is the expensive call.
MCCostOf == [r \in Requests |-> IF r = r3 THEN 2 ELSE 1]

\* Healthy, a slow dependency, or a ledger that cannot be written.
MCConditionSets == {{}, {"dependency_timeout"}, {"ledger_unavailable"}}

Healthy == {{}}

\* Approvers other than the subject are only compared with each other, and
\* r1 and r4 are two calls of the same client to the same instance.
PostgresSymmetry == Permutations(Voters \ {Subject}) \union Permutations({r1, r4})
=============================================================================
