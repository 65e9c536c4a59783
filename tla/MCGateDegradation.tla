------------------------- MODULE MCGateDegradation -------------------------
(***************************************************************************)
(* Inputs for GateDegradation: every combination of the conditions the     *)
(* environment's steps interact with, the others satisfied or violated     *)
(* one at a time; and one plant per bound of evaluatePhysicalInvariants.   *)
(***************************************************************************)
EXTENDS GateDegradation

Base ==
    [wardFound |-> TRUE, subjectInWard |-> TRUE, criticality |-> "best_effort",
     envelope |-> "matching", policyVersion |-> "same", expires_at |-> 1,
     missingRuntime |-> FALSE, denied |-> FALSE, allowed |-> TRUE,
     constraintsPass |-> TRUE, physicalOk |-> TRUE,
     wardClearance |-> {}, envelopeClearance |-> {}, label |-> {}]

Secret == [level |-> 3, caveats |-> {}]

CuiNoforn == [level |-> 1, caveats |-> {"NOFORN"}]

MCLabels == {Secret, CuiNoforn, [level |-> 3, caveats |-> {"NOFORN"}]}

MCInputs ==
    {[Base EXCEPT !.wardClearance = w, !.envelopeClearance = e, !.policyVersion = p] :
        w \in {{}, {Secret}}, e \in {{}, {CuiNoforn}}, p \in {"absent", "same", "different"}}
    \union
    {[Base EXCEPT !.wardFound = FALSE], [Base EXCEPT !.subjectInWard = FALSE],
     [Base EXCEPT !.envelope = "none"], [Base EXCEPT !.envelope = "other"],
     [Base EXCEPT !.missingRuntime = TRUE], [Base EXCEPT !.denied = TRUE],
     [Base EXCEPT !.allowed = FALSE], [Base EXCEPT !.constraintsPass = FALSE],
     [Base EXCEPT !.expires_at = 0]}

\* Plants are watched under a Ward of the highest criticality and label, which
\* leaves the clock, the degradation and the plant itself to vary.
MCPlantInput ==
    [Base EXCEPT !.criticality = "safety_critical",
                 !.label = {[level |-> 3, caveats |-> {"NOFORN"}]}]

MCPlants == DOMAIN Verticals
=============================================================================
