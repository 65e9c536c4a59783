----------------------------- MODULE CommitGate -----------------------------
(***************************************************************************)
(* The Commit Gate (execution-control-runtime/src/index.ts), the fail-mode *)
(* matrix (fail-mode.ts) and the classification lattice                    *)
(* (classification.ts) as pure operators.  Strings, documents and physical *)
(* quantities are reduced to what the gate's conditions tell apart.        *)
(***************************************************************************)
EXTENDS Integers, Sequences, FiniteSets, FiniteSetsExt

WardCriticality ==
    {"safety_critical", "mission_critical", "routine", "best_effort"}

DegradationCondition ==
    {"ledger_unavailable", "control_plane_stale", "quorum_lost", "dependency_timeout"}

\* The fail actions in the order of ACTION_RANK.
FailActions == <<"allow", "allow_degraded", "escalate", "refuse">>

ACTION_RANK(a) == CHOOSE i \in DOMAIN FailActions : FailActions[i] = a

\* Mutant: two entries of the dependency_timeout column are swapped.
FailModePolicy_Swapped(crit, c) ==
    CASE crit = "safety_critical"  -> "refuse"
      [] crit = "mission_critical" ->
            IF c = "dependency_timeout" THEN "allow_degraded" ELSE "refuse"
      [] crit = "routine"          -> "escalate"
      [] crit = "best_effort"      ->
            IF c = "quorum_lost" THEN "escalate" ELSE "allow_degraded"

\* DEFAULT_FAIL_MODE_POLICY: under condition c, a Ward of criticality crit.
FailModePolicy(crit, c) ==
    CASE crit = "safety_critical"  -> "refuse"
      [] crit = "mission_critical" ->
            IF c = "dependency_timeout" THEN "escalate" ELSE "refuse"
      [] crit = "routine"          ->
            IF c = "dependency_timeout" THEN "allow_degraded" ELSE "escalate"
      [] crit = "best_effort"      ->
            IF c = "quorum_lost" THEN "escalate" ELSE "allow_degraded"

\* The most restrictive action over all active conditions.
resolveFailMode(crit, conditions) ==
    FailActions[Max({1} \union {ACTION_RANK(FailModePolicy(crit, c)) : c \in conditions})]

-----------------------------------------------------------------------------
\* LEVEL_RANK: UNCLASSIFIED, CUI, CONFIDENTIAL, SECRET, TOP_SECRET.
LEVEL_RANK == 0 .. 4

Caveats == {"NOFORN"}

Classification == [level : LEVEL_RANK, caveats : SUBSET Caveats]

\* An optional label or clearance: a set with at most one element.
Optional(S) == {{}} \union {{x} : x \in S}

dominates(clearance, label) ==
    clearance.level >= label.level /\ label.caveats \subseteq clearance.caveats

\* Every clearance that is present dominates the label, if there is one.
enforceClassification(clearances, label) ==
    \A l \in label : \A c \in clearances : dominates(c, l)

-----------------------------------------------------------------------------
\* evaluatePhysicalInvariants is a predicate of the action's parameters and
\* the Ward's bounds; either verdict is possible.
PhysicalVerdict == BOOLEAN

(* What evaluateCommitGate reads of its input.  envelope tells whether an  *)
(* envelope is supplied and was issued for this Ward and subject;          *)
(* policyVersion compares the register's version with the Ward's.          *)
GateInput ==
    [wardFound : BOOLEAN, subjectInWard : BOOLEAN, criticality : WardCriticality,
     envelope : {"none", "other", "matching"},
     policyVersion : {"absent", "same", "different"}, expires_at : Nat,
     missingRuntime : BOOLEAN, denied : BOOLEAN, allowed : BOOLEAN,
     constraintsPass : BOOLEAN, physicalOk : PhysicalVerdict,
     wardClearance : Optional(Classification),
     envelopeClearance : Optional(Classification),
     label : Optional(Classification)]

Check(fails, decision, reason) ==
    [fails |-> fails, decision |-> decision, reason |-> reason]

EnvelopeExpired(in, now) == in.expires_at <= now

GateReasons ==
    {"WARD_NOT_FOUND", "SUBJECT_NOT_IN_WARD", "DEGRADED_MODE", "ACTION_NOT_ALLOWED",
     "POLICY_VERSION_MISMATCH", "ENVELOPE_EXPIRED", "RUNTIME_STATE_MISSING",
     "ACTION_DENIED", "CONSTRAINT_FAILED", "PHYSICAL_INVARIANT_FAILED",
     "CLASSIFICATION_VIOLATION", "ALLOWED"}

\* The gate's conditions in the order of its early returns.
GateChecks(in, conditions, now) ==
    LET failMode == resolveFailMode(in.criticality, conditions) IN
    << Check(~in.wardFound, "REFUSE", "WARD_NOT_FOUND"),
       Check(~in.subjectInWard, "REFUSE", "SUBJECT_NOT_IN_WARD"),
       Check(failMode = "refuse", "REFUSE", "DEGRADED_MODE"),
       Check(failMode = "escalate", "ESCALATE", "DEGRADED_MODE"),
       Check(in.envelope # "matching", "REFUSE", "ACTION_NOT_ALLOWED"),
       Check(in.policyVersion = "different", "ESCALATE", "POLICY_VERSION_MISMATCH"),
       Check(EnvelopeExpired(in, now), "REFUSE", "ENVELOPE_EXPIRED"),
       Check(in.missingRuntime, "ESCALATE", "RUNTIME_STATE_MISSING"),
       Check(in.denied, "REFUSE", "ACTION_DENIED"),
       Check(~in.allowed, "REFUSE", "ACTION_NOT_ALLOWED"),
       Check(~in.constraintsPass, "REFUSE", "CONSTRAINT_FAILED"),
       Check(~in.physicalOk, "REFUSE", "PHYSICAL_INVARIANT_FAILED"),
       Check(~enforceClassification(in.wardClearance \union in.envelopeClearance, in.label),
             "REFUSE", "CLASSIFICATION_VIOLATION"),
       Check(TRUE, "ALLOW", "ALLOWED") >>

\* The first condition that fails decides; the last entry always does.
evaluateCommitGate(in, conditions, now) ==
    LET checks == GateChecks(in, conditions, now)
        first  == CHOOSE i \in DOMAIN checks :
                     checks[i].fails /\ \A j \in 1 .. i - 1 : ~checks[j].fails
    IN [decision |-> checks[first].decision, reason |-> checks[first].reason]

-----------------------------------------------------------------------------
EXPIRE_REASON_CODES ==
    {"warrant-expired", "warrant-not-yet-valid", "envelope-expired",
     "envelope-not-yet-effective", "ward-expired", "ward-not-yet-effective",
     "mae-expired", "mae-not-yet-effective", "warrant-presented-after-expiry",
     "commit-presentation-stale"}

\* Applied to every evaluate result before it is returned to the caller.
reclassifyExpire(d) ==
    IF d.decision = "REFUSE" /\ d.reason \in EXPIRE_REASON_CODES
    THEN [d EXCEPT !.decision = "EXPIRE"] ELSE d
=============================================================================
