------------------------ MODULE GateDegradationProofs ------------------------
(***************************************************************************)
(* Proofs about the Commit Gate: its operators, for any input, conditions, *)
(* plant and request; and GateDegradation, for any inputs, verticals and   *)
(* labels.                                                                 *)
(***************************************************************************)
EXTENDS GateDegradation, WellFoundedInduction, TLAPS

-----------------------------------------------------------------------------
(* The gate itself                                                         *)

\* An action is admitted when no condition but the last, catch-all one fails.
LEMMA GateAllows ==
    ASSUME NEW in, NEW C, NEW t
    PROVE  evaluateCommitGate(in, C, t).decision = "ALLOW" <=>
               \A i \in 1 .. 13 : ~GateChecks(in, C, t)[i].fails
<1> DEFINE checks == GateChecks(in, C, t)
           IsFirst(i) == checks[i].fails /\ \A j \in 1 .. i - 1 : ~checks[j].fails
<1>1. DOMAIN checks = 1 .. 14 BY DEF GateChecks
<1>2. checks[14].fails /\ checks[14].decision = "ALLOW" BY DEF GateChecks, Check
<1>3. \A i \in 1 .. 13 : checks[i].decision # "ALLOW" BY DEF GateChecks, Check
<1> HIDE DEF checks
<1>4. \E i \in 1 .. 14 : IsFirst(i) BY <1>2
<1>5. PICK f \in 1 .. 14 : f = (CHOOSE i \in DOMAIN checks : IsFirst(i)) /\ IsFirst(f)
    BY <1>1, <1>4
<1>6. evaluateCommitGate(in, C, t).decision = checks[f].decision
    BY <1>5 DEF evaluateCommitGate, checks
<1>7. checks[f].decision = "ALLOW" <=> f = 14 BY <1>2, <1>3
<1>8. f = 14 <=> \A i \in 1 .. 13 : ~checks[i].fails BY <1>2, <1>5
<1>9. QED BY <1>6, <1>7, <1>8 DEF checks

\* The conditions that do not fail, by name.
LEMMA GateAdmits ==
    ASSUME NEW in, NEW C, NEW t
    PROVE  evaluateCommitGate(in, C, t).decision = "ALLOW" <=>
               /\ in.wardFound /\ in.subjectInWard
               /\ resolveFailMode(in.criticality, C) # "refuse"
               /\ resolveFailMode(in.criticality, C) # "escalate"
               /\ in.envelope = "matching" /\ in.policyVersion # "different"
               /\ ~EnvelopeExpired(in, t) /\ ~in.missingRuntime
               /\ ~in.denied /\ in.allowed /\ in.constraintsPass /\ in.physicalOk
               /\ enforceClassification(in.wardClearance \union in.envelopeClearance, in.label)
<1> DEFINE checks == GateChecks(in, C, t)
           lawful == enforceClassification(in.wardClearance \union in.envelopeClearance, in.label)
           mode == resolveFailMode(in.criticality, C)
<1>1. /\ checks[1].fails = ~in.wardFound /\ checks[2].fails = ~in.subjectInWard
      /\ checks[3].fails = (mode = "refuse") /\ checks[4].fails = (mode = "escalate")
      /\ checks[5].fails = (in.envelope # "matching")
      /\ checks[6].fails = (in.policyVersion = "different")
      /\ checks[7].fails = EnvelopeExpired(in, t) /\ checks[8].fails = in.missingRuntime
      /\ checks[9].fails = in.denied /\ checks[10].fails = ~in.allowed
      /\ checks[11].fails = ~in.constraintsPass /\ checks[12].fails = ~in.physicalOk
      /\ checks[13].fails = ~lawful
  <2> HIDE DEF lawful, mode
  <2>1. checks =
            << Check(~in.wardFound, "REFUSE", "WARD_NOT_FOUND"),
               Check(~in.subjectInWard, "REFUSE", "SUBJECT_NOT_IN_WARD"),
               Check(mode = "refuse", "REFUSE", "DEGRADED_MODE"),
               Check(mode = "escalate", "ESCALATE", "DEGRADED_MODE"),
               Check(in.envelope # "matching", "REFUSE", "ACTION_NOT_ALLOWED"),
               Check(in.policyVersion = "different", "ESCALATE", "POLICY_VERSION_MISMATCH"),
               Check(EnvelopeExpired(in, t), "REFUSE", "ENVELOPE_EXPIRED"),
               Check(in.missingRuntime, "ESCALATE", "RUNTIME_STATE_MISSING"),
               Check(in.denied, "REFUSE", "ACTION_DENIED"),
               Check(~in.allowed, "REFUSE", "ACTION_NOT_ALLOWED"),
               Check(~in.constraintsPass, "REFUSE", "CONSTRAINT_FAILED"),
               Check(~in.physicalOk, "REFUSE", "PHYSICAL_INVARIANT_FAILED"),
               Check(~lawful, "REFUSE", "CLASSIFICATION_VIOLATION"),
               Check(TRUE, "ALLOW", "ALLOWED") >>
      BY Zenon DEF GateChecks, lawful, mode
  <2> HIDE DEF checks
  <2>2. QED BY <2>1 DEF Check
<1>2. evaluateCommitGate(in, C, t).decision = "ALLOW" <=>
          \A i \in 1 .. 13 : ~checks[i].fails
    BY GateAllows
<1> HIDE DEF checks, lawful, mode
<1>3. (\A i \in 1 .. 13 : ~checks[i].fails) <=>
          /\ ~checks[1].fails /\ ~checks[2].fails /\ ~checks[3].fails /\ ~checks[4].fails
          /\ ~checks[5].fails /\ ~checks[6].fails /\ ~checks[7].fails /\ ~checks[8].fails
          /\ ~checks[9].fails /\ ~checks[10].fails /\ ~checks[11].fails
          /\ ~checks[12].fails /\ ~checks[13].fails
  <2>1. \A i \in 1 .. 13 : \/ i = 1 \/ i = 2 \/ i = 3 \/ i = 4 \/ i = 5 \/ i = 6 \/ i = 7
                           \/ i = 8 \/ i = 9 \/ i = 10 \/ i = 11 \/ i = 12 \/ i = 13
      OBVIOUS
  <2>2. QED BY <2>1
<1>4. QED BY <1>1, <1>2, <1>3, Zenon DEF lawful, mode

\* The rank of every fail action.
LEMMA Ranks ==
    /\ ACTION_RANK("allow") = 1 /\ ACTION_RANK("allow_degraded") = 2
    /\ ACTION_RANK("escalate") = 3 /\ ACTION_RANK("refuse") = 4
BY DEF ACTION_RANK, FailActions

\* The Wards in the order in which the matrix is meant to fail closed.
Consequence(crit) ==
    CASE crit = "best_effort"      -> 1
      [] crit = "routine"          -> 2
      [] crit = "mission_critical" -> 3
      [] crit = "safety_critical"  -> 4

\* "The more consequential the Ward, the more it fails closed" (fail-mode.ts),
\* column by column.
LEMMA MatrixFailsClosed ==
    ASSUME NEW k \in WardCriticality, NEW l \in WardCriticality, Consequence(k) <= Consequence(l),
           NEW c \in DegradationCondition
    PROVE  /\ ACTION_RANK(FailModePolicy(k, c)) \in 2 .. 4
           /\ ACTION_RANK(FailModePolicy(k, c)) <= ACTION_RANK(FailModePolicy(l, c))
BY Ranks DEF WardCriticality, Consequence, FailModePolicy, DegradationCondition

\* The resolved fail mode lets an action pass when no condition escalates it.
LEMMA FailModePasses ==
    ASSUME NEW k \in WardCriticality, NEW C \in SUBSET DegradationCondition
    PROVE  resolveFailMode(k, C) \notin {"refuse", "escalate"} <=>
               \A c \in C : ACTION_RANK(FailModePolicy(k, c)) <= 2
<1> DEFINE ranks == {1} \union {ACTION_RANK(FailModePolicy(k, c)) : c \in C}
<1>1. ranks \subseteq 1 .. 4 /\ 1 \in ranks
  <2>1. Consequence(k) <= Consequence(k) BY DEF WardCriticality, Consequence
  <2>2. \A c \in C : ACTION_RANK(FailModePolicy(k, c)) \in 1 .. 4 BY <2>1, MatrixFailsClosed
  <2>3. QED BY <2>2
<1>2. \A c \in C : ACTION_RANK(FailModePolicy(k, c)) \in ranks OBVIOUS
<1>3. \A x \in ranks : x = 1 \/ \E c \in C : x = ACTION_RANK(FailModePolicy(k, c)) OBVIOUS
<1>4. resolveFailMode(k, C) = FailActions[Max(ranks)] BY DEF resolveFailMode
<1> HIDE DEF ranks
<1>5. \E x \in ranks : \A y \in ranks : x >= y BY <1>1
<1>6. PICK m \in ranks : m = Max(ranks) /\ \A y \in ranks : m >= y BY <1>5 DEF Max
<1>7. m \in 1 .. 4 BY <1>1
<1>8. FailActions[m] \notin {"refuse", "escalate"} <=> m <= 2 BY <1>7 DEF FailActions
<1>9. m <= 2 <=> \A c \in C : ACTION_RANK(FailModePolicy(k, c)) <= 2
  <2>1. \A x \in ranks : x \in Int /\ x <= m BY <1>1, <1>6, <1>7
  <2>2. ASSUME m <= 2, NEW c \in C PROVE ACTION_RANK(FailModePolicy(k, c)) <= 2
    <3> DEFINE x == ACTION_RANK(FailModePolicy(k, c))
    <3>1. x \in ranks BY <1>2
    <3> HIDE DEF x
    <3>2. x <= 2 BY <1>7, <2>1, <2>2, <3>1
    <3>3. QED BY <3>2 DEF x
  <2>3. (\A c \in C : ACTION_RANK(FailModePolicy(k, c)) <= 2) => m <= 2 BY <1>3, <1>6
  <2>4. QED BY <2>2, <2>3
<1>10. QED BY <1>4, <1>6, <1>8, <1>9

\* A label keeps what it dominates, and so does a clearance.
LEMMA DominatesTransitive ==
    ASSUME NEW k \in Classification, NEW l \in Classification, NEW m \in Classification,
           dominates(k, l), dominates(l, m)
    PROVE  dominates(k, m)
BY DEF dominates, Classification, LEVEL_RANK

\* Two submissions of an action of which the second meets circumstances that
\* are no better: nothing missing is supplied, nothing denied is permitted, the
\* Ward is no less critical, the clearances are no higher and the label no lower.
NoBetter(a, b) ==
    /\ b.wardFound => a.wardFound
    /\ b.subjectInWard => a.subjectInWard
    /\ Consequence(a.criticality) <= Consequence(b.criticality)
    /\ b.envelope = "matching" => a.envelope = "matching"
    /\ b.policyVersion # "different" => a.policyVersion # "different"
    /\ b.expires_at <= a.expires_at
    /\ a.missingRuntime => b.missingRuntime
    /\ a.denied => b.denied
    /\ b.allowed => a.allowed
    /\ b.constraintsPass => a.constraintsPass
    /\ b.physicalOk => a.physicalOk
    /\ \A c \in a.wardClearance \union a.envelopeClearance :
          \E d \in b.wardClearance \union b.envelopeClearance : dominates(c, d)
    /\ \A l \in a.label : \E m \in b.label : dominates(m, l)

(* Whatever gets worse, any number of things at once, an action that is    *)
(* admitted under the worse circumstances is admitted under the better     *)
(* ones: no early condition of evaluateCommitGate that softens masks a     *)
(* later refusal, and no entry of the fail-mode matrix weakens a Ward.     *)
THEOREM GateMonotonic ==
    ASSUME NEW a \in GateInput, NEW b \in GateInput, NoBetter(a, b),
           NEW C \in SUBSET DegradationCondition, NEW D \in SUBSET DegradationCondition, C \subseteq D,
           NEW s \in Nat, NEW t \in Nat, s <= t,
           evaluateCommitGate(b, D, t).decision = "ALLOW"
    PROVE  evaluateCommitGate(a, C, s).decision = "ALLOW"
<1>1. /\ b.wardFound /\ b.subjectInWard
      /\ resolveFailMode(b.criticality, D) # "refuse" /\ resolveFailMode(b.criticality, D) # "escalate"
      /\ b.envelope = "matching" /\ b.policyVersion # "different" /\ ~EnvelopeExpired(b, t)
      /\ ~b.missingRuntime /\ ~b.denied /\ b.allowed /\ b.constraintsPass /\ b.physicalOk
      /\ enforceClassification(b.wardClearance \union b.envelopeClearance, b.label)
    BY GateAdmits, Zenon
<1>2. /\ a.wardFound /\ a.subjectInWard /\ a.envelope = "matching" /\ a.policyVersion # "different"
      /\ ~a.missingRuntime /\ ~a.denied /\ a.allowed /\ a.constraintsPass /\ a.physicalOk
    BY <1>1, Zenon DEF NoBetter
<1>3. resolveFailMode(a.criticality, C) \notin {"refuse", "escalate"}
  <2>1. a.criticality \in WardCriticality /\ b.criticality \in WardCriticality BY DEF GateInput
  <2>2. \A c \in D : ACTION_RANK(FailModePolicy(b.criticality, c)) <= 2 BY <1>1, <2>1, FailModePasses
  <2>3. \A c \in C : /\ ACTION_RANK(FailModePolicy(a.criticality, c)) \in 2 .. 4
                     /\ ACTION_RANK(FailModePolicy(b.criticality, c)) \in 2 .. 4
                     /\ ACTION_RANK(FailModePolicy(a.criticality, c)) <= ACTION_RANK(FailModePolicy(b.criticality, c))
    <3>1. Consequence(b.criticality) <= Consequence(b.criticality) BY <2>1 DEF WardCriticality, Consequence
    <3>2. QED BY <2>1, <3>1, MatrixFailsClosed DEF NoBetter
  <2>4. \A c \in C : ACTION_RANK(FailModePolicy(a.criticality, c)) <= 2 BY <2>2, <2>3
  <2>5. QED BY <2>1, <2>4, FailModePasses
<1>4. ~EnvelopeExpired(a, s) BY <1>1 DEF EnvelopeExpired, GateInput, NoBetter
<1>5. enforceClassification(a.wardClearance \union a.envelopeClearance, a.label)
  <2> SUFFICES ASSUME NEW l \in a.label, NEW c \in a.wardClearance \union a.envelopeClearance
               PROVE  dominates(c, l)
      BY DEF enforceClassification
  <2>1. PICK m \in b.label : dominates(m, l) BY DEF NoBetter
  <2>2. PICK d \in b.wardClearance \union b.envelopeClearance : dominates(c, d) BY DEF NoBetter
  <2>3. dominates(d, m) BY <1>1 DEF enforceClassification
  <2>4. /\ c \in Classification /\ l \in Classification
        /\ d \in Classification /\ m \in Classification
      BY DEF GateInput, Optional
  <2>5. dominates(d, l) BY <2>1, <2>3, <2>4, DominatesTransitive
  <2>6. QED BY <2>2, <2>4, <2>5, DominatesTransitive
<1>6. resolveFailMode(a.criticality, C) # "refuse" /\ resolveFailMode(a.criticality, C) # "escalate"
    BY <1>3
<1>7. QED BY <1>2, <1>4, <1>5, <1>6, GateAdmits, Zenon

\* The request's word counts, and nothing is lost.
LEMMA ActionParamsStated ==
    ASSUME NEW seen, NEW asked
    PROVE  /\ DOMAIN ActionParams(seen, asked) = DOMAIN seen \union DOMAIN asked
           /\ \A p \in DOMAIN seen \union DOMAIN asked :
                 ActionParams(seen, asked)[p] = Stated(p, seen, asked)
BY DEF ActionParams, Spread, Stated

\* A chain lists parameters, the most preferred one first.
IsChain(c) == \E n \in Nat : DOMAIN c = 1 .. n

\* What a comparison reads: "absent" when nothing is supplied, else the most
\* preferred parameter that is.
LEMMA EffectiveReads ==
    ASSUME NEW c, IsChain(c), NEW params
    PROVE  /\ (\A i \in DOMAIN c : c[i] \notin DOMAIN params) => Effective(c, params) = "absent"
           /\ \A i \in DOMAIN c : c[i] \in DOMAIN params /\ (\A j \in 1 .. i - 1 : c[j] \notin DOMAIN params)
                 => Effective(c, params) = params[c[i]]
<1> DEFINE present == {i \in DOMAIN c : c[i] \in DOMAIN params}
<1>1. Effective(c, params) = IF present = {} THEN "absent" ELSE params[c[Min(present)]] BY DEF Effective
<1>2. PICK n \in Nat : DOMAIN c = 1 .. n BY DEF IsChain
<1>3. (\A i \in DOMAIN c : c[i] \notin DOMAIN params) => present = {} OBVIOUS
<1>4. ASSUME NEW i \in DOMAIN c, c[i] \in DOMAIN params, \A j \in 1 .. i - 1 : c[j] \notin DOMAIN params
      PROVE  present # {} /\ Min(present) = i
  <2>1. i \in present /\ i \in Nat BY <1>2, <1>4
  <2>2. \A k \in present : k \in Nat /\ i =< k
    <3>1. ASSUME NEW k \in present PROVE k \in Nat /\ i =< k
      <4>1. k \in 1 .. n /\ c[k] \in DOMAIN params BY <1>2
      <4>2. i \in 1 .. n BY <1>2
      <4>3. ~(k \in 1 .. i - 1) BY <1>4, <4>1
      <4>4. QED BY <1>2, <4>1, <4>2, <4>3
    <3>2. QED BY <3>1
  <2> HIDE DEF present
  <2>3. QED BY <2>1, <2>2 DEF Min
<1>5. QED BY <1>1, <1>3, <1>4

\* What a bound asks of one parameter by itself.
LEMMA EffectiveOne ==
    ASSUME NEW p, NEW f
    PROVE  Effective(<<p>>, f) = IF p \in DOMAIN f THEN f[p] ELSE "absent"
<1> DEFINE c == <<p>>
<1>1. IsChain(c) /\ DOMAIN c = 1 .. 1 /\ c[1] = p BY DEF IsChain
<1>2. \A j \in 1 .. 1 - 1 : c[j] \notin DOMAIN f OBVIOUS
<1> HIDE DEF c
<1>3. QED
  <2>1. CASE p \in DOMAIN f
    <3>1. Effective(c, f) = f[c[1]] BY <1>1, <1>2, <2>1, EffectiveReads
    <3>2. QED BY <1>1, <2>1, <3>1 DEF c
  <2>2. CASE p \notin DOMAIN f
    <3>1. Effective(c, f) = "absent" BY <1>1, <2>2, EffectiveReads
    <3>2. QED BY <2>2, <3>1 DEF c
  <2>3. QED BY <2>1, <2>2

\* The code reads the parameters of a bound in an order that the promise allows.
ReadsInOrder(b) ==
    \A p \in Reads(b) :
        /\ \E c \in b.chains : \E i \in DOMAIN c :
              c[i] = p /\ \A j \in 1 .. i - 1 : j \in DOMAIN c /\ <<c[j], p>> \in SpeaksFor
        /\ b.kind \in {"proof", "within"} => <<p>> \in b.chains

\* A bound that accepts an action's parameters is kept by them.
LEMMA HoldsKeeps ==
    ASSUME NEW b, \A c \in b.chains : IsChain(c), ReadsInOrder(b), NEW seen, NEW asked,
           Holds(b, ActionParams(seen, asked)),
           \A p \in DOMAIN seen : seen[p] # "absent",
           \A p \in DOMAIN asked : asked[p] # "absent"
    PROVE  BoundKept(b, seen, asked)
<1> DEFINE params == ActionParams(seen, asked)
           supplied == DOMAIN seen \union DOMAIN asked
           given(p) == Stated(p, seen, asked)
           values == {Effective(c, params) : c \in b.chains}
           purpose == IF given("phi_purpose") = "absent" THEN given("tpo_basis")
                                                          ELSE given("phi_purpose")
<1>1. /\ DOMAIN params = supplied /\ \A p \in supplied : params[p] = given(p)
      /\ \A p : given(p) # "absent" <=> p \in supplied
    BY ActionParamsStated DEF Stated
<1>2. /\ b.kind = "max" => "above" \notin values
      /\ b.kind = "min" => "below" \notin values
      /\ b.kind = "permit" => "unlisted" \notin values
      /\ b.kind = "proof" => values \intersect {"absent", "false"} = {}
      /\ b.kind = "never" => "true" \notin values
      /\ b.kind = "within" => values = {"inside"}
      /\ b.kind = "signal_not_stop" => "stop" \notin values
    BY DEF Holds
<1>3. \A c \in b.chains : Effective(c, params) \in values OBVIOUS
<1>4. b.kind \in DOMAIN Excluded => Excluded[b.kind] \intersect values = {}
    BY <1>2 DEF Excluded
<1>5. \A p : Effective(<<p>>, params) = given(p)
  <2>1. \A p : Effective(<<p>>, params) = IF p \in DOMAIN params THEN params[p] ELSE "absent"
      BY EffectiveOne
  <2> HIDE DEF params, given
  <2>2. QED BY <1>1, <2>1
<1> HIDE DEF values
<1>6. ASSUME b.kind \in DOMAIN Excluded, NEW p \in Reads(b), given(p) \in Excluded[b.kind]
      PROVE  \E q \in Reads(b) : <<q, p>> \in SpeaksFor /\ given(q) # "absent"
  <2> SUFFICES ASSUME \A q \in Reads(b) : <<q, p>> \in SpeaksFor => given(q) = "absent"
               PROVE  FALSE
      OBVIOUS
  <2>1. PICK c \in b.chains : \E i \in DOMAIN c :
            c[i] = p /\ \A j \in 1 .. i - 1 : j \in DOMAIN c /\ <<c[j], p>> \in SpeaksFor
      BY <1>6 DEF ReadsInOrder
  <2>2. PICK i \in DOMAIN c :
            c[i] = p /\ \A j \in 1 .. i - 1 : j \in DOMAIN c /\ <<c[j], p>> \in SpeaksFor
      BY <2>1
  <2>3. \A j \in DOMAIN c : c[j] \in Reads(b) BY DEF Reads
  <2>4. CASE p \in supplied
    <3> HIDE DEF params, given
    <3>1. \A j \in 1 .. i - 1 : c[j] \notin DOMAIN params BY <1>1, <2>2, <2>3
    <3>2. Effective(c, params) = params[c[i]] BY <1>1, <2>2, <2>4, <3>1, EffectiveReads
    <3>3. given(p) \in values BY <1>1, <1>3, <2>2, <2>4, <3>2
    <3>4. QED BY <1>4, <1>6, <3>3
  <2>5. CASE p \notin supplied
    <3> HIDE DEF given
    <3>1. given(p) = "absent" BY <1>1, <2>5
    <3>2. b.kind \in {"proof", "within"} BY <1>6, <3>1 DEF Excluded
    <3>3. <<p>> \in b.chains BY <1>6, <3>2 DEF ReadsInOrder
    <3> HIDE DEF params
    <3>4. "absent" \in values BY <1>3, <1>5, <3>1, <3>3
    <3>5. QED BY <1>2, <3>2, <3>4
  <2>6. QED BY <2>4, <2>5
<1>7. b.kind = "collaborative" /\ given("human_present") = "true" =>
          given("operating_mode") = "collaborative"
  <2>1. b.kind = "collaborative" =>
           (Effective(<<"human_present">>, params) = "true" =>
                Effective(<<"operating_mode">>, params) = "collaborative")
      BY DEF Holds
  <2> HIDE DEF params, given
  <2>2. QED BY <1>5, <2>1
<1>8. b.kind = "endorsed" /\ given("hazmat_endorsement_valid") # "true" =>
          given("hazmat_class") \in {"absent", "none"}
  <2>1. b.kind = "endorsed" =>
           \/ Effective(<<"hazmat_class">>, params) \in {"absent", "none"}
           \/ Effective(<<"hazmat_endorsement_valid">>, params) = "true"
      BY DEF Holds
  <2> HIDE DEF params, given
  <2>2. QED BY <1>5, <2>1
<1>9. b.kind = "tpo_or_consent" /\ given("patient_consent_valid") # "true" => purpose = "treatment"
  <2>1. b.kind = "tpo_or_consent" =>
           \/ Effective(<<"patient_consent_valid">>, params) = "true"
           \/ Effective(<<"phi_purpose", "tpo_basis">>, params) = "treatment"
      BY DEF Holds
  <2>2. Effective(<<"phi_purpose", "tpo_basis">>, params) = purpose
    <3> DEFINE c == <<"phi_purpose", "tpo_basis">>
    <3>1. IsChain(c) /\ DOMAIN c = 1 .. 2 /\ c[1] = "phi_purpose" /\ c[2] = "tpo_basis"
        BY DEF IsChain
    <3>2. \A i \in 1 .. 2 : i = 1 \/ i = 2 OBVIOUS
    <3>3. \A j \in 1 .. 1 - 1 : c[j] \notin DOMAIN params OBVIOUS
    <3>4. \A j \in 1 .. 2 - 1 : j = 1 OBVIOUS
    <3> HIDE DEF c, params, given
    <3>5. CASE given("phi_purpose") # "absent"
      <4>1. Effective(c, params) = params[c[1]] BY <1>1, <3>1, <3>3, <3>5, EffectiveReads
      <4>2. QED BY <1>1, <3>1, <3>5, <4>1 DEF c
    <3>6. CASE given("phi_purpose") = "absent" /\ given("tpo_basis") # "absent"
      <4>1. Effective(c, params) = params[c[2]] BY <1>1, <3>1, <3>4, <3>6, EffectiveReads
      <4>2. QED BY <1>1, <3>1, <3>6, <4>1 DEF c
    <3>7. CASE given("phi_purpose") = "absent" /\ given("tpo_basis") = "absent"
      <4>1. Effective(c, params) = "absent" BY <1>1, <3>1, <3>2, <3>7, EffectiveReads
      <4>2. QED BY <3>7, <4>1 DEF c
    <3>8. QED BY <3>5, <3>6, <3>7
  <2> HIDE DEF params, given, purpose
  <2>3. QED BY <1>5, <2>1, <2>2
<1>10. b.kind = "break_glass" /\ given("tpo_basis") = "emergency" =>
           given("break_glass_attested") = "true"
  <2>1. b.kind = "break_glass" =>
           (Effective(<<"tpo_basis">>, params) = "emergency" =>
                Effective(<<"break_glass_attested">>, params) = "true")
      BY DEF Holds
  <2> HIDE DEF params, given
  <2>2. QED BY <1>5, <2>1
<1>11. QED BY <1>6, <1>7, <1>8, <1>9, <1>10 DEF BoundKept

-----------------------------------------------------------------------------
(* The bounds a Ward can declare                                           *)

\* The kinds of bounds other than the comparison of drive hours.
Kinds ==
    {"max", "min", "permit", "proof", "never", "within", "signal_not_stop", "collaborative",
     "endorsed", "tpo_or_consent", "break_glass"}

\* A chain that leaves the length of a trip to DriveHours.
GoodChain(c) == IsChain(c) /\ \A i \in DOMAIN c : c[i] # "required_drive_minutes"

\* A bound of a known kind over such chains, in an order that the promise allows.
WellFormed(b) ==
    /\ b.kind \in Kinds
    /\ \A c \in b.chains : GoodChain(c)
    /\ ReadsInOrder(b)

\* One parameter alone.
LEMMA OneInOrder ==
    ASSUME NEW p, p # "required_drive_minutes"
    PROVE  /\ GoodChain(<<p>>)
           /\ DOMAIN <<p>> = 1 .. 1 /\ <<p>>[1] = p
<1> DEFINE c == <<p>>
<1>1. DOMAIN c = 1 .. 1 /\ c[1] = p OBVIOUS
<1> HIDE DEF c
<1>2. IsChain(c) BY <1>1 DEF IsChain
<1>3. \A i \in DOMAIN c : c[i] # "required_drive_minutes" BY <1>1
<1>4. QED BY <1>1, <1>2, <1>3 DEF c, GoodChain

\* A bound that reads each of its parameters alone is well formed.
LEMMA AloneWellFormed ==
    ASSUME NEW kind \in Kinds, NEW params, "required_drive_minutes" \notin params
    PROVE  WellFormed(Bound(kind, {<<p>> : p \in params}))
<1> DEFINE chains == {<<p>> : p \in params}
           b == Bound(kind, chains)
<1>1. b.kind = kind /\ b.chains = chains BY DEF Bound
<1>2. \A c \in chains : GoodChain(c) BY OneInOrder
<1>3. ASSUME NEW c \in chains
      PROVE  c = <<c[1]>> /\ DOMAIN c = 1 .. 1
  <2>1. PICK p \in params : c = <<p>> OBVIOUS
  <2>2. QED BY <2>1, OneInOrder
<1> HIDE DEF b, chains
<1>4. ReadsInOrder(b)
  <2> SUFFICES ASSUME NEW p \in Reads(b)
               PROVE  /\ \E c \in b.chains : \E i \in DOMAIN c : c[i] = p /\
                            \A j \in 1 .. i - 1 : j \in DOMAIN c /\ <<c[j], p>> \in SpeaksFor
                      /\ b.kind \in {"proof", "within"} => <<p>> \in b.chains
      BY DEF ReadsInOrder
  <2>1. PICK c \in chains : p \in {c[i] : i \in DOMAIN c} BY <1>1 DEF Reads
  <2>2. c = <<c[1]>> /\ DOMAIN c = 1 .. 1 BY <1>3
  <2>3. c[1] = p BY <2>1, <2>2
  <2>4. <<p>> \in b.chains BY <1>1, <2>2, <2>3
  <2>5. 1 \in DOMAIN c /\ \A j \in 1 .. 1 - 1 : FALSE BY <2>2
  <2>6. QED BY <1>1, <2>3, <2>4, <2>5
<1>5. QED BY <1>1, <1>2, <1>4 DEF WellFormed, b, chains

\* A bound on one parameter is well formed if the parameter is.
LEMMA SingleWellFormed ==
    ASSUME NEW kind \in Kinds, NEW p, p # "required_drive_minutes"
    PROVE  WellFormed(Bound(kind, {<<p>>}))
<1>1. WellFormed(Bound(kind, {<<q>> : q \in {p}})) BY AloneWellFormed
<1>2. {<<q>> : q \in {p}} = {<<p>>} OBVIOUS
<1>3. QED BY <1>1, <1>2

\* The same of the sets of bounds the verticals are written with.
LEMMA SetsWellFormed ==
    ASSUME NEW params, "required_drive_minutes" \notin params
    PROVE  \A b \in AtMost(params) \union AtLeast(params) \union OneOf(params) \union Proven(params)
                    \union Never(params) \union Within(params) : WellFormed(b)
<1>1. \A kind \in Kinds, p \in params : WellFormed(Bound(kind, {<<p>>})) BY SingleWellFormed
<1>2. \A kind \in {"max", "min", "permit", "proof", "never", "within"} : kind \in Kinds BY DEF Kinds
<1>3. QED BY <1>1, <1>2 DEF AtMost, AtLeast, OneOf, Proven, Never, Within

\* A comparison of two parameters, the first of which speaks for the second.
LEMMA PairInOrder ==
    ASSUME NEW p, NEW q, p # "required_drive_minutes", q # "required_drive_minutes",
           NEW b, <<p, q>> \in b.chains, <<p, q>> \in SpeaksFor
    PROVE  /\ GoodChain(<<p, q>>)
           /\ {<<p, q>>[i] : i \in DOMAIN <<p, q>>} = {p, q}
           /\ \A s \in {p, q} : \E c \in b.chains : \E i \in DOMAIN c :
                 c[i] = s /\ \A j \in 1 .. i - 1 : j \in DOMAIN c /\ <<c[j], s>> \in SpeaksFor
<1> DEFINE c == <<p, q>>
<1>1. DOMAIN c = 1 .. 2 /\ c[1] = p /\ c[2] = q OBVIOUS
<1>2. c \in b.chains OBVIOUS
<1>3. (\A i \in 1 .. 2 : i = 1 \/ i = 2) /\ (\A j \in 1 .. 1 - 1 : FALSE) /\ (\A j \in 1 .. 2 - 1 : j = 1)
    OBVIOUS
<1> HIDE DEF c
<1>4. IsChain(c) BY <1>1 DEF IsChain
<1>5. GoodChain(c) BY <1>1, <1>3, <1>4 DEF GoodChain
<1>6. {c[i] : i \in DOMAIN c} = {p, q} BY <1>1, <1>3
<1>7. \A j \in 1 .. 1 - 1 : j \in DOMAIN c /\ <<c[j], p>> \in SpeaksFor BY <1>3
<1>8. \A j \in 1 .. 2 - 1 : j \in DOMAIN c /\ <<c[j], q>> \in SpeaksFor BY <1>1, <1>3
<1>9. 1 \in DOMAIN c /\ 2 \in DOMAIN c BY <1>1
<1>10. QED BY <1>1, <1>2, <1>5, <1>6, <1>7, <1>8, <1>9 DEF c

\* A bound on one such comparison.
LEMMA PairWellFormed ==
    ASSUME NEW kind \in Kinds \ {"proof", "within"}, NEW p, NEW q, <<p, q>> \in SpeaksFor,
           p # "required_drive_minutes", q # "required_drive_minutes"
    PROVE  WellFormed(Bound(kind, {<<p, q>>}))
<1> DEFINE b == Bound(kind, {<<p, q>>})
<1>1. b.kind = kind /\ b.chains = {<<p, q>>} BY DEF Bound
<1>2. <<p, q>> \in b.chains BY <1>1
<1> HIDE DEF b
<1>3. Reads(b) = {p, q}
  <2>1. Reads(b) = {<<p, q>>[i] : i \in DOMAIN <<p, q>>} BY <1>1 DEF Reads
  <2>2. QED BY <1>2, <2>1, PairInOrder
<1>4. ReadsInOrder(b) BY <1>1, <1>2, <1>3, PairInOrder DEF ReadsInOrder
<1>5. GoodChain(<<p, q>>) BY <1>2, PairInOrder
<1>6. QED BY <1>1, <1>4, <1>5 DEF WellFormed, b

\* A bound on a comparison of three.
LEMMA TripleWellFormed ==
    ASSUME NEW kind \in Kinds \ {"proof", "within"}, NEW p, NEW q, NEW s,
           <<p, q>> \in SpeaksFor, <<p, s>> \in SpeaksFor, <<q, s>> \in SpeaksFor,
           p # "required_drive_minutes", q # "required_drive_minutes", s # "required_drive_minutes"
    PROVE  WellFormed(Bound(kind, {<<p, q, s>>}))
<1> DEFINE c == <<p, q, s>>
           b == Bound(kind, {c})
<1>1. b.kind = kind /\ b.chains = {c} BY DEF Bound
<1>2. DOMAIN c = 1 .. 3 /\ c[1] = p /\ c[2] = q /\ c[3] = s OBVIOUS
<1>3. /\ \A i \in 1 .. 3 : i = 1 \/ i = 2 \/ i = 3
      /\ \A j \in 1 .. 1 - 1 : FALSE
      /\ \A j \in 1 .. 2 - 1 : j = 1
      /\ \A j \in 1 .. 3 - 1 : j = 1 \/ j = 2
    OBVIOUS
<1> HIDE DEF b, c
<1>4. IsChain(c) BY <1>2 DEF IsChain
<1>5. GoodChain(c) BY <1>2, <1>3, <1>4 DEF GoodChain
<1>6. Reads(b) = {p, q, s}
  <2>1. Reads(b) = {c[i] : i \in DOMAIN c} BY <1>1 DEF Reads
  <2>2. QED BY <1>2, <1>3, <2>1
<1>7. \A i \in 1 .. 3 : \A j \in 1 .. i - 1 : j \in DOMAIN c /\ <<c[j], c[i]>> \in SpeaksFor
    BY <1>2, <1>3
<1>8. ReadsInOrder(b)
  <2>1. \A x \in Reads(b) : \E i \in DOMAIN c : c[i] = x BY <1>2, <1>6
  <2>2. QED BY <1>1, <1>2, <1>7, <2>1 DEF ReadsInOrder
<1>9. QED BY <1>1, <1>5, <1>8 DEF WellFormed, b, c

\* The reefer's two comparisons share the measured temperature, which one of
\* them prefers to everything else.
LEMMA ReeferWellFormed ==
    ASSUME NEW kind \in {"min", "max"}
    PROVE  WellFormed(ReeferTemp(kind))
<1> DEFINE r == "reefer_temperature_c"
           c1 == <<r, "reefer_setpoint_c">>
           c2 == <<"cargo_temperature_c", r>>
           b == ReeferTemp(kind)
<1>1. b.kind = kind /\ b.chains = {c1, c2} BY DEF ReeferTemp, Bound
<1>2. c1 \in SpeaksFor BY DEF SpeaksFor
<1>3. /\ DOMAIN c1 = 1 .. 2 /\ c1[1] = r /\ c1[2] = "reefer_setpoint_c"
      /\ DOMAIN c2 = 1 .. 2 /\ c2[1] = "cargo_temperature_c" /\ c2[2] = r
    OBVIOUS
<1>4. /\ \A i \in 1 .. 2 : i = 1 \/ i = 2
      /\ \A j \in 1 .. 1 - 1 : FALSE
      /\ \A j \in 1 .. 2 - 1 : j = 1
    OBVIOUS
<1>5. <<c1[1], c1[2]>> \in SpeaksFor BY <1>2, <1>3
<1> HIDE DEF b, c1, c2
<1>6. IsChain(c1) /\ IsChain(c2) BY <1>3 DEF IsChain
<1>7. GoodChain(c1) /\ GoodChain(c2) BY <1>3, <1>4, <1>6 DEF GoodChain
<1>8. Reads(b) = {c1[i] : i \in DOMAIN c1} \union {c2[i] : i \in DOMAIN c2} BY <1>1 DEF Reads
<1>9. Reads(b) = {c1[1], c1[2], c2[1]} BY <1>3, <1>4, <1>8
<1>10. \A x \in Reads(b) : \E c \in b.chains : \E i \in DOMAIN c :
           c[i] = x /\ \A j \in 1 .. i - 1 : j \in DOMAIN c /\ <<c[j], x>> \in SpeaksFor
  <2>1. 1 \in DOMAIN c1 /\ 2 \in DOMAIN c1 /\ 1 \in DOMAIN c2 BY <1>3
  <2>2. QED BY <1>1, <1>4, <1>5, <1>9, <2>1
<1>11. kind \in Kinds /\ b.kind \notin {"proof", "within"} BY <1>1 DEF Kinds
<1>12. QED BY <1>1, <1>7, <1>10, <1>11 DEF WellFormed, ReadsInOrder, b

\* Two parameters alone.
LEMMA TwoWellFormed ==
    ASSUME NEW kind \in Kinds, NEW p, NEW q, p # "required_drive_minutes", q # "required_drive_minutes"
    PROVE  WellFormed(Bound(kind, {<<p>>, <<q>>}))
<1>1. WellFormed(Bound(kind, {<<x>> : x \in {p, q}})) BY AloneWellFormed
<1>2. {<<x>> : x \in {p, q}} = {<<p>>, <<q>>} OBVIOUS
<1>3. QED BY <1>1, <1>2

\* The bounds that are not on one parameter alone, vertical by vertical.
LEMMA OthersWellFormed ==
    /\ WellFormed(ReeferTemp("min")) /\ WellFormed(ReeferTemp("max"))
    /\ WellFormed(Bound("max", {<<"authority_speed_mph", "speed_mph", "max_speed_mph">>}))
    /\ WellFormed(Bound("signal_not_stop", {<<"signal_aspect">>}))
    /\ WellFormed(maxPressure)
    /\ WellFormed(Bound("permit", {<<"yard_block_id", "to_block", "from_block">>}))
    /\ WellFormed(Bound("max", {<<"chlorine_dose_mg_l", "dose_mg_l">>}))
    /\ WellFormed(Bound("collaborative", {<<"human_present">>, <<"operating_mode">>}))
    /\ WellFormed(Bound("permit", {<<"cargo_class", "cargo_type">>}))
    /\ WellFormed(Bound("permit", {<<"origin_facility_id">>, <<"destination_facility_id">>,
                                   <<"current_facility_id">>}))
    /\ WellFormed(Bound("endorsed", {<<"hazmat_class">>, <<"hazmat_endorsement_valid">>}))
    /\ WellFormed(Bound("permit", {<<"phi_purpose", "tpo_basis">>}))
    /\ WellFormed(Bound("proof", {<<"patient_context_hash">>, <<"patient_context_present">>}))
    /\ WellFormed(Bound("tpo_or_consent", {<<"patient_consent_valid">>, <<"phi_purpose", "tpo_basis">>}))
    /\ WellFormed(Bound("break_glass", {<<"tpo_basis">>, <<"break_glass_attested">>}))
<1>1. WellFormed(ReeferTemp("min")) /\ WellFormed(ReeferTemp("max")) BY ReeferWellFormed
<1>2. WellFormed(Bound("max", {<<"authority_speed_mph", "speed_mph", "max_speed_mph">>}))
    BY TripleWellFormed DEF Kinds, SpeaksFor
<1>3. WellFormed(Bound("permit", {<<"yard_block_id", "to_block", "from_block">>}))
    BY TripleWellFormed DEF Kinds, SpeaksFor
<1>4. WellFormed(Bound("signal_not_stop", {<<"signal_aspect">>})) BY SingleWellFormed DEF Kinds
<1>5. WellFormed(maxPressure) BY PairWellFormed DEF Kinds, SpeaksFor, maxPressure
<1>6. WellFormed(Bound("max", {<<"chlorine_dose_mg_l", "dose_mg_l">>}))
    BY PairWellFormed DEF Kinds, SpeaksFor
<1>7. WellFormed(Bound("permit", {<<"cargo_class", "cargo_type">>}))
    BY PairWellFormed DEF Kinds, SpeaksFor
<1>8. WellFormed(Bound("permit", {<<"phi_purpose", "tpo_basis">>}))
    BY PairWellFormed DEF Kinds, SpeaksFor
<1>9. WellFormed(Bound("collaborative", {<<"human_present">>, <<"operating_mode">>}))
    BY TwoWellFormed DEF Kinds
<1>10. WellFormed(Bound("endorsed", {<<"hazmat_class">>, <<"hazmat_endorsement_valid">>}))
    BY TwoWellFormed DEF Kinds
<1>11. WellFormed(Bound("proof", {<<"patient_context_hash">>, <<"patient_context_present">>}))
    BY TwoWellFormed DEF Kinds
<1>12. WellFormed(Bound("break_glass", {<<"tpo_basis">>, <<"break_glass_attested">>}))
    BY TwoWellFormed DEF Kinds
<1>13. WellFormed(Bound("permit", {<<"origin_facility_id">>, <<"destination_facility_id">>,
                                   <<"current_facility_id">>}))
  <2> DEFINE S == {"origin_facility_id", "destination_facility_id", "current_facility_id"}
  <2>1. WellFormed(Bound("permit", {<<x>> : x \in S})) BY AloneWellFormed DEF Kinds
  <2>2. {<<x>> : x \in S} = {<<"origin_facility_id">>, <<"destination_facility_id">>,
                             <<"current_facility_id">>}
      OBVIOUS
  <2>3. QED BY <2>1, <2>2
<1>14. WellFormed(Bound("tpo_or_consent", {<<"patient_consent_valid">>, <<"phi_purpose", "tpo_basis">>}))
  <2> DEFINE c1 == <<"patient_consent_valid">>
             c2 == <<"phi_purpose", "tpo_basis">>
             b == Bound("tpo_or_consent", {c1, c2})
  <2>1. b.kind = "tpo_or_consent" /\ b.chains = {c1, c2} BY DEF Bound
  <2>2. c2 \in SpeaksFor BY DEF SpeaksFor
  <2>3. /\ GoodChain(c2) /\ {c2[i] : i \in DOMAIN c2} = {"phi_purpose", "tpo_basis"}
        /\ \A s \in {"phi_purpose", "tpo_basis"} : \E c \in b.chains : \E i \in DOMAIN c :
              c[i] = s /\ \A j \in 1 .. i - 1 : j \in DOMAIN c /\ <<c[j], s>> \in SpeaksFor
    <3>1. c2 \in b.chains BY <2>1
    <3>2. QED BY <2>2, <3>1, PairInOrder
  <2>4. GoodChain(c1) /\ DOMAIN c1 = 1 .. 1 /\ c1[1] = "patient_consent_valid" BY OneInOrder
  <2> HIDE DEF c1, c2, b
  <2>5. \A x \in Reads(b) : x = c1[1] \/ x \in {"phi_purpose", "tpo_basis"}
    <3>1. Reads(b) = {c1[i] : i \in DOMAIN c1} \union {c2[i] : i \in DOMAIN c2} BY <2>1 DEF Reads
    <3>2. QED BY <2>3, <2>4, <3>1
  <2>6. 1 \in DOMAIN c1 /\ \A j \in 1 .. 1 - 1 : FALSE BY <2>4
  <2>7. b.kind \in Kinds /\ b.kind \notin {"proof", "within"} BY <2>1 DEF Kinds
  <2>8. QED BY <2>1, <2>3, <2>4, <2>5, <2>6, <2>7 DEF WellFormed, ReadsInOrder, b, c1, c2
<1>15. QED
    BY <1>1, <1>2, <1>3, <1>4, <1>5, <1>6, <1>7, <1>8, <1>9, <1>10, <1>11, <1>12, <1>13, <1>14

\* Every bound the code knows is well formed.
LEMMA VerticalsWellFormed ==
    \A v \in DOMAIN Verticals : \A b \in Verticals[v].bounds : WellFormed(b)
<1>1. ASSUME NEW params, "required_drive_minutes" \notin params
      PROVE  /\ \A b \in AtMost(params) : WellFormed(b)
             /\ \A b \in AtLeast(params) : WellFormed(b)
             /\ \A b \in OneOf(params) : WellFormed(b)
             /\ \A b \in Proven(params) : WellFormed(b)
             /\ \A b \in Never(params) : WellFormed(b)
             /\ \A b \in Within(params) : WellFormed(b)
    BY <1>1, SetsWellFormed
<1>2. \A b \in automotiveBounds : WellFormed(b) BY <1>1 DEF automotiveBounds
<1>3. \A b \in gridBounds : WellFormed(b) BY <1>1 DEF gridBounds
<1>4. \A b \in railBounds : WellFormed(b) BY <1>1, OthersWellFormed DEF railBounds
<1>5. \A b \in pipelineBounds : WellFormed(b) BY <1>1, OthersWellFormed DEF pipelineBounds
<1>6. \A b \in miningBounds : WellFormed(b) BY <1>1 DEF miningBounds
<1>7. \A b \in portBounds : WellFormed(b) BY <1>1, OthersWellFormed DEF portBounds
<1>8. \A b \in waterBounds : WellFormed(b) BY <1>1, OthersWellFormed DEF waterBounds
<1>9. \A b \in aviationBounds : WellFormed(b) BY <1>1 DEF aviationBounds
<1>10. \A b \in roboticsBounds : WellFormed(b) BY <1>1, OthersWellFormed DEF roboticsBounds
<1>11. \A b \in logisticsBounds : WellFormed(b) BY <1>1, OthersWellFormed DEF logisticsBounds
<1>12. \A b \in swarmBounds : WellFormed(b) BY <1>1 DEF swarmBounds
<1>13. \A b \in healthcareBounds : WellFormed(b) BY <1>1, OthersWellFormed DEF healthcareBounds
<1>14. \A b \in titleBounds : WellFormed(b) BY <1>1 DEF titleBounds
<1>15. \A b \in spaceBounds : WellFormed(b) BY <1>1 DEF spaceBounds
<1>16. \A b \in orbitalBounds : WellFormed(b) BY <1>1 DEF orbitalBounds
<1>17. \A b \in droneBounds : WellFormed(b) BY <1>1 DEF droneBounds
<1>18. \A b \in generalBounds : WellFormed(b) BY <1>1, <1>17 DEF generalBounds
<1>19. /\ DOMAIN Verticals =
            {"automotive", "grid", "rail", "pipeline", "mining", "port", "water", "aviation",
             "robotics", "logistics", "swarm", "healthcare", "title", "space", "orbital", "general"}
      /\ Verticals.automotive.bounds = automotiveBounds /\ Verticals.grid.bounds = gridBounds
      /\ Verticals.rail.bounds = railBounds /\ Verticals.pipeline.bounds = pipelineBounds
      /\ Verticals.mining.bounds = miningBounds /\ Verticals.port.bounds = portBounds
      /\ Verticals.water.bounds = waterBounds /\ Verticals.aviation.bounds = aviationBounds
      /\ Verticals.robotics.bounds = roboticsBounds /\ Verticals.logistics.bounds = logisticsBounds
      /\ Verticals.swarm.bounds = swarmBounds /\ Verticals.healthcare.bounds = healthcareBounds
      /\ Verticals.title.bounds = titleBounds /\ Verticals.space.bounds = spaceBounds
      /\ Verticals.orbital.bounds = orbitalBounds /\ Verticals.general.bounds = generalBounds
    BY DEF Verticals, Vertical
<1>20. QED
    BY <1>2, <1>3, <1>4, <1>5, <1>6, <1>7, <1>8, <1>9, <1>10, <1>11, <1>12, <1>13, <1>14, <1>15, <1>16, <1>17, <1>18, <1>19

-----------------------------------------------------------------------------
(* Readings that leave their nominal value                                 *)

\* One parameter changes, and it was supplied before.
OneChange(f, g, p) ==
    DOMAIN g = DOMAIN f /\ p \in DOMAIN f /\ \A q \in DOMAIN f \ {p} : g[q] = f[q]

\* A set of natural numbers that is not empty has a least member.
LEMMA LeastMember ==
    ASSUME NEW S, S \subseteq Nat, S # {}
    PROVE  \E x \in S : \A y \in S : x <= y
<1> DEFINE R == OpToRel(<, Nat)
<1>1. IsWellFoundedOn(R, Nat) BY NatLessThanWellFounded, Zenon
<1>2. \A x, y \in Nat : <<x, y>> \in R <=> x < y BY DEF OpToRel
<1> HIDE DEF R
<1>3. PICK x \in S : \A y \in S : <<y, x>> \notin R BY <1>1, WFMin
<1>4. ASSUME NEW y \in S PROVE x <= y
  <2>1. x \in Nat /\ y \in Nat OBVIOUS
  <2>2. ~(y < x) BY <1>2, <1>3, <2>1
  <2>3. QED BY <2>1, <2>2
<1>5. QED BY <1>4

\* A comparison reads the same, or it read the parameter that has changed.
LEMMA EffectiveChange ==
    ASSUME NEW c, IsChain(c), NEW f, NEW g, NEW p, OneChange(f, g, p)
    PROVE  \/ Effective(c, g) = Effective(c, f)
           \/ /\ Effective(c, g) = g[p] /\ Effective(c, f) = f[p]
              /\ \E i \in DOMAIN c : c[i] = p
<1> DEFINE present == {i \in DOMAIN c : c[i] \in DOMAIN f}
<1>1. PICK n \in Nat : DOMAIN c = 1 .. n BY DEF IsChain
<1>2. present = {i \in DOMAIN c : c[i] \in DOMAIN g} BY DEF OneChange
<1>3. /\ Effective(c, f) = IF present = {} THEN "absent" ELSE f[c[Min(present)]]
      /\ Effective(c, g) = IF present = {} THEN "absent" ELSE g[c[Min(present)]]
    BY <1>2 DEF Effective
<1>4. ASSUME present # {} PROVE Min(present) \in present
  <2>1. present \subseteq Nat BY <1>1
  <2>2. \E x \in present : \A y \in present : x <= y BY <1>4, <2>1, LeastMember
  <2>3. QED BY <2>2 DEF Min
<1>5. CASE present = {} BY <1>3, <1>5
<1>6. CASE present # {}
  <2>1. PICK i \in DOMAIN c : i = Min(present) /\ c[i] \in DOMAIN f BY <1>4, <1>6
  <2>2. CASE c[i] = p BY <1>3, <1>6, <2>1, <2>2
  <2>3. CASE c[i] # p
    <3>1. g[c[i]] = f[c[i]] BY <2>1, <2>3 DEF OneChange
    <3>2. QED BY <1>3, <1>6, <2>1, <3>1
  <2>4. QED BY <2>2, <2>3
<1>7. QED BY <1>5, <1>6

\* The values of a parameter, by the kind of the bound that reads it.
LEMMA ValuesByKind ==
    ASSUME NEW kind \in Kinds \union {"drive_hours"}, NEW p
    PROVE  /\ Len(Values(kind, p)) \in 2 .. 3
           /\ \A i \in 1 .. Len(Values(kind, p)) : Values(kind, p)[i] # "absent"
           /\ Head(Values(kind, p)) = Values(kind, p)[1]
BY DEF Kinds, Values

\* A bound that accepts a parameter out of place accepts it in its place: no
\* bound of any kind comes to hold when a reading leaves its nominal value.
LEMMA DriftNeverHelps ==
    ASSUME NEW b, WellFormed(b), NEW f, NEW g, NEW p, OneChange(f, g, p),
           f[p] = Values(b.kind, p)[1], Holds(b, g)
    PROVE  Holds(b, f)
<1> DEFINE good(c) == \/ Effective(c, g) = Effective(c, f)
                      \/ Effective(c, g) = g[p] /\ Effective(c, f) = f[p]
           before == {Effective(c, f) : c \in b.chains}
           after  == {Effective(c, g) : c \in b.chains}
<1>1. \A c \in b.chains : good(c) BY EffectiveChange DEF WellFormed, GoodChain
<1>2. ASSUME NEW x \in before PROVE x = f[p] \/ x \in after BY <1>1, <1>2
<1>4. \A q : q # p => Effective(<<q>>, f) = Effective(<<q>>, g) BY EffectiveOne DEF OneChange
<1>5. Effective(<<p>>, f) = f[p] /\ Effective(<<p>>, g) = g[p] BY EffectiveOne DEF OneChange
<1>6. LET t == <<"phi_purpose", "tpo_basis">> IN
      \/ Effective(t, g) = Effective(t, f)
      \/ /\ Effective(t, g) = g[p] /\ Effective(t, f) = f[p]
         /\ p # "patient_consent_valid"
  <2> DEFINE t == <<"phi_purpose", "tpo_basis">>
  <2>1. IsChain(t)
    <3>1. DOMAIN t = 1 .. 2 OBVIOUS
    <3>2. QED BY <3>1 DEF IsChain
  <2>2. \A j \in DOMAIN t : t[j] # "patient_consent_valid" OBVIOUS
  <2>3. QED BY <2>1, <2>2, EffectiveChange
<1>7. b.kind \in Kinds BY DEF WellFormed
<1>8. CASE b.kind \in {"max", "min", "permit", "proof", "never", "within", "signal_not_stop"}
  <2>1. /\ b.kind \in {"max", "min"} => f[p] = "at"
        /\ b.kind = "permit" => f[p] = "listed"
        /\ b.kind = "proof" => f[p] = "true"
        /\ b.kind = "never" => f[p] = "false"
        /\ b.kind = "within" => f[p] = "inside"
        /\ b.kind = "signal_not_stop" => f[p] = "clear"
      BY DEF Values
  <2> HIDE DEF before, after
  <2>2. CASE b.kind \in {"max", "min", "permit", "proof", "never", "signal_not_stop"}
    <3>1. /\ b.kind = "max" => (Holds(b, g) <=> "above" \notin after) /\ (Holds(b, f) <=> "above" \notin before)
          /\ b.kind = "min" => (Holds(b, g) <=> "below" \notin after) /\ (Holds(b, f) <=> "below" \notin before)
          /\ b.kind = "permit" => (Holds(b, g) <=> "unlisted" \notin after) /\ (Holds(b, f) <=> "unlisted" \notin before)
          /\ b.kind = "proof" => /\ Holds(b, g) <=> after \intersect {"absent", "false"} = {}
                                 /\ Holds(b, f) <=> before \intersect {"absent", "false"} = {}
          /\ b.kind = "never" => (Holds(b, g) <=> "true" \notin after) /\ (Holds(b, f) <=> "true" \notin before)
          /\ b.kind = "signal_not_stop" => (Holds(b, g) <=> "stop" \notin after) /\ (Holds(b, f) <=> "stop" \notin before)
        BY DEF Holds, before, after
    <3>2. QED BY <1>2, <2>1, <2>2, <3>1
  <2>3. CASE b.kind = "within"
    <3>1. after = {"inside"} BY <2>3 DEF Holds, after
    <3>2. \A x \in before : x = "inside" BY <1>2, <2>1, <2>3, <3>1
    <3>3. before # {} BY <3>1 DEF before, after
    <3>4. before = {"inside"} BY <3>2, <3>3
    <3>5. QED BY <2>3, <3>4 DEF Holds, before
  <2>4. QED BY <1>8, <2>2, <2>3
<1> HIDE DEF before, after
<1>9. CASE b.kind = "collaborative"
  <2>1. \A h \in {f, g} :
           Holds(b, h) <=> (Effective(<<"human_present">>, h) = "true" =>
                                Effective(<<"operating_mode">>, h) = "collaborative")
      BY <1>9 DEF Holds
  <2>2. /\ p = "human_present" => f[p] = "false"
        /\ p # "human_present" => f[p] = "collaborative"
      BY <1>9 DEF Values
  <2>3. QED BY <1>4, <1>5, <2>1, <2>2
<1>10. CASE b.kind = "endorsed"
  <2>1. \A h \in {f, g} :
           Holds(b, h) <=> \/ Effective(<<"hazmat_class">>, h) \in {"absent", "none"}
                           \/ Effective(<<"hazmat_endorsement_valid">>, h) = "true"
      BY <1>10 DEF Holds
  <2>2. /\ p = "hazmat_class" => f[p] = "none"
        /\ p # "hazmat_class" => f[p] = "true"
      BY <1>10 DEF Values
  <2>3. QED BY <1>4, <1>5, <2>1, <2>2
<1>11. CASE b.kind = "tpo_or_consent"
  <2>1. \A h \in {f, g} :
           Holds(b, h) <=> \/ Effective(<<"patient_consent_valid">>, h) = "true"
                           \/ Effective(<<"phi_purpose", "tpo_basis">>, h) = "treatment"
      BY <1>11 DEF Holds
  <2>2. /\ p = "patient_consent_valid" => f[p] = "true"
        /\ p # "patient_consent_valid" => f[p] = "treatment"
      BY <1>11 DEF Values
  <2>3. QED BY <1>4, <1>5, <1>6, <2>1, <2>2
<1>12. CASE b.kind = "break_glass"
  <2>1. \A h \in {f, g} :
           Holds(b, h) <=> (Effective(<<"tpo_basis">>, h) = "emergency" =>
                                Effective(<<"break_glass_attested">>, h) = "true")
      BY <1>12 DEF Holds
  <2>2. /\ p = "tpo_basis" => f[p] = "treatment"
        /\ p # "tpo_basis" => f[p] = "true"
      BY <1>12 DEF Values
  <2>3. QED BY <1>4, <1>5, <2>1, <2>2
<1>13. QED BY <1>7, <1>8, <1>9, <1>10, <1>11, <1>12 DEF Kinds

\* The same of the drive hours, where the values matter: a trip gets longer or
\* the time left shorter.
LEMMA DriftNeverHelpsDriveHours ==
    ASSUME NEW f, NEW g, NEW p, OneChange(f, g, p), p \in Reads(DriveHours),
           f[p] = Values("drive_hours", p)[1],
           \A q \in DOMAIN f : \E i \in 1 .. Len(Values("drive_hours", q)) : f[q] = Values("drive_hours", q)[i],
           g[p] = Values("drive_hours", p)[2],
           Holds(DriveHours, g)
    PROVE  Holds(DriveHours, f)
<1> DEFINE r == "required_drive_minutes"
           m == "remaining_drive_minutes"
<1>1. /\ DriveHours.kind = "drive_hours" /\ DriveHours.chains = {<<r>>, <<m>>} BY DEF DriveHours, Bound
<1>2. p \in {r, m}
  <2>1. \A c \in {<<r>>, <<m>>} : \A i \in DOMAIN c : c[i] \in {r, m} OBVIOUS
  <2>2. QED BY <1>1, <2>1 DEF Reads
<1>3. \A h \in {f, g} :
         Holds(DriveHours, h) <=> \/ "absent" \in {Effective(<<r>>, h), Effective(<<m>>, h)}
                                  \/ Level[Effective(<<r>>, h)] =< Level[Effective(<<m>>, h)]
    BY <1>1 DEF Holds
<1>4. \A q : /\ q \notin DOMAIN f => Effective(<<q>>, f) = "absent"
             /\ q \in DOMAIN f => Effective(<<q>>, f) = f[q] /\ Effective(<<q>>, g) = g[q]
    BY EffectiveOne DEF OneChange
<1>5. /\ r \in DOMAIN f => f[r] \in {"at", "above"}
      /\ m \in DOMAIN f => f[m] \in {"at", "below"}
  <2>1. /\ Values("drive_hours", r) = <<"at", "above">> /\ Values("drive_hours", m) = <<"at", "below">>
      BY DEF Values
  <2>2. QED BY <2>1
<1>6. CASE r \in DOMAIN f /\ m \in DOMAIN f
  <2>1. Effective(<<r>>, f) = f[r] /\ Effective(<<m>>, f) = f[m] BY <1>4, <1>6
  <2>2. Effective(<<r>>, g) = g[r] /\ Effective(<<m>>, g) = g[m] BY <1>4, <1>6
  <2>3. CASE p = r
    <3>1. g[r] = "above" /\ f[r] = "at" /\ g[m] = f[m] BY <1>6, <2>3 DEF Values, OneChange
    <3>2. QED BY <1>3, <1>5, <1>6, <2>1, <2>2, <3>1 DEF Level
  <2>4. CASE p = m
    <3>1. g[m] = "below" /\ f[m] = "at" /\ g[r] = f[r] BY <1>6, <2>4 DEF Values, OneChange
    <3>2. QED BY <1>3, <1>5, <1>6, <2>1, <2>2, <3>1 DEF Level
  <2>5. QED BY <1>2, <2>3, <2>4
<1>7. CASE ~(r \in DOMAIN f /\ m \in DOMAIN f) BY <1>3, <1>4, <1>7
<1>8. QED BY <1>6, <1>7

-----------------------------------------------------------------------------
(* The gate while its circumstances change                                 *)

\* Every bound that is watched is one the code knows.
LEMMA WatchedBound ==
    ASSUME NEW b \in KnownBounds
    PROVE  /\ b = DriveHours \/ WellFormed(b)
           /\ b.kind \in Kinds \union {"drive_hours"}
           /\ b = DriveHours <=> b.kind = "drive_hours"
           /\ \A c \in b.chains : IsChain(c)
<1>1. b = DriveHours \/ WellFormed(b) BY VerticalsWellFormed DEF KnownBounds
<1>2. DriveHours.kind = "drive_hours" BY DEF DriveHours, Bound
<1>3. \A c \in DriveHours.chains : IsChain(c)
  <2>1. IsChain(<<"required_drive_minutes">>)
    <3>1. DOMAIN <<"required_drive_minutes">> = 1 .. 1 OBVIOUS
    <3>2. QED BY <3>1 DEF IsChain
  <2>2. IsChain(<<"remaining_drive_minutes">>) BY OneInOrder DEF GoodChain
  <2>3. QED BY <2>1, <2>2 DEF DriveHours, Bound
<1>4. "drive_hours" \notin Kinds BY DEF Kinds
<1>5. QED BY <1>1, <1>2, <1>3, <1>4 DEF WellFormed, GoodChain

(* Whatever the plant reports, whatever is lost and whatever the request   *)
(* writes over it, an action the gate admits keeps every bound its Ward    *)
(* declares, in any vertical (evaluatePhysicalInvariants).                 *)
THEOREM AdmittedKeepsLimits ==
    ASSUME NEW in, NEW C, NEW t, NEW interlocked \in BOOLEAN, NEW seen, NEW asked,
           NEW declares, UNION declares \subseteq KnownBounds,
           \A p \in DOMAIN seen : seen[p] # "absent",
           \A p \in DOMAIN asked : asked[p] # "absent",
           in.physicalOk =
               evaluatePhysicalInvariants(interlocked, ActionParams(seen, asked), declares),
           evaluateCommitGate(in, C, t).decision = "ALLOW"
    PROVE  LimitsKept(interlocked, seen, asked, declares)
<1> DEFINE params == ActionParams(seen, asked)
           supplied == DOMAIN seen \union DOMAIN asked
<1>1. in.physicalOk BY GateAdmits, Zenon
<1>2. \A declared \in declares :
          ~interlocked /\ \A b \in declared \union {DriveHours} : Holds(b, params)
    BY <1>1 DEF evaluatePhysicalInvariants
<1>3. \A b \in UNION declares : BoundKept(b, seen, asked)
  <2>1. ASSUME NEW b \in UNION declares PROVE BoundKept(b, seen, asked)
    <3>1. Holds(b, ActionParams(seen, asked)) BY <1>2
    <3>2. b \in KnownBounds BY <2>1
    <3>3. CASE WellFormed(b)
      <4>1. \A c \in b.chains : IsChain(c) BY <3>3 DEF WellFormed, GoodChain
      <4>2. ReadsInOrder(b) BY <3>3 DEF WellFormed
      <4>3. QED BY <3>1, <4>1, <4>2, HoldsKeeps
    <3>4. CASE b = DriveHours
      <4>1. b.kind = "drive_hours" BY <3>4 DEF DriveHours, Bound
      <4>2. QED BY <4>1 DEF BoundKept, Excluded
    <3>5. QED BY <3>2, <3>3, <3>4, WatchedBound
  <2>2. QED BY <2>1
<1>4. ASSUME declares # {}, Reads(DriveHours) \subseteq supplied
      PROVE  Level[Stated("required_drive_minutes", seen, asked)] =<
                 Level[Stated("remaining_drive_minutes", seen, asked)]
  <2> DEFINE r == "required_drive_minutes"
             m == "remaining_drive_minutes"
  <2>1. Holds(DriveHours, params) BY <1>2, <1>4
  <2>2. r \in supplied /\ m \in supplied
    <3>1. <<r>> \in DriveHours.chains /\ <<m>> \in DriveHours.chains BY DEF DriveHours, Bound
    <3>2. r \in Reads(DriveHours) /\ m \in Reads(DriveHours) BY <3>1 DEF Reads
    <3>3. QED BY <1>4, <3>2
  <2>3. /\ DOMAIN params = supplied
        /\ params[r] = Stated(r, seen, asked) /\ params[m] = Stated(m, seen, asked)
      BY <2>2, ActionParamsStated
  <2>4. params[r] # "absent" /\ params[m] # "absent" BY <2>2, <2>3 DEF Stated
  <2>5. Effective(<<r>>, params) = params[r] /\ Effective(<<m>>, params) = params[m]
    <3> HIDE DEF params, r, m
    <3>1. QED BY <2>2, <2>3, EffectiveOne
  <2>6. /\ DriveHours.kind = "drive_hours" /\ DriveHours.chains = {<<r>>, <<m>>} BY DEF DriveHours, Bound
  <2> HIDE DEF params, r, m
  <2>7. \/ "absent" \in {Effective(c, params) : c \in DriveHours.chains}
        \/ Level[Effective(<<r>>, params)] =< Level[Effective(<<m>>, params)]
      BY <2>1, <2>6 DEF Holds, r, m
  <2>8. "absent" \notin {Effective(c, params) : c \in DriveHours.chains} BY <2>4, <2>5, <2>6
  <2>9. QED BY <2>3, <2>5, <2>7, <2>8 DEF r, m
<1>5. QED BY <1>2, <1>3, <1>4 DEF LimitsKept

\* Parameters of a site without a watched bound do not exist; of one with a
\* watched bound they have a value of its kind.
LEMMA SiteBound ==
    ASSUME TypeOK
    PROVE  \/ site.bound = {} /\ Watched = {}
           \/ \E b \in KnownBounds :
                 /\ site.bound = {b} /\ Watched = Reads(b)
                 /\ \A p : ValuesOf(p) = Values(b.kind, p)
                 /\ \A p : \A x : x \in CanBe(p) <=>
                       \E i \in 1 .. Len(Values(b.kind, p)) : x = Values(b.kind, p)[i]
                 /\ \A p : Nominal(p) = Values(b.kind, p)[1]
<1>1. site.bound = {} \/ \E b \in KnownBounds : site.bound = {b} BY DEF TypeOK, Optional
<1>2. CASE site.bound = {} BY <1>2 DEF Watched
<1>3. ASSUME NEW b \in KnownBounds, site.bound = {b}
      PROVE  /\ Watched = Reads(b)
             /\ \A p : ValuesOf(p) = Values(b.kind, p)
             /\ \A p : \A x : x \in CanBe(p) <=>
                   \E i \in 1 .. Len(Values(b.kind, p)) : x = Values(b.kind, p)[i]
             /\ \A p : Nominal(p) = Values(b.kind, p)[1]
  <2>1. Watched = Reads(b) BY <1>3 DEF Watched
  <2>2. (CHOOSE c \in site.bound : TRUE) = b BY <1>3
  <2>3. ASSUME NEW p
        PROVE  /\ ValuesOf(p) = Values(b.kind, p)
               /\ \A x : x \in CanBe(p) <=>
                     \E i \in 1 .. Len(Values(b.kind, p)) : x = Values(b.kind, p)[i]
               /\ Nominal(p) = Values(b.kind, p)[1]
    <3>1. ValuesOf(p) = Values(b.kind, p) BY <2>2 DEF ValuesOf
    <3>2. /\ Len(Values(b.kind, p)) \in 2 .. 3 /\ Head(Values(b.kind, p)) = Values(b.kind, p)[1]
        BY WatchedBound, ValuesByKind
    <3>3. QED BY <3>1, <3>2 DEF CanBe, Nominal, OutOfPlace
  <2>4. QED BY <2>1, <2>3
<1>4. QED BY <1>1, <1>2, <1>3

\* Everything about a parameter depends on the site alone, which never changes.
LEMMA SiteFixed ==
    ASSUME site' = site
    PROVE  /\ Watched' = Watched
           /\ \A p : CanBe(p)' = CanBe(p) /\ Nominal(p)' = Nominal(p)
BY DEF Watched, CanBe, Nominal, OutOfPlace, ValuesOf

\* The first gate inputs, sites and plants are of their types.
LEMMA InitTypeOK == Init => TypeOK
<1> SUFFICES ASSUME Init PROVE TypeOK OBVIOUS
<1>1. input \in GateInput BY GateDegradationAssumption DEF Init
<1>2. /\ conditions = {} /\ now = 0 /\ bounds = {} /\ request = <<>>
      /\ snapshot = [p \in Watched \ Verticals[site.vertical].unmeasured |-> Nominal(p)]
    BY DEF Init
<1>3. site.interlocked \in BOOLEAN /\ site.bound \in Optional(KnownBounds)
  <2>1. CASE site = Site("general", {}, FALSE) BY <2>1 DEF Site, Optional
  <2>2. ASSUME NEW v \in Plants, NEW b \in Verticals[v].bounds, site = Site(v, {b}, FALSE)
        PROVE  site.interlocked \in BOOLEAN /\ site.bound \in Optional(KnownBounds)
    <3>1. b \in KnownBounds BY GateDegradationAssumption DEF KnownBounds
    <3>2. QED BY <2>2, <3>1 DEF Site, Optional
  <2>3. ASSUME NEW b \in {{}, {DriveHours}}, site = Site("logistics", b, b = {})
        PROVE  site.interlocked \in BOOLEAN /\ site.bound \in Optional(KnownBounds)
    <3>1. b \in Optional(KnownBounds) BY DEF KnownBounds, Optional
    <3>2. QED BY <2>3, <3>1 DEF Site
  <2>4. QED BY <2>1, <2>2, <2>3 DEF Init
<1>4. \A params \in {snapshot, request} :
         \A p \in DOMAIN params : p \in Watched /\ params[p] \in CanBe(p)
    BY <1>2 DEF CanBe
<1>5. QED BY <1>1, <1>2, <1>3, <1>4 DEF TypeOK

\* A step keeps every part of the state within its type.
LEMMA NextTypeOK == TypeOK /\ [Next]_vars => TypeOK'
<1> SUFFICES ASSUME TypeOK, [Next]_vars PROVE TypeOK' OBVIOUS
<1> USE DEF TypeOK
<1> DEFINE typed(params) == \A p \in DOMAIN params : p \in Watched /\ params[p] \in CanBe(p)
<1>1. ASSUME site' = site, typed(snapshot'), typed(request'), input' \in GateInput,
             conditions' \subseteq DegradationCondition, now' \in Nat,
             bounds' \in {{}, {{}}, {site.bound}}
      PROVE  TypeOK'
    BY <1>1, SiteFixed
<1>2. typed(snapshot) /\ typed(request) OBVIOUS
<1> HIDE DEF typed
<1>3. ASSUME NEW c \in DegradationCondition, Degrade(c) PROVE TypeOK'
    BY <1>1, <1>2, <1>3 DEF Degrade, plant
<1>4. CASE Tick BY <1>1, <1>2, <1>4 DEF Tick, plant
<1>5. CASE Promote
  <2>1. PICK i \in 1 .. 3 : /\ input' = [input EXCEPT !.criticality = Severity[i + 1]]
                            /\ UNCHANGED <<conditions, now, site, plant>>
      BY <1>5 DEF Promote
  <2>2. Severity[i + 1] \in WardCriticality BY DEF Severity, WardCriticality
  <2>3. input' \in GateInput BY <2>1, <2>2 DEF GateInput
  <2>4. QED BY <1>1, <1>2, <2>1, <2>3 DEF plant
<1>6. CASE RaiseLabel
  <2>1. PICK l \in Labels : /\ input' = [input EXCEPT !.label = {l}]
                            /\ UNCHANGED <<conditions, now, site, plant>>
      BY <1>6 DEF RaiseLabel
  <2>2. {l} \in Optional(Classification) BY GateDegradationAssumption DEF Optional
  <2>3. input' \in GateInput BY <2>1, <2>2 DEF GateInput
  <2>4. QED BY <1>1, <1>2, <2>1, <2>3 DEF plant
<1>7. CASE DeclareBounds BY <1>1, <1>2, <1>7 DEF DeclareBounds
<1>8. ASSUME NEW p \in Watched, Drift(p) PROVE TypeOK'
  <2>1. PICK v \in OutOfPlace(p) : snapshot' = [snapshot EXCEPT ![p] = v] BY <1>8 DEF Drift
  <2>2. typed(snapshot') BY <1>2, <2>1 DEF typed, CanBe
  <2>3. QED BY <1>1, <1>2, <1>8, <2>2 DEF Drift
<1>9. ASSUME NEW p \in Watched, LoseReading(p) PROVE TypeOK'
  <2>1. typed(snapshot') BY <1>2, <1>9 DEF LoseReading, typed
  <2>2. QED BY <1>1, <1>2, <1>9, <2>1 DEF LoseReading
<1>10. ASSUME NEW r \in Verticals[site.vertical].requests, Request(r) PROVE TypeOK'
  <2> DEFINE fields == {f \intersect Watched : f \in r} \ {{}}
             of(p) == IF p \in AlwaysTrue THEN {Nominal(p)} ELSE CanBe(p)
  <2>1. PICK c \in [UNION fields -> UNION {of(p) : p \in UNION fields}] :
           (\A p \in DOMAIN c : c[p] \in of(p)) /\ request' = c
      BY <1>10 DEF Request
  <2>2. \A p : of(p) \subseteq CanBe(p) BY DEF CanBe
  <2>3. UNION fields \subseteq Watched OBVIOUS
  <2> HIDE DEF fields, of
  <2>4. typed(request') BY <2>1, <2>2, <2>3 DEF typed
  <2>5. QED BY <1>1, <1>2, <1>10, <2>4 DEF Request
<1>11. CASE UNCHANGED vars BY <1>1, <1>2, <1>11 DEF vars, plant
<1>12. QED BY <1>3, <1>4, <1>5, <1>6, <1>7, <1>8, <1>9, <1>10, <1>11 DEF Next

(* What is submitted, seen and declared stays of its type, and parameters  *)
(* keep to what the watched bound reads.                                   *)
THEOREM TypeCorrect == Spec => []TypeOK
<1>1. QED BY InitTypeOK, NextTypeOK, PTL DEF Spec

\* The gate's answer is that of its input with the verdict of the bounds.
LEMMA VerdictIsGate ==
    verdict = evaluateCommitGate([input EXCEPT !.physicalOk = PhysicalOk], conditions, now)
BY DEF verdict

\* An admitted action keeps what its Ward declares, in every typed state.
LEMMA TypedLimits == TypeOK => LimitsHold
<1> SUFFICES ASSUME TypeOK, verdict.decision = "ALLOW"
             PROVE  LimitsKept(site.interlocked, snapshot, request, bounds)
    BY DEF LimitsHold
<1> DEFINE in == [input EXCEPT !.physicalOk = PhysicalOk]
<1>1. evaluateCommitGate(in, conditions, now).decision = "ALLOW" BY VerdictIsGate
<1>2. in.physicalOk =
         evaluatePhysicalInvariants(site.interlocked, ActionParams(snapshot, request), bounds)
  <2>1. in.physicalOk = PhysicalOk BY DEF TypeOK, GateInput
  <2>2. QED BY <2>1 DEF PhysicalOk
<1>3. UNION bounds \subseteq KnownBounds BY SiteBound DEF TypeOK
<1>5. ASSUME NEW params \in {snapshot, request}, NEW p \in DOMAIN params PROVE params[p] # "absent"
  <2>1. p \in Watched /\ params[p] \in CanBe(p) BY <1>5 DEF TypeOK
  <2>2. PICK b \in KnownBounds : \E i \in 1 .. Len(Values(b.kind, p)) : params[p] = Values(b.kind, p)[i]
      BY <2>1, SiteBound
  <2>3. QED BY <2>2, WatchedBound, ValuesByKind
<1>6. site.interlocked \in BOOLEAN BY DEF TypeOK
<1> HIDE DEF in
<1>7. QED BY <1>1, <1>2, <1>3, <1>5, <1>6, AdmittedKeepsLimits

(* LimitsHold: through every drift, lost reading, request and declaration, *)
(* for every bound of every vertical.                                      *)
THEOREM LimitsTheorem == Spec => []LimitsHold
<1>1. QED BY TypeCorrect, TypedLimits, PTL

\* Only a reading that is lost or a new request can turn the verdict of the
\* physical bounds in the action's favour.
LEMMA PhysicalNoBetter ==
    ASSUME TypeOK, [Next]_vars, DOMAIN snapshot' = DOMAIN snapshot, request' = request, PhysicalOk'
    PROVE  PhysicalOk
<1> DEFINE f == ActionParams(snapshot, request)
           g == ActionParams(snapshot', request)
<1>1. CASE UNCHANGED <<site, plant>> BY <1>1 DEF PhysicalOk, plant
<1>2. CASE DeclareBounds
  <2>1. /\ site' = site /\ snapshot' = snapshot /\ bounds # {site.bound}
        /\ bounds' \in {{{}}, {site.bound}} \ {bounds}
      BY <1>2 DEF DeclareBounds
  <2>2. \A declared \in bounds' : ~site.interlocked /\ \A b \in declared \union {DriveHours} : Holds(b, f)
      BY <2>1 DEF PhysicalOk, evaluatePhysicalInvariants
  <2>3. CASE bounds = {} BY <2>3 DEF PhysicalOk, evaluatePhysicalInvariants
  <2>4. CASE bounds = {{}}
    <3>1. bounds' = {site.bound} BY <2>1, <2>4
    <3>2. ~site.interlocked /\ Holds(DriveHours, f) BY <2>2, <3>1
    <3>3. QED BY <2>4, <3>2 DEF PhysicalOk, evaluatePhysicalInvariants
  <2>5. QED BY <2>1, <2>3, <2>4 DEF TypeOK
<1>3. ASSUME NEW p \in Watched, Drift(p) PROVE PhysicalOk
  <2>1. PICK v \in OutOfPlace(p) : snapshot' = [snapshot EXCEPT ![p] = v] BY <1>3 DEF Drift
  <2>2. /\ p \in DOMAIN snapshot /\ snapshot[p] = Nominal(p)
        /\ site' = site /\ bounds' = bounds
      BY <1>3 DEF Drift
  <2>3. \A declared \in bounds : ~site.interlocked /\ \A b \in declared \union {DriveHours} : Holds(b, g)
      BY <2>2 DEF PhysicalOk, evaluatePhysicalInvariants
  <2>4. /\ DOMAIN f = DOMAIN snapshot \union DOMAIN request /\ DOMAIN g = DOMAIN f
        /\ \A q \in DOMAIN f : /\ f[q] = Stated(q, snapshot, request)
                               /\ g[q] = Stated(q, snapshot', request)
    <3>1. DOMAIN snapshot' = DOMAIN snapshot OBVIOUS
    <3>2. /\ DOMAIN f = DOMAIN snapshot \union DOMAIN request
          /\ \A q \in DOMAIN snapshot \union DOMAIN request : f[q] = Stated(q, snapshot, request)
        BY ActionParamsStated
    <3>3. /\ DOMAIN g = DOMAIN snapshot' \union DOMAIN request
          /\ \A q \in DOMAIN snapshot' \union DOMAIN request : g[q] = Stated(q, snapshot', request)
        BY ActionParamsStated
    <3> HIDE DEF f, g
    <3>4. QED BY <3>1, <3>2, <3>3
  <2>5. CASE p \in DOMAIN request
    <3>1. f = g BY <2>1, <2>5 DEF ActionParams, Spread
    <3>2. QED BY <2>3, <3>1 DEF PhysicalOk, evaluatePhysicalInvariants
  <2>6. CASE p \notin DOMAIN request
    <3>1. OneChange(f, g, p) /\ f[p] = Nominal(p) /\ g[p] = v
        BY <2>1, <2>2, <2>4, <2>6 DEF OneChange, Stated
    <3>2. \A q \in DOMAIN f : q \in Watched /\ f[q] \in CanBe(q) BY <2>4 DEF TypeOK, Stated
    <3> HIDE DEF f, g
    <3>3. PICK b \in KnownBounds :
             /\ site.bound = {b} /\ Watched = Reads(b)
             /\ \A q : ValuesOf(q) = Values(b.kind, q)
             /\ \A q : \A x : x \in CanBe(q) <=>
                   \E i \in 1 .. Len(Values(b.kind, q)) : x = Values(b.kind, q)[i]
             /\ \A q : Nominal(q) = Values(b.kind, q)[1]
        BY <1>3, SiteBound
    <3>4. Holds(b, g) => Holds(b, f)
      <4>1. CASE WellFormed(b) BY <3>1, <3>3, <4>1, DriftNeverHelps
      <4>2. CASE b = DriveHours
        <5>1. b.kind = "drive_hours" BY <4>2, WatchedBound
        <5>2. Len(Values("drive_hours", p)) = 2 BY DEF Values
        <5>3. v = Values("drive_hours", p)[2] BY <3>3, <5>1, <5>2 DEF OutOfPlace
        <5>4. \A q \in DOMAIN f : \E i \in 1 .. Len(Values("drive_hours", q)) :
                                     f[q] = Values("drive_hours", q)[i]
            BY <3>2, <3>3, <5>1
        <5>5. p \in Reads(DriveHours) BY <1>3, <3>3, <4>2
        <5>6. QED BY <3>1, <3>3, <4>2, <5>1, <5>3, <5>4, <5>5, DriftNeverHelpsDriveHours
      <4>3. QED BY <4>1, <4>2, WatchedBound
    <3>5. Holds(DriveHours, g) => Holds(DriveHours, f)
      <4>1. CASE b = DriveHours BY <3>4, <4>1
      <4>2. CASE WellFormed(b)
        <5>1. "required_drive_minutes" \notin Reads(b) BY <4>2 DEF WellFormed, GoodChain, Reads
        <5>2. "required_drive_minutes" \notin DOMAIN f BY <3>2, <3>3, <5>1
        <5>3. Effective(<<"required_drive_minutes">>, f) = "absent" BY <5>2, EffectiveOne
        <5>4. /\ DriveHours.kind = "drive_hours"
              /\ <<"required_drive_minutes">> \in DriveHours.chains
            BY DEF DriveHours, Bound
        <5>5. "absent" \in {Effective(c, f) : c \in DriveHours.chains} BY <5>3, <5>4
        <5>6. QED BY <5>4, <5>5 DEF Holds
      <4>3. QED BY <4>1, <4>2, WatchedBound
    <3>6. \A declared \in bounds : declared \subseteq {b} BY <3>3 DEF TypeOK
    <3>7. \A declared \in bounds : ~site.interlocked /\ \A x \in declared \union {DriveHours} : Holds(x, f)
        BY <2>3, <3>4, <3>5, <3>6
    <3>8. QED BY <3>7 DEF PhysicalOk, evaluatePhysicalInvariants, f
  <2>7. QED BY <2>5, <2>6
<1>4. ASSUME NEW p \in Watched, LoseReading(p) PROVE FALSE BY <1>4 DEF LoseReading
<1>5. ASSUME NEW r \in Verticals[site.vertical].requests, Request(r) PROVE FALSE
  <2> DEFINE fields == {h \intersect Watched : h \in r} \ {{}}
             of(p) == IF p \in AlwaysTrue THEN {Nominal(p)} ELSE CanBe(p)
  <2>1. /\ request = <<>> /\ fields # {}
        /\ \E c \in [UNION fields -> UNION {of(p) : p \in UNION fields}] : request' = c
      BY <1>5 DEF Request
  <2>2. \A h \in fields : h # {} OBVIOUS
  <2> HIDE DEF fields, of
  <2>3. DOMAIN request' = UNION fields BY <2>1
  <2>4. DOMAIN request = {}
    <3>1. request = <<>> BY <2>1
    <3>2. DOMAIN << >> = {} OBVIOUS
    <3>3. QED BY <3>1, <3>2
  <2>5. QED BY <2>1, <2>2, <2>3, <2>4
<1>6. CASE (\E c \in DegradationCondition : Degrade(c)) \/ Tick \/ Promote \/ RaiseLabel
    BY <1>1, <1>6 DEF Degrade, Tick, Promote, RaiseLabel
<1>7. CASE UNCHANGED vars BY <1>1, <1>7 DEF vars
<1>8. QED BY <1>2, <1>3, <1>4, <1>5, <1>6, <1>7 DEF Next

\* The rest of an input is no better: only the Ward's criticality and the label
\* change, the one not down and the other not to a label that dominates less.
InputNoBetter(a, b) ==
    /\ b = [a EXCEPT !.criticality = b.criticality, !.label = b.label]
    /\ b.criticality \in WardCriticality /\ Consequence(a.criticality) <= Consequence(b.criticality)
    /\ b.label \in Optional(Classification)
    /\ \A x \in a.label : \E y \in b.label : dominates(y, x)

\* No step improves the rest of the gate's input.
LEMMA StepsDoNotImprove ==
    ASSUME TypeOK, [Next]_vars
    PROVE  conditions \subseteq conditions' /\ now <= now' /\ InputNoBetter(input, input')
<1> USE DEF TypeOK
<1> DEFINE goal == conditions \subseteq conditions' /\ now <= now' /\ InputNoBetter(input, input')
<1>1. /\ input.criticality \in WardCriticality /\ input.label \in Optional(Classification)
      /\ input = [input EXCEPT !.criticality = input.criticality, !.label = input.label]
    BY DEF GateInput
<1>2. \A x \in Classification : dominates(x, x) BY DEF dominates, Classification, LEVEL_RANK
<1>3. \A x \in input.label : x \in Classification BY <1>1 DEF Optional
<1>4. \A k \in WardCriticality : Consequence(k) \in 1 .. 4 BY DEF WardCriticality, Consequence
<1>5. now \in Nat /\ now <= now /\ Consequence(input.criticality) <= Consequence(input.criticality)
    BY <1>1, <1>4
<1>6. InputNoBetter(input, input) BY <1>1, <1>2, <1>3, <1>5 DEF InputNoBetter
<1>7. ASSUME input' = input, conditions \subseteq conditions', now <= now' PROVE goal
    BY <1>6, <1>7
<1>8. ASSUME UNCHANGED <<conditions, now>>, InputNoBetter(input, input') PROVE goal
    BY <1>5, <1>8
<1>9. CASE Promote
  <2>1. PICK i \in 1 .. 3 : /\ input.criticality = Severity[i]
                            /\ input' = [input EXCEPT !.criticality = Severity[i + 1]]
                            /\ UNCHANGED <<conditions, now>>
      BY <1>9 DEF Promote
  <2>2. /\ Severity[i + 1] \in WardCriticality
        /\ Consequence(Severity[i]) <= Consequence(Severity[i + 1])
      BY DEF Severity, WardCriticality, Consequence
  <2>3. input'.criticality = Severity[i + 1] /\ input'.label = input.label BY <2>1 DEF GateInput
  <2>4. input' = [input EXCEPT !.criticality = input'.criticality, !.label = input'.label]
      BY <2>1, <2>3 DEF GateInput
  <2> HIDE DEF TypeOK
  <2>5. \A x \in input.label : \E y \in input'.label : dominates(y, x) BY <1>2, <1>3, <2>3
  <2>6. InputNoBetter(input, input') BY <1>1, <2>1, <2>2, <2>3, <2>4, <2>5 DEF InputNoBetter
  <2>7. QED BY <1>8, <2>1, <2>6
<1>10. CASE RaiseLabel
  <2>1. PICK l \in Labels : /\ \A k \in input.label : dominates(l, k)
                            /\ input' = [input EXCEPT !.label = {l}]
                            /\ UNCHANGED <<conditions, now>>
      BY <1>10 DEF RaiseLabel
  <2>2. {l} \in Optional(Classification) BY GateDegradationAssumption DEF Optional
  <2>3. input'.criticality = input.criticality /\ input'.label = {l} BY <2>1 DEF GateInput
  <2>4. input' = [input EXCEPT !.criticality = input'.criticality, !.label = input'.label]
      BY <2>1, <2>3 DEF GateInput
  <2> HIDE DEF TypeOK
  <2>5. InputNoBetter(input, input')
      BY <1>1, <1>5, <2>1, <2>2, <2>3, <2>4 DEF InputNoBetter
  <2>6. QED BY <1>8, <2>1, <2>5
<1>11. CASE (\E c \in DegradationCondition : Degrade(c)) \/ Tick \/ DeclareBounds
  <2>1. input' = input /\ conditions \subseteq conditions' /\ now <= now'
      BY <1>5, <1>11 DEF Degrade, Tick, DeclareBounds
  <2>2. QED BY <1>7, <2>1
<1>12. ASSUME NEW p \in Watched, Drift(p) \/ LoseReading(p) PROVE goal
    BY <1>6, <1>8, <1>12 DEF Drift, LoseReading
<1>13. ASSUME NEW r \in Verticals[site.vertical].requests, Request(r) PROVE goal
    BY <1>6, <1>8, <1>13 DEF Request
<1>14. CASE UNCHANGED vars BY <1>6, <1>8, <1>14 DEF vars
<1>15. ASSUME \E p \in Watched : Drift(p) \/ LoseReading(p) PROVE goal
  <2> HIDE DEF goal
  <2>1. QED BY <1>12, <1>15
<1>16. ASSUME \E r \in Verticals[site.vertical].requests : Request(r) PROVE goal
  <2> HIDE DEF goal
  <2>1. QED BY <1>13, <1>16
<1>17. CASE Next
  <2>1. (\E c \in DegradationCondition : Degrade(c)) \/ Tick \/ DeclareBounds => goal BY <1>11
  <2>2. Promote => goal BY <1>9
  <2>3. RaiseLabel => goal BY <1>10
  <2> HIDE DEF goal
  <2>4. goal BY <1>15, <1>16, <1>17, <2>1, <2>2, <2>3, Zenon DEF Next
  <2>5. QED BY <2>4 DEF goal
<1>18. QED BY <1>14, <1>17

(* WorseNeverAdmits: whatever gets worse, in whichever order, an action    *)
(* the gate does not admit stays not admitted, for any inputs, verticals   *)
(* and labels.                                                             *)
THEOREM WorseNeverAdmitsTheorem == Spec => WorseNeverAdmits
<1>1. TypeOK /\ TypeOK' /\ [Next]_vars =>
        [DOMAIN snapshot' = DOMAIN snapshot /\ request' = request /\ verdict'.decision = "ALLOW"
            => verdict.decision = "ALLOW"]_vars
  <2> SUFFICES ASSUME TypeOK, TypeOK', [Next]_vars, DOMAIN snapshot' = DOMAIN snapshot,
                      request' = request, verdict'.decision = "ALLOW"
               PROVE  verdict.decision = "ALLOW"
      OBVIOUS
  <2> DEFINE a == [input EXCEPT !.physicalOk = PhysicalOk]
             b == [input' EXCEPT !.physicalOk = PhysicalOk']
  <2>1. verdict = evaluateCommitGate(a, conditions, now) BY VerdictIsGate
  <2>2. verdict' = evaluateCommitGate(b, conditions', now') BY DEF verdict
  <2>3. InputNoBetter(input, input') /\ conditions \subseteq conditions' /\ now <= now'
      BY StepsDoNotImprove
  <2>4. PhysicalOk \in BOOLEAN /\ PhysicalOk' \in BOOLEAN
      BY DEF PhysicalOk, evaluatePhysicalInvariants
  <2>5. PhysicalOk' => PhysicalOk BY PhysicalNoBetter
  <2>6. /\ input \in GateInput /\ input' \in GateInput
        /\ conditions \in SUBSET DegradationCondition /\ conditions' \in SUBSET DegradationCondition
        /\ now \in Nat /\ now' \in Nat
      BY DEF TypeOK
  <2>7. NoBetter(a, b)
    <3> DEFINE k == input'.criticality
               l == input'.label
    <3>1. input' = [input EXCEPT !.criticality = k, !.label = l] BY <2>3 DEF InputNoBetter
    <3> HIDE DEF k, l
    <3>2. /\ b.wardFound = a.wardFound /\ b.subjectInWard = a.subjectInWard
          /\ b.envelope = a.envelope /\ b.policyVersion = a.policyVersion
          /\ b.expires_at = a.expires_at /\ a.expires_at \in Nat
          /\ b.missingRuntime = a.missingRuntime /\ b.denied = a.denied
          /\ b.allowed = a.allowed /\ b.constraintsPass = a.constraintsPass
        BY <2>6, <3>1 DEF GateInput
    <3>3. /\ b.wardClearance = a.wardClearance /\ b.envelopeClearance = a.envelopeClearance
          /\ a.wardClearance \in Optional(Classification)
          /\ a.envelopeClearance \in Optional(Classification)
        BY <2>6, <3>1 DEF GateInput
    <3>4. /\ a.criticality = input.criticality /\ b.criticality = k
          /\ a.label = input.label /\ b.label = l
          /\ a.physicalOk = PhysicalOk /\ b.physicalOk = PhysicalOk'
        BY <2>6, <3>1 DEF GateInput
    <3>5. \A c \in a.wardClearance \union a.envelopeClearance : dominates(c, c)
        BY <3>3 DEF Optional, dominates, Classification, LEVEL_RANK
    <3>6. /\ Consequence(input.criticality) <= Consequence(k)
          /\ \A x \in input.label : \E y \in l : dominates(y, x)
        BY <2>3 DEF InputNoBetter, k, l
    <3> HIDE DEF a, b
    <3>7. \A c \in a.wardClearance \union a.envelopeClearance :
             \E d \in b.wardClearance \union b.envelopeClearance : dominates(c, d)
        BY <3>3, <3>5
    <3>8. QED BY <2>5, <3>2, <3>4, <3>6, <3>7 DEF NoBetter
  <2>8. a \in GateInput /\ b \in GateInput BY <2>4, <2>6 DEF GateInput, PhysicalVerdict
  <2> HIDE DEF a, b
  <2>9. QED BY <2>1, <2>2, <2>3, <2>6, <2>7, <2>8, GateMonotonic
<1>2. QED BY <1>1, TypeCorrect, PTL DEF Spec, WorseNeverAdmits
=============================================================================
