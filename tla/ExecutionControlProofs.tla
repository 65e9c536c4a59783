----------------------- MODULE ExecutionControlProofs -----------------------
(***************************************************************************)
(* Proofs about ExecutionControl for any instances, requests, actions,     *)
(* voters, budgets and windows, and for every kind of ledger.              *)
(***************************************************************************)
EXTENDS ExecutionControl, SequenceTheorems, FiniteSetTheorems, WellFoundedInduction, TLAPS

\* What buildGelRecord produces is a record of the ledger.
LEMMA RecordType ==
    ASSUME NEW r \in Requests, NEW d \in Decisions, NEW p \in Nat
    PROVE  /\ buildGelRecord(r, d, p) \in GelRecord
           /\ buildGelRecord(r, d, p).request = r
           /\ buildGelRecord(r, d, p).hash = HashOf[r]
           /\ buildGelRecord(r, d, p).decision = d
           /\ buildGelRecord(r, d, p).previous = p
BY ExecutionControlAssumption DEF buildGelRecord, GelRecord

\* The fields of the records of the ledger.
LEMMA RecordFields ==
    ASSUME TypeOK, NEW k \in DOMAIN gel
    PROVE  /\ gel[k] \in GelRecord
           /\ gel[k].request \in Requests /\ gel[k].hash \in Hashes
           /\ k \in Nat \ {0}
<1>1. gel[k] \in GelRecord /\ k \in Nat \ {0} BY ElementOfSeq, LenProperties DEF TypeOK
<1>2. QED BY <1>1 DEF GelRecord

\* Appending keeps every record and adds one at the end.
LEMMA AppendRecord ==
    ASSUME TypeOK, NEW rec \in GelRecord, gel' = Append(gel, rec)
    PROVE  /\ gel' \in Seq(GelRecord)
           /\ Len(gel) \in Nat /\ Len(gel') = Len(gel) + 1
           /\ DOMAIN gel = 1 .. Len(gel) /\ DOMAIN gel' = 1 .. Len(gel) + 1
           /\ \A k \in DOMAIN gel : gel'[k] = gel[k]
           /\ gel'[Len(gel) + 1] = rec
BY AppendProperties, LenProperties DEF TypeOK

\* A state function of the ledger: what an appended record admits.
LEMMA AdmittedAppend ==
    ASSUME TypeOK, NEW rec \in GelRecord, gel' = Append(gel, rec)
    PROVE  AdmittedIn(gel') =
               AdmittedIn(gel) \union (IF rec.decision = "ALLOW" THEN {rec.hash} ELSE {})
BY AppendRecord DEF AdmittedIn

\* No reason of the boundary is one that reclassifyExpire rewrites.
LEMMA NeverReclassified ==
    ASSUME NEW d \in Decisions, NEW reason \in Reasons
    PROVE  reclassifyExpire([decision |-> d, reason |-> reason]) =
               [decision |-> d, reason |-> reason]
BY DEF reclassifyExpire, EXPIRE_REASON_CODES, Reasons, GateReasons

\* The gate decides, with one of its reasons.
LEMMA GateResult ==
    ASSUME NEW in, NEW conditions, NEW now
    PROVE  \E d \in Decisions, reason \in GateReasons :
               evaluateCommitGate(in, conditions, now) = [decision |-> d, reason |-> reason]
<1> DEFINE checks == GateChecks(in, conditions, now)
           IsFirst(i) == checks[i].fails /\ \A j \in 1 .. i - 1 : ~checks[j].fails
<1>1. DOMAIN checks = 1 .. 14 BY DEF GateChecks
<1>2. checks[14].fails BY DEF GateChecks, Check
<1>3. \A i \in 1 .. 14 : checks[i].decision \in Decisions
    BY DEF GateChecks, Check, Decisions
<1>4. \A i \in 1 .. 14 : checks[i].reason \in GateReasons
    BY DEF GateChecks, Check, GateReasons
<1> HIDE DEF checks
<1>5. \E i \in 1 .. 14 : IsFirst(i)
    BY <1>2
<1>6. PICK f \in 1 .. 14 : f = CHOOSE i \in DOMAIN checks : IsFirst(i)
    BY <1>1, <1>5
<1>7. evaluateCommitGate(in, conditions, now) =
        [decision |-> checks[f].decision, reason |-> checks[f].reason]
    BY <1>6 DEF evaluateCommitGate, checks
<1>8. QED BY <1>3, <1>4, <1>7

\* An approval request that is approved stays so at any time.
LEMMA SatisfiedApproved ==
    ASSUME NEW h, NEW now, Satisfied(h, now)
    PROVE  Approved(approvals[h])
BY DEF Satisfied, evaluateApproval, Approved

\* A decision has a known reason; a replay, or an action under dual control
\* that is not approved, is not admitted.
LEMMA DecisionResult ==
    ASSUME NEW r \in Requests, NEW replaySeen \in BOOLEAN, NEW conditions
    PROVE  \E d \in Decisions, reason \in Reasons :
             /\ decideAndWarrant(r, replaySeen, conditions) = [decision |-> d, reason |-> reason]
             /\ d = "ALLOW" => ~replaySeen /\ (HashOf[r] \in DualHashes => Approved(approvals[HashOf[r]]))
<1> DEFINE p == Precedence(r, replaySeen, conditions)
<1>1. \E d \in Decisions, reason \in Reasons :
         p = [decision |-> d, reason |-> reason] /\ (d = "ALLOW" => ~replaySeen)
  <2> DEFINE g == evaluateCommitGate(InputOf[HashOf[r]], conditions, clock)
  <2>1. PICK d \in Decisions, reason \in GateReasons : g = [decision |-> d, reason |-> reason]
      BY GateResult
  <2> HIDE DEF g
  <2>2. g \in [decision : Decisions, reason : Reasons] BY <2>1 DEF Reasons
  <2>3. \/ p \in [decision : {"REFUSE"}, reason : Reasons]
        \/ p = g /\ ~replaySeen
      BY DEF Precedence, Refused, Reasons, g
  <2> HIDE DEF p
  <2>4. QED BY <2>2, <2>3 DEF Decisions
<1> HIDE DEF p
<1>2. \/ decideAndWarrant(r, replaySeen, conditions) =
            [decision |-> "ESCALATE", reason |-> "DUAL_CONTROL_REQUIRED"]
      \/ /\ decideAndWarrant(r, replaySeen, conditions) = p
         /\ p.decision = "ALLOW" /\ HashOf[r] \in DualHashes => Satisfied(HashOf[r], clock)
    BY DEF decideAndWarrant, p
<1>3. "ESCALATE" \in Decisions /\ "DUAL_CONTROL_REQUIRED" \in Reasons
    BY DEF Decisions, Reasons
<1>4. QED BY <1>1, <1>2, <1>3, SatisfiedApproved

\* Recording the budget and opening an approval request keep the types and
\* disturb no approved request.
LEMMA EffectsSound ==
    ASSUME TypeOK, ApprovalsSound, NEW r \in Requests, NEW d, DecisionEffects(r, d)
    PROVE  /\ spent' \in [Instances -> SUBSET [request : Requests, at : Nat]]
           /\ approvals' \in [Hashes -> ApprovalRequest]
           /\ \A h \in Hashes : \A v \in approvals'[h].votes : v.by # Subject
           /\ \A h \in Hashes : Approved(approvals[h]) => approvals'[h] = approvals[h]
<1> DEFINE i == InstanceOf[r]
           h == HashOf[r]
<1>1. i \in Instances /\ h \in Hashes BY ExecutionControlAssumption
<1>2. spent' \in [Instances -> SUBSET [request : Requests, at : Nat]]
  <2>1. [request |-> r, at |-> clock] \in [request : Requests, at : Nat] BY DEF TypeOK
  <2>2. InWindow(i, clock) \subseteq [request : Requests, at : Nat]
      BY <1>1 DEF TypeOK, InWindow
  <2>3. QED BY <1>1, <2>1, <2>2 DEF TypeOK, DecisionEffects
<1>3. /\ OpenRequest(h, clock) \in ApprovalRequest
      /\ \A v \in OpenRequest(h, clock).votes : v.by # Subject
      /\ approvals[h].opened => OpenRequest(h, clock) = approvals[h]
    BY <1>1, ExecutionControlAssumption DEF TypeOK, ApprovalsSound, OpenRequest, ApprovalRequest
<1>4. \/ approvals' = approvals
      \/ approvals' = [approvals EXCEPT ![h] = OpenRequest(h, clock)]
    BY DEF DecisionEffects
<1>5. approvals' \in [Hashes -> ApprovalRequest] BY <1>1, <1>3, <1>4 DEF TypeOK
<1>6. \A g \in Hashes : \A v \in approvals'[g].votes : v.by # Subject
    BY <1>1, <1>3, <1>4 DEF TypeOK, ApprovalsSound
<1>7. \A g \in Hashes : Approved(approvals[g]) => approvals'[g] = approvals[g]
    BY <1>1, <1>3, <1>4 DEF TypeOK, ApprovalsSound, Approved
<1>8. QED BY <1>2, <1>5, <1>6, <1>7

\* The initial states satisfy the inductive invariant.
LEMMA InitIndInv == Init => IndInv
<1> SUFFICES ASSUME Init PROVE IndInv OBVIOUS
<1>1. NewRequest \in Request /\ NewRequest.pc = "new"
    BY DEF NewRequest, Request, Pc, Reasons
<1>2. gel \in Seq(GelRecord) /\ DOMAIN gel = {} /\ Len(gel) = 0
    BY EmptySeq, LenProperties DEF Init
<1>3. TypeOK
  <2>1. approvals \in [Hashes -> ApprovalRequest] BY DEF Init, ApprovalRequest
  <2>2. QED BY <1>1, <1>2, <2>1 DEF Init, TypeOK
<1>4. RecordsMatch /\ LookupHonest /\ ApprovalsSound
    BY <1>1, <1>2 DEF Init, RecordsMatch, LookupHonest, ApprovalsSound
<1>5. IndexCurrent BY <1>1, <1>2 DEF Init, IndexCurrent, seed, AdmittedIn
<1>6. ChainVerifies /\ AdmittedOnce /\ ReplayOnlyInLookupWindow
    BY <1>2 DEF ChainVerifies, AdmittedOnce, ReplayOnlyInLookupWindow
<1>7. QED BY <1>3, <1>4, <1>5, <1>6 DEF IndInv

\* The clock, the kill switch and the revocation list are read by none of it.
LEMMA QuietSteps ==
    ASSUME IndInv, Tick \/ Revoke \/ (\E engage \in BOOLEAN : KillSwitch(engage))
    PROVE  IndInv'
<1>1. UNCHANGED <<up, req, gel, backend, spent, approvals>>
    BY DEF Tick, Revoke, KillSwitch
<1>2. TypeOK'
  <2>1. clock' \in Nat BY DEF IndInv, TypeOK, Tick, Revoke, KillSwitch
  <2>2. killSwitch' \in BOOLEAN BY Zenon DEF IndInv, TypeOK, Tick, Revoke, KillSwitch
  <2>3. revoked' \in BOOLEAN BY Zenon DEF IndInv, TypeOK, Tick, Revoke, KillSwitch
  <2>4. QED BY <1>1, <2>1, <2>2, <2>3 DEF IndInv, TypeOK
<1>3. RecordsMatch' /\ LookupHonest' /\ IndexCurrent' /\ ApprovalsSound'
    BY <1>1 DEF IndInv, RecordsMatch, LookupHonest, IndexCurrent, ApprovalsSound, Admission
<1>4. QED
    BY <1>1, <1>2, <1>3
    DEF IndInv, ChainVerifies, AdmittedOnce, ReplayOnlyInLookupWindow, Admission

\* A vote is taken only while the request is pending, so nothing approved
\* changes.
LEMMA CastVoteStep ==
    ASSUME IndInv, NEW h \in Hashes, NEW by \in Voters,
           NEW d \in {"approve", "reject"}, NEW now \in 0 .. clock, CastVote(h, by, d, now)
    PROVE  IndInv'
<1> DEFINE v == [by |-> by, decision |-> d]
           a == [opened |-> TRUE, expires_at |-> approvals[h].expires_at,
                 votes |-> approvals[h].votes \union {v}]
<1>1. /\ UNCHANGED <<clock, killSwitch, revoked, up, req, gel, backend, spent>>
      /\ approvals' = [approvals EXCEPT ![h] = a] /\ by # Subject
    BY DEF CastVote, MayVote
<1>2. a \in ApprovalRequest BY DEF IndInv, TypeOK, ApprovalRequest, Vote
<1>3. \A u \in a.votes : u.by # Subject BY <1>1 DEF IndInv, ApprovalsSound
<1>4. ~Approved(approvals[h])
    BY DEF CastVote, AcceptsVotes, evaluateApproval, Approved
<1> HIDE DEF a
<1>5. TypeOK' BY <1>1, <1>2 DEF IndInv, TypeOK
<1>6. ApprovalsSound'
    BY <1>1, <1>3, <1>4 DEF IndInv, TypeOK, ApprovalsSound, Admission
<1>7. RecordsMatch' /\ LookupHonest' /\ IndexCurrent'
    BY <1>1 DEF IndInv, RecordsMatch, LookupHonest, IndexCurrent, Admission
<1>8. QED
    BY <1>1, <1>5, <1>6, <1>7
    DEF IndInv, ChainVerifies, AdmittedOnce, ReplayOnlyInLookupWindow, Admission

\* A restarted instance reads its index back from the ledger.
LEMMA RestartStep ==
    ASSUME IndInv, NEW i \in Instances, Restart(i)
    PROVE  IndInv'
<1>1. /\ UNCHANGED <<clock, killSwitch, revoked, req, gel, spent, approvals>>
      /\ up' = up \union {i} /\ backend' = [backend EXCEPT ![i] = seed(gel)]
    BY DEF Restart
<1>2. seed(gel) \in [tip : Nat, admitted : SUBSET Hashes]
  <2>1. \A k \in DOMAIN gel : gel[k] \in GelRecord BY RecordFields DEF IndInv
  <2>2. Len(gel) \in Nat BY LenProperties DEF IndInv, TypeOK
  <2>3. AdmittedIn(gel) \subseteq Hashes BY <2>1 DEF AdmittedIn, GelRecord
  <2>4. QED BY <2>2, <2>3 DEF seed
<1>3. TypeOK' BY <1>1, <1>2 DEF IndInv, TypeOK
<1>4. IndexCurrent' BY <1>1 DEF IndInv, TypeOK, IndexCurrent, seed
<1>5. RecordsMatch' /\ LookupHonest' /\ ApprovalsSound'
    BY <1>1 DEF IndInv, RecordsMatch, LookupHonest, ApprovalsSound, Admission
<1>6. QED
    BY <1>1, <1>3, <1>4, <1>5
    DEF IndInv, ChainVerifies, AdmittedOnce, ReplayOnlyInLookupWindow, Admission

\* A crash moves calls on to states that have no answer.
LEMMA CrashStep ==
    ASSUME IndInv, NEW i \in Instances, Crash(i)
    PROVE  IndInv'
<1>1. /\ UNCHANGED <<clock, killSwitch, revoked, gel, backend, approvals>>
      /\ up' \subseteq up
    BY DEF Crash
<1>2. req' = [r \in Requests |->
                IF InstanceOf[r] = i /\ req[r].pc \in {"looked", "decided", "inserted"}
                THEN [req[r] EXCEPT !.pc = IF @ = "decided" THEN "orphaned" ELSE "lost"]
                ELSE req[r]]
    BY DEF Crash
<1>3. \A r \in Requests :
        /\ req[r] \in Request /\ req'[r] \in Request
        /\ req'[r].seen = req[r].seen /\ req'[r].replaySeen = req[r].replaySeen
        /\ req'[r].decision = req[r].decision
        /\ \/ req'[r].pc = req[r].pc
           \/ req[r].pc = "decided" /\ req'[r].pc = "orphaned"
           \/ req[r].pc \in {"looked", "inserted"} /\ req'[r].pc = "lost"
  <2> TAKE r \in Requests
  <2>1. req[r] \in Request BY DEF IndInv, TypeOK
  <2>2. \/ req'[r] = req[r]
        \/ /\ req[r].pc \in {"looked", "decided", "inserted"}
           /\ req'[r] = [req[r] EXCEPT !.pc = IF @ = "decided" THEN "orphaned" ELSE "lost"]
      BY <1>2
  <2>3. QED BY <2>1, <2>2 DEF Request, Pc
<1>4. TypeOK'
  <2>1. req' \in [Requests -> Request] BY <1>2, <1>3
  <2>2. spent' \in [Instances -> SUBSET [request : Requests, at : Nat]]
      BY DEF Crash, IndInv, TypeOK
  <2>3. QED BY <1>1, <2>1, <2>2 DEF IndInv, TypeOK
<1>5. \A k \in DOMAIN gel : gel[k].request \in Requests BY RecordFields DEF IndInv
<1>6. RecordsMatch' BY <1>1, <1>3, <1>5 DEF IndInv, RecordsMatch
<1>7. LookupHonest' BY <1>1, <1>3 DEF IndInv, LookupHonest, Admission
<1>8. ApprovalsSound' BY <1>1, <1>3 DEF IndInv, ApprovalsSound, Admission
<1>9. IndexCurrent' BY <1>1, <1>3 DEF IndInv, IndexCurrent
<1>10. ReplayOnlyInLookupWindow'
    BY <1>1, <1>3, <1>5 DEF IndInv, ReplayOnlyInLookupWindow, Admission
<1>11. QED
    BY <1>1, <1>4, <1>6, <1>7, <1>8, <1>9, <1>10
    DEF IndInv, ChainVerifies, AdmittedOnce, Admission

\* A step that only moves a call without a record to a state without one.
LEMMA CallStep ==
    ASSUME IndInv, NEW r \in Requests, NEW q \in Request,
           UNCHANGED <<clock, killSwitch, revoked, up, gel, backend>>,
           spent' \in [Instances -> SUBSET [request : Requests, at : Nat]],
           approvals' \in [Hashes -> ApprovalRequest],
           \A h \in Hashes : \A v \in approvals'[h].votes : v.by # Subject,
           \A h \in Hashes : Approved(approvals[h]) => approvals'[h] = approvals[h],
           req' = [req EXCEPT ![r] = q],
           req[r].pc \in {"new", "looked", "decided"},
           q.pc \in {"looked", "decided", "failed", "unanchored"},
           q.pc \in {"looked", "decided"} =>
               /\ LedgerMode # "sync"
               /\ q.seen <= Len(gel)
               /\ ~q.replaySeen => \A j \in 1 .. q.seen : Admission(j) => gel[j].hash # HashOf[r],
           q.pc = "decided" => q.decision \in Decisions,
           q.pc = "decided" /\ q.decision = "ALLOW" =>
               /\ ~q.replaySeen
               /\ HashOf[r] \in DualHashes => Approved(approvals[HashOf[r]])
    PROVE  IndInv'
<1>1. TypeOK' BY DEF IndInv, TypeOK
<1>2. /\ req'[r] = q
      /\ \A s \in Requests : s # r => req'[s] = req[s]
    BY DEF IndInv, TypeOK
<1>3. \A k \in DOMAIN gel : gel[k] \in GelRecord /\ gel[k].request \in Requests /\ gel[k].hash \in Hashes
    BY RecordFields DEF IndInv
<1>4. \A k \in DOMAIN gel : gel[k].request # r BY DEF IndInv, RecordsMatch
<1>5. RecordsMatch' BY <1>2, <1>3, <1>4 DEF IndInv, RecordsMatch
<1>6. LookupHonest' BY <1>2 DEF IndInv, LookupHonest, Admission
<1>7. ApprovalsSound'
  <2>1. \A h \in Hashes : Approved(approvals[h]) => Approved(approvals[h])'
      BY DEF Approved, Approvers
  <2>2. \A s \in Requests : HashOf[s] \in Hashes BY ExecutionControlAssumption
  <2>3. QED BY <1>2, <1>3, <2>1, <2>2 DEF IndInv, ApprovalsSound, Admission
<1>8. IndexCurrent' BY <1>2 DEF IndInv, IndexCurrent
<1>9. ReplayOnlyInLookupWindow'
    BY <1>2, <1>3, <1>4 DEF IndInv, ReplayOnlyInLookupWindow, Admission
<1>10. QED
    BY <1>1, <1>5, <1>6, <1>7, <1>8, <1>9
    DEF IndInv, ChainVerifies, AdmittedOnce, Admission

\* A replay lookup answers yes or no.
LEMMA LookupBoolean ==
    ASSUME NEW i, NEW h PROVE hasPriorAdmission(i, h) \in BOOLEAN
<1>1. CASE LedgerMode = "sync"
  <2>1. hasPriorAdmission(i, h) = (h \in backend[i].admitted) BY <1>1 DEF hasPriorAdmission
  <2>2. QED BY <2>1
<1>2. CASE LedgerMode # "sync"
  <2>1. hasPriorAdmission(i, h) = (h \in AdmittedIn(gel)) BY <1>2 DEF hasPriorAdmission
  <2>2. QED BY <2>1
<1>3. QED BY <1>1, <1>2

\* Calls that end without a record, or have not reached it yet.
LEMMA LookupStep ==
    ASSUME IndInv, NEW r \in Requests, Lookup(r)
    PROVE  IndInv'
<1> DEFINE prior == hasPriorAdmission(InstanceOf[r], HashOf[r])
           q == [NewRequest EXCEPT !.pc = "looked", !.seen = Len(gel), !.replaySeen = prior]
<1>1. Len(gel) \in Nat /\ DOMAIN gel = 1 .. Len(gel) BY LenProperties DEF IndInv, TypeOK
<1>2. /\ LedgerMode # "sync" /\ req[r].pc = "new" /\ req' = [req EXCEPT ![r] = q]
      /\ UNCHANGED <<clock, killSwitch, revoked, up, gel, backend, spent, approvals>>
    BY DEF Lookup
<1>3. prior \in BOOLEAN BY LookupBoolean
<1>4. ~prior => HashOf[r] \notin AdmittedIn(gel) BY <1>2 DEF hasPriorAdmission
<1>5. ~prior => \A j \in 1 .. Len(gel) : Admission(j) => gel[j].hash # HashOf[r]
    BY <1>1, <1>4 DEF AdmittedIn, Admission
<1> HIDE DEF prior
<1>6. q \in Request /\ q.pc = "looked" /\ q.seen = Len(gel) /\ q.replaySeen = prior
    BY <1>1, <1>3 DEF NewRequest, Request, Pc, Reasons
<1>7. /\ spent' \in [Instances -> SUBSET [request : Requests, at : Nat]]
      /\ approvals' \in [Hashes -> ApprovalRequest]
      /\ \A h \in Hashes : \A v \in approvals'[h].votes : v.by # Subject
    BY <1>2 DEF IndInv, TypeOK, ApprovalsSound
<1> HIDE DEF q
<1>8. q.seen <= Len(gel) BY <1>1, <1>6
<1>9. ~q.replaySeen => \A j \in 1 .. q.seen : Admission(j) => gel[j].hash # HashOf[r]
    BY <1>5, <1>6
<1>10. QED BY <1>2, <1>6, <1>7, <1>8, <1>9, CallStep

\* The decision of an asynchronous evaluation.
LEMMA DecideStep ==
    ASSUME IndInv, NEW r \in Requests, NEW c, Decide(r, c)
    PROVE  IndInv'
<1> DEFINE d == decideAndWarrant(r, req[r].replaySeen, c)
           q == [pc |-> "decided", replaySeen |-> req[r].replaySeen, seen |-> req[r].seen,
                 at |-> clock, link |-> backend[InstanceOf[r]].tip,
                 decision |-> d.decision, reason |-> d.reason]
<1>1. req[r] \in Request /\ req[r].pc = "looked" BY DEF Decide, IndInv, TypeOK
<1>2. req[r].replaySeen \in BOOLEAN /\ req[r].seen \in Nat BY <1>1 DEF Request
<1>3. /\ d.decision \in Decisions /\ d.reason \in Reasons
      /\ d.decision = "ALLOW" =>
           ~req[r].replaySeen /\ (HashOf[r] \in DualHashes => Approved(approvals[HashOf[r]]))
    BY <1>2, DecisionResult
<1>4. /\ UNCHANGED <<clock, killSwitch, revoked, up, gel, backend>>
      /\ req' = [req EXCEPT ![r] = q] /\ DecisionEffects(r, d)
    BY DEF Decide, IndInv, TypeOK
<1>5. backend[InstanceOf[r]].tip \in Nat /\ clock \in Nat
    BY ExecutionControlAssumption DEF IndInv, TypeOK
<1> HIDE DEF d
<1>6. q \in Request BY <1>2, <1>3, <1>5 DEF Request, Pc
<1>7. LedgerMode # "sync" /\ req[r].seen <= Len(gel)
      /\ (~req[r].replaySeen => \A j \in 1 .. req[r].seen : Admission(j) => gel[j].hash # HashOf[r])
    BY <1>1 DEF IndInv, LookupHonest
<1>8. /\ spent' \in [Instances -> SUBSET [request : Requests, at : Nat]]
      /\ approvals' \in [Hashes -> ApprovalRequest]
      /\ \A h \in Hashes : \A v \in approvals'[h].votes : v.by # Subject
      /\ \A h \in Hashes : Approved(approvals[h]) => approvals'[h] = approvals[h]
    BY <1>4, EffectsSound DEF IndInv
<1>9. /\ q.pc = "decided" /\ q.seen = req[r].seen /\ q.replaySeen = req[r].replaySeen
      /\ q.decision = d.decision
    OBVIOUS
<1> HIDE DEF q
<1>10. QED BY <1>1, <1>3, <1>4, <1>6, <1>7, <1>8, <1>9, CallStep

\* A local evaluation whose append fails.
LEMMA SyncFailureStep ==
    ASSUME IndInv, NEW r \in Requests, NEW c, EvaluateSyncFails(r, c)
    PROVE  IndInv'
<1> DEFINE seen == hasPriorAdmission(InstanceOf[r], HashOf[r])
           d == decideAndWarrant(r, seen, c)
           q == [pc |-> "failed", replaySeen |-> seen, seen |-> Len(gel),
                 at |-> clock, link |-> 0, decision |-> d.decision, reason |-> d.reason]
<1>1. Len(gel) \in Nat /\ clock \in Nat BY LenProperties DEF IndInv, TypeOK
<1>2. seen \in BOOLEAN BY LookupBoolean
<1>3. d.decision \in Decisions /\ d.reason \in Reasons BY <1>2, DecisionResult
<1>4. /\ UNCHANGED <<clock, killSwitch, revoked, up, gel, backend>>
      /\ req' = [req EXCEPT ![r] = q] /\ DecisionEffects(r, d) /\ req[r].pc = "new"
    BY DEF EvaluateSyncFails
<1> HIDE DEF d, seen
<1>5. q \in Request /\ q.pc = "failed" BY <1>1, <1>2, <1>3 DEF Request, Pc
<1>6. /\ spent' \in [Instances -> SUBSET [request : Requests, at : Nat]]
      /\ approvals' \in [Hashes -> ApprovalRequest]
      /\ \A h \in Hashes : \A v \in approvals'[h].votes : v.by # Subject
      /\ \A h \in Hashes : Approved(approvals[h]) => approvals'[h] = approvals[h]
    BY <1>4, EffectsSound DEF IndInv
<1> HIDE DEF q
<1>7. QED BY <1>4, <1>5, <1>6, CallStep

\* The short cut of a Ward whose ledger cannot be written.
LEMMA UnanchoredStep ==
    ASSUME IndInv, NEW r \in Requests, NEW c, EvaluateUnanchored(r, c)
    PROVE  IndInv'
<1> DEFINE action == resolveFailMode(InputOf[HashOf[r]].criticality, c)
           decision == CASE action = "refuse"   -> "REFUSE"
                         [] action = "escalate" -> "ESCALATE"
                         [] OTHER               -> "ALLOW"
           q == [NewRequest EXCEPT !.pc = "unanchored", !.at = clock,
                                   !.decision = decision, !.reason = "DEGRADED_MODE"]
<1>1. /\ UNCHANGED <<clock, killSwitch, revoked, up, gel, backend, spent, approvals>>
      /\ req' = [req EXCEPT ![r] = q] /\ req[r].pc = "new"
    BY DEF EvaluateUnanchored
<1>2. decision \in Decisions BY DEF Decisions
<1> HIDE DEF decision, action
<1>3. q \in Request /\ q.pc = "unanchored"
    BY <1>2 DEF NewRequest, Request, Pc, Reasons, GateReasons, IndInv, TypeOK
<1> HIDE DEF q
<1>4. QED BY <1>1, <1>3, CallStep DEF IndInv, TypeOK, ApprovalsSound

\* An append that throws moves the call as a crash would, and nothing else.
LEMMA AppendFailsStep ==
    ASSUME IndInv, NEW r \in Requests, AppendFails(r)
    PROVE  IndInv'
<1>1. UNCHANGED <<clock, killSwitch, revoked, up, gel, backend, spent, approvals>>
    BY DEF AppendFails
<1>2. /\ req' = [req EXCEPT ![r].pc = AppendFailure(@)]
      /\ req[r].pc \in {"decided", "inserted"} /\ req[r] \in Request
    BY DEF AppendFails, IndInv, TypeOK
<1>3. /\ req'[r] = [req[r] EXCEPT !.pc = AppendFailure(@)]
      /\ \A p \in Requests : p # r => req'[p] = req[p]
    BY <1>2 DEF IndInv, TypeOK
<1>4. \A p \in Requests :
        /\ req[p] \in Request /\ req'[p] \in Request
        /\ req'[p].seen = req[p].seen /\ req'[p].replaySeen = req[p].replaySeen
        /\ req'[p].decision = req[p].decision
        /\ \/ req'[p].pc = req[p].pc
           \/ req[p].pc = "decided" /\ req'[p].pc = "orphaned"
           \/ req[p].pc = "inserted" /\ req'[p].pc = "lost"
  <2> TAKE p \in Requests
  <2>1. req[p] \in Request BY DEF IndInv, TypeOK
  <2>2. CASE p = r BY <1>2, <1>3, <2>2 DEF Request, Pc, AppendFailure
  <2>3. CASE p # r BY <1>3, <2>1, <2>3
  <2>4. QED BY <2>2, <2>3
<1>5. TypeOK'
  <2>1. req' \in [Requests -> Request] BY <1>2, <1>4 DEF IndInv, TypeOK
  <2>2. QED BY <1>1, <2>1 DEF IndInv, TypeOK
<1>6. \A k \in DOMAIN gel : gel[k].request \in Requests BY RecordFields DEF IndInv
<1>7. RecordsMatch' BY <1>1, <1>4, <1>6 DEF IndInv, RecordsMatch
<1>8. LookupHonest' BY <1>1, <1>4 DEF IndInv, LookupHonest, Admission
<1>9. ApprovalsSound' BY <1>1, <1>4 DEF IndInv, ApprovalsSound, Admission
<1>10. IndexCurrent' BY <1>1, <1>4 DEF IndInv, IndexCurrent
<1>11. ReplayOnlyInLookupWindow'
    BY <1>1, <1>4, <1>6 DEF IndInv, ReplayOnlyInLookupWindow, Admission
<1>12. QED
    BY <1>1, <1>5, <1>7, <1>8, <1>9, <1>10, <1>11
    DEF IndInv, ChainVerifies, AdmittedOnce, Admission

\* A call's record enters the ledger, and the call is past its append.
LEMMA WriteStep ==
    ASSUME IndInv, NEW r \in Requests, NEW q \in Request, NEW n \in Nat \ {0},
           UNCHANGED <<clock, killSwitch, revoked, up>>,
           gel' \in Seq(GelRecord), Len(gel) = n - 1, Len(gel') = n,
           DOMAIN gel = 1 .. n - 1, DOMAIN gel' = 1 .. n,
           \A k \in DOMAIN gel : gel'[k] = gel[k],
           gel'[n].request = r, gel'[n].hash = HashOf[r], gel'[n].decision = q.decision,
           LedgerMode # "fallback" => gel'[n].previous = n - 1,
           backend' \in [Instances -> [tip : Nat, admitted : SUBSET Hashes]],
           spent' \in [Instances -> SUBSET [request : Requests, at : Nat]],
           approvals' \in [Hashes -> ApprovalRequest],
           \A h \in Hashes : \A v \in approvals'[h].votes : v.by # Subject,
           \A h \in Hashes : Approved(approvals[h]) => approvals'[h] = approvals[h],
           req' = [req EXCEPT ![r] = q],
           req[r].pc \in {"new", "decided", "orphaned"},
           q.pc \in {"inserted", "answered", "lost"},
           q.decision = "ALLOW" =>
               /\ \A j \in DOMAIN gel : Admission(j) /\ gel[j].hash = HashOf[r] => q.seen < j
               /\ HashOf[r] \in DualHashes => Approved(approvals[HashOf[r]]),
           q.decision = "ALLOW" /\ LedgerMode = "sync" =>
               \A j \in DOMAIN gel : Admission(j) => gel[j].hash # HashOf[r],
           LedgerMode = "sync" => IndexCurrent'
    PROVE  IndInv'
<1>1. \A k \in DOMAIN gel' : k = n \/ k \in DOMAIN gel OBVIOUS
<1>2. /\ req'[r] = q
      /\ \A s \in Requests : s # r => req'[s] = req[s]
    BY DEF IndInv, TypeOK
<1>3. \A k \in DOMAIN gel :
        /\ gel[k].request \in Requests /\ gel[k].hash \in Hashes /\ gel[k].request # r
    BY RecordFields DEF IndInv, RecordsMatch
<1>4. TypeOK' BY DEF IndInv, TypeOK
<1>5. RecordsMatch'
  <2>1. \A j, k \in DOMAIN gel' : gel'[j].request = gel'[k].request => j = k
      BY <1>1, <1>3 DEF IndInv, RecordsMatch
  <2>2. \A k \in DOMAIN gel' :
          /\ req'[gel'[k].request].pc \in {"inserted", "answered", "lost"}
          /\ req'[gel'[k].request].decision = gel'[k].decision
      BY <1>1, <1>2, <1>3 DEF IndInv, RecordsMatch
  <2>3. \A s \in Requests :
          req'[s].pc \in {"inserted", "answered"} => \E k \in DOMAIN gel' : gel'[k].request = s
      BY <1>2 DEF IndInv, RecordsMatch
  <2>4. QED BY <2>1, <2>2, <2>3 DEF RecordsMatch
<1>6. LookupHonest'
  <2> SUFFICES ASSUME NEW s \in Requests, req'[s].pc \in {"looked", "decided", "orphaned"}
               PROVE  /\ LedgerMode # "sync"
                      /\ req'[s].seen <= Len(gel')
                      /\ ~req'[s].replaySeen =>
                            \A j \in 1 .. req'[s].seen : Admission(j)' => gel'[j].hash # HashOf[s]
                      /\ req'[s].pc # "looked" =>
                            /\ req'[s].decision \in Decisions
                            /\ req'[s].decision = "ALLOW" => ~req'[s].replaySeen
      BY DEF LookupHonest
  <2>1. s # r /\ req'[s] = req[s] BY <1>2
  <2>2. req[s].seen \in Nat BY DEF IndInv, TypeOK, Request
  <2>3. req[s].seen <= Len(gel) BY <2>1 DEF IndInv, LookupHonest
  <2>4. \A j \in 1 .. req[s].seen : j \in DOMAIN gel /\ gel'[j] = gel[j]
    <3>1. \A j \in 1 .. req[s].seen : j \in 1 .. n - 1 BY <2>2, <2>3
    <3>2. QED BY <3>1
  <2>5. QED BY <2>1, <2>2, <2>3, <2>4 DEF IndInv, LookupHonest, Admission
<1>7. ApprovalsSound'
  <2>1. \A h \in Hashes : Approved(approvals[h]) => Approved(approvals[h])'
      BY DEF Approved, Approvers
  <2>2. \A s \in Requests : HashOf[s] \in Hashes BY ExecutionControlAssumption
  <2>3. \A k \in DOMAIN gel' :
          Admission(k)' /\ gel'[k].hash \in DualHashes => Approved(approvals[gel[k].hash])'
      BY <1>1, <1>3, <2>1, <2>2 DEF IndInv, ApprovalsSound, Admission
  <2>4. QED BY <1>2, <2>1, <2>2, <2>3 DEF IndInv, ApprovalsSound
<1>8. LedgerMode # "fallback" => ChainVerifies'
    BY <1>1 DEF IndInv, ChainVerifies
<1>9. LedgerMode = "sync" => AdmittedOnce'
    BY <1>1 DEF IndInv, AdmittedOnce, Admission
<1>10. ReplayOnlyInLookupWindow'
  <2> SUFFICES ASSUME NEW j \in DOMAIN gel', NEW k \in DOMAIN gel', j < k,
                      gel'[j].decision = "ALLOW", gel'[k].decision = "ALLOW",
                      gel'[j].hash = gel'[k].hash
               PROVE  req'[gel'[k].request].seen < j
      BY DEF ReplayOnlyInLookupWindow, Admission
  <2>1. j \in DOMAIN gel /\ gel'[j] = gel[j] BY <1>1
  <2>2. CASE k = n BY <1>2, <2>1, <2>2 DEF Admission
  <2>3. CASE k \in DOMAIN gel
    <3>1. gel'[k] = gel[k] /\ gel[k].request \in Requests /\ gel[k].request # r BY <1>3, <2>3
    <3>2. req[gel[k].request].seen < j
        BY <2>1, <2>3, <3>1 DEF IndInv, ReplayOnlyInLookupWindow, Admission
    <3>3. QED BY <1>2, <3>1, <3>2
  <2>4. QED BY <1>1, <2>2, <2>3
<1>11. IndexCurrent' BY DEF IndexCurrent
<1>12. QED BY <1>4, <1>5, <1>6, <1>7, <1>8, <1>9, <1>10, <1>11 DEF IndInv

\* The database commits a record: on the tip under the lock, or wherever the
\* fallback had built it.
LEMMA InsertStep ==
    ASSUME IndInv, NEW r \in Requests, Insert(r)
    PROVE  IndInv'
<1> DEFINE q == [req[r] EXCEPT !.pc = IF @ = "decided" THEN "inserted" ELSE "lost"]
           rec == buildGelRecord(r, req[r].decision, LinkOf(r))
           n == Len(gel) + 1
<1>1. /\ UNCHANGED <<clock, killSwitch, revoked, up, backend, spent, approvals>>
      /\ req[r].pc \in {"decided", "orphaned"}
      /\ gel' = Append(gel, rec) /\ req' = [req EXCEPT ![r] = q]
    BY DEF Insert, IndInv, TypeOK
<1>2. req[r] \in Request BY DEF IndInv, TypeOK
<1>3. /\ q \in Request /\ q.pc \in {"inserted", "lost"}
      /\ q.decision = req[r].decision /\ q.seen = req[r].seen
    BY <1>2 DEF Request, Pc
<1>4. Len(gel) \in Nat BY LenProperties DEF IndInv, TypeOK
<1>5. LinkOf(r) \in Nat /\ (LedgerMode # "fallback" => LinkOf(r) = Len(gel))
    BY <1>1, <1>2, <1>4, ExecutionControlAssumption DEF LinkOf, Request, IndInv, LookupHonest
<1>6. /\ LedgerMode # "sync" /\ req[r].seen <= Len(gel)
      /\ ~req[r].replaySeen => \A j \in 1 .. req[r].seen : Admission(j) => gel[j].hash # HashOf[r]
      /\ req[r].decision \in Decisions
      /\ req[r].decision = "ALLOW" => ~req[r].replaySeen
    BY <1>1 DEF IndInv, LookupHonest
<1>7. rec \in GelRecord /\ rec.request = r /\ rec.hash = HashOf[r]
      /\ rec.decision = req[r].decision /\ rec.previous = LinkOf(r)
    BY <1>5, <1>6, RecordType
<1> HIDE DEF rec, q
<1>8. /\ gel' \in Seq(GelRecord) /\ Len(gel') = n
      /\ DOMAIN gel = 1 .. n - 1 /\ DOMAIN gel' = 1 .. n
      /\ \A k \in DOMAIN gel : gel'[k] = gel[k]
      /\ gel'[n] = rec
    BY <1>1, <1>7, AppendRecord DEF IndInv
<1>9. n \in Nat \ {0} /\ Len(gel) = n - 1 BY <1>4
<1> HIDE DEF n
<1>10. q.decision = "ALLOW" =>
         /\ \A j \in DOMAIN gel : Admission(j) /\ gel[j].hash = HashOf[r] => q.seen < j
         /\ HashOf[r] \in DualHashes => Approved(approvals[HashOf[r]])
  <2>1. req[r].seen \in Nat BY <1>2 DEF Request
  <2>2. ASSUME req[r].decision = "ALLOW", NEW j \in DOMAIN gel,
               Admission(j), gel[j].hash = HashOf[r]
        PROVE  req[r].seen < j
    <3>1. j \in Nat \ {0} BY <1>8, <1>9
    <3>2. j \notin 1 .. req[r].seen BY <1>6, <2>2
    <3>3. QED BY <2>1, <3>1, <3>2
  <2>3. req[r].decision = "ALLOW" /\ HashOf[r] \in DualHashes => Approved(approvals[HashOf[r]])
      BY <1>1 DEF IndInv, ApprovalsSound
  <2>4. QED BY <1>3, <2>2, <2>3
<1>11. /\ backend' \in [Instances -> [tip : Nat, admitted : SUBSET Hashes]]
       /\ spent' \in [Instances -> SUBSET [request : Requests, at : Nat]]
       /\ approvals' \in [Hashes -> ApprovalRequest]
       /\ \A h \in Hashes : \A v \in approvals'[h].votes : v.by # Subject
    BY <1>1 DEF IndInv, TypeOK, ApprovalsSound
<1>12. LedgerMode # "fallback" => gel'[n].previous = n - 1 BY <1>5, <1>7, <1>8, <1>9
<1>13. QED
    BY <1>1, <1>3, <1>6, <1>7, <1>8, <1>9, <1>10, <1>11, <1>12, WriteStep

\* The synchronous path: its lookup, decision and record are one step.
LEMMA EvaluateSyncStep ==
    ASSUME IndInv, NEW r \in Requests, NEW c, EvaluateSync(r, c)
    PROVE  IndInv'
<1> DEFINE i == InstanceOf[r]
           prior == hasPriorAdmission(i, HashOf[r])
           d == decideAndWarrant(r, prior, c)
           answer == reclassifyExpire(d)
           rec == buildGelRecord(r, d.decision, backend[i].tip)
           q == [pc |-> "answered", replaySeen |-> prior, seen |-> Len(gel),
                 at |-> clock, link |-> backend[i].tip,
                 decision |-> answer.decision, reason |-> answer.reason]
           n == Len(gel) + 1
<1>1. /\ LedgerMode = "sync" /\ i \in up /\ req[r].pc = "new"
      /\ UNCHANGED <<clock, killSwitch, revoked, up>>
      /\ DecisionEffects(r, d)
      /\ gel' = Append(gel, rec) /\ req' = [req EXCEPT ![r] = q]
    BY DEF EvaluateSync
<1>2. backend' = [backend EXCEPT ![i] =
                    [tip |-> Len(gel'),
                     admitted |-> backend[i].admitted \union
                        (IF d.decision = "ALLOW" THEN {HashOf[r]} ELSE {})]]
    BY DEF EvaluateSync
<1>3. prior \in BOOLEAN BY LookupBoolean
<1>4. i \in Instances /\ HashOf[r] \in Hashes BY ExecutionControlAssumption
<1>5. backend[i] = seed(gel) BY <1>1 DEF IndInv, IndexCurrent
<1>6. backend[i].tip = Len(gel) /\ backend[i].admitted = AdmittedIn(gel) BY <1>5 DEF seed
<1>7. Len(gel) \in Nat /\ clock \in Nat BY LenProperties DEF IndInv, TypeOK
<1>8. prior = (HashOf[r] \in AdmittedIn(gel)) BY <1>1, <1>6 DEF hasPriorAdmission
<1> HIDE DEF prior
<1>9. /\ d.decision \in Decisions /\ d.reason \in Reasons /\ answer = d
      /\ d.decision = "ALLOW" =>
           ~prior /\ (HashOf[r] \in DualHashes => Approved(approvals[HashOf[r]]))
    BY <1>3, DecisionResult, NeverReclassified
<1> HIDE DEF d, answer
<1>10. rec \in GelRecord /\ rec.request = r /\ rec.hash = HashOf[r]
       /\ rec.decision = d.decision /\ rec.previous = Len(gel)
    BY <1>6, <1>7, <1>9, RecordType
<1>11. q \in Request /\ q.pc = "answered" /\ q.decision = d.decision
    BY <1>3, <1>6, <1>7, <1>9 DEF Request, Pc
<1> HIDE DEF rec, q
<1>12. /\ gel' \in Seq(GelRecord) /\ Len(gel') = n
       /\ DOMAIN gel = 1 .. n - 1 /\ DOMAIN gel' = 1 .. n
       /\ \A k \in DOMAIN gel : gel'[k] = gel[k]
       /\ gel'[n] = rec
    BY <1>1, <1>10, AppendRecord DEF IndInv
<1>13. n \in Nat \ {0} /\ Len(gel) = n - 1 BY <1>7
<1>14. d.decision = "ALLOW" => \A j \in DOMAIN gel : Admission(j) => gel[j].hash # HashOf[r]
    BY <1>8, <1>9 DEF AdmittedIn, Admission
<1>15. AdmittedIn(gel') = AdmittedIn(gel) \union (IF d.decision = "ALLOW" THEN {HashOf[r]} ELSE {})
    BY <1>1, <1>10, AdmittedAppend DEF IndInv
<1> HIDE DEF n
<1>16. backend'[i] = seed(gel)'
    BY <1>2, <1>4, <1>6, <1>15 DEF seed, IndInv, TypeOK
<1>17. IndexCurrent'
  <2>1. \E j \in Instances : Instances = {j} BY <1>1, LocalLedgerAssumption
  <2>2. \A j \in up' : j = i BY <1>1, <1>4, <2>1 DEF IndInv, TypeOK
  <2>3. \A s \in Requests : req'[s].pc # "inserted"
      BY <1>1, <1>11 DEF IndInv, TypeOK, IndexCurrent
  <2>4. QED BY <1>16, <2>2, <2>3 DEF IndexCurrent
<1>18. backend' \in [Instances -> [tip : Nat, admitted : SUBSET Hashes]]
    BY <1>2, <1>4, <1>12, <1>13 DEF IndInv, TypeOK
<1>19. /\ spent' \in [Instances -> SUBSET [request : Requests, at : Nat]]
       /\ approvals' \in [Hashes -> ApprovalRequest]
       /\ \A h \in Hashes : \A v \in approvals'[h].votes : v.by # Subject
       /\ \A h \in Hashes : Approved(approvals[h]) => approvals'[h] = approvals[h]
    BY <1>1, EffectsSound DEF IndInv
<1>20. QED
    BY <1>1, <1>9, <1>10, <1>11, <1>12, <1>13, <1>14, <1>17, <1>18, <1>19, WriteStep

\* The caller is answered with the decision that was recorded.
LEMMA RespondStep ==
    ASSUME IndInv, NEW r \in Requests, Respond(r)
    PROVE  IndInv'
<1> DEFINE answer == reclassifyExpire([decision |-> req[r].decision, reason |-> req[r].reason])
           q == [pc |-> "answered", replaySeen |-> req[r].replaySeen, seen |-> req[r].seen,
                 at |-> req[r].at, link |-> req[r].link,
                 decision |-> answer.decision, reason |-> answer.reason]
<1>1. /\ req[r].pc = "inserted" /\ req' = [req EXCEPT ![r] = q]
      /\ UNCHANGED <<clock, killSwitch, revoked, up, gel, spent, approvals>>
    BY DEF Respond, IndInv, TypeOK
<1>2. req[r] \in Request BY DEF IndInv, TypeOK
<1>3. /\ \A k \in DOMAIN gel : gel[k] \in GelRecord /\ k \in Nat
    BY RecordFields DEF IndInv
<1>4. req[r].decision \in Decisions BY <1>1, <1>3 DEF IndInv, RecordsMatch, GelRecord
<1>5. answer.decision = req[r].decision /\ answer.reason = req[r].reason
    BY <1>2, <1>4, NeverReclassified DEF Request
<1> HIDE DEF answer
<1>6. /\ q \in Request /\ q.pc = "answered" /\ q.decision = req[r].decision
      /\ q.seen = req[r].seen
    BY <1>2, <1>4, <1>5 DEF Request, Pc
<1> HIDE DEF q
<1>7. /\ req'[r] = q /\ \A s \in Requests : s # r => req'[s] = req[s]
    BY <1>1 DEF IndInv, TypeOK
<1>8. TypeOK'
  <2>1. InstanceOf[r] \in Instances BY ExecutionControlAssumption
  <2>2. backend' \in [Instances -> [tip : Nat, admitted : SUBSET Hashes]]
      BY <1>3, <2>1 DEF Respond, IndInv, TypeOK
  <2>3. QED BY <1>1, <1>6, <2>2 DEF IndInv, TypeOK
<1>9. RecordsMatch'
    BY <1>1, <1>6, <1>7, RecordFields DEF IndInv, RecordsMatch
<1>10. LookupHonest' BY <1>1, <1>6, <1>7 DEF IndInv, LookupHonest, Admission
<1>11. ApprovalsSound' BY <1>1, <1>6, <1>7 DEF IndInv, ApprovalsSound, Admission
<1>12. LedgerMode # "sync" BY <1>1 DEF IndInv, IndexCurrent
<1>13. ReplayOnlyInLookupWindow'
    BY <1>1, <1>6, <1>7, RecordFields DEF IndInv, ReplayOnlyInLookupWindow, Admission
<1>14. QED
    BY <1>1, <1>8, <1>9, <1>10, <1>11, <1>12, <1>13
    DEF IndInv, IndexCurrent, ChainVerifies, AdmittedOnce, Admission

\* Every step keeps the inductive invariant.
LEMMA NextIndInv == IndInv /\ [Next]_vars => IndInv'
<1> SUFFICES ASSUME IndInv, [Next]_vars PROVE IndInv' OBVIOUS
<1>1. ASSUME NEW r \in Requests, Evaluate(r) PROVE IndInv'
  <2>1. ASSUME NEW c \in ConditionSets, EvaluateSync(r, c) PROVE IndInv'
      BY <2>1, EvaluateSyncStep
  <2>2. ASSUME NEW c \in ConditionSets, EvaluateSyncFails(r, c) PROVE IndInv'
      BY <2>2, SyncFailureStep
  <2>3. ASSUME NEW c \in ConditionSets, Decide(r, c) PROVE IndInv'
      BY <2>3, DecideStep
  <2>4. ASSUME NEW c \in ConditionSets, EvaluateUnanchored(r, c) PROVE IndInv'
      BY <2>4, UnanchoredStep
  <2>5. QED
      BY <1>1, <2>1, <2>2, <2>3, <2>4, LookupStep, InsertStep, AppendFailsStep, RespondStep
      DEF Evaluate
<1>2. CASE Operators BY <1>2, CastVoteStep, QuietSteps DEF Operators
<1>3. ASSUME NEW i \in Instances, Crash(i) \/ Restart(i) PROVE IndInv'
    BY <1>3, CrashStep, RestartStep
<1>4. CASE Tick BY <1>4, QuietSteps
<1>5. CASE UNCHANGED vars
  <2>1. UNCHANGED <<clock, killSwitch, revoked, up, req, gel, backend, spent, approvals>>
      BY <1>5 DEF vars
  <2>2. TypeOK' BY <2>1 DEF IndInv, TypeOK
  <2>3. RecordsMatch' /\ LookupHonest' /\ IndexCurrent' /\ ApprovalsSound'
      BY <2>1 DEF IndInv, RecordsMatch, LookupHonest, IndexCurrent, ApprovalsSound, Admission
  <2>4. QED
      BY <2>1, <2>2, <2>3
      DEF IndInv, ChainVerifies, AdmittedOnce, ReplayOnlyInLookupWindow, Admission
<1>6. QED BY <1>1, <1>2, <1>3, <1>4, <1>5 DEF Next

(* The strengthening of the properties below: requests and records         *)
(* correspond, lookups are honest, the local index is current, approvals   *)
(* stand behind every admission.                                           *)
THEOREM Invariance == Spec => []IndInv
<1>1. QED BY InitIndInv, NextIndInv, PTL DEF Spec

(* With a local ledger a canonical action is admitted at most once, for    *)
(* any number of requests, failed writes, crashes and restarts             *)
(* (hasPriorAdmission and LedgerIndex of index.ts).                        *)
THEOREM LocalAdmittedOnce == ASSUME LedgerMode = "sync" PROVE Spec => []AdmittedOnce
<1>1. IndInv => AdmittedOnce BY DEF IndInv
<1>2. QED BY <1>1, Invariance, PTL

(* On any ledger, a second admission needs a replay lookup that ran before *)
(* the first admission was recorded (evaluateExecutionControlAsync).       *)
THEOREM ReplayWindow == Spec => []ReplayOnlyInLookupWindow
<1>1. IndInv => ReplayOnlyInLookupWindow BY DEF IndInv
<1>2. QED BY <1>1, Invariance, PTL

(* The hash chain never forks on a local ledger or on a Postgres driver    *)
(* with transactions, with any number of concurrent instances              *)
(* (appendChained).                                                        *)
THEOREM ChainNeverForks == ASSUME LedgerMode # "fallback" PROVE Spec => []ChainVerifies
<1>1. IndInv => ChainVerifies BY DEF IndInv
<1>2. QED BY <1>1, Invariance, PTL

(* No action under dual control is admitted without its M approvals, and   *)
(* these are never withdrawn or overruled later (ApprovalStore.vote).      *)
THEOREM DualControl == Spec => []DualControlHolds
<1>1. IndInv => DualControlHolds
  <2> SUFFICES ASSUME IndInv, NEW k \in DOMAIN gel, Admission(k), gel[k].hash \in DualHashes
               PROVE  /\ Cardinality(Approvers(approvals[gel[k].hash]) \ {Subject}) >= Required
                      /\ \A v \in approvals[gel[k].hash].votes : v.decision = "approve"
      BY DEF DualControlHolds
  <2> DEFINE a == approvals[gel[k].hash]
  <2>1. gel[k].hash \in Hashes BY RecordFields DEF IndInv
  <2>2. Approved(a) BY DEF IndInv, ApprovalsSound
  <2>3. \A v \in a.votes : v.by # Subject /\ v \in Vote
      BY <2>1 DEF IndInv, TypeOK, ApprovalsSound, ApprovalRequest
  <2>4. Approvers(a) \ {Subject} = Approvers(a) BY <2>3 DEF Approvers
  <2>5. \A v \in a.votes : v.decision = "approve" BY <2>2, <2>3 DEF Approved, Vote
  <2>6. QED BY <2>2, <2>4, <2>5 DEF Approved
<1>2. QED BY <1>1, Invariance, PTL

(* What a caller is told is what the ledger holds; nothing is recorded     *)
(* twice or with another decision, also where the caller got an error and  *)
(* the record was committed all the same, and an answer given without the  *)
(* ledger has no record (evaluateExecutionControlAsync, appendChained).    *)
THEOREM Evidenced == Spec => []AnswerIsEvidenced
<1>1. IndInv => AnswerIsEvidenced
    BY DEF IndInv, RecordsMatch, AnswerIsEvidenced
<1>2. QED BY <1>1, Invariance, PTL

(* With a local ledger every behaviour of the boundary is, seen from its   *)
(* ledger, a behaviour of the abstract GovernanceLedger.                   *)
THEOREM LedgerRefinement == ASSUME LedgerMode = "sync" PROVE Spec => LedgerSpec
<1>1. Init => Ledger!Init BY DEF Init, Ledger!Init
<1>2. IndInv /\ [Next]_vars => [Ledger!Next]_gel
  <2> SUFFICES ASSUME IndInv, [Next]_vars, gel' # gel PROVE Ledger!Next
      BY DEF Ledger!Next
  <2>1. PICK r \in Requests : Insert(r) \/ (\E c \in ConditionSets : EvaluateSync(r, c))
    <3>1. ~(Operators \/ Tick) BY DEF Operators, CastVote, KillSwitch, Revoke, Tick
    <3>2. \A i \in Instances : ~(Crash(i) \/ Restart(i)) BY DEF Crash, Restart
    <3>3. PICK r \in Requests : Evaluate(r) BY <3>1, <3>2 DEF Next, vars
    <3>4. ~(Lookup(r) \/ AppendFails(r) \/ Respond(r))
        BY DEF Lookup, AppendFails, Respond
    <3>5. \A c \in ConditionSets : ~EvaluateSyncFails(r, c) /\ ~Decide(r, c)
        BY DEF EvaluateSyncFails, Decide
    <3>6. \A c \in ConditionSets : ~EvaluateUnanchored(r, c) BY DEF EvaluateUnanchored
    <3>7. QED BY <3>3, <3>4, <3>5, <3>6 DEF Evaluate
  <2>2. ~Insert(r) BY DEF IndInv, LookupHonest, Insert
  <2>3. PICK c \in ConditionSets : EvaluateSync(r, c) BY <2>1, <2>2
  <2> DEFINE prior == hasPriorAdmission(InstanceOf[r], HashOf[r])
             d == decideAndWarrant(r, prior, c)
  <2>4. backend[InstanceOf[r]] = seed(gel) BY <2>3 DEF EvaluateSync, IndInv, IndexCurrent
  <2>5. gel' = Append(gel, buildGelRecord(r, d.decision, Len(gel)))
      BY <2>3, <2>4 DEF EvaluateSync, seed
  <2>6. prior \in BOOLEAN BY LookupBoolean
  <2>7. prior = (HashOf[r] \in AdmittedIn(gel)) BY <2>4 DEF hasPriorAdmission, seed
  <2> HIDE DEF prior
  <2>8. d.decision \in Decisions /\ (d.decision = "ALLOW" => ~prior)
      BY <2>6, DecisionResult
  <2> HIDE DEF d
  <2>9. HashOf[r] \in Hashes BY ExecutionControlAssumption
  <2>10. d.decision = "ALLOW" => ~Ledger!Admitted(HashOf[r])
      BY <2>7, <2>8 DEF AdmittedIn, Ledger!Admitted
  <2>11. Ledger!Record(r, HashOf[r], d.decision)
      BY <2>5, <2>10 DEF buildGelRecord, Ledger!Record
  <2>12. QED BY <2>8, <2>9, <2>11 DEF Ledger!Next
<1>3. QED BY <1>1, <1>2, Invariance, PTL DEF Spec, LedgerSpec, Ledger!Spec

\* A step that leaves what the lookups read is not seen from SeenBy.
LEMMA SeenKept ==
    ASSUME \A q \in Requests :
              /\ req'[q].pc \in {"new", "unanchored"} <=> req[q].pc \in {"new", "unanchored"}
              /\ req'[q].seen = req[q].seen
    PROVE  SeenBy' = SeenBy
BY DEF SeenBy

\* The same for a step that changes one call.
LEMMA SeenKeptByCall ==
    ASSUME IndInv, NEW r \in Requests, NEW q, req' = [req EXCEPT ![r] = q],
           q.pc \in {"new", "unanchored"} <=> req[r].pc \in {"new", "unanchored"},
           q.seen = req[r].seen
    PROVE  SeenBy' = SeenBy
<1>1. \A p \in Requests : req'[p] = IF p = r THEN q ELSE req[p] BY DEF IndInv, TypeOK
<1>2. QED BY <1>1, SeenKept

\* The abstract lookup: the ledger's length is read.
LEMMA SharedLookup ==
    ASSUME IndInv, NEW r \in Requests, Lookup(r)
    PROVE  Shared!Lookup(r)
<1> DEFINE q == [NewRequest EXCEPT !.pc = "looked", !.seen = Len(gel),
                                   !.replaySeen = hasPriorAdmission(InstanceOf[r], HashOf[r])]
<1>1. req[r].pc = "new" /\ req' = [req EXCEPT ![r] = q] /\ gel' = gel BY DEF Lookup
<1>2. q.pc = "looked" /\ q.seen = Len(gel) BY DEF NewRequest
<1> HIDE DEF q
<1>3. \A p \in Requests : req'[p] = IF p = r THEN q ELSE req[p] BY <1>1 DEF IndInv, TypeOK
<1>4. r \notin DOMAIN SeenBy BY <1>1 DEF SeenBy
<1>5. {p \in Requests : req'[p].pc \notin {"new", "unanchored"}} = DOMAIN SeenBy \union {r}
    BY <1>2, <1>3 DEF SeenBy
<1>6. \A p \in DOMAIN SeenBy \union {r} :
         req'[p].seen = IF p = r THEN Len(gel) ELSE SeenBy[p]
    BY <1>2, <1>3 DEF SeenBy
<1>7. SeenBy' = [p \in DOMAIN SeenBy \union {r} |-> IF p = r THEN Len(gel) ELSE SeenBy[p]]
    BY <1>5, <1>6 DEF SeenBy
<1>8. QED BY <1>1, <1>4, <1>7 DEF Shared!Lookup

\* The abstract record: the first of its request, on the tip, and an
\* admission only of what its lookup did not find admitted.
LEMMA SharedRecord ==
    ASSUME LedgerMode = "transaction", IndInv, NEW r \in Requests, Insert(r)
    PROVE  req[r].decision \in Decisions /\ Shared!Record(r, req[r].decision)
<1>1. /\ req[r].pc \in {"decided", "orphaned"}
      /\ gel' = Append(gel, buildGelRecord(r, req[r].decision, Len(gel)))
      /\ req' = [req EXCEPT ![r].pc = IF @ = "decided" THEN "inserted" ELSE "lost"]
    BY DEF Insert, LinkOf
<1>2. SeenBy[r] = req[r].seen /\ r \in DOMAIN SeenBy BY <1>1 DEF SeenBy
<1>3. \A k \in DOMAIN gel : gel[k].request # r BY <1>1 DEF IndInv, RecordsMatch
<1>4. /\ req[r].decision \in Decisions
      /\ req[r].decision = "ALLOW" =>
            \A j \in 1 .. req[r].seen : Admission(j) => gel[j].hash # HashOf[r]
    BY <1>1 DEF IndInv, LookupHonest
<1>5. req[r].decision = "ALLOW" => ~Shared!FoundAdmitted(r)
    BY <1>2, <1>4 DEF Shared!FoundAdmitted, Admission
<1>6. SeenBy' = SeenBy
  <2> DEFINE q == [req[r] EXCEPT !.pc = IF @ = "decided" THEN "inserted" ELSE "lost"]
  <2>1. req[r] \in Request BY DEF IndInv, TypeOK
  <2>2. q.pc \in {"inserted", "lost"} /\ q.seen = req[r].seen BY <2>1 DEF Request
  <2>3. req' = [req EXCEPT ![r] = q] BY <1>1
  <2> HIDE DEF q
  <2>4. QED BY <1>1, <2>2, <2>3, SeenKeptByCall
<1>7. QED BY <1>1, <1>2, <1>3, <1>4, <1>5, <1>6 DEF buildGelRecord, Shared!Record

\* Every other step of a call is a stutter.
LEMMA SharedStutter ==
    ASSUME IndInv, NEW r \in Requests,
           \/ \E c \in ConditionSets : Decide(r, c) \/ EvaluateUnanchored(r, c)
           \/ AppendFails(r) \/ Respond(r)
    PROVE  UNCHANGED <<gel, SeenBy>>
<1>1. req[r] \in Request BY DEF IndInv, TypeOK
<1>2. ASSUME NEW c \in ConditionSets, Decide(r, c) PROVE UNCHANGED <<gel, SeenBy>>
  <2> DEFINE d == decideAndWarrant(r, req[r].replaySeen, c)
             q == [pc |-> "decided", replaySeen |-> req[r].replaySeen, seen |-> req[r].seen,
                   at |-> clock, link |-> backend[InstanceOf[r]].tip,
                   decision |-> d.decision, reason |-> d.reason]
  <2> HIDE DEF d
  <2>1. req[r].pc = "looked" /\ req' = [req EXCEPT ![r] = q] /\ gel' = gel
      BY <1>2 DEF Decide, d
  <2>2. q.pc = "decided" /\ q.seen = req[r].seen OBVIOUS
  <2> HIDE DEF q
  <2>3. QED BY <2>1, <2>2, SeenKeptByCall
<1>3. ASSUME NEW c \in ConditionSets, EvaluateUnanchored(r, c) PROVE UNCHANGED <<gel, SeenBy>>
  <2>1. /\ req[r].pc = "new" /\ gel' = gel
        /\ \A p \in Requests \ {r} : req'[p] = req[p]
        /\ req'[r].pc = "unanchored"
      BY <1>3 DEF EvaluateUnanchored, NewRequest, IndInv, TypeOK
  <2>2. QED BY <2>1 DEF SeenBy
<1>4. CASE AppendFails(r)
  <2> DEFINE q == [req[r] EXCEPT !.pc = AppendFailure(@)]
  <2>1. req[r].pc \in {"decided", "inserted"} /\ req' = [req EXCEPT ![r] = q] /\ gel' = gel
      BY <1>4 DEF AppendFails
  <2>2. q.pc \in {"orphaned", "lost"} /\ q.seen = req[r].seen
      BY <1>1, <2>1 DEF Request, AppendFailure
  <2> HIDE DEF q
  <2>3. QED BY <2>1, <2>2, SeenKeptByCall
<1>5. CASE Respond(r)
  <2> DEFINE answer == reclassifyExpire([decision |-> req[r].decision, reason |-> req[r].reason])
             q == [pc |-> "answered", replaySeen |-> req[r].replaySeen, seen |-> req[r].seen,
                   at |-> req[r].at, link |-> req[r].link,
                   decision |-> answer.decision, reason |-> answer.reason]
  <2> HIDE DEF answer
  <2>1. req[r].pc = "inserted" /\ req' = [req EXCEPT ![r] = q] /\ gel' = gel
      BY <1>5 DEF Respond, answer
  <2>2. q.pc = "answered" /\ q.seen = req[r].seen OBVIOUS
  <2> HIDE DEF q
  <2>3. QED BY <2>1, <2>2, SeenKeptByCall
<1>6. QED BY <1>2, <1>3, <1>4, <1>5

\* Crashes, restarts, votes and time leave the ledger and the lookups alone.
LEMMA SharedQuiet ==
    ASSUME IndInv,
           Operators \/ Tick \/ UNCHANGED vars \/ (\E i \in Instances : Crash(i) \/ Restart(i))
    PROVE  UNCHANGED <<gel, SeenBy>>
<1>1. ASSUME req' = req, gel' = gel PROVE UNCHANGED <<gel, SeenBy>> BY <1>1 DEF SeenBy
<1>2. CASE Operators BY <1>1, <1>2 DEF Operators, CastVote, KillSwitch, Revoke
<1>3. CASE Tick BY <1>1, <1>3 DEF Tick
<1>4. CASE UNCHANGED vars BY <1>1, <1>4 DEF vars
<1>5. ASSUME NEW i \in Instances, Crash(i) PROVE UNCHANGED <<gel, SeenBy>>
  <2>1. ASSUME NEW p \in Requests
        PROVE  /\ req'[p].pc \in {"new", "unanchored"} <=> req[p].pc \in {"new", "unanchored"}
               /\ req'[p].seen = req[p].seen
    <3>1. req[p] \in Request BY DEF IndInv, TypeOK
    <3>2. QED BY <1>5, <3>1 DEF Crash, Request
  <2>2. QED BY <1>5, <2>1, SeenKept DEF Crash
<1>6. ASSUME NEW i \in Instances, Restart(i) PROVE UNCHANGED <<gel, SeenBy>>
    BY <1>1, <1>6 DEF Restart
<1>7. QED BY <1>2, <1>3, <1>4, <1>5, <1>6

(* On Postgres with transactions every behaviour of the instances is, seen *)
(* from the ledger and their lookups, a behaviour of the abstract          *)
(* SharedLedger (hasAdmitted, appendChained of postgres-ledger.ts).        *)
THEOREM SharedRefinement == ASSUME LedgerMode = "transaction" PROVE Spec => SharedSpec
<1>1. Init => Shared!Init
  <2> SUFFICES ASSUME Init PROVE SeenBy = <<>> BY DEF Init, Shared!Init
  <2>1. DOMAIN SeenBy = {} BY DEF Init, SeenBy, NewRequest
  <2>2. SeenBy = [r \in {} |-> req[r].seen] BY <2>1 DEF SeenBy
  <2>3. QED BY <2>2
<1>2. IndInv /\ [Next]_vars => [Shared!Next]_(Shared!vars)
  <2> SUFFICES ASSUME IndInv, [Next]_vars PROVE Shared!Next \/ UNCHANGED <<gel, SeenBy>>
      BY DEF Shared!vars
  <2>1. ASSUME NEW r \in Requests, Evaluate(r)
        PROVE  Shared!Next \/ UNCHANGED <<gel, SeenBy>>
    <3>1. \A c \in ConditionSets : ~EvaluateSync(r, c) /\ ~EvaluateSyncFails(r, c)
        BY DEF EvaluateSync, EvaluateSyncFails
    <3>2. CASE Lookup(r) BY <3>2, SharedLookup DEF Shared!Next
    <3>3. CASE Insert(r) BY <3>3, SharedRecord DEF Shared!Next
    <3>4. QED BY <2>1, <3>1, <3>2, <3>3, SharedStutter DEF Evaluate
  <2>2. QED BY <2>1, SharedQuiet DEF Next
<1>3. QED BY <1>1, <1>2, Invariance, PTL DEF Spec, SharedSpec, Shared!Spec

-----------------------------------------------------------------------------
(* What requests cost                                                      *)

\* A set of natural numbers that is not empty has a least member.
LEMMA LeastMember ==
    ASSUME NEW S, S \subseteq Nat, S # {}
    PROVE  \E x \in S : \A y \in S : x <= y
<1> DEFINE R == OpToRel(<, Nat)
<1>1. IsWellFoundedOn(R, Nat) BY NatLessThanWellFounded, Zenon
<1>2. \A x, y \in Nat : <<x, y>> \in R <=> x < y BY DEF OpToRel
<1> HIDE DEF R
<1>3. PICK x \in S : \A y \in S : <<y, x>> \notin R BY <1>1, WFMin
<1>4. ASSUME NEW y \in S PROVE x <= y
  <2>1. x \in Nat /\ y \in Nat OBVIOUS
  <2>2. ~(y < x) BY <1>2, <1>3, <2>1
  <2>3. QED BY <2>1, <2>2
<1>5. QED BY <1>4

\* Sets of requests are finite, and a set of them that is not empty has one
\* from which no request can be taken without leaving it: induction on their
\* size, as the proofs below use it.
LEMMA RequestsFinite ==
    ASSUME NEW s \in SUBSET Requests
    PROVE  /\ IsFiniteSet(s) /\ Cardinality(s) \in Nat /\ Cardinality(s) <= Cardinality(Requests)
           /\ Cardinality(s) = 0 <=> s = {}
           /\ \A x \in s : Cardinality(s \ {x}) = Cardinality(s) - 1
<1>1. IsFiniteSet(Requests) BY ExecutionControlAssumption
<1>2. IsFiniteSet(s) /\ Cardinality(s) <= Cardinality(Requests) BY <1>1, FS_Subset
<1>3. QED BY <1>2, FS_CardinalityType, FS_EmptySet, FS_RemoveElement

\* Among sets of requests there is one no element of which can be spared.
LEMMA SmallestSet ==
    ASSUME NEW Bad \in SUBSET (SUBSET Requests), Bad # {}
    PROVE  \E s \in Bad : \A x \in s : s \ {x} \notin Bad
<1> DEFINE sizes == {Cardinality(s) : s \in Bad}
<1>1. sizes \subseteq Nat /\ sizes # {} BY RequestsFinite
<1>2. PICK n \in sizes : \A m \in sizes : n <= m BY <1>1, LeastMember
<1>3. PICK s \in Bad : Cardinality(s) = n BY <1>2
<1>4. ASSUME NEW x \in s, s \ {x} \in Bad PROVE FALSE
  <2>1. Cardinality(s \ {x}) = n - 1 BY <1>3, RequestsFinite
  <2>2. n - 1 \in sizes BY <1>4, <2>1
  <2>3. n \in Nat /\ n <= n - 1 BY <1>1, <1>2, <2>2
  <2>4. QED BY <2>3
<1>5. QED BY <1>4

\* The recursion behind Cost: take any request first.
AnyOf(s) == CHOOSE x \in s : TRUE

SumOver(s, f) == IF s = {} THEN 0 ELSE CostOf[AnyOf(s)] + f[s \ {AnyOf(s)}]

\* It has a solution: for the sets of up to n requests there is one, and it
\* extends to those of one request more.
LEMMA SumsExist ==
    \E f : f \in [SUBSET Requests -> Nat] /\ \A s \in SUBSET Requests : f[s] = SumOver(s, f)
<1> DEFINE Small(n) == {s \in SUBSET Requests : Cardinality(s) <= n}
           Solves(f, n) == f \in [Small(n) -> Nat] /\ \A s \in Small(n) : f[s] = SumOver(s, f)
           N == Cardinality(Requests)
           Bad == {n \in 0 .. N : ~ \E f : Solves(f, n)}
<1>1. N \in Nat BY RequestsFinite
<1>2. Bad = {}
  <2> SUFFICES ASSUME Bad # {} PROVE FALSE OBVIOUS
  <2>1. Bad \subseteq Nat BY <1>1
  <2>2. PICK n \in Bad : \A m \in Bad : n <= m BY <2>1, LeastMember
  <2>3. n \in Nat /\ n <= N /\ ~ \E f : Solves(f, n) BY <1>1, <2>2
  <2>4. n # 0
    <3> SUFFICES ASSUME n = 0 PROVE FALSE OBVIOUS
    <3> DEFINE f == [s \in Small(0) |-> 0]
    <3>1. \A s \in Small(0) : s = {} BY RequestsFinite
    <3>2. \A s \in Small(0) : f[s] = 0 /\ SumOver(s, f) = 0 BY <3>1 DEF SumOver
    <3>3. f \in [Small(0) -> Nat] OBVIOUS
    <3> HIDE DEF f
    <3>4. Solves(f, 0) BY <3>2, <3>3
    <3>5. QED BY <2>3, <3>4
  <2>5. n - 1 \in 0 .. N /\ n - 1 \notin Bad
    <3> HIDE DEF Bad, N
    <3>1. n - 1 \in 0 .. N BY <1>1, <2>3, <2>4
    <3>2. ~(n <= n - 1) BY <2>3
    <3>3. QED BY <2>2, <3>1, <3>2
  <2>6. PICK f : Solves(f, n - 1)
    <3> HIDE DEF Solves
    <3>1. QED BY <2>5
  <2> DEFINE g == [s \in Small(n) |-> SumOver(s, f)]
  <2>7. ASSUME NEW s \in Small(n), s # {}
        PROVE  AnyOf(s) \in s /\ AnyOf(s) \in Requests /\ s \ {AnyOf(s)} \in Small(n - 1)
    <3>1. AnyOf(s) \in s BY <2>7 DEF AnyOf
    <3>2. Cardinality(s \ {AnyOf(s)}) = Cardinality(s) - 1 /\ Cardinality(s) \in Nat /\ Cardinality(s) <= n
        BY <3>1, RequestsFinite
    <3>3. QED BY <2>3, <3>1, <3>2
  <2>8. ASSUME NEW s \in Small(n) PROVE SumOver(s, f) \in Nat
    <3>1. s # {} => f[s \ {AnyOf(s)}] \in Nat /\ CostOf[AnyOf(s)] \in Nat
        BY <2>6, <2>7, ExecutionControlAssumption
    <3>2. QED BY <3>1 DEF SumOver
  <2>9. \A s \in Small(n - 1) : s \in Small(n) /\ g[s] = f[s]
    <3>1. ASSUME NEW s \in Small(n - 1) PROVE s \in Small(n)
      <4>1. Cardinality(s) \in Nat BY RequestsFinite
      <4>2. QED BY <2>3, <4>1
    <3>2. QED BY <2>6, <3>1
  <2>10. g \in [Small(n) -> Nat] /\ \A s \in Small(n) : g[s] = SumOver(s, f) BY <2>8
  <2> HIDE DEF g
  <2>11. \A s \in Small(n) : SumOver(s, f) = SumOver(s, g) BY <2>7, <2>9 DEF SumOver
  <2>12. Solves(g, n) BY <2>10, <2>11
  <2>13. QED BY <2>3, <2>12
<1>3. PICK f : Solves(f, N)
  <2> HIDE DEF Solves, N
  <2>1. N \in 0 .. N BY <1>1
  <2>2. QED BY <1>2, <2>1
<1>4. Small(N) = SUBSET Requests BY RequestsFinite
<1>5. QED BY <1>3, <1>4

\* Cost unfolds that recursion.
LEMMA CostRecursion ==
    ASSUME NEW s \in SUBSET Requests
    PROVE  /\ Cost(s) \in Nat
           /\ s = {} => Cost(s) = 0
           /\ s # {} => AnyOf(s) \in s /\ Cost(s) = CostOf[AnyOf(s)] + Cost(s \ {AnyOf(s)})
<1> DEFINE Eq(h, D) == h = [s_1 \in SUBSET D |->
                              IF s_1 = {} THEN 0
                              ELSE CostOf[CHOOSE x \in s_1 : TRUE] + h[s_1 \ {CHOOSE x \in s_1 : TRUE}]]
<1>1. PICK f : f \in [SUBSET Requests -> Nat] /\ \A t \in SUBSET Requests : f[t] = SumOver(t, f)
    BY SumsExist
<1>2. ASSUME NEW D \in SUBSET Requests PROVE Cost(D) = f[D]
  <2> DEFINE iter == CHOOSE h : Eq(h, D)
  <2>1. Cost(D) = iter[D] BY Zenon DEF Cost, MapThenSumSet, MapThenFoldSet
  <2>2. Eq([t \in SUBSET D |-> f[t]], D)
    <3> DEFINE h == [t \in SUBSET D |-> f[t]]
    <3>1. ASSUME NEW t \in SUBSET D
          PROVE  h[t] = IF t = {} THEN 0
                        ELSE CostOf[CHOOSE x \in t : TRUE] + h[t \ {CHOOSE x \in t : TRUE}]
      <4>1. f[t] = SumOver(t, f) /\ h[t] = f[t] BY <1>1
      <4>2. h[t \ {AnyOf(t)}] = f[t \ {AnyOf(t)}] OBVIOUS
      <4>3. QED BY <4>1, <4>2 DEF SumOver, AnyOf
    <3>2. QED BY <3>1
  <2>3. Eq(iter, D) BY <2>2
  <2> HIDE DEF iter
  <2>4. \A t \in SUBSET D : iter[t] = SumOver(t, iter) BY <2>3 DEF SumOver, AnyOf
  <2> DEFINE Bad == {t \in SUBSET D : iter[t] # f[t]}
  <2>5. Bad = {}
    <3> SUFFICES ASSUME Bad # {} PROVE FALSE OBVIOUS
    <3>1. Bad \in SUBSET (SUBSET Requests) OBVIOUS
    <3>2. PICK t \in Bad : \A x \in t : t \ {x} \notin Bad BY <3>1, SmallestSet
    <3>3. t # {} BY <1>1, <2>4 DEF SumOver
    <3>4. AnyOf(t) \in t BY <3>3 DEF AnyOf
    <3>5. iter[t \ {AnyOf(t)}] = f[t \ {AnyOf(t)}] BY <3>2, <3>4
    <3>6. t \in SUBSET Requests /\ iter[t] = SumOver(t, iter) /\ f[t] = SumOver(t, f) BY <1>1, <2>4
    <3>7. QED BY <3>2, <3>5, <3>6 DEF SumOver
  <2>6. QED BY <2>1, <2>5
<1>3. s # {} => AnyOf(s) \in s BY DEF AnyOf
<1>4. s \ {AnyOf(s)} \in SUBSET Requests OBVIOUS
<1>5. QED BY <1>1, <1>2, <1>3, <1>4 DEF SumOver

\* The order in which requests are taken does not matter.
LEMMA CostWithout ==
    ASSUME NEW s \in SUBSET Requests, NEW x \in s
    PROVE  Cost(s) = CostOf[x] + Cost(s \ {x})
<1> DEFINE Bad == {t \in SUBSET Requests : \E y \in t : Cost(t) # CostOf[y] + Cost(t \ {y})}
<1>1. Bad = {}
  <2> SUFFICES ASSUME Bad # {} PROVE FALSE OBVIOUS
  <2>1. Bad \in SUBSET (SUBSET Requests) OBVIOUS
  <2>2. PICK t \in Bad : \A y \in t : t \ {y} \notin Bad BY <2>1, SmallestSet
  <2>3. PICK y \in t : Cost(t) # CostOf[y] + Cost(t \ {y}) BY <2>2
  <2> DEFINE z == AnyOf(t)
  <2>4. t \in SUBSET Requests /\ t # {} BY <2>2, <2>3
  <2>5. z \in t /\ Cost(t) = CostOf[z] + Cost(t \ {z}) BY <2>4, CostRecursion
  <2>6. z # y BY <2>3, <2>5
  <2> HIDE DEF z
  <2>7. Cost((t \ {z}) \ {y}) = Cost((t \ {y}) \ {z})
    <3>1. (t \ {z}) \ {y} = (t \ {y}) \ {z} OBVIOUS
    <3>2. QED BY <3>1
  <2>8. Cost(t \ {z}) = CostOf[y] + Cost((t \ {z}) \ {y})
      BY <2>2, <2>4, <2>5, <2>6
  <2>9. Cost(t \ {y}) = CostOf[z] + Cost((t \ {y}) \ {z})
      BY <2>2, <2>3, <2>4, <2>5, <2>6
  <2>10. CostOf[y] \in Nat /\ CostOf[z] \in Nat BY <2>4, <2>5, ExecutionControlAssumption
  <2>11. Cost((t \ {y}) \ {z}) \in Nat BY <2>4, CostRecursion
  <2>12. QED BY <2>3, <2>5, <2>7, <2>8, <2>9, <2>10, <2>11
<1>2. QED BY <1>1

\* Fewer requests cost no more.
LEMMA CostMonotonic ==
    ASSUME NEW s \in SUBSET Requests, NEW u \in SUBSET s
    PROVE  Cost(u) <= Cost(s)
<1> DEFINE Bad == {t \in SUBSET Requests : \E v \in SUBSET t : ~(Cost(v) <= Cost(t))}
<1>1. Bad = {}
  <2> SUFFICES ASSUME Bad # {} PROVE FALSE OBVIOUS
  <2>1. Bad \in SUBSET (SUBSET Requests) OBVIOUS
  <2>2. PICK t \in Bad : \A y \in t : t \ {y} \notin Bad BY <2>1, SmallestSet
  <2>3. PICK v \in SUBSET t : ~(Cost(v) <= Cost(t)) BY <2>2
  <2>4. t \in SUBSET Requests /\ v \in SUBSET Requests BY <2>2
  <2>5. Cost(t) \in Nat /\ Cost(v) \in Nat BY <2>4, CostRecursion
  <2>6. v # t BY <2>3, <2>5
  <2>7. PICK y \in t : y \notin v BY <2>6
  <2>8. t \ {y} \in SUBSET Requests /\ v \in SUBSET (t \ {y}) BY <2>4, <2>7
  <2>9. Cost(v) <= Cost(t \ {y}) BY <2>2, <2>8
  <2>10. Cost(t) = CostOf[y] + Cost(t \ {y}) BY <2>4, CostWithout
  <2>11. CostOf[y] \in Nat /\ Cost(t \ {y}) \in Nat
      BY <2>4, <2>8, CostRecursion, ExecutionControlAssumption
  <2>12. QED BY <2>3, <2>5, <2>9, <2>10, <2>11
<1>2. QED BY <1>1

-----------------------------------------------------------------------------
(* The budget                                                              *)

\* The requests that a window of instance i admitted.
Admitted(i, t) ==
    {r \in Requests : InstanceOf[r] = i /\ Spends(r) /\ req[r].at \in t - Window .. t}

WithinLimits(requests) == Cardinality(requests) <= MaxCalls /\ Cost(requests) <= MaxCost

\* The budget property, window by window.
LEMMA BudgetByWindows == BudgetHolds <=> \A i \in Instances, t \in 0 .. clock : WithinLimits(Admitted(i, t))
BY DEF BudgetHolds, Admitted, WithinLimits

\* Part of a window stays within the limits.
LEMMA LimitsMonotonic ==
    ASSUME NEW s \in SUBSET Requests, WithinLimits(s), NEW u \in SUBSET s
    PROVE  WithinLimits(u)
<1>1. Cost(u) <= Cost(s) /\ Cost(u) \in Nat /\ Cost(s) \in Nat BY CostMonotonic, CostRecursion
<1>2. Cardinality(u) <= Cardinality(s) /\ Cardinality(u) \in Nat /\ Cardinality(s) \in Nat
    BY RequestsFinite, FS_Subset
<1>3. QED BY <1>1, <1>2, ExecutionControlAssumption DEF WithinLimits

\* What checkBudget lets pass fits with whatever it counted.
LEMMA CheckBudgetSound ==
    ASSUME NEW r \in Requests, TypeOK, checkBudget(r, clock),
           NEW before, before = {e.request : e \in InWindow(InstanceOf[r], clock)},
           NEW u \in SUBSET (before \union {r})
    PROVE  WithinLimits(u)
<1>1. InstanceOf[r] \in Instances BY ExecutionControlAssumption
<1>2. before \in SUBSET Requests BY <1>1 DEF TypeOK, InWindow
<1>3. Cardinality(before) + 1 <= MaxCalls /\ Cost(before) + CostOf[r] <= MaxCost
    BY DEF checkBudget
<1> DEFINE s == before \union {r}
<1>4. Cardinality(s) <= Cardinality(before) + 1
    BY <1>2, RequestsFinite, FS_AddElement
<1>5. Cost(s) <= Cost(before) + CostOf[r]
  <2>1. Cost(s) = CostOf[r] + Cost(s \ {r}) BY <1>2, CostWithout
  <2>2. s \ {r} \in SUBSET before OBVIOUS
  <2>3. Cost(s \ {r}) <= Cost(before) BY <1>2, <2>2, CostMonotonic
  <2>4. Cost(s \ {r}) \in Nat /\ Cost(before) \in Nat /\ CostOf[r] \in Nat
      BY <1>2, <2>2, CostRecursion, ExecutionControlAssumption
  <2>5. QED BY <2>1, <2>3, <2>4
<1>6. s \in SUBSET Requests BY <1>2
<1> HIDE DEF s
<1>7. Cardinality(s) \in Nat /\ Cost(s) \in Nat /\ Cardinality(before) \in Nat /\ Cost(before) \in Nat
    BY <1>2, <1>6, RequestsFinite, CostRecursion
<1>8. WithinLimits(s)
    BY <1>3, <1>4, <1>5, <1>7, ExecutionControlAssumption DEF WithinLimits
<1>9. QED BY <1>6, <1>8, LimitsMonotonic DEF s

\* Nothing is admitted that checkBudget does not let pass.
LEMMA AllowedIsChecked ==
    ASSUME NEW r, NEW replaySeen, NEW conditions,
           decideAndWarrant(r, replaySeen, conditions).decision = "ALLOW"
    PROVE  checkBudget(r, clock)
<1>1. Precedence(r, replaySeen, conditions).decision = "ALLOW" BY DEF decideAndWarrant
<1>2. QED BY <1>1 DEF Precedence, Refused

\* A step that spends nothing keeps the budget: time may pass, calls move on.
LEMMA QuietBudget ==
    ASSUME TypeOK, TypeOK', BudgetInv, BudgetDurable => spent' = spent,
           clock' = clock \/ clock' = clock + 1,
           \A r \in Requests : Spends(r)' => Spends(r) /\ req'[r].at = req[r].at
    PROVE  BudgetInv'
<1> SUFFICES ASSUME BudgetDurable PROVE BudgetInv' BY DEF BudgetInv
<1>1. clock \in Nat /\ clock' \in Nat /\ Window \in Nat /\ \A r \in Requests : req[r].at \in Nat
    BY ExecutionControlAssumption DEF TypeOK, Request
<1>2. \A r \in Requests : Spends(r) =>
         /\ req[r].at <= clock
         /\ req[r].at >= clock - Window => [request |-> r, at |-> req[r].at] \in spent[InstanceOf[r]]
    BY DEF BudgetInv
<1>3. \A r \in Requests : Spends(r)' =>
         /\ req'[r].at <= clock'
         /\ req'[r].at >= clock' - Window => [request |-> r, at |-> req'[r].at] \in spent'[InstanceOf[r]]
    BY <1>1, <1>2
<1>4. \A i \in Instances, t \in 0 .. clock : WithinLimits(Admitted(i, t))
    BY BudgetByWindows DEF BudgetInv
<1>5. ASSUME NEW i \in Instances, NEW t \in 0 .. clock' PROVE WithinLimits(Admitted(i, t)')
  <2> DEFINE now == IF t <= clock THEN t ELSE clock
  <2>1. now \in 0 .. clock BY <1>1
  <2>2. Admitted(i, t)' \subseteq Admitted(i, now)
    <3> SUFFICES ASSUME NEW r \in Requests, InstanceOf[r] = i, Spends(r)', req'[r].at \in t - Window .. t
                 PROVE  Spends(r) /\ req[r].at \in now - Window .. now
        BY DEF Admitted
    <3>1. Spends(r) /\ req'[r].at = req[r].at /\ req[r].at <= clock BY <1>2
    <3>2. QED BY <1>1, <3>1
  <2> HIDE DEF now
  <2>3. Admitted(i, now) \in SUBSET Requests BY DEF Admitted
  <2>4. QED BY <1>4, <2>1, <2>2, <2>3, LimitsMonotonic
<1>6. BudgetHolds'
    BY <1>5 DEF BudgetHolds, Admitted, WithinLimits
<1>7. QED BY <1>3, <1>6 DEF BudgetInv

\* A decision keeps it: an admission is checked against entries that have every
\* admission its window still reaches, and gets an entry itself.
LEMMA DecisionBudget ==
    ASSUME TypeOK, TypeOK', BudgetInv, NEW r \in Requests, NEW q, NEW d,
           DecisionEffects(r, d), clock' = clock, req' = [req EXCEPT ![r] = q],
           d.decision = "ALLOW" => checkBudget(r, clock),
           q.at = clock, q.decision = d.decision
    PROVE  BudgetInv'
<1>1. req \in [Requests -> Request] BY DEF TypeOK
<1>2. req'[r] = q /\ \A s \in Requests : s # r => req'[s] = req[s] BY <1>1
<1>3. CASE d.decision # "ALLOW"
  <2>1. spent' = spent BY <1>3 DEF DecisionEffects
  <2>2. \A s \in Requests : Spends(s)' => Spends(s) /\ req'[s].at = req[s].at
      BY <1>2, <1>3 DEF Spends
  <2>3. QED BY <2>1, <2>2, QuietBudget
<1>4. CASE d.decision = "ALLOW"
  <2> SUFFICES ASSUME BudgetDurable PROVE BudgetInv' BY DEF BudgetInv
  <2> DEFINE i == InstanceOf[r]
             before == {e.request : e \in InWindow(i, clock)}
  <2>1. clock \in Nat /\ Window \in Nat /\ i \in Instances /\ \A s \in Requests : req[s].at \in Nat
      BY <1>1, ExecutionControlAssumption DEF TypeOK, Request
  <2>2. \A s \in Requests : Spends(s) =>
           /\ req[s].at <= clock
           /\ req[s].at >= clock - Window => [request |-> s, at |-> req[s].at] \in spent[InstanceOf[s]]
      BY DEF BudgetInv
  <2>3. spent' = [spent EXCEPT ![i] = InWindow(i, clock) \union {[request |-> r, at |-> clock]}]
      BY <1>4 DEF DecisionEffects
  <2>4. /\ spent'[i] = InWindow(i, clock) \union {[request |-> r, at |-> clock]}
        /\ \A j \in Instances : j # i => spent'[j] = spent[j]
      BY <2>1, <2>3 DEF TypeOK
  <2>5. \A s \in Requests : s # r => (Spends(s)' <=> Spends(s)) /\ req'[s].at = req[s].at
      BY <1>2 DEF Spends
  <2>6. ASSUME NEW s \in Requests, InstanceOf[s] = i, Spends(s), req[s].at >= clock - Window
        PROVE  [request |-> s, at |-> req[s].at] \in InWindow(i, clock)
      BY <2>2, <2>6 DEF InWindow
  <2>7. \A s \in Requests : Spends(s)' =>
           /\ req'[s].at <= clock
           /\ req'[s].at >= clock - Window => [request |-> s, at |-> req'[s].at] \in spent'[InstanceOf[s]]
    <3> SUFFICES ASSUME NEW s \in Requests, Spends(s)'
                 PROVE  /\ req'[s].at <= clock
                        /\ req'[s].at >= clock - Window =>
                              [request |-> s, at |-> req'[s].at] \in spent'[InstanceOf[s]]
        OBVIOUS
    <3>1. CASE s = r BY <1>2, <2>1, <2>4, <3>1
    <3>2. CASE s # r /\ InstanceOf[s] = i BY <2>2, <2>4, <2>5, <2>6, <3>2
    <3>3. CASE InstanceOf[s] # i
      <4>1. InstanceOf[s] \in Instances BY ExecutionControlAssumption
      <4>2. QED BY <2>2, <2>4, <2>5, <3>3, <4>1
    <3>4. QED BY <3>1, <3>2, <3>3
  <2>8. \A j \in Instances, t \in 0 .. clock : WithinLimits(Admitted(j, t))
      BY BudgetByWindows DEF BudgetInv
  <2>9. ASSUME NEW j \in Instances, NEW t \in 0 .. clock PROVE WithinLimits(Admitted(j, t)')
    <3>1. CASE j # i \/ t # clock
      <4>1. Admitted(j, t)' \subseteq Admitted(j, t)
        <5> SUFFICES ASSUME NEW s \in Requests, InstanceOf[s] = j, Spends(s)', req'[s].at \in t - Window .. t
                     PROVE  Spends(s) /\ req[s].at \in t - Window .. t
            BY DEF Admitted
        <5>1. s # r BY <1>2, <2>1, <3>1
        <5>2. QED BY <2>5, <5>1
      <4>2. Admitted(j, t) \in SUBSET Requests BY DEF Admitted
      <4>3. QED BY <2>8, <4>1, <4>2, LimitsMonotonic
    <3>2. CASE j = i /\ t = clock
      <4>1. Admitted(j, t)' \subseteq before \union {r}
        <5> SUFFICES ASSUME NEW s \in Requests, s # r, InstanceOf[s] = i, Spends(s)',
                            req'[s].at \in clock - Window .. clock
                     PROVE  s \in before
            BY <3>2 DEF Admitted
        <5>1. Spends(s) /\ req[s].at >= clock - Window BY <2>1, <2>5
        <5>2. [request |-> s, at |-> req[s].at] \in InWindow(i, clock) BY <2>6, <5>1
        <5>3. QED BY <5>2
      <4>2. checkBudget(r, clock) BY <1>4
      <4>3. before = {e.request : e \in InWindow(InstanceOf[r], clock)} OBVIOUS
      <4> HIDE DEF before
      <4> DEFINE u == Admitted(j, t)'
      <4>4. u \in SUBSET (before \union {r}) BY <4>1
      <4> HIDE DEF u
      <4>5. WithinLimits(u) BY <4>2, <4>3, <4>4, CheckBudgetSound
      <4>6. QED BY <4>5 DEF u
    <3>3. QED BY <3>1, <3>2
  <2>10. BudgetHolds' BY <2>9 DEF BudgetHolds, Admitted, WithinLimits
  <2>11. QED BY <2>7, <2>10 DEF BudgetInv
<1>5. QED BY <1>3, <1>4

\* The synchronous decision is what the caller is told.
LEMMA EvaluateSyncBudget ==
    ASSUME IndInv, IndInv', BudgetInv, NEW r \in Requests, NEW c, EvaluateSync(r, c)
    PROVE  BudgetInv'
<1> DEFINE prior == hasPriorAdmission(InstanceOf[r], HashOf[r])
           d == decideAndWarrant(r, prior, c)
           answer == reclassifyExpire(d)
           q == [pc |-> "answered", replaySeen |-> prior, seen |-> Len(gel),
                 at |-> clock, link |-> backend[InstanceOf[r]].tip,
                 decision |-> answer.decision, reason |-> answer.reason]
<1>1. DecisionEffects(r, d) /\ clock' = clock /\ req' = [req EXCEPT ![r] = q] BY DEF EvaluateSync
<1>2. prior \in BOOLEAN BY LookupBoolean
<1>3. d.decision = "ALLOW" => checkBudget(r, clock) BY AllowedIsChecked
<1> HIDE DEF prior
<1>4. answer = d BY <1>2, DecisionResult, NeverReclassified
<1> HIDE DEF d, answer
<1>5. q.at = clock /\ q.decision = d.decision BY <1>4
<1> HIDE DEF q
<1>6. QED BY <1>1, <1>3, <1>5, DecisionBudget DEF IndInv

\* So is the one whose write fails, which stays in the budget.
LEMMA SyncFailureBudget ==
    ASSUME IndInv, IndInv', BudgetInv, NEW r \in Requests, NEW c, EvaluateSyncFails(r, c)
    PROVE  BudgetInv'
<1> DEFINE prior == hasPriorAdmission(InstanceOf[r], HashOf[r])
           d == decideAndWarrant(r, prior, c)
           q == [pc |-> "failed", replaySeen |-> prior, seen |-> Len(gel),
                 at |-> clock, link |-> 0, decision |-> d.decision, reason |-> d.reason]
<1>1. DecisionEffects(r, d) /\ clock' = clock /\ req' = [req EXCEPT ![r] = q] BY DEF EvaluateSyncFails
<1>2. d.decision = "ALLOW" => checkBudget(r, clock) BY AllowedIsChecked
<1> HIDE DEF d
<1>3. q.at = clock /\ q.decision = d.decision OBVIOUS
<1> HIDE DEF q
<1>4. QED BY <1>1, <1>2, <1>3, DecisionBudget DEF IndInv

\* And the one between the two awaits.
LEMMA DecideBudget ==
    ASSUME IndInv, IndInv', BudgetInv, NEW r \in Requests, NEW c, Decide(r, c)
    PROVE  BudgetInv'
<1> DEFINE d == decideAndWarrant(r, req[r].replaySeen, c)
           q == [pc |-> "decided", replaySeen |-> req[r].replaySeen, seen |-> req[r].seen,
                 at |-> clock, link |-> backend[InstanceOf[r]].tip,
                 decision |-> d.decision, reason |-> d.reason]
<1>1. DecisionEffects(r, d) /\ clock' = clock /\ req' = [req EXCEPT ![r] = q]
    BY DEF Decide, IndInv, TypeOK
<1>2. d.decision = "ALLOW" => checkBudget(r, clock) BY AllowedIsChecked
<1> HIDE DEF d
<1>3. q.at = clock /\ q.decision = d.decision OBVIOUS
<1> HIDE DEF q
<1>4. QED BY <1>1, <1>2, <1>3, DecisionBudget DEF IndInv

\* Every other step of a call leaves what it spent as it was.
LEMMA CallBudget ==
    ASSUME IndInv, IndInv', BudgetInv, NEW r \in Requests,
           \/ Lookup(r) \/ Insert(r) \/ AppendFails(r) \/ Respond(r)
           \/ \E c \in ConditionSets : EvaluateUnanchored(r, c)
    PROVE  BudgetInv'
<1>1. /\ req \in [Requests -> Request] /\ clock' = clock /\ spent' = spent
      /\ \A s \in Requests : s # r => req'[s] = req[s]
    BY DEF IndInv, TypeOK, Lookup, Insert, AppendFails, Respond, EvaluateUnanchored
<1>2. Spends(r)' => Spends(r) /\ req'[r].at = req[r].at
  <2>1. CASE Lookup(r) BY <1>1, <2>1 DEF Lookup, Spends, NewRequest
  <2>2. CASE Insert(r) \/ AppendFails(r)
    <3>1. req[r] \in Request /\ req[r].pc # "unanchored" BY <1>1, <2>2 DEF Insert, AppendFails
    <3>2. \E p : req' = [req EXCEPT ![r].pc = p] BY <2>2 DEF Insert, AppendFails
    <3>3. PICK p : req' = [req EXCEPT ![r].pc = p] BY <3>2
    <3>4. req'[r].decision = req[r].decision /\ req'[r].at = req[r].at BY <1>1, <3>1, <3>3 DEF Request
    <3>5. QED BY <3>1, <3>4 DEF Spends
  <2>3. CASE Respond(r)
    <3>1. req[r].pc = "inserted" /\ \E k \in DOMAIN gel : gel[k].request = r BY <2>3 DEF Respond
    <3>2. req[r].decision \in Decisions
        BY <3>1, RecordFields DEF IndInv, RecordsMatch, GelRecord
    <3>3. req[r].reason \in Reasons BY <1>1 DEF Request
    <3>4. reclassifyExpire([decision |-> req[r].decision, reason |-> req[r].reason]) =
            [decision |-> req[r].decision, reason |-> req[r].reason]
        BY <3>2, <3>3, NeverReclassified
    <3>5. req'[r].decision = req[r].decision /\ req'[r].at = req[r].at
        BY <1>1, <2>3, <3>4 DEF Respond
    <3>6. QED BY <3>1, <3>5 DEF Spends
  <2>4. CASE \E c \in ConditionSets : EvaluateUnanchored(r, c)
    <3>1. req'[r].pc = "unanchored" BY <1>1, <2>4 DEF EvaluateUnanchored, NewRequest
    <3>2. QED BY <3>1 DEF Spends
  <2>5. QED BY <2>1, <2>2, <2>3, <2>4
<1>3. \A s \in Requests : Spends(s)' => Spends(s) /\ req'[s].at = req[s].at
    BY <1>1, <1>2 DEF Spends
<1>4. QED BY <1>1, <1>3, QuietBudget DEF IndInv

\* A crash forgets no entry of a durable budget.
LEMMA CrashBudget ==
    ASSUME IndInv, IndInv', BudgetInv, NEW i \in Instances, Crash(i)
    PROVE  BudgetInv'
<1>1. clock' = clock /\ (BudgetDurable => spent' = spent) BY DEF Crash
<1>2. ASSUME NEW r \in Requests, Spends(r)' PROVE Spends(r) /\ req'[r].at = req[r].at
  <2>1. req[r] \in Request BY DEF IndInv, TypeOK
  <2>2. \/ req'[r] = req[r]
        \/ /\ req[r].pc \in {"looked", "decided", "inserted"}
           /\ req'[r].decision = req[r].decision /\ req'[r].at = req[r].at
      BY <2>1 DEF Crash, Request
  <2>3. QED BY <1>2, <2>2 DEF Spends
<1>3. QED BY <1>1, <1>2, QuietBudget DEF IndInv

\* Nothing is spent at first.
LEMMA InitBudget == Init => BudgetInv
<1> SUFFICES ASSUME Init PROVE BudgetInv OBVIOUS
<1>1. \A r \in Requests : ~Spends(r) BY DEF Init, Spends, NewRequest
<1>2. ASSUME NEW i \in Instances, NEW t \in 0 .. clock PROVE WithinLimits(Admitted(i, t))
  <2>1. Admitted(i, t) = {} BY <1>1 DEF Admitted
  <2>2. Cardinality({}) = 0 /\ Cost({}) = 0 BY FS_EmptySet, CostRecursion
  <2>3. QED BY <2>1, <2>2, ExecutionControlAssumption DEF WithinLimits
<1>3. QED BY <1>1, <1>2, BudgetByWindows DEF BudgetInv

\* Every step keeps the budget.
LEMMA NextBudget == ASSUME IndInv, IndInv', BudgetInv, [Next]_vars PROVE BudgetInv'
<1>1. ASSUME NEW r \in Requests, Evaluate(r) PROVE BudgetInv'
  <2>1. ASSUME NEW c \in ConditionSets, EvaluateSync(r, c) PROVE BudgetInv'
      BY <2>1, EvaluateSyncBudget
  <2>2. ASSUME NEW c \in ConditionSets, EvaluateSyncFails(r, c) PROVE BudgetInv'
      BY <2>2, SyncFailureBudget
  <2>3. ASSUME NEW c \in ConditionSets, Decide(r, c) PROVE BudgetInv'
      BY <2>3, DecideBudget
  <2>4. QED BY <1>1, <2>1, <2>2, <2>3, CallBudget DEF Evaluate
<1>2. CASE Operators \/ (\E i \in Instances : Restart(i)) \/ Tick \/ UNCHANGED vars
  <2>1. req' = req /\ spent' = spent
      BY <1>2 DEF Operators, CastVote, KillSwitch, Revoke, Restart, Tick, vars
  <2>2. clock' = clock \/ clock' = clock + 1
      BY <1>2 DEF Operators, CastVote, KillSwitch, Revoke, Restart, Tick, vars
  <2>3. \A r \in Requests : Spends(r)' => Spends(r) /\ req'[r].at = req[r].at
      BY <2>1 DEF Spends
  <2>4. QED BY <2>1, <2>2, <2>3, QuietBudget DEF IndInv
<1>3. CASE \E i \in Instances : Crash(i) BY <1>3, CrashBudget
<1>4. QED BY <1>1, <1>2, <1>3 DEF Next

(* With a durable budget no instance admits more calls, or spends more,    *)
(* than the policy allows in any window, for any number of requests,       *)
(* concurrent calls, failed writes, crashes and restarts (BudgetGovernor). *)
THEOREM BudgetTheorem == ASSUME BudgetDurable PROVE Spec => []BudgetHolds
<1>1. IndInv /\ IndInv' /\ BudgetInv /\ [Next]_vars => BudgetInv' BY NextBudget
<1>2. BudgetInv => BudgetHolds BY DEF BudgetInv
<1>3. QED BY InitBudget, Invariance, <1>1, <1>2, PTL DEF Spec
=============================================================================
