-------------------------- MODULE ExecutionControl --------------------------
(***************************************************************************)
(* The execution-control boundary (execution-control-runtime/src/index.ts) *)
(* with its replay lookup, budget governor (budget.ts), dual-control       *)
(* approval store (dual-control.ts) and Governance Evidence Ledger, on a   *)
(* local ledger or on PostgreSQL (postgres-ledger.ts).                     *)
(*                                                                         *)
(* Requests reach boundary instances.  With a local ledger the evaluation  *)
(* is one synchronous step.  With an asynchronous ledger it has two        *)
(* awaits, the replay lookup and the append, and the evaluations of one or *)
(* several instances interleave there.  Instances crash and restart; the   *)
(* ledger and the approval file survive.                                   *)
(***************************************************************************)
EXTENDS CommitGate

CONSTANTS
    Instances,     \* boundary processes on one ledger
    Requests,      \* evaluate calls; a client's retry is another request
    Hashes,        \* canonical action hashes
    HashOf,        \* the canonical action of each request
    InstanceOf,    \* the boundary process each request is sent to
    InputOf,       \* what the gate reads of each canonical action
    ConditionSets, \* the degraded conditions a request may meet
    Subject,       \* the acting subject
    Voters,        \* operators who vote, possibly the subject too
    DualHashes,    \* actions whose type is under dual control
    Required,      \* M of the dual-control policy
    TTL,           \* ttlMs of the dual-control policy
    Window,        \* windowMs of the budget policy
    MaxCalls,      \* maxCallsPerWindow
    CostOf,        \* params.cost of each request
    MaxCost,       \* maxCostPerWindow
    BudgetDurable, \* budgetStatePath is configured
    KillSwitchConfigured, \* killSwitchPath is configured
    RevocationConfigured, \* revocationListPath is configured
    LedgerMode,    \* "sync", or Postgres with or without transactions
    MaxTime        \* bound on the clock

ASSUME ExecutionControlAssumption ==
    /\ HashOf \in [Requests -> Hashes]
    /\ InstanceOf \in [Requests -> Instances]
    /\ InputOf \in [Hashes -> GateInput]
    /\ ConditionSets \subseteq SUBSET DegradationCondition
    /\ DualHashes \subseteq Hashes
    /\ Required \in Nat \ {0} /\ TTL \in Nat /\ Window \in Nat
    /\ CostOf \in [Requests -> Nat] /\ MaxCalls \in Nat /\ MaxCost \in Nat
    /\ BudgetDurable \in BOOLEAN /\ MaxTime \in Nat
    /\ KillSwitchConfigured \in BOOLEAN /\ RevocationConfigured \in BOOLEAN
    /\ LedgerMode \in {"sync", "transaction", "fallback"}
    /\ IsFiniteSet(Requests) /\ IsFiniteSet(Voters)

\* A local ledger (JSONL file or SQLite) belongs to one process.
ASSUME LocalLedgerAssumption == LedgerMode = "sync" => \E i \in Instances : Instances = {i}

VARIABLES
    clock,         \* the boundary's clock
    killSwitch,    \* the kill-switch file exists
    revoked,       \* the authority envelope is on the revocation list
    up,            \* the instances that are running
    req,           \* each request's control state and local variables
    gel,           \* the ledger, in storage order
    backend,       \* each instance's in-memory ledger index
    spent,         \* each instance's budget entries
    approvals      \* the approval file

vars == <<clock, killSwitch, revoked, up, req, gel, backend, spent, approvals>>

-----------------------------------------------------------------------------
Decisions == {"ALLOW", "REFUSE", "ESCALATE", "EXPIRE"}

\* new -> answered with a local ledger; new -> looked -> decided -> inserted
\* -> answered on Postgres.  unanchored: answered with no ledger record.
\* failed: the write of a local ledger threw.  orphaned: nobody waits for the
\* outstanding INSERT any more, because the connection broke and the caller has
\* an error, or the process died.  lost: nobody will answer the call.
Pc == {"new", "looked", "decided", "inserted", "answered",
       "unanchored", "failed", "orphaned", "lost"}

Reasons ==
    GateReasons \union {"", "KILL_SWITCH_ENGAGED", "AUTHORITY_REVOKED", "REPLAY_DETECTED",
                        "BUDGET_EXCEEDED", "DUAL_CONTROL_REQUIRED"}

\* seen is the length of the ledger the replay lookup ran against, at the
\* time of the decision, link the tip the record was built on.
Request ==
    [pc : Pc, replaySeen : BOOLEAN, seen : Nat, at : Nat, link : Nat,
     decision : Decisions \union {"none"}, reason : Reasons]

NewRequest ==
    [pc |-> "new", replaySeen |-> FALSE, seen |-> 0, at |-> 0, link |-> 0,
     decision |-> "none", reason |-> ""]

Vote == [by : Voters, decision : {"approve", "reject"}]

ApprovalRequest == [opened : BOOLEAN, votes : SUBSET Vote, expires_at : Nat]

GelRecord ==
    [request : Requests, hash : Hashes, decision : Decisions, previous : Nat]

TypeOK ==
    /\ clock \in Nat
    /\ killSwitch \in BOOLEAN /\ revoked \in BOOLEAN
    /\ up \subseteq Instances
    /\ req \in [Requests -> Request]
    /\ gel \in Seq(GelRecord)
    /\ backend \in [Instances -> [tip : Nat, admitted : SUBSET Hashes]]
    /\ spent \in [Instances -> SUBSET [request : Requests, at : Nat]]
    /\ approvals \in [Hashes -> ApprovalRequest]

Init ==
    /\ clock = 0
    /\ killSwitch = FALSE /\ revoked = FALSE
    /\ up = Instances
    /\ req = [r \in Requests |-> NewRequest]
    /\ gel = <<>>
    /\ backend = [i \in Instances |-> [tip |-> 0, admitted |-> {}]]
    /\ spent = [i \in Instances |-> {}]
    /\ approvals = [h \in Hashes |-> [opened |-> FALSE, votes |-> {}, expires_at |-> 0]]

-----------------------------------------------------------------------------
(* The ledger                                                              *)

\* The hashes that have an ALLOW record.
AdmittedIn(chain) == {chain[k].hash : k \in {j \in DOMAIN chain : chain[j].decision = "ALLOW"}}

\* Mutant: Postgres answers from what this process has appended itself.
hasPriorAdmission_OwnOnly(i, h) ==
    IF LedgerMode = "sync" THEN h \in backend[i].admitted
    ELSE \E k \in DOMAIN gel : /\ gel[k].hash = h /\ gel[k].decision = "ALLOW"
                               /\ InstanceOf[gel[k].request] = i

\* The in-memory index of a local ledger, or the shared table.
hasPriorAdmission(i, h) ==
    IF LedgerMode = "sync" THEN h \in backend[i].admitted ELSE h \in AdmittedIn(gel)

\* Mutant: a restart resumes the chain without reading back what it admitted.
seed_NoAdmitted(chain) == [tip |-> Len(chain), admitted |-> {}]

\* Mutant: a restart starts the chain at genesis again.
seed_GenesisTip(chain) == [tip |-> 0, admitted |-> AdmittedIn(chain)]

\* LedgerIndex.seed, PostgresLedgerBackend.create: rebuild the index.
seed(chain) == [tip |-> Len(chain), admitted |-> AdmittedIn(chain)]

\* buildGelRecord: the decision of request r, linked to a previous record.
buildGelRecord(r, decision, previous) ==
    [request |-> r, hash |-> HashOf[r], decision |-> decision, previous |-> previous]

-----------------------------------------------------------------------------
(* Budget and dual control                                                 *)

\* The entries of instance i inside the rolling window that ends now.
InWindow(i, now) == {e \in spent[i] : e.at >= now - Window}

Cost(requests) == MapThenSumSet(LAMBDA r : CostOf[r], requests)

\* Mutant: the action being admitted is not counted.
checkBudget_OffByOne(r, now) ==
    LET before == {e.request : e \in InWindow(InstanceOf[r], now)}
    IN Cardinality(before) <= MaxCalls /\ Cost(before) <= MaxCost

\* Both limits count the action being admitted.
checkBudget(r, now) ==
    LET before == {e.request : e \in InWindow(InstanceOf[r], now)}
    IN Cardinality(before) + 1 <= MaxCalls /\ Cost(before) + CostOf[r] <= MaxCost

Approvers(a) == {v.by : v \in {w \in a.votes : w.decision = "approve"}}

\* Reject wins, then M distinct approvers, then the TTL.
evaluateApproval(a, now) ==
    IF \E v \in a.votes : v.decision = "reject" THEN "rejected"
    ELSE IF Cardinality(Approvers(a)) >= Required THEN "approved"
    ELSE IF now > a.expires_at THEN "expired" ELSE "pending"

\* ApprovalStore.request: an existing request is returned as it is.
OpenRequest(h, now) ==
    IF approvals[h].opened THEN approvals[h]
    ELSE [opened |-> TRUE, votes |-> {}, expires_at |-> now + TTL]

Satisfied(h, now) ==
    approvals[h].opened /\ evaluateApproval(approvals[h], now) = "approved"

-----------------------------------------------------------------------------
(* The decision                                                            *)

Refused(reason) == [decision |-> "REFUSE", reason |-> reason]

\* Sovereign halt, revocation, replay, budget, then the Commit Gate.
Precedence(r, replaySeen, conditions) ==
    IF killSwitch THEN Refused("KILL_SWITCH_ENGAGED")
    ELSE IF revoked THEN Refused("AUTHORITY_REVOKED")
    ELSE IF replaySeen THEN Refused("REPLAY_DETECTED")
    ELSE IF ~checkBudget(r, clock) THEN Refused("BUDGET_EXCEEDED")
    ELSE evaluateCommitGate(InputOf[HashOf[r]], conditions, clock)

\* Dual control turns an ALLOW that is not yet approved into an escalation.
decideAndWarrant(r, replaySeen, conditions) ==
    LET d == Precedence(r, replaySeen, conditions)
        h == HashOf[r]
    IN IF d.decision = "ALLOW" /\ h \in DualHashes /\ ~Satisfied(h, clock)
       THEN [decision |-> "ESCALATE", reason |-> "DUAL_CONTROL_REQUIRED"]
       ELSE d

\* recordBudget and openDualControlRequest, both before the append.
DecisionEffects(r, d) ==
    LET i == InstanceOf[r]
        h == HashOf[r]
    IN /\ spent' = IF d.decision = "ALLOW"
                   THEN [spent EXCEPT ![i] = InWindow(i, clock)
                                             \union {[request |-> r, at |-> clock]}]
                   ELSE spent
       /\ approvals' = IF d.reason = "DUAL_CONTROL_REQUIRED"
                       THEN [approvals EXCEPT ![h] = OpenRequest(h, clock)]
                       ELSE approvals

-----------------------------------------------------------------------------
(* The evaluate route                                                      *)

\* evaluateExecutionControl: lookup, decision and append in one step.
EvaluateSync(r, conditions) ==
    LET i == InstanceOf[r]
        replaySeen == hasPriorAdmission(i, HashOf[r])
        d == decideAndWarrant(r, replaySeen, conditions)
        answer == reclassifyExpire(d)
        chain == Append(gel, buildGelRecord(r, d.decision, backend[i].tip))
    IN /\ LedgerMode = "sync"
       /\ i \in up /\ req[r].pc = "new"
       /\ "ledger_unavailable" \notin conditions
       /\ DecisionEffects(r, d)
       /\ gel' = chain
       /\ backend' = [backend EXCEPT ![i] =
                        [tip |-> Len(chain),
                         admitted |-> @.admitted \union
                            (IF d.decision = "ALLOW" THEN {HashOf[r]} ELSE {})]]
       /\ req' = [req EXCEPT ![r] =
                    [pc |-> "answered", replaySeen |-> replaySeen, seen |-> Len(gel),
                     at |-> clock, link |-> backend[i].tip,
                     decision |-> answer.decision, reason |-> answer.reason]]
       /\ UNCHANGED <<clock, killSwitch, revoked, up>>

\* The same call when the write throws: the budget entry and the approval
\* request stay, the caller gets an error and no decision.
EvaluateSyncFails(r, conditions) ==
    LET i == InstanceOf[r]
        replaySeen == hasPriorAdmission(i, HashOf[r])
        d == decideAndWarrant(r, replaySeen, conditions)
    IN /\ LedgerMode = "sync"
       /\ i \in up /\ req[r].pc = "new"
       /\ "ledger_unavailable" \notin conditions
       /\ DecisionEffects(r, d)
       /\ req' = [req EXCEPT ![r] =
                    [pc |-> "failed", replaySeen |-> replaySeen, seen |-> Len(gel),
                     at |-> clock, link |-> 0,
                     decision |-> d.decision, reason |-> d.reason]]
       /\ UNCHANGED <<clock, killSwitch, revoked, up, gel, backend>>

\* evaluateExecutionControlAsync, up to the first await.
Lookup(r) ==
    /\ LedgerMode # "sync"
    /\ InstanceOf[r] \in up /\ req[r].pc = "new"
    /\ req' = [req EXCEPT ![r] =
                 [NewRequest EXCEPT !.pc = "looked", !.seen = Len(gel),
                                    !.replaySeen = hasPriorAdmission(InstanceOf[r], HashOf[r])]]
    /\ UNCHANGED <<clock, killSwitch, revoked, up, gel, backend, spent, approvals>>

\* Between the two awaits.  Without transactions the record is built here,
\* on the in-memory tip.
Decide(r, conditions) ==
    LET d == decideAndWarrant(r, req[r].replaySeen, conditions)
    IN /\ InstanceOf[r] \in up /\ req[r].pc = "looked"
       /\ "ledger_unavailable" \notin conditions
       /\ DecisionEffects(r, d)
       /\ req' = [req EXCEPT ![r] =
                    [pc |-> "decided", replaySeen |-> @.replaySeen, seen |-> @.seen,
                     at |-> clock, link |-> backend[InstanceOf[r]].tip,
                     decision |-> d.decision, reason |-> d.reason]]
       /\ UNCHANGED <<clock, killSwitch, revoked, up, gel, backend>>

\* Mutant: the transaction links to the in-memory tip.
LinkOf_MemoryTip(r) == req[r].link

\* Under the advisory lock the tip is read from the table.
LinkOf(r) == IF LedgerMode = "transaction" THEN Len(gel) ELSE req[r].link

\* The database commits the INSERT, perhaps after the caller got an error or the
\* process died.
Insert(r) ==
    /\ req[r].pc \in {"decided", "orphaned"}
    /\ gel' = Append(gel, buildGelRecord(r, req[r].decision, LinkOf(r)))
    /\ req' = [req EXCEPT ![r].pc = IF @ = "decided" THEN "inserted" ELSE "lost"]
    /\ UNCHANGED <<clock, killSwitch, revoked, up, backend, spent, approvals>>

\* Mutant: the caller is answered although the append failed.
AppendFailure_Swallowed(pc) == "answered"

\* What an append that throws leaves the call in: the caller gets an error and no
\* decision, although the INSERT may still commit or has been committed already.
AppendFailure(pc) == IF pc = "decided" THEN "orphaned" ELSE "lost"

\* The query fails, or the connection is lost before or after the COMMIT.
AppendFails(r) ==
    /\ InstanceOf[r] \in up /\ req[r].pc \in {"decided", "inserted"}
    /\ req' = [req EXCEPT ![r].pc = AppendFailure(@)]
    /\ UNCHANGED <<clock, killSwitch, revoked, up, gel, backend, spent, approvals>>

\* After the second await: appendChained sets the tip, the caller is answered.
Respond(r) ==
    LET answer == reclassifyExpire([decision |-> req[r].decision, reason |-> req[r].reason])
    IN /\ InstanceOf[r] \in up /\ req[r].pc = "inserted"
       /\ \E k \in DOMAIN gel :
             /\ gel[k].request = r
             /\ backend' = [backend EXCEPT ![InstanceOf[r]] =
                              [tip |-> k, admitted |-> @.admitted]]
       /\ req' = [req EXCEPT ![r] =
                    [pc |-> "answered", replaySeen |-> @.replaySeen, seen |-> @.seen,
                     at |-> @.at, link |-> @.link,
                     decision |-> answer.decision, reason |-> answer.reason]]
       /\ UNCHANGED <<clock, killSwitch, revoked, up, gel, spent, approvals>>

\* The route's short cut when the ledger cannot be written: the fail mode
\* answers, with no gate, no Warrant and no record.
EvaluateUnanchored(r, conditions) ==
    LET action == resolveFailMode(InputOf[HashOf[r]].criticality, conditions)
    IN /\ InstanceOf[r] \in up /\ req[r].pc = "new"
       /\ "ledger_unavailable" \in conditions
       /\ req' = [req EXCEPT ![r] =
                    [NewRequest EXCEPT !.pc = "unanchored", !.at = clock,
                        !.decision = CASE action = "refuse"   -> "REFUSE"
                                       [] action = "escalate" -> "ESCALATE"
                                       [] OTHER               -> "ALLOW",
                        !.reason = "DEGRADED_MODE"]]
       /\ UNCHANGED <<clock, killSwitch, revoked, up, gel, backend, spent, approvals>>

-----------------------------------------------------------------------------
(* Operators, crashes and time                                             *)

\* Mutant: votes are accepted after the request is settled.
AcceptsVotes_Always(h, now) == TRUE

AcceptsVotes(h, now) == evaluateApproval(approvals[h], now) = "pending"

\* Separation of duties, one vote each.
MayVote(h, by) == by # Subject /\ \A v \in approvals[h].votes : v.by # by

\* POST approvals/decide: the caller may supply the time of the vote.
CastVote(h, by, decision, now) ==
    /\ approvals[h].opened
    /\ AcceptsVotes(h, now) /\ MayVote(h, by)
    /\ approvals' = [approvals EXCEPT ![h] =
                       [opened |-> TRUE, expires_at |-> @.expires_at,
                        votes |-> @.votes \union
                          {[by |-> by, decision |-> decision]}]]
    /\ UNCHANGED <<clock, killSwitch, revoked, up, req, gel, backend, spent>>

\* POST admin/kill, engaged or not.
KillSwitch(engage) ==
    /\ KillSwitchConfigured
    /\ killSwitch # engage
    /\ killSwitch' = engage
    /\ UNCHANGED <<clock, revoked, up, req, gel, backend, spent, approvals>>

\* An operator adds the envelope, or the signing key, to the list.
Revoke ==
    /\ RevocationConfigured
    /\ ~revoked
    /\ revoked' = TRUE
    /\ UNCHANGED <<clock, killSwitch, up, req, gel, backend, spent, approvals>>

\* Calls in progress get no answer; an outstanding INSERT may still commit.
Crash(i) ==
    /\ i \in up
    /\ up' = up \ {i}
    /\ req' = [r \in Requests |->
                 IF InstanceOf[r] = i /\ req[r].pc \in {"looked", "decided", "inserted"}
                 THEN [req[r] EXCEPT !.pc = IF @ = "decided" THEN "orphaned" ELSE "lost"]
                 ELSE req[r]]
    /\ spent' = IF BudgetDurable THEN spent ELSE [spent EXCEPT ![i] = {}]
    /\ UNCHANGED <<clock, killSwitch, revoked, gel, backend, approvals>>

Restart(i) ==
    /\ i \in Instances \ up
    /\ up' = up \union {i}
    /\ backend' = [backend EXCEPT ![i] = seed(gel)]
    /\ UNCHANGED <<clock, killSwitch, revoked, req, gel, spent, approvals>>

Tick ==
    /\ clock < MaxTime
    /\ clock' = clock + 1
    /\ UNCHANGED <<killSwitch, revoked, up, req, gel, backend, spent, approvals>>

Evaluate(r) ==
    \/ \E c \in ConditionSets :
          \/ EvaluateSync(r, c) \/ EvaluateSyncFails(r, c)
          \/ Decide(r, c) \/ EvaluateUnanchored(r, c)
    \/ Lookup(r) \/ Insert(r) \/ AppendFails(r) \/ Respond(r)

Operators ==
    \/ \E h \in Hashes, by \in Voters, d \in {"approve", "reject"}, now \in 0 .. clock :
          CastVote(h, by, d, now)
    \/ \E engage \in BOOLEAN : KillSwitch(engage)
    \/ Revoke

Next ==
    \/ \E r \in Requests : Evaluate(r)
    \/ Operators
    \/ \E i \in Instances : Crash(i) \/ Restart(i)
    \/ Tick

Spec == Init /\ [][Next]_vars

-----------------------------------------------------------------------------
(* Properties                                                              *)

Admission(k) == gel[k].decision = "ALLOW"

(* A canonical action is admitted at most once, through failed appends,    *)
(* crashes and restarts: index.ts says that "identical previously-admitted *)
(* actions are refused as replays", postgres-ledger.ts that instances on   *)
(* one database "refuse replays consistently".                             *)
AdmittedOnce ==
    \A j, k \in DOMAIN gel :
        j < k /\ Admission(j) /\ Admission(k) => gel[j].hash # gel[k].hash

(* What replay protection does give when it awaits: a second admission of  *)
(* an action is possible only if its lookup ran before the first admission *)
(* was in the ledger.                                                      *)
ReplayOnlyInLookupWindow ==
    \A j, k \in DOMAIN gel :
        j < k /\ Admission(j) /\ Admission(k) /\ gel[j].hash = gel[k].hash
            => req[gel[k].request].seen < j

(* verifyGelRecords accepts the ledger in storage order: every record      *)
(* links to the one stored before it, whatever was appended concurrently   *)
(* and whichever process died or restarted in between.                     *)
ChainVerifies == \A k \in DOMAIN gel : gel[k].previous = k - 1

\* The gate has admitted request r, and recorded it in the budget.
Spends(r) == req[r].pc # "unanchored" /\ req[r].decision = "ALLOW"

(* In no window of windowMs, ends included, does an instance admit more    *)
(* than maxCallsPerWindow actions or spend more than maxCostPerWindow,     *)
(* although entries are pruned when others are recorded and the process    *)
(* may restart ("durable so a restart can't reset a quota", budget.ts).    *)
BudgetHolds ==
    \A i \in Instances, t \in 0 .. clock :
        LET admitted == {r \in Requests : /\ InstanceOf[r] = i /\ Spends(r)
                                          /\ req[r].at \in t - Window .. t}
        IN Cardinality(admitted) <= MaxCalls /\ Cost(admitted) <= MaxCost

(* An action under dual control is admitted only with M distinct approvers *)
(* other than the subject and no rejection, and this stays true of it.     *)
DualControlHolds ==
    \A k \in DOMAIN gel :
        Admission(k) /\ gel[k].hash \in DualHashes =>
            LET a == approvals[gel[k].hash]
            IN /\ Cardinality(Approvers(a) \ {Subject}) >= Required
               /\ \A v \in a.votes : v.decision = "approve"

(* A decision is in the caller's hands only if the ledger has its record,  *)
(* with that decision.  No request is recorded twice or with a decision    *)
(* that the boundary did not take, whatever became of its call: not one    *)
(* whose caller got an error or whose process died, and whose INSERT may   *)
(* have been committed all the same.  The answers given without a ledger,  *)
(* and the calls for which a local ledger could not be written, have none  *)
(* (evaluateExecutionControl, evaluateExecutionControlAsync, appendChained).*)
AnswerIsEvidenced ==
    \A r \in Requests :
        LET recs == {k \in DOMAIN gel : gel[k].request = r}
        IN /\ req[r].pc = "answered" => recs # {}
           /\ \A j, k \in recs : j = k /\ gel[k].decision = req[r].decision
           /\ req[r].pc \in {"new", "unanchored", "failed"} => recs = {}

Ledger == INSTANCE GovernanceLedger WITH ledger <- gel

(* With a local ledger the boundary implements the ledger's promise.       *)
LedgerSpec == Ledger!Spec

\* The ledger length that the replay lookup of each request read.
SeenBy ==
    [r \in {q \in Requests : req[q].pc \notin {"new", "unanchored"}} |-> req[r].seen]

Shared == INSTANCE SharedLedger WITH ledger <- gel, seen <- SeenBy

(* Instances on one transactional Postgres ledger implement its promise,   *)
(* through interleaved awaits, failed appends, crashes and INSERTs that    *)
(* commit after their process died.                                        *)
SharedSpec == Shared!Spec
-----------------------------------------------------------------------------
(* The inductive invariant                                                 *)

(* Requests and records correspond: one record for each request, with its  *)
(* decision, written only once the call is past its append.                *)
RecordsMatch ==
    /\ \A j, k \in DOMAIN gel : gel[j].request = gel[k].request => j = k
    /\ \A k \in DOMAIN gel :
          /\ req[gel[k].request].pc \in {"inserted", "answered", "lost"}
          /\ req[gel[k].request].decision = gel[k].decision
    /\ \A r \in Requests :
          req[r].pc \in {"inserted", "answered"} => \E k \in DOMAIN gel : gel[k].request = r

(* A call between its lookup and its record is asynchronous; if it saw no  *)
(* admission there was none then, and if it saw one it is not admitted.    *)
LookupHonest ==
    \A r \in Requests : req[r].pc \in {"looked", "decided", "orphaned"} =>
        /\ LedgerMode # "sync"
        /\ req[r].seen <= Len(gel)
        /\ ~req[r].replaySeen =>
              \A j \in 1 .. req[r].seen : Admission(j) => gel[j].hash # HashOf[r]
        /\ req[r].pc # "looked" => /\ req[r].decision \in Decisions
                                   /\ req[r].decision = "ALLOW" => ~req[r].replaySeen

\* A running process that owns a local ledger has an index of all of it, and
\* answers in the step that records.
IndexCurrent ==
    LedgerMode = "sync" => /\ \A i \in up : backend[i] = seed(gel)
                           /\ \A r \in Requests : req[r].pc # "inserted"

Approved(a) ==
    /\ a.opened /\ Cardinality(Approvers(a)) >= Required
    /\ \A v \in a.votes : v.decision # "reject"

\* Whatever is admitted, or about to be recorded as admitted, is approved.
ApprovalsSound ==
    /\ \A h \in Hashes : \A v \in approvals[h].votes : v.by # Subject
    /\ \A k \in DOMAIN gel :
          Admission(k) /\ gel[k].hash \in DualHashes => Approved(approvals[gel[k].hash])
    /\ \A r \in Requests :
          req[r].pc \in {"decided", "orphaned"} /\ req[r].decision = "ALLOW"
          /\ HashOf[r] \in DualHashes => Approved(approvals[HashOf[r]])

IndInv ==
    /\ TypeOK /\ RecordsMatch /\ LookupHonest /\ IndexCurrent /\ ApprovalsSound
    /\ LedgerMode # "fallback" => ChainVerifies
    /\ LedgerMode = "sync" => AdmittedOnce
    /\ ReplayOnlyInLookupWindow

\* A durable budget has an entry of every admission that a window still
\* reaches, so what checkBudget counts is never less than what was admitted.
BudgetInv ==
    BudgetDurable =>
        /\ BudgetHolds
        /\ \A r \in Requests : Spends(r) =>
              /\ req[r].at <= clock
              /\ req[r].at >= clock - Window =>
                    [request |-> r, at |-> req[r].at] \in spent[InstanceOf[r]]
=============================================================================
