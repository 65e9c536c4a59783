# Verification of AristotleOS

TLA+ modules, TLC runs and TLAPS proofs for the parts of AristotleOS that decide
whether an agent's action may take effect and that keep the evidence of it.
Paths below are relative to `src/extracted/`; `ECR` stands for
`shared/execution-control-runtime/src`.

## 1. Inventory

AristotleOS is a governance boundary. An agent proposes a *canonical governed
action*; the **Commit Gate** decides `ALLOW`, `REFUSE`, `ESCALATE` or `EXPIRE`
against a Ward manifest and an authority envelope; an `ALLOW` yields a signed,
short-lived **Warrant**; every decision is appended to the hash-chained
**Governance Evidence Ledger (GEL)**. A Warrant is then spent at a dispatch
boundary that tracks whether the effect really happened. At the edge, **mesh**
nodes do the same while cut off from the root and reconcile afterwards.

| Part | State | Operations | What is hard |
|---|---|---|---|
| Commit Gate, fail modes, labels, physical invariants (`ECR/index.ts`, `fail-mode.ts`, `classification.ts`, `degradation.ts`) | none | one evaluation | the first failing condition decides; a soft one may mask a hard one |
| Domain verticals (`ECR/automotive.ts`, `grid.ts`, `pipeline.ts`, ...) | none | turn a plant snapshot and a request into an action | a request overwrites readings; a reading may be missing |
| Evaluate route (`ECR/index.ts`, `budget.ts`, `dual-control.ts`, `revocation.ts`, `postgres-ledger.ts`) | GEL, in-memory index, budget entries, approval file, kill switch, revocation list | evaluate, vote, engage and release, revoke, restart | two awaits between the replay lookup and the record; several instances on one Postgres; failed writes; TTLs and windows |
| Effect store and dispatch boundaries (`ECR/effects.ts`, `proxy.ts`, `adapter-effects.ts`) | SQLite tables of attempts, events, observations; one request on the wire per attempt | begin, markUnknown, reconcile, open, offline verification | crash between reservation and answer; late commits; late, repeated or misdirected observations |
| Mesh runtime (`shared/mesh-runtime`) | root envelopes and revocations; edge caches, tokens, quota counter, local decisions | issue, revoke, grant, propagate, evaluate, pull, reconcile | partitions; every await; asynchronous gossip on two paths |
| Nonce store (`shared/nonce-store`) | Map in memory, append-only file, temporary file | has, add, addAndCheck, size, compact, open | crashes in an append and in a compaction; age boundaries |
| Ledger retention (`shared/gel-archive`) | active file, archive file | archive, restore, verify | a crash between the writes to two files; the writer's index after a restart |
| Edge conflict inbox (`ECR/conflict-inbox.ts`, `reconcile.ts`) | JSON file of items | ingest, resolve | several reports of one action; policy changes; a file overwritten in place |
| agent-os (`services/agent-os`) | missions, tasks, leases, agents in memory with a JSON snapshot | claim, execute, heartbeat, complete, retry, advance, halt, reconcile, autonomy tick, restart | stale task objects written back after awaits; timer against handlers |
| Governance chain (`shared/governance-core`, `services/governance-kernel/src/governance-chain.ts`) | MAEs, Wards, Envelopes, Warrants, bridges, consumed nonces, spend, evidence; a state file | author, issue, suspend, revoke, rotate keys, commit, federated commit, write, restart | answered before it is written; authored again under the same id; cascading revocation |
| Other governance services | their routes' caches | HTTP routes | |
| Event stream (`shared/event-stream`) | subscriptions | publish, dispatch with retries | overlapping dispatches |
| Edge containment, Ward Marshal, credentials, tenants | latches and records of one process | see `PROJECT.json` | |
| Policy language, signing, timestamps, adapters, SDKs, UIs | none, or external | | |

How the parts interact: the evaluate route calls the gate, the budget governor,
the approval store and the ledger backend in one function; the proxy and the
adapter boundary verify a Warrant and its admission record and then use the
effect store; the archiver replaces the file that the boundary's
`FileLedgerBackend` appends to; mesh nodes exchange envelopes, revocations and
decisions by HTTP; the conflict inbox re-evaluates edge decisions with the gate.
`PROJECT.json` lists every component, modelled or not, with the reason, and the
hazards with the line at which each one bites.

What makes each part correct, in one line each:

- gate: worse circumstances never turn a refusal into an admission, and an
  admitted action keeps the Ward's physical bounds;
- boundary: an action is admitted once, within its budget, with its approvals,
  and every answer has exactly one record in an unforked chain;
- effect store: an operation takes effect at most once and a confirmed state is true;
- mesh: the disconnected quota holds, the newest version arrives, late Warrants are
  flagged, decisions reach the root, revocations arrive;
- nonce store: an accepted nonce is refused for `maxAgeMs`;
- retention: no record is lost, restore yields the history or fails;
- inbox: an operator's resolution stands;
- governance chain: a Warrant authorises one act, a revocation is final but for what
  a crash loses or the cascade misses, authority only narrows, and receipts, nonces
  and spend tell one story;
- agent-os: a task is started no more often than its budget, the grants beyond it and
  the starts it has forgotten allow; a completed task has its receipt, answered completions and halts are kept, silent runs are taken back.

## 2. Modules

| Module | Models | Proofs | TLC |
|---|---|---|---|
| `CommitGate` | gate, fail-mode matrix, label lattice as operators | in `GateDegradationProofs` | `GateDegradation`, `MCGateDegradation` |
| `PhysicalInvariants` | the gate's physical bounds, and what snapshots and requests of the verticals supply to them, as operators | in `GateDegradationProofs` | `GateDegradation` |
| `GateDegradation` (extends both) | one action re-submitted while its circumstances get worse | `GateDegradationProofs` | `MCGateDegradation` |
| `ExecutionControl` (extends `CommitGate`) | evaluate route on a local or a Postgres ledger | `ExecutionControlProofs` | `MCExecutionControl` |
| `GovernanceLedger` | abstract: what the boundary promises of its ledger | refined by `ExecutionControl` on a local ledger | |
| `SharedLedger` | abstract: what instances promise of one transactional Postgres ledger | refined by `ExecutionControl` there | |
| `EffectStore` | effect store with its dispatchers, receivers and observers | `EffectStoreProofs` | `MCEffectStore` |
| `OperationEffects` | abstract: what the effect store promises of operations | refined by `EffectStore` | |
| `MeshRuntime` | root, witnesses, edges, links | `MeshRuntimeProofs` | `MCMeshRuntime` |
| `NonceStore` | `FilesystemNonceStore` | `FileStoreProofs` | `MCNonceStore` |
| `GelArchive` | archiver with the ledger's writer | `GelArchiveProofs` | `MCGelArchive` |
| `ConflictInbox` | inbox and reconciliation engine | `FileStoreProofs` | `MCConflictInbox` |
| `GovernanceChain` | governance-core's store and gate, the kernel's routes and state file | `GovernanceChainProofs` | `MCGovernanceChain` |
| `TaskLifecycle` | the tasks of one mission in agent-os, with its timer, its file and the execution gate's kill switch | `TaskLifecycleProofs` | `MCTaskLifecycle` |

An operator whose name has a suffix (`seed_NoAdmitted`) is a mutant: the
definition after it with a plausible bug. Each property is violated when its
mutant replaces the definition; `PROJECT.json` pairs them.

### CommitGate, PhysicalInvariants and GateDegradation

`GateChecks` is the sequence of conditions of `evaluateCommitGate` in the
source's order; `evaluateCommitGate` takes the first that fails. Documents are
reduced to what a condition tells apart (`GateInput`). `resolveFailMode` takes the
most severe entry of the matrix, `dominates` compares labels.

`PhysicalInvariants` lists the comparisons of `evaluatePhysicalInvariants`, vertical
by vertical: a bound is what it demands and the parameters it reads, and where
the code reads `a ?? b` the record holds that order (`Effective`). `Holds` is the
one place that says what each kind accepts; a limit passes without a reading, a
proof does not. `<vertical>Optional` are the readings that `snapshotParams` may leave
out, `<vertical>Requests` the fields of adapter requests that end up under a name a
bound reads, and `ActionParams` the merge of both. Verticals without such requests
have no definition for them.

`LimitsKept` says what an admission promises, and is written without `Holds` and without the
order of `Effective`: each parameter of a bound is outside what is `Excluded`, unless one that
may speak for it (`SpeaksFor`, a relation of its own) is supplied; and the four bounds
that relate two readings (collaborative mode, hazmat endorsement, purpose or consent,
break-glass) have a promise each. A wrong order of `??`, or a wrong comparison, breaks it.
It covers the bounds that the gate knows.

The gate keeps no state, so `GateDegradation` makes its input the state and lets
it get worse: a condition is added, time passes, the Ward is promoted or given
bounds, the label is raised, a reading drifts or is lost, a request is made. It
starts from every combination of criticality, expiry and clearance in `MCInputs`, and
from one plant for each of the bounds the code knows.

### ExecutionControl

A request is a call of the evaluate route; a client's retry is another request
for the same hash. `EvaluateSync` is the synchronous path (`Precedence` is the
order kill switch, revocation, replay, budget, then gate and dual control;
`DecisionEffects` is the budget entry and the approval request). `Lookup`,
`Decide`, `Insert` and `Respond` are the pieces of the asynchronous path between its awaits;
`LinkOf` is the difference between a Postgres transaction and the in-memory tip.
`EvaluateUnanchored` is the short cut when the ledger is unavailable. `AppendFails` is a
connection that is lost before or after the `COMMIT` (`ECR/postgres-ledger.ts:90-119`): the
caller has an error, and the record may still be stored (`orphaned`) or is stored already (`lost`).
`Crash` loses the index, the budget if it has no file, and the calls in progress, whose
`INSERT`s have the same two fates. `Restart` runs `seed`.
The time a vote is judged by is an input, as it is in the route.
`Ledger` and `Shared` map this state to the two abstract ledgers.

### EffectStore

`BeginVerify` and `BeginCommit` are separate because the Warrant is verified
before the transaction. `Dispatch` puts the request on the wire;
`ReceiverSettles` is the receiver, which may act long after the transport has
given up; `Finish` and `FinishFails` are the finalization with and without a
working database. Observers sign statements (`Observe`) that the settled ones
among them are true about the attempt they name; nothing restricts when
or in which order they are reconciled. `verifyEffectEvidence` is the offline verifier.
`OperationEffects` is the store as its callers may think of it: attempts, what has
happened, what is known (`Operations` in `EffectStore` gives the mapping).

### MeshRuntime

A propagation is a task that visits its peers in turn and forks at each
receiver. `EvaluateStart`, `Ping`, `FinishReachable` and `FinishUnreachable` are
`evaluate` cut at its ping; `PullStep` is the auto-pull after a reconnect;
`ReconcileStart/Step/End` is `reconcile` cut at each submission; several calls may
run at once (`Loops`), each over the array it began with: an evaluation pushes onto
that array, and the end of a call replaces it. `Partition` cuts
a set of links, `Heal` restores it. `Tick` does not pass a message older than `Latency`.

### NonceStore, GelArchive, ConflictInbox

Each function that writes a file in one call is one action, and one that writes
in several (`compact`, `archiveGelChain`) is one action per write, with a crash
possible in between. No failure is switched off. History variables record the
ones from which the code does not recover: `tears` and `emptied` in
`NonceStore` (an append torn by a crash, a file lost between unlink and rename),
`events` in `GelArchive` (a crash while copying, a crash between unlink and
rename, a cutoff that leaves an empty file), and in `ConflictInbox` a file found
unreadable ends what `decided` remembers. The properties say which of these each
promise survives.

### GovernanceChain

The store's maps are records by id; authoring an id again replaces what is stored
(`MaeInputs`, `WardInputs`, ... are the bodies clients post). `MarkRevoked` is the
cascade: it revokes every Warrant under an authority at that moment. What was revoked is
remembered outside the store, where a restart does not take it back: `ended` has each
stored Warrant whose authority was revoked, whether the stored documents link it to that
authority (`RunsThrough`) or it only names the MAE (`EndedBy`), `saved` what of this is
in the two files, and `forgotten` what a restart has lost; authoring the MAE anew takes
a Warrant that only named it out of `ended`, issuing the same Warrant again takes it out
too (`Revive`). A commit is split by its outcome (`CommitMissing`, `CommitDenied`,
`CommitEscalated`, `CommitReplayed`, `CommitAllowed`); the federated commit goes through
a bridge agreement first. Routes answer before a queue writes the store (`WriteTmp`,
`Rename`), so `Restart` may go back; `granted`, `lost`, `paid` and `unpaid` count what
was allowed and what the store has forgotten. An Envelope has one currency; an act in
another one is `currencyOk = FALSE`.

### TaskLifecycle

A handler in flight is a slot: the job, the await it is at, the copy of the task
it has read and the copies its loop has still to visit (a set; `First` is the next in the
order of creation). Between two awaits a
handler is one action that reads and writes `mem`; across an await it keeps its
copy, and later writes it back, as the code does. `Tick` is the autonomy timer,
one at a time; `Persist` is the write of the state file, which may fail or be
cut by a crash. Three history variables keep the account of the retry budget: `runs` counts
the starts of each task, `extra` the starts that are granted without `queueTaskRetry`, and
`forgotten` the ones that its stored `attempts` no longer show, because a copy was
written over it (`WritesBack`) or a restart read an older file. The governance services may refuse for any reason and allow only
while the kill switch is off.

## 3. Runs

Twelve runs, all of which pass:

| Run | Shows |
|---|---|
| `gate_degradation` | `WorseNeverAdmits`; `LimitsHold`: whatever drifted, was lost or was requested, an admitted action keeps the promise of the bound its Ward declares, for every bound that the gate knows |
| `execution_local_ledger` | `AdmittedOnce`, `BudgetHolds`, refinement of `GovernanceLedger` (`LedgerSpec`) through failed writes, crashes, kill switch, revocation and degraded answers |
| `execution_postgres` | two instances with transactions and an action under dual control: refinement of `SharedLedger` (`SharedSpec`), `AnswerIsEvidenced` (also when a call failed and its record was stored all the same), `DualControlHolds`, and `ReplayOnlyInLookupWindow`: a second admission only if its lookup preceded the first record |
| `effect_store` | `AtMostOneEffect`, `ReopenSucceeds`, `SettledStaysSettled` |
| `effect_two_operations` | the store implements `OperationEffects` (`OperationsSpec`), so no observation settles another operation's attempt; a fast observer clock does not make the verifier disagree (`EvidenceAgrees`) |
| `mesh_safety` | `QuotaHolds`, `LateWarrantsFlagged`, and `DecisionsReconciled`: no decision is dropped unless a send failed or a `reconcile` was reading a replaced array; with overlapping evaluations, overlapping reconciliations and a partition |
| `mesh_revocation_arrives` | liveness: a noticed partition that ends does not lose a revocation (`RevocationArrives`); `NewestVersionArrives`: with one path that was never cut an edge ends up with the root's newest version, in whatever order versions come on its two paths |
| `nonce_store` | `ReplayRefused` until a line is torn or the file lost; `OneLossPerTear` after torn lines |
| `gel_archive` | `NothingLost` until a crash falls between unlink and rename; `RestoreComplete` also after crashes while copying; `FilesVerify` through rounds without a crash |
| `conflict_inbox` | `ResolutionStands` while the file is readable; `OperatorDecides` always |
| `governance_chain` | `SingleUse`, `DurableIsFinal`, `RevokedNeverAllowed`, `AuthorityNarrows`, `EvidenceAgrees` and `BudgetHolds`, through re-authoring, revocation, key rotation, federation, writes and a crash; `RevokedNeverAllowed` has two exceptions, a revocation that the crash has lost and a Warrant that the cascade has missed |
| `task_lifecycle` | `RetryBudget` (of the starts, not of the stored count), `CompletedHasReceipt`, `DependenciesFirst`, `AcknowledgedIsKept`, `NoSuccessUnderKill`; liveness: a run whose worker is silent is taken back (`StaleRunsTakenBack`) |

### Other disagreements between the code and its comments

Met while modelling. The models follow the code, and the properties above are
stated so that they hold of it.

- *Replay*, `ECR/index.ts:3291`: lookup and append are not one transaction, so two
  concurrent requests for one action on a shared database are both admitted
  (`ReplayOnlyInLookupWindow` says exactly when). `ECR/postgres-ledger.ts:4-6`:
  instances on one database "refuse replays consistently".
- *Physical bounds*, `ECR/index.ts:1220-2507`: a limit whose reading is missing passes
  (only the `require_*` bounds ask for one), so losing an optional reading can admit
  an action that the reading refused; a request hides the reading of the same
  name (`der_export_mw`, `tank_level_pct`, `uv_intensity_pct`, the ELD's
  `remaining_drive_minutes`) or of a less preferred one (`setpoint_psig` before
  `pressure_psig`, `:1417`), the weighbridge request asserts `vgm_verified` by itself
  (`ECR/port.ts:514`), and a measured reefer temperature hides a commanded setpoint
  (`:1581`). The hard interlocks hold only under a Ward that declares bounds (`:1008`).
- *Effect store*, `ECR/effects.ts:312`: no-effect is refused only while the state
  is `IN_FLIGHT`, but an observer's `EFFECT_UNKNOWN` also ends that state (`:313`).
  `:310-311`: "Require the boundary to have marked uncertainty after transport
  completion/failure before no-effect."
- *Gate answers*, `ECR/index.ts:147`: `reclassifyExpire` looks for
  `envelope-expired`, the gate emits `ENVELOPE_EXPIRED` (`:2536`), so no result is
  reclassified. `:120-124` documents `EXPIRE` as the answer to timeouts.
- *Ledger without transactions*, `ECR/postgres-ledger.ts:113`: the tip moves only
  after the awaited `INSERT`, so two requests of one instance fork the chain.
  `ECR/index.ts:2940-2942`: "so the chain stays correct even with concurrent appenders".
- *Lost acknowledgement*, `ECR/postgres-ledger.ts:90-119`: a connection lost after `COMMIT`
  makes the append throw although the record is stored. The caller has an error, a
  retry is refused as a replay, and an `ALLOW` is in the ledger that nobody received.
- *Kill switch*, `ECR/index.ts:3956`: with the ledger unavailable the route answers
  from the fail mode before the switch is read; a `best_effort` Ward is answered
  `ALLOW`. `:901`: "the boundary refuses every action (sovereign halt)."
- *Escalation*, `ECR/dual-control.ts:143`: an expired request is returned and never
  reopened, so the action escalates for ever. `:138`: "ensure a pending request
  exists for the action".
- *Vote clock*, `ECR/index.ts:4220`: the TTL is compared with the time in the
  vote's body. `:3973`: "The execution clock is boundary configuration, never
  caller input."
- *Mesh*, `mesh-runtime/src/index.ts`: a partition without a failed ping is
  followed by no pull (`:1197`; `LIMITATIONS.md:63`: "the edge now auto-recovers");
  the contact time moves before a pull has succeeded, so a pull that is interrupted
  is not repeated for the same interval and a revocation may never arrive (`:1200`;
  `:1267`: "The next reconnect will retry");
  revocations and token expiry are checked before the ping only (`:1159`; `:96`: "the
  edge MUST stop issuing warrants"); `reconcile` empties the list after failed
  sends too (`:1291`; `docs/MESH.md:50`: "Every locally-issued Warrant is reconciled
  with root on heal").
- *Nonce store*, `nonce-store/src/index.ts`: the append after a torn line is lost
  with it (`:293`; `:160`: "survives crash-during-append"); unlink precedes rename
  (`:255`; `:242`: "Rewrite the persistence file atomically."); a nonce of exactly
  `maxAgeMs` is dropped by `compactInternal` and `hydrate` (`:304`) and refused by `has`.
- *Retention*, `gel-archive/src/index.ts`: records are copied before the active
  file is replaced (`:228`; `:204`: "a crash mid-archive leaves either the pre-archive
  state or the post-archive state"); unlink precedes rename (`:101`); a cutoff that
  empties the file makes a restarted boundary begin a second chain (`:161`; `:19`:
  "Both files independently verify"); the replay index knows only the active file
  (`ECR/index.ts:2831`).
- *Conflict inbox*, `ECR/conflict-inbox.ts`: a second report replaces an open item
  and may close it (`:122`; `:24`: "a status change requires an explicit, attributed
  resolve() call"); the file is overwritten in place and an unreadable one counts
  as empty (`:94`; `:28`: "durable across restarts").
- *Governance chain*: a commit is answered before its write is queued, so single
  use holds after a crash only for what was on disk (`governance-chain.ts:192`;
  `shared/governance-core/README.md:101`: "A consumed Warrant can never authorize another
  act"); no route saves a revocation before it answers, so a crash can lose one and the
  Warrant is honoured again (`shared/governance-core/src/revocation.ts:4`: "revocation
  propagates strictly downward"); the cascade reaches a Warrant only through stored Wards
  and Envelopes, so a Warrant whose Ward is missing or was authored again under another
  MAE stays unused, and is honoured once the MAE is authored anew (`:12-14`: "even a missed
  cascade still fails closed"); rotated keys live in memory only, so after a restart records they
  signed do not verify (`governance-chain.ts:63`: "Prior keys remain in the keyring so
  records signed before rotation still verify"); an Envelope with the wildcard
  allows classes its Ward or MAE prohibits by name.
- *agent-os*, `services/agent-os/src/index.ts`: a recovery, a reconciliation and a
  completion of a task that is not running grant attempts beyond `taskMaxAttempts`
  (`docs/api-contracts.md:25`: "until the configured retry budget is exhausted"); a copy
  that is written back after an await lowers the stored count, so a claim and a dispatch, or two
  calls of `execute`, that overlap start a task more often than that without any grant
  (`:2307`, `:2584`); a sweep or a claim
  that writes its copy back can undo a completion, whose receipt stays; a claim
  or completion in flight overwrites the cancellation of a halt; a retried task
  that governance had blocked stays queued and is never dispatched; a claim of a
  task with a stored approval does not ask the gate again, so the kill switch does
  not stop it; a failing write of the state file is logged and the request
  answered (`:230`), and a file that cannot be parsed counts as no state.

### Bounds

Every bound is a constant with a comment in its module. The reasoning behind the
values:

- *Two of what competes.* Two dispatchers, two requests for one hash, two
  instances, two overlapping evaluations: the races are pairwise. A third
  Warrant, request or hash is there to be confused with the first two (same
  nonce, other operation, other cost).
- *A clock that passes each limit once.* Expiry, TTL, window and age are 1 or 2
  ticks and the clock runs to or beyond them, so that "just before", "at" and
  "after" all occur; `nonce_store` runs past `maxAgeMs` with restarts on both sides.
- *Two rounds of each failure.* Two tears, several rounds of archiving of
  five records with an archive of up to six lines, unlimited crashes of dispatchers
  and instances. `mesh_safety` (two overlapping evaluations and two overlapping
  reconciliations, no witness) and `mesh_revocation_arrives` (one witness, so two
  paths) have one partition each (`MaxCuts`), in the latter of the direct link or of both
  links of the edge (`LinkSets`). In the latter a token outlasts the run, so one
  (`MaxTokens`) is as good as several.
- *One bound at a time.* `gate_degradation` watches each physical bound on its own:
  the code checks them independently and returns at the first that fails, and
  every value of the parameters it reads occurs, missing ones included.
- *Chains of authority.* `governance_chain` starts from a stored chain of one MAE,
  Ward and Envelope with a Warrant, and has a second Warrant that may share its
  nonce, two MAE ids, two records, one crash and three posts (issuing a Warrant and
  rotating a key count as two; a post that changes nothing is free): enough for a Warrant to be
  issued again, for its Ward to be moved to another MAE before its own is revoked and
  authored again, and for its consumption or its revocation to be lost.
- *Tasks.* `task_lifecycle` has a mission of two tasks (three in the code; the queue
  is a chain, so the second has a predecessor), one attempt each, two handlers in
  flight, and two events: requests, crashes, failing writes and changes of the
  kill switch taken together. It also starts from a mission that is under way. Two
  overlapping handlers suffice to start a task once more than its stored count
  says: the budget without `forgotten` is violated at these bounds.
- *Counters at their limit.* Budget of two calls and cost two with three
  requests; quota of one disconnected Warrant with two calls.
- Requests, Warrants, observations and nonces are finite, so the systems stop;
  deadlock checking is off where every bounded input can be used up.

Symmetry is used for interchangeable dispatchers, observation ids, calls, nonces,
voters and actions, in safety runs only.

### Fairness

- `MeshRuntime!FairSpec`: weak fairness of propagation, pull and evaluation
  steps (promises settle), of evaluation itself (the agent keeps asking, which is
  what makes an edge ping), and of healing. Nothing is assumed of the clock, of
  issuing or of revoking. `RevocationArrives` also needs `HealAfterNoticed` and
  `Latency` within half of the pull's margin: both are stated in the cfg. Without
  the first the property fails, as said above.
- `TaskLifecycle!FairSpec`: one weak fairness condition for the process as a whole:
  while some handler can go on or the timer can fire, something of it happens.
  Nothing is assumed of a particular handler, of clients, or of the kill switch.

## 4. Proofs

All theorems are about the modules that the runs check, for every value of the
constants that satisfies the module's named `ASSUME`. These say what the code makes
true of them: sets of nodes are finite, an edge has a call to answer, limits are
numbers, a torn file is not a state (`TornAssumption`). Where a theorem needs more,
its statement says so: `LedgerMode` for three theorems about the ledger and
`BudgetDurable` for the budget, because a budget without a file is forgotten by
every crash.

**Effect store** (`EffectStoreProofs`). `EffectAtMostOnce`: an operation takes
effect at most once. Not inductive by itself: a second attempt may begin once the
first is settled without effect, so one needs that attempts of a scope are
serial (`AttemptsSerial`), that a confirmed state is true and stays true
(`ConfirmedIsTrue`), that an attempt has one owner and nothing on the wire before
the owner emits (`AttemptsOwned`, `OneOwner`), and that what observers signed
remains true (`SignedTruthful`). The assumption on the outside is in `Observe`:
settled statements of trusted observers are true when made, and "no effect" is
signed only when the request can no longer commit.

A second invariant, `EvidenceInv`, is about table and chain: every event names a row
and its Warrant (`EventsBound`), every row has an opening event and rows are opened in
their order (`AttemptsOpened`), and each event is one the verifier accepts after the
events before it (`EventOK`). The properties are not inductive without this order: the
verifier reads the chain from the front and knows only what it has read. It gives
`ReopenAlways` and, with `ConfirmedIsTrue`, `EvidenceTrue`; `SettledForever` is the
action property of the same steps.

`OperationsRefinement`: the store implements `OperationEffects`. The mapping keeps of the
table who was attempted and what is known of it (`Outcome`: `AUTHORIZED`, `IN_FLIGHT` and
`EFFECT_UNKNOWN` are all "open") and of the wire what took effect; dispatchers, clocks,
observations and the chain are hidden. `begin` is `Attempt` because the attempts of
an operation are serial, a delayed commit is `TakeEffect` because an attempt
confirmed without effect cannot commit, `reconcile` is `Learn` because what a trusted observer signed
is still true; `markUnknown`, crashes and restarts show nothing.

**Execution control** (`ExecutionControlProofs`). One invariant carries seven
theorems. `RecordsMatch` ties requests to records; `LookupHonest` remembers what
a lookup saw, as a length of the ledger; `IndexCurrent` says that a local index
is the seed of the stored chain, also after restarts; `ApprovalsSound` carries
approvals from the decision to the record across the await. From it follow
`LocalAdmittedOnce` (local ledger), `ReplayWindow` (any ledger), `ChainNeverForks`
(local or transactional), `DualControl`, `Evidenced` (a call that failed after the `COMMIT`
included: it has one record, with the decision that was taken), and `LedgerRefinement`: with a local ledger the
boundary implements `GovernanceLedger`, by step simulation with `ledger <- gel`.

`SharedRefinement` says what is left of that promise when the lookup and the append are
two steps: on Postgres with transactions any number of instances implement `SharedLedger`.
The mapping shows the ledger and `SeenBy`, the length of it that each lookup read; the
decision, budgets, approvals, answers and crashes are hidden. `Insert` is `Record` because the
advisory lock makes the link the tip, because a request that is decided or orphaned has
no record yet (`RecordsMatch`), and because an ALLOW was decided on a lookup that
found nothing (`LookupHonest`). `GovernanceLedger` is not implemented there: two
lookups may both precede the first append, and then one action is admitted twice.

`BudgetTheorem` has an invariant of its own, `BudgetInv`: the durable file has an entry of
every admission that a window still reaches, recorded before the answer. What
`checkBudget` adds up is then never less than what was admitted. The sum is a fold over
a set; that it grows by one request's cost with the request, and never shrinks with
the set, is proved from its recursion by taking a smallest set that would contradict it
(`CostRecursion`, `CostWithout`, `CostMonotonic`).

**Gate** (`GateDegradationProofs`). First its operators, for every input. `GateAdmits` turns
the list of early returns into a conjunction, `MatrixFailsClosed` compares the fail-mode
matrix row by row. From both, `GateMonotonic`: of two submissions, the second under
conditions, clock, criticality, label, clearances, physical verdict and documents that are no
better (`NoBetter`), if the second is admitted so is the first. `AdmittedKeepsLimits`: an
admitted action satisfies `LimitsKept`, for any set of known bounds, any snapshot and any request. Since
the promise does not mention the order in which the code prefers parameters, this needs that
the order of each chain agrees with `SpeaksFor` (`ReadsInOrder`), which is checked
bound by bound.

Then the state machine. `TypeCorrect`: readings and requests hold only parameters that the
watched bound reads, with values such a parameter can have. That is the invariant `LimitsTheorem` needs
beside `AdmittedKeepsLimits`. `WorseNeverAdmitsTheorem` needs in addition that a reading
which leaves its nominal value never makes a bound hold that did not hold
(`DriftNeverHelps`). One drift changes one parameter, hence a comparison reads either what it read
before or the drifted parameter in place of its nominal value (`EffectiveChange`), and the nominal value
is the one that speaks least against the action. `DriftNeverHelps` shows this kind by kind, for every
`WellFormed` bound: of a known kind, over chains of parameters other than the length of
a trip. That the bounds of all verticals are of this form is checked one by one
(`SingleWellFormed` to `VerticalsWellFormed`); the drive-hours rule compares two readings
with each other and has a lemma of its own (`DriftNeverHelpsDriveHours`).

**Nonce store** (`FileStoreProofs`, with the inbox: both keep their state in one file). `ReplayProtection` from the invariant that
memory, file and temporary file each hold every acceptance younger than
`maxAgeMs` whenever the program may rely on them, as long as no line was torn and
no file was lost. `OneLossTheorem` is about what happens when lines are torn. That repeats are at most
tears is not inductive: a tear costs nothing until a line is appended to it, and that
line nothing until its nonce comes again. `TearsInv` keeps the account: repeats, plus
nonces the next process will not remember (`Forgotten(Kept)`), plus a torn line that has not cost
one yet, are at most the tears; and memory has forgotten nothing that the file remembers. Each step
moves an entry of this account or drops it; only a tear adds one.

**Retention** (`GelArchiveProofs`). The invariant has three layers: the archiver's
own variables, whatever happens; each record in one of the files, unless a crash
fell between unlink and rename (`Kept`); and, if nothing worse than crashes while
copying has happened, the active file is the newest part of one chain,
everything older is in the archive, and an archive that verifies is a prefix of
the history. `RecordsKept`, `RestoreIsComplete`, `Atomicity` and `BothVerify` follow.

**Conflict inbox** (`FileStoreProofs`). `ResolutionsStand` and `OperatorsDecide`: the item of an
action an operator has decided is marked as resolved, which `ingest` respects, until the
file is found unreadable.

**Governance chain** (`GovernanceChainProofs`). `Invariance` establishes `IndInv`: in memory,
in the file and in the file being written, the store is well formed, nonces and
receipts correspond one to one, and the cascade is complete (`CascadeComplete`): a Warrant
that was stored when its authority was revoked, as far as that copy has heard of it, is no
longer unused, or the cascade could not reach it and its MAE is still revoked; memory knows every nonce the file knows, and a nonce's uses are the one
that memory knows plus those that crashes made it forget. All three copies are
needed because a restart makes the file the store, and each is judged by its own part of the history
(`ended` less `forgotten`, `saved`). A Warrant that is issued under an authority already revoked is
unused; it is the gate that refuses it, when it reads the authority again. From it follow
`SingleUseTheorem`, `DurableIsFinalTheorem` and `RevokedNeverAllowedTheorem`; `AuthorityNarrowsTheorem`
needs only that what is stored has a body of its type.

`AccountsInv` adds the accounts of the same three copies: what an Envelope has booked is
the total over the evidence and within the largest budget it was given, and what was
allowed is what memory has booked plus what crashes made it forget. `EvidenceTheorem` and
`BudgetTheorem` follow. `TotalBooked` is a recursive function; that it exists, is unique and
grows by the record appended (`TotalIsRunningTotal`, `OneMoreBooked`) is proved by least
counterexample.

**Mesh** (`MeshRuntimeProofs`). `VersionsArrive` has an invariant of its own, `VersionsInv`: no node
and no message is ahead of the root, and a version that an edge or a witness has missed is still
under way on each of its paths that was never cut. When nothing is under way, nothing is missed. The
invariant of the others has a part for each. `QuotaInv`: the counter `sinceContact`
covers the Warrants since the last contact, which is what the check before
an issue reads. `StampsOK` and `AnswersOK`: nothing is stamped later than now, and an answer of the root
is right also for revocations that came after it, because those have later stamps. `PositionsOK`
and `LoopsOK`: a `reconcile()` has settled what it has passed of its array, and while
it reads an array that was replaced, what is kept since is settled or at risk; so `DecisionsReconciled`
survives the end of a call, which replaces the list. Theorems `QuotaBounded`, `LateFlagged`,
`DecisionsKept`. The first is about the Warrants that are tracked (the first `MaxHistory`).

**Tasks** (`TaskLifecycleProofs`). The handlers write back copies that are old, so the
invariant is about every version of a task: in memory, in the file, in each
handler's copy and in its loop. A version is within the budget and the grants (`WithinBudget`),
and its release flag was right when stored (`RightlyReleased`), which stays true because receipts are
never taken back. `HandlerOK` says at which await a handler of each job may be and what it
then holds; `DiskOK` that the file is behind memory. Beside it, `Counted` says that the starts of a task are its stored
attempts plus the forgotten ones: whoever writes a copy moves what the copy does not know from one to
the other (`StartsCounted`). The two give `AttemptsBounded`; from `IndInv` follow
`ReceiptsComplete`, `DependenciesRespected`, `AcknowledgedKept` and `KillSwitchHolds`. The proof
shows once that a step of one handler that only adds receipts keeps the others' copies good
(`HandlerStep`), then goes through the 20 actions.

*Only model-checked.* Liveness (`RevocationArrives`, `StaleRunsTakenBack`): the
prover does not handle fairness. Every other property of the runs has a theorem. The
inductive invariants are not properties of the runs; each was model-checked on an
instance before it was proved.

## 5. Not modelled

Cryptography (a signature is its author's identity, a hash is injective), HTTP
parsing and authentication, metrics and tracing, document formats, evidence
bundles, adapters, SDKs and user interfaces. Of the physical rules: action types
(the hard interlocks are one flag), geometry (a position is inside or outside) and
numbers beyond their place relative to a limit. Within modelled
parts: the mesh's HTTP ingress with its rate limit and its opt-in replay cache
(`mesh-runtime/src/index.ts:403-432`; pings have identical bodies, so with the cache on a second
ping inside its TTL is answered 409 and the edge takes the root for unreachable),
and edge restarts; agent-os's tool actions (two executions of one action both
succeed), leases and agent registration; governor instruments and tenant scoping of the
governance chain; two processes sharing the approval file, the
inbox file or the ledger file; torn lines of the ledger file; `close()` of the
nonce store.

## 6. Plan

Done: the admission path (gate with its physical bounds, boundary, ledger), what
spends a Warrant (effect store), the parts that extend either in space (mesh) or
in time (nonces, retention, inbox), the service-side chain of authority, and the
work the agents do under it (tasks).

Next, in this order:

1. An abstract specification of the nonce store beside those of the ledger and
   of the effect store, with the losses of its two failure modes as actions.
2. An abstract task specification (queued, held, done once) for `TaskLifecycle` to
   refine, and tool actions and leases in it.
3. `LedgerFile`: torn lines, a second appender, the archiver beside it;
   composed with `GelArchive`.
4. The approval file under two processes; `MeshIngress` with its replay cache.
5. Event stream, edge containment, tenant onboarding.
