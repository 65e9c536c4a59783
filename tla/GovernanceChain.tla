-------------------------- MODULE GovernanceChain --------------------------
(***************************************************************************)
(* The chain of authority hosted by the governance kernel                  *)
(* (shared/governance-core and services/governance-kernel/src/             *)
(* governance-chain.ts): constitutions (MAEs), Wards, Authority Envelopes  *)
(* and single-use Warrants are authored, revoked and presented to the      *)
(* Commit Gate, which consumes a Warrant, books what it spends and writes  *)
(* evidence.  The store lives in memory; every route answers first and     *)
(* then lets a queue write the store to a file, so a crash goes back to an *)
(* earlier store.                                                          *)
(*                                                                         *)
(* Authoring is idempotent by id: a client that has lost its cache posts   *)
(* the same MAE, Ward and Envelope again and replaces what is stored.      *)
(*                                                                         *)
(* Abstractions.  A primitive's content is a record; the checks of names   *)
(* and forms (ids, origin act, author, ward type, domain, hash of its own  *)
(* content) are its field "sound".  An act is the value its hashes stand   *)
(* for; "facts" says what the constraints and the resource scope make of   *)
(* its resource, context and telemetry.  The hash chain of the evidence is *)
(* the order of the sequence gel.                                          *)
(***************************************************************************)
EXTENDS Integers, Sequences, FiniteSets

CONSTANTS
    MaeIds, WardIds, EnvIds, WarrantIds, Nonces, BridgeIds,
    Keys, PrimaryKey,   \* signing keys, and the one of the configuration
    Wildcard,                \* the wildcard class "*"
    MaeInputs,          \* bodies of the authoring routes
    WardInputs,
    EnvInputs,
    WarrantInputs,
    BridgeInputs,
    CommitRequests,     \* bodies of the commit routes
    Skew,               \* presentationSkewMs
    Founded,            \* bodies of what the state file already holds
    FoundedNonce,       \* the nonce of the Warrants among it
    MaxTime,            \* bound on the clock
    MaxPosts,           \* bound on authoring, revoking and rotating
    MaxRecords,         \* bound on the evidence
    MaxCrashes,         \* bound on the crashes
    NotFound, NoProof, NoWrite

ASSUME ChainAssumption ==
    /\ PrimaryKey \in Keys /\ FoundedNonce \in Nonces /\ NoProof \notin Nonces
    /\ MaxTime \in Nat /\ MaxPosts \in Nat /\ MaxRecords \in Nat /\ MaxCrashes \in Nat

\* The bodies: each kind has ids of its own, and names ids of the others.
ASSUME InputAssumption ==
    /\ \A b \in MaeInputs : b.id \in MaeIds
    /\ \A b \in WardInputs : b.id \in WardIds
    /\ \A b \in EnvInputs : b.id \in EnvIds /\ (b.hasBudget => b.budget \in Int)
    /\ \A b \in BridgeInputs : b.id \in BridgeIds
    /\ \A b \in WarrantInputs :
          /\ b.id \in WarrantIds /\ b.mae \in MaeIds /\ b.ward \in WardIds /\ b.env \in EnvIds
          /\ b.validity \in Nat
    /\ \A r \in CommitRequests :
          /\ r.mae \in MaeIds /\ r.ward \in WardIds /\ r.env \in EnvIds
          /\ r.warrant \in WarrantIds /\ (r.act.priced => r.act.amount \in Int)
    /\ \A b \in Founded :
          /\ b.id \in MaeIds => b \in MaeInputs
          /\ b.id \in WardIds => b \in WardInputs
          /\ b.id \in EnvIds => b \in EnvInputs
          /\ b.id \in WarrantIds => b \in WarrantInputs
          /\ b.id \in BridgeIds => b \in BridgeInputs

VARIABLES
    clock,
    store,    \* InMemoryGovernanceStore
    keyring,  \* the keys the process knows
    signKey,  \* the key it signs with
    tmp,      \* the temporary file of the write under way
    disk,     \* the state file
    granted,  \* how often an act was allowed, per nonce
    lost,     \* how many of these the store has forgotten in a crash
    paid,     \* the amounts allowed, per envelope
    unpaid,   \* how much of it the store has forgotten in a crash
    ended,    \* the Warrants whose authority was revoked
    forgotten,  \* those of them whose revocation a crash has lost
    saved,    \* what of that history is in the temporary and in the state file
    crashes, posts

memory == <<store, keyring, signKey>>
file == <<tmp, disk>>
history == <<granted, lost, paid, unpaid, crashes>>
revocations == <<ended, forgotten, saved>>
vars == <<clock, memory, file, history, revocations, posts>>

\* The primitives as the store keeps them: sealed with a key when authored.
SealedMae(b, k) == [body |-> b, key |-> k, revoked |-> FALSE]
SealedWard(b, k) == [body |-> b, key |-> k, revoked |-> FALSE, suspended |-> FALSE]
SealedEnvelope(b, k) == [body |-> b, key |-> k, revoked |-> FALSE]
SealedAgreement(b, k) == [body |-> b]
SealedWarrant(b, n, k, at) ==
    [body |-> b, nonce |-> n, key |-> k, state |-> "Unused", from |-> at, until |-> at + b.validity]
FoundedWarrant(b, k) == SealedWarrant(b, FoundedNonce, k, 0)

\* What the state file holds of one kind of primitive when the history begins.
Founding(ids, Seal(_, _)) ==
    [x \in ids |-> IF \E b \in Founded : b.id = x
                   THEN Seal(CHOOSE b \in Founded : b.id = x, PrimaryKey)
                   ELSE NotFound]

\* The store the first process starts with: a chain that has been authored,
\* or nothing, and no act yet.
FirstStore ==
    [mae     |-> Founding(MaeIds, SealedMae),
     ward    |-> Founding(WardIds, SealedWard),
     env     |-> Founding(EnvIds, SealedEnvelope),
     warrant |-> Founding(WarrantIds, FoundedWarrant),
     bridge  |-> Founding(BridgeIds, SealedAgreement),
     spent   |-> {},                      \* consumedNonces
     spend   |-> [e \in EnvIds |-> 0],
     gel     |-> <<>>]

Zero(S) == [x \in S |-> 0]

Init ==
    /\ clock = 0
    /\ store = FirstStore /\ disk = FirstStore
    /\ keyring = {PrimaryKey} /\ signKey = PrimaryKey
    /\ tmp = NoWrite
    /\ granted = Zero(Nonces) /\ lost = Zero(Nonces)
    /\ paid = Zero(EnvIds) /\ unpaid = Zero(EnvIds)
    /\ ended = {} /\ forgotten = {} /\ saved = [tmp |-> {}, disk |-> {}]
    /\ crashes = 0 /\ posts = 0

\* The bound: a post that changes nothing is not counted.  Warrants and keys,
\* which add most behaviours, count double.
Bounded(cost) ==
    posts + cost <= MaxPosts /\ posts' = IF store' = store THEN posts ELSE posts + cost

Post == Bounded(1)

\* A Warrant as it was issued, whatever became of it.
Document(x) == [x EXCEPT !.state = "Unused"]

\* For the history: what is in the set is in force again.
Revive(S) == ended' = ended \ S /\ forgotten' = forgotten \ S /\ UNCHANGED saved

-----------------------------------------------------------------------------
(* Authoring: the body is sealed with the active key and put under its id, *)
(* whatever was there.                                                     *)

\* A Warrant that only named the MAE, and was missed when the MAE was
\* revoked, is in force again.
createMae(b) ==
    /\ store' = [store EXCEPT !.mae[b.id] = SealedMae(b, signKey)]
    /\ Revive({x \in ended : ~x.linked /\ x.doc.body.mae = b.id})
    /\ Post /\ UNCHANGED <<clock, keyring, signKey, file, history>>

constituteWard(b) ==
    /\ store' = [store EXCEPT !.ward[b.id] = SealedWard(b, signKey)]
    /\ Post /\ UNCHANGED <<clock, keyring, signKey, file, history, revocations>>

createAuthorityEnvelope(b) ==
    /\ store' = [store EXCEPT !.env[b.id] = SealedEnvelope(b, signKey)]
    /\ Post /\ UNCHANGED <<clock, keyring, signKey, file, history, revocations>>

createFederationAgreement(b) ==
    /\ store' = [store EXCEPT !.bridge[b.id] = SealedAgreement(b, signKey)]
    /\ Post /\ UNCHANGED <<clock, keyring, signKey, file, history, revocations>>

warrantsForEnvelope(e) ==
    {w \in WarrantIds : store.warrant[w] # NotFound /\ store.warrant[w].body.env = e}

\* The chain a Warrant names is not looked at before the commit, but for the
\* quota of its Envelope.  A Warrant may be issued again under its id.
issueWarrant(b, n) ==
    /\ store.env[b.env] # NotFound /\ store.env[b.env].body.hasQuota =>
          Cardinality(warrantsForEnvelope(b.env)) < store.env[b.env].body.quota
    /\ store' = [store EXCEPT !.warrant[b.id] = SealedWarrant(b, n, signKey, clock)]
    /\ Revive({x \in ended : x.doc = SealedWarrant(b, n, signKey, clock)})
    /\ Bounded(2) /\ UNCHANGED <<clock, keyring, signKey, file, history>>

\* The new key is only in memory, and nothing asks for a write.
rotateSigningKey(k) ==
    /\ keyring' = keyring \union {k} /\ signKey' = k
    /\ signKey # k /\ posts + 2 <= MaxPosts /\ posts' = posts + 2
    /\ UNCHANGED <<clock, store, file, history, revocations>>

-----------------------------------------------------------------------------
(* Revocation.  The kernel has no route for it: the program that embeds    *)
(* the store calls it, and a later write saves it.                         *)

wardsForMae(m) ==
    {d \in WardIds : store.ward[d] # NotFound /\ store.ward[d].body.mae = m}

envelopesForWard(d) ==
    {e \in EnvIds : store.env[e] # NotFound /\ store.env[e].body.ward = d}

warrantsForWard(d) ==
    {w \in WarrantIds : store.warrant[w] # NotFound /\ store.warrant[w].body.ward = d}

\* The authority of a stored Warrant runs through one of the MAEs M, Wards D
\* or Envelopes E: it names the Envelope or the Ward, the Envelope is under
\* the Ward, or one of these Wards is under the MAE.
RunsThrough(w, M, D, E) ==
    LET x == store.warrant[w].body
        wards == {x.ward} \union
                   (IF store.env[x.env] = NotFound THEN {} ELSE {store.env[x.env].body.ward})
    IN  \/ x.env \in E
        \/ wards \intersect D # {}
        \/ \E d \in wards \intersect WardIds : store.ward[d] # NotFound /\ store.ward[d].body.mae \in M

\* For the history: the Warrants that end with top, which the operator has
\* revoked.  One that is not linked names the MAE, but none of the Wards
\* stored for it is the Warrant's.
EndedBy(top) ==
    LET stored == {w \in WarrantIds : store.warrant[w] # NotFound}
        linked == {w \in stored : w \in top.W \/ RunsThrough(w, top.M, top.D, top.E)}
        named == {w \in stored : store.warrant[w].body.mae \in top.M}
    IN  {[doc |-> Document(store.warrant[w]), linked |-> TRUE] : w \in linked}
        \union {[doc |-> Document(store.warrant[w]), linked |-> FALSE] : w \in named \ linked}

\* Marks what a cascade has reached: MAEs M, Wards D, Envelopes E, and of the
\* Warrants W those that are unused.
MarkRevoked(M, D, E, W, top) ==
    LET Marked(f, S) == [x \in DOMAIN f |-> IF x \in S THEN [f[x] EXCEPT !.revoked = TRUE] ELSE f[x]]
    IN  /\ store' = [store EXCEPT
              !.mae  = Marked(store.mae, M),
              !.ward = Marked(store.ward, D),
              !.env  = Marked(store.env, E),
              !.warrant = [w \in WarrantIds |->
                  IF w \in W /\ store.warrant[w] # NotFound /\ store.warrant[w].state = "Unused"
                  THEN [store.warrant[w] EXCEPT !.state = "Revoked"]
                  ELSE store.warrant[w]]]
        /\ ended' = ended \union EndedBy(top)
        /\ forgotten' = forgotten \ EndedBy(top)
        /\ UNCHANGED saved

Top(M, D, E, W) == [M |-> M, D |-> D, E |-> E, W |-> W]

revokeWarrant(w) ==
    /\ store.warrant[w] # NotFound /\ store.warrant[w].state = "Unused"
    /\ MarkRevoked({}, {}, {}, {w}, Top({}, {}, {}, {w}))
    /\ Post /\ UNCHANGED <<clock, keyring, signKey, file, history>>

\* Mutant: the Warrants of the Envelope are left to the Commit Gate.
revokeEnvelope_NoCascade(e) ==
    /\ store.env[e] # NotFound
    /\ MarkRevoked({}, {}, {e}, {}, Top({}, {}, {e}, {}))
    /\ Post /\ UNCHANGED <<clock, keyring, signKey, file, history>>

revokeEnvelope(e) ==
    /\ store.env[e] # NotFound
    /\ MarkRevoked({}, {}, {e}, warrantsForEnvelope(e), Top({}, {}, {e}, {}))
    /\ Post /\ UNCHANGED <<clock, keyring, signKey, file, history>>

\* The Envelopes and the Warrants of the Wards D.
EnvelopesUnder(D) == UNION {envelopesForWard(d) : d \in D}
WarrantsUnder(D) ==
    UNION ({warrantsForEnvelope(e) : e \in EnvelopesUnder(D)} \union {warrantsForWard(d) : d \in D})

revokeWard(d) ==
    /\ store.ward[d] # NotFound
    /\ MarkRevoked({}, {d}, EnvelopesUnder({d}), WarrantsUnder({d}), Top({}, {d}, {}, {}))
    /\ Post /\ UNCHANGED <<clock, keyring, signKey, file, history>>

revokeMae(m) ==
    /\ store.mae[m] # NotFound
    /\ MarkRevoked({m}, wardsForMae(m), EnvelopesUnder(wardsForMae(m)),
                   WarrantsUnder(wardsForMae(m)), Top({m}, {}, {}, {}))
    /\ Post /\ UNCHANGED <<clock, keyring, signKey, file, history>>

suspendWard(d) ==
    /\ store.ward[d] # NotFound
    /\ store' = [store EXCEPT !.ward[d].suspended = TRUE]
    /\ Post /\ UNCHANGED <<clock, keyring, signKey, file, history, revocations>>

-----------------------------------------------------------------------------
(* The validators.  m, d, e, w are the stored MAE, Ward, Envelope and      *)
(* Warrant, r the request.                                                 *)

isSubsetOf(sub, super) == Wildcard \in super \/ sub \subseteq super

\* Signed by a key that the process knows and that the MAE declares, if it
\* declares any.
verifyObjectSignatures(x, m) ==
    x.key \in keyring /\ (m.body.keys = {} \/ x.key \in m.body.keys)

\* lifecycle: not revoked, effective, not expired.
Live(x) == ~x.revoked /\ x.body.from <= clock /\ clock <= x.body.until

validateMae(m) == m.body.sound /\ verifyObjectSignatures(m, m) /\ Live(m)

validateWardUnderMae(d, m) ==
    /\ d.body.mae = m.body.id /\ Live(m)
    /\ d.body.sound
    /\ d.body.depth <= m.body.depth
    /\ isSubsetOf(d.body.permitted, m.body.permitted)
    /\ verifyObjectSignatures(d, m) /\ Live(d) /\ ~d.suspended

\* Mutant: the classes of the Envelope are not compared with those of the Ward.
validateEnvelopeUnderWard_AnyClass(e, d, m) ==
    /\ e.body.ward = d.body.id /\ e.body.mae = m.body.id
    /\ e.body.allowed \intersect (d.body.prohibited \union m.body.prohibited) = {}
    /\ e.body.limit <= d.body.ceiling
    /\ e.body.depth <= d.body.depth /\ e.body.depth <= m.body.depth
    /\ e.body.sound /\ verifyObjectSignatures(e, m) /\ Live(e)

\* A wildcard is compared with the prohibited classes like any other name.
validateEnvelopeUnderWard(e, d, m) ==
    /\ e.body.ward = d.body.id /\ e.body.mae = m.body.id
    /\ isSubsetOf(e.body.allowed, d.body.permitted)
    /\ isSubsetOf(e.body.allowed, m.body.permitted)
    /\ e.body.allowed \intersect (d.body.prohibited \union m.body.prohibited) = {}
    /\ e.body.limit <= d.body.ceiling
    /\ e.body.depth <= d.body.depth /\ e.body.depth <= m.body.depth
    /\ e.body.sound /\ verifyObjectSignatures(e, m) /\ Live(e)

\* The time the request says it was presented at.
PresentedInTime(w, r) ==
    /\ clock - Skew <= r.presented /\ r.presented <= clock + Skew
    /\ w.from <= r.presented /\ r.presented <= w.until

validateWarrant(w, e, d, m, r) ==
    /\ w.body.mae = m.body.id /\ w.body.ward = d.body.id /\ w.body.env = e.body.id
    /\ w.body.act = r.act               \* action id, parameters, context, telemetry
    /\ w.state = "Unused"
    /\ w.from <= clock /\ clock <= w.until
    /\ w.until - w.from <= d.body.maxValidity
    /\ PresentedInTime(w, r)
    /\ isSubsetOf({w.body.act.class}, e.body.allowed)
    /\ w.body.act.class \notin e.body.prohibited
    /\ r.act.priced => r.act.amount <= e.body.limit
    /\ verifyObjectSignatures(w, m)

chainIsIntact(w, e, d, m, r) ==
    /\ validateMae(m) /\ validateWardUnderMae(d, m)
    /\ validateEnvelopeUnderWard(e, d, m) /\ validateWarrant(w, e, d, m, r)

-----------------------------------------------------------------------------
(* The Commit Gate.  A request names a chain of ids and an act:            *)
(* [gate, mae, ward, env, warrant, act, presented].                        *)

\* writeRecord and finalizeAndAppend.
GelRecord(decision, r, proof, booked) ==
    [decision |-> decision, kind |-> "admissibility", env |-> r.env,
     proof |-> proof, booked |-> booked]

Refusal(s, decision, r) ==
    [s EXCEPT !.gel = Append(@, GelRecord(decision, r, NoProof, 0))]

\* A primitive the request names is not there.
Missing(r) ==
    \/ ~r.gate
    \/ store.mae[r.mae] = NotFound \/ store.ward[r.ward] = NotFound
    \/ store.env[r.env] = NotFound \/ store.warrant[r.warrant] = NotFound

\* Mutant: the limit is compared with what is booked without this act.
WithinBudget_Before(e, r) ==
    e.body.hasBudget /\ r.act.priced =>
        r.act.currencyOk /\ store.spend[r.env] <= e.body.budget

\* The cumulative budget is compared with what is booked and this act.
WithinBudget(e, r) ==
    e.body.hasBudget /\ r.act.priced =>
        r.act.currencyOk /\ store.spend[r.env] + r.act.amount <= e.body.budget

\* An escalation rule of the Envelope meets the facts.
Escalates(r) == r.act.facts \in store.env[r.env].body.escalates

\* No violation was found.
Admissible(r) ==
    LET m == store.mae[r.mae]
        d == store.ward[r.ward]
        e == store.env[r.env]
        w == store.warrant[r.warrant]
    IN  /\ chainIsIntact(w, e, d, m, r)
        /\ r.act.class = w.body.act.class
        /\ isSubsetOf({r.act.class}, e.body.allowed)
        /\ r.act.facts # "outside"   \* boundary, geography, limits, telemetry, deny rules
        /\ WithinBudget(e, r)

\* The id is unknown: refused, with evidence.
CommitMissing(r) ==
    /\ Missing(r)
    /\ store' = Refusal(store, "FailClosed", r)
    /\ UNCHANGED <<granted, paid>>

\* The store, with an unused Warrant that is past its time latched as expired.
latchExpiredWarrant(r) ==
    IF store.warrant[r.warrant].state = "Unused" /\ clock > store.warrant[r.warrant].until
    THEN [store EXCEPT !.warrant[r.warrant].state = "Expired"]
    ELSE store

\* A Ward may ask not to have denials recorded.
CommitDenied(r) ==
    /\ ~Missing(r) /\ ~Admissible(r)
    /\ store' = IF store.ward[r.ward].body.recordsDenials
                THEN Refusal(latchExpiredWarrant(r), "Deny", r)
                ELSE latchExpiredWarrant(r)
    /\ UNCHANGED <<granted, paid>>

CommitEscalated(r) ==
    /\ ~Missing(r) /\ Admissible(r)
    /\ Escalates(r)
    /\ store' = Refusal(store, "Escalate", r)
    /\ UNCHANGED <<granted, paid>>

\* consumeWarrant throws: the nonce was consumed under another Warrant.
CommitReplayed(r) ==
    /\ ~Missing(r) /\ Admissible(r)
    /\ ~Escalates(r)
    /\ store.warrant[r.warrant].nonce \in store.spent
    /\ store' = Refusal(store, "FailClosed", r)
    /\ UNCHANGED <<granted, paid>>

\* What the act adds to what is booked for its Envelope.
Booked(r) ==
    IF store.env[r.env].body.hasBudget /\ r.act.priced THEN r.act.amount ELSE 0

\* Mutant: consumption is in the state of the Warrant only.
CommitAllowed_NoNonce(r) ==
    LET n == store.warrant[r.warrant].nonce IN
    /\ ~Missing(r) /\ Admissible(r) /\ ~Escalates(r)
    /\ store' = [store EXCEPT
          !.warrant[r.warrant].state = "Consumed",
          !.spend[r.env] = @ + Booked(r),
          !.gel = Append(@, GelRecord("Allow", r, n, Booked(r)))]
    /\ granted' = [granted EXCEPT ![n] = @ + 1]
    /\ paid' = [paid EXCEPT ![r.env] = @ + Booked(r)]

\* Mutant: the amount is booked only once the receipt could be read back.
CommitAllowed_NotBooked(r) ==
    LET n == store.warrant[r.warrant].nonce IN
    /\ ~Missing(r) /\ Admissible(r) /\ ~Escalates(r)
    /\ n \notin store.spent
    /\ store' = [store EXCEPT
          !.warrant[r.warrant].state = "Consumed",
          !.spent = @ \union {n},
          !.gel = Append(@, GelRecord("Allow", r, n, Booked(r)))]
    /\ granted' = [granted EXCEPT ![n] = @ + 1]
    /\ paid' = [paid EXCEPT ![r.env] = @ + Booked(r)]

\* consumeWarrant, recordSpend and the receipt, in one synchronous step.
CommitAllowed(r) ==
    LET n == store.warrant[r.warrant].nonce IN
    /\ ~Missing(r) /\ Admissible(r)
    /\ ~Escalates(r)
    /\ n \notin store.spent
    /\ store' = [store EXCEPT
          !.warrant[r.warrant].state = "Consumed",
          !.spent = @ \union {n},
          !.spend[r.env] = @ + Booked(r),
          !.gel = Append(@, GelRecord("Allow", r, n, Booked(r)))]
    /\ granted' = [granted EXCEPT ![n] = @ + 1]
    /\ paid' = [paid EXCEPT ![r.env] = @ + Booked(r)]

evaluateCommit(r) ==
    /\ Len(store.gel) < MaxRecords
    /\ \/ CommitMissing(r) \/ CommitDenied(r) \/ CommitEscalated(r)
       \/ CommitReplayed(r) \/ CommitAllowed(r)
    /\ UNCHANGED <<clock, keyring, signKey, file, lost, unpaid, crashes, revocations, posts>>

\* The bridge between two constitutions.  Its own signature is not checked.
validateFederation(b, r) ==
    LET x == b.body IN
    /\ store.mae[x.localMae] # NotFound /\ store.mae[x.foreignMae] # NotFound
    /\ Live(store.mae[x.localMae]) /\ Live(store.mae[x.foreignMae])
    /\ store.mae[x.localMae].body.federates
    /\ x.foreignMae \in store.mae[x.localMae].body.trusts
    /\ clock <= x.until
    /\ r.ward \in {x.localWard, x.foreignWard}
    /\ isSubsetOf({r.act.class}, x.classes)
    /\ r.act.shared                       \* zone and jurisdiction
    /\ x.exportable /\ store.mae[x.foreignMae].body.exportable

\* Refused with evidence, or handed to the Commit Gate.
evaluateFederatedCommit(b, r) ==
    \/ /\ Len(store.gel) < MaxRecords
       /\ \/ /\ store.bridge[b] = NotFound
             /\ store' = Refusal(store, "FailClosed", r)
          \/ /\ store.bridge[b] # NotFound /\ ~validateFederation(store.bridge[b], r)
             /\ store' = Refusal(store, "Deny", r)
       /\ UNCHANGED <<clock, keyring, signKey, file, history, revocations, posts>>
    \/ /\ store.bridge[b] # NotFound /\ validateFederation(store.bridge[b], r)
       /\ evaluateCommit(r)

\* The outcome of an allowed act, as a record of its own.
recordExecutionOutcome(i) ==
    /\ Len(store.gel) < MaxRecords
    /\ store.gel[i].decision = "Allow" /\ store.gel[i].kind = "admissibility"
    /\ store' = [store EXCEPT !.gel =
         Append(@, [decision |-> "Allow", kind |-> "execution", env |-> store.gel[i].env,
                    proof |-> NoProof, booked |-> 0])]
    /\ UNCHANGED <<clock, keyring, signKey, file, history, revocations, posts>>

-----------------------------------------------------------------------------
(* Persistence.  Every route that changes the store answers and then adds  *)
(* a write to the queue; one write runs after the other, and saves the     *)
(* store as it is when the write begins.                                   *)

WriteTmp ==
    /\ tmp = NoWrite /\ store # disk
    /\ tmp' = store
    /\ saved' = [saved EXCEPT !.tmp = ended \ forgotten]
    /\ UNCHANGED <<clock, memory, disk, history, ended, forgotten, posts>>

Rename ==
    /\ tmp # NoWrite
    /\ disk' = tmp /\ tmp' = NoWrite
    /\ saved' = [tmp |-> {}, disk |-> saved.tmp]
    /\ UNCHANGED <<clock, memory, history, ended, forgotten, posts>>

\* Mutant: consumedNonces is not part of what is loaded.
Loaded_NoNonces == [disk EXCEPT !.spent = {}]

\* loadSnapshot.
Loaded == disk

\* The process dies, and createGovernanceChain starts another one: the state
\* file, the key of the configuration, and a first write.
Restart ==
    /\ crashes < MaxCrashes /\ crashes' = crashes + 1
    /\ store' = Loaded
    /\ keyring' = {PrimaryKey} /\ signKey' = PrimaryKey
    /\ tmp' = NoWrite
    /\ lost' = [n \in Nonces |->
                  lost[n] + IF n \in store.spent \ disk.spent THEN 1 ELSE 0]
    /\ unpaid' = [e \in EnvIds |-> unpaid[e] + (store.spend[e] - disk.spend[e])]
    /\ forgotten' = ended \ saved.disk
    /\ saved' = [saved EXCEPT !.tmp = {}]
    /\ UNCHANGED <<clock, disk, granted, paid, ended, posts>>

Tick == clock < MaxTime /\ clock' = clock + 1 /\ UNCHANGED <<memory, file, history, revocations, posts>>

Next ==
    \/ \E b \in MaeInputs : createMae(b)
    \/ \E b \in WardInputs : constituteWard(b)
    \/ \E b \in EnvInputs : createAuthorityEnvelope(b)
    \/ \E b \in BridgeInputs : createFederationAgreement(b)
    \/ \E b \in WarrantInputs, n \in Nonces : issueWarrant(b, n)
    \/ \E k \in Keys : rotateSigningKey(k)
    \/ \E w \in WarrantIds : revokeWarrant(w)
    \/ \E e \in EnvIds : revokeEnvelope(e)
    \/ \E d \in WardIds : revokeWard(d) \/ suspendWard(d)
    \/ \E m \in MaeIds : revokeMae(m)
    \/ \E r \in CommitRequests :
          evaluateCommit(r) \/ \E b \in BridgeIds : evaluateFederatedCommit(b, r)
    \/ \E i \in DOMAIN store.gel : recordExecutionOutcome(i)
    \/ WriteTmp \/ Rename \/ Restart \/ Tick

Spec == Init /\ [][Next]_vars

-----------------------------------------------------------------------------
(* Properties                                                              *)

\* The receipts of the allowed acts in a store.
Receipts(s) == {i \in DOMAIN s.gel : s.gel[i].proof # NoProof}

\* What a store holds.
Maes == [body : MaeInputs, key : Keys, revoked : BOOLEAN]
Wards == [body : WardInputs, key : Keys, revoked : BOOLEAN, suspended : BOOLEAN]
Envelopes == [body : EnvInputs, key : Keys, revoked : BOOLEAN]
Warrants ==
    [body : WarrantInputs, nonce : Nonces, key : Keys, from : Nat, until : Int,
     state : {"Unused", "Consumed", "Expired", "Revoked"}]
GelRecords ==
    [decision : {"Allow", "Deny", "Escalate", "FailClosed"}, kind : {"admissibility", "execution"},
     env : EnvIds, proof : Nonces \union {NoProof}, booked : Int]

Stores ==
    [mae : [MaeIds -> {NotFound} \union Maes], ward : [WardIds -> {NotFound} \union Wards],
     env : [EnvIds -> {NotFound} \union Envelopes],
     warrant : [WarrantIds -> {NotFound} \union Warrants],
     bridge : [BridgeIds -> {NotFound} \union [body : BridgeInputs]],
     spent : SUBSET Nonces, spend : [EnvIds -> Int], gel : Seq(GelRecords)]

\* Type invariant: what is stored under an id has that id.
StoreOK(s) ==
    /\ s \in Stores
    /\ \A m \in MaeIds : s.mae[m] # NotFound => s.mae[m].body.id = m
    /\ \A d \in WardIds : s.ward[d] # NotFound => s.ward[d].body.id = d
    /\ \A e \in EnvIds : s.env[e] # NotFound => s.env[e].body.id = e
    /\ \A w \in WarrantIds : s.warrant[w] # NotFound => s.warrant[w].body.id = w

Ended == [doc : Warrants, linked : BOOLEAN]

TypeOK ==
    /\ clock \in Nat /\ crashes \in Nat /\ posts \in Nat
    /\ keyring \subseteq Keys /\ signKey \in keyring
    /\ granted \in [Nonces -> Nat] /\ lost \in [Nonces -> Nat]
    /\ paid \in [EnvIds -> Int] /\ unpaid \in [EnvIds -> Int]
    /\ StoreOK(store) /\ StoreOK(disk)
    /\ ended \subseteq Ended /\ saved \in [tmp : SUBSET Ended, disk : SUBSET Ended]

\* A nonce authorises one act, and one more for every time a crash made the
\* store forget that it was consumed (store.ts: consumedNonces must round-trip
\* so that single-use enforcement survives a restart).
SingleUse == \A n \in Nonces : granted[n] <= 1 + lost[n] /\ lost[n] <= crashes

\* Once the consumption of a nonce is in the state file no later step, crash,
\* restart or re-issued Warrant authorises another act with it.
DurableIsFinal ==
    [][\A n \in disk.spent : granted'[n] = granted[n] /\ n \in disk'.spent]_vars

\* A nonce is consumed exactly when one receipt proves it, and the nonce of a
\* consumed Warrant is.
ReceiptsAgree(s) ==
    /\ s.spent = {s.gel[i].proof : i \in Receipts(s)}
    /\ \A i, j \in Receipts(s) : s.gel[i].proof = s.gel[j].proof => i = j
    /\ \A w \in WarrantIds :
          s.warrant[w] # NotFound /\ s.warrant[w].state = "Consumed" => s.warrant[w].nonce \in s.spent

\* The total of what the records book for Envelope e.
TotalBooked(e, gel) ==
    LET upTo[i \in 0 .. Len(gel)] ==
            IF i = 0 THEN 0 ELSE upTo[i - 1] + IF gel[i].env = e THEN gel[i].booked ELSE 0
    IN  upTo[Len(gel)]

\* In memory and in the state file, through crashes and restarts, the nonces,
\* the Warrants, what is booked and the evidence tell one story (README: operator
\* state, metrics and GEL snapshots agree with commit-boundary admissibility).
EvidenceAgrees ==
    \A s \in {store, disk} :
        /\ ReceiptsAgree(s)
        /\ \A e \in EnvIds : s.spend[e] = TotalBooked(e, s.gel)

\* What has been allowed under an Envelope, less what a crash made the store
\* forget, never exceeds the largest budget the Envelope was ever given.
Budgets(e) == {0} \union {b.budget : b \in {x \in EnvInputs : x.id = e /\ x.hasBudget}}

BudgetHolds == \A e \in EnvIds : \E c \in Budgets(e) : paid[e] - unpaid[e] <= c

\* A step that allows an act under Warrant w.
Allows(w) ==
    /\ granted' # granted
    /\ store.warrant[w] # NotFound /\ store.warrant[w].state = "Unused"
    /\ store'.warrant[w].state = "Consumed"

\* A Warrant that was revoked, or an authority above it, is not honoured
\* again, though the same authority is authored anew under its id, through
\* writes, crashes and restarts (revocation.ts: revocation propagates strictly
\* downward).  Two exceptions are the ones the code has: a crash has lost the
\* revocation, which no route saves before it answers; and the Warrant names
\* the revoked MAE without a stored Ward between them, so that the cascade
\* missed it, and the MAE was authored anew.
RevokedNeverAllowed ==
    [][\A w \in WarrantIds : Allows(w) =>
         \A x \in ended \ forgotten : x.doc # Document(store.warrant[w])]_vars

\* Authority only narrows: the class of an allowed act is permitted by the Ward
\* and by the MAE, and prohibited by one of them only if the Envelope allows
\* the wildcard instead of naming it.
AuthorityNarrows ==
    [][\A w \in WarrantIds : Allows(w) =>
         LET x == store.warrant[w].body
             e == store.env[x.env].body
             d == store.ward[x.ward].body
             m == store.mae[x.mae].body
         IN  /\ {x.act.class, Wildcard} \intersect d.permitted # {}
             /\ {x.act.class, Wildcard} \intersect m.permitted # {}
             /\ x.act.class \in d.prohibited \union m.prohibited => Wildcard \in e.allowed]_vars

\* No Warrant of a store is unused whose authority was revoked, as far as the
\* history H of the store goes, unless the revocation missed it: then the MAE
\* it names is revoked.
CascadeComplete(s, H) ==
    \A w \in WarrantIds, x \in H :
        s.warrant[w] # NotFound /\ s.warrant[w].state = "Unused" /\ x.doc = Document(s.warrant[w])
          => ~x.linked /\ s.mae[x.doc.body.mae].revoked

\* The inductive invariant: a store is sound wherever it is, memory knows every
\* nonce the state file knows, and the uses of a nonce are the one that memory
\* knows and the ones crashes have made it forget.
IndInv ==
    /\ TypeOK
    /\ ReceiptsAgree(store) /\ CascadeComplete(store, ended \ forgotten)
    /\ ReceiptsAgree(disk) /\ CascadeComplete(disk, saved.disk)
    /\ tmp # NoWrite => StoreOK(tmp) /\ ReceiptsAgree(tmp) /\ CascadeComplete(tmp, saved.tmp)
    /\ disk.spent \subseteq store.spent
    /\ tmp # NoWrite => disk.spent \subseteq tmp.spent /\ tmp.spent \subseteq store.spent
    /\ \A n \in Nonces :
          /\ granted[n] = lost[n] + (IF n \in store.spent THEN 1 ELSE 0)
          /\ lost[n] <= crashes

\* The accounts of a store: what is booked is what the evidence says, and
\* within the largest budget.
AccountsOK(s) ==
    \A e \in EnvIds : /\ s.spend[e] = TotalBooked(e, s.gel)
                      /\ \E c \in Budgets(e) : s.spend[e] <= c

\* The accounts are in order wherever a store is, and what has been allowed is
\* what memory has booked and what crashes have made it forget.
AccountsInv ==
    /\ AccountsOK(store) /\ AccountsOK(disk) /\ (tmp # NoWrite => AccountsOK(tmp))
    /\ \A e \in EnvIds : paid[e] = unpaid[e] + store.spend[e]
=============================================================================
