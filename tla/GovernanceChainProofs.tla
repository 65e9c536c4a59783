----------------------- MODULE GovernanceChainProofs -----------------------
(***************************************************************************)
(* The inductive invariant of GovernanceChain and what follows from it for *)
(* any ids, inputs, keys, bounds and crashes.                              *)
(*                                                                         *)
(* A store is good when it is well formed and its receipts and its         *)
(* consumed nonces agree.  Every operation turns a good store into a good  *)
(* one that knows no nonce less, and either keeps the unused Warrants out  *)
(* of what was revoked or takes them with it; the files hold former stores *)
(* with the revocations these know, so a restart starts from a good store  *)
(* again.                                                                  *)
(***************************************************************************)
EXTENDS GovernanceChain, WellFoundedInduction, TLAPS

Good(s) == StoreOK(s) /\ ReceiptsAgree(s)

\* The same authority, with other marks on the Warrants: an unused Warrant may
\* have become something else, nothing has become consumed.
SameLedger(s, t) == t.gel = s.gel /\ t.spent = s.spent /\ t.spend = s.spend

-----------------------------------------------------------------------------
(* Receipts                                                                *)

\* A record without a proof does not disturb the agreement of receipts and
\* nonces (every refusal of the Commit Gate, and an execution outcome).
LEMMA RefusalKeepsReceipts ==
    ASSUME NEW s \in Stores, NEW t \in Stores, NEW x \in GelRecords,
           ReceiptsAgree(s), x.proof = NoProof,
           t.gel = Append(s.gel, x), t.spent = s.spent,
           \A w \in WarrantIds : t.warrant[w] # NotFound /\ t.warrant[w].state = "Consumed" =>
                                 t.warrant[w].nonce \in t.spent
    PROVE  ReceiptsAgree(t)
<1>1. s.gel \in Seq(GelRecords) /\ t.gel \in Seq(GelRecords)
  BY DEF Stores
<1>2. /\ DOMAIN t.gel = 1..(Len(s.gel) + 1) /\ DOMAIN s.gel = 1..Len(s.gel) /\ Len(s.gel) \in Nat
      /\ \A i \in DOMAIN s.gel : t.gel[i] = s.gel[i]
      /\ t.gel[Len(s.gel) + 1] = x
  BY <1>1
<1>3. Receipts(t) = Receipts(s)
  BY <1>2 DEF Receipts
<1>4. \A i \in Receipts(s) : t.gel[i] = s.gel[i]
  BY <1>2 DEF Receipts
<1>5. {t.gel[i].proof : i \in Receipts(t)} = {s.gel[i].proof : i \in Receipts(s)}
  BY <1>3, <1>4
<1>6. \A i, j \in Receipts(t) : t.gel[i].proof = t.gel[j].proof => i = j
  BY <1>3, <1>4 DEF ReceiptsAgree
<1> QED
  BY <1>5, <1>6 DEF ReceiptsAgree

\* A receipt for a nonce that was not consumed keeps the agreement, when the
\* nonce becomes consumed with it (an allowed commit).
LEMMA AllowKeepsReceipts ==
    ASSUME NEW s \in Stores, NEW t \in Stores, NEW x \in GelRecords,
           ReceiptsAgree(s), x.proof # NoProof, x.proof \notin s.spent,
           t.gel = Append(s.gel, x), t.spent = s.spent \union {x.proof},
           \A w \in WarrantIds : t.warrant[w] # NotFound /\ t.warrant[w].state = "Consumed" =>
                                 t.warrant[w].nonce \in t.spent
    PROVE  ReceiptsAgree(t)
<1> DEFINE k == Len(s.gel) + 1
<1>1. s.gel \in Seq(GelRecords) /\ t.gel \in Seq(GelRecords)
  BY DEF Stores
<1>2. /\ DOMAIN t.gel = 1..k /\ DOMAIN s.gel = 1..Len(s.gel) /\ Len(s.gel) \in Nat
      /\ \A i \in DOMAIN s.gel : t.gel[i] = s.gel[i]
      /\ t.gel[k] = x
  BY <1>1
<1>3. Receipts(t) = Receipts(s) \union {k} /\ k \notin Receipts(s)
  BY <1>2 DEF Receipts
<1>4. \A i \in Receipts(s) : t.gel[i] = s.gel[i] /\ t.gel[i].proof \in s.spent
  BY <1>2 DEF Receipts, ReceiptsAgree
<1>5. t.spent = {t.gel[i].proof : i \in Receipts(t)}
  <2>1. s.spent = {s.gel[i].proof : i \in Receipts(s)}
    BY DEF ReceiptsAgree
  <2>2. \A n \in t.spent : \E i \in Receipts(t) : t.gel[i].proof = n
    <3> SUFFICES ASSUME NEW n \in t.spent PROVE \E i \in Receipts(t) : t.gel[i].proof = n
      OBVIOUS
    <3>1. CASE n = x.proof
      BY <1>2, <1>3, <3>1
    <3>2. CASE n \in s.spent
      <4>1. PICK i \in Receipts(s) : s.gel[i].proof = n
        BY <2>1, <3>2
      <4> QED
        BY <1>3, <1>4, <4>1
    <3> QED
      BY <3>1, <3>2
  <2>3. \A i \in Receipts(t) : t.gel[i].proof \in t.spent
    BY <1>2, <1>3, <1>4, <2>1
  <2> DEFINE P(i) == t.gel[i].proof
  <2>4. \A n \in t.spent : \E i \in Receipts(t) : P(i) = n
    BY <2>2
  <2>5. \A i \in Receipts(t) : P(i) \in t.spent
    BY <2>3
  <2> HIDE DEF P
  <2>6. t.spent = {P(i) : i \in Receipts(t)}
    BY <2>4, <2>5
  <2> QED
    BY <2>6 DEF P
<1>6. \A i, j \in Receipts(t) : t.gel[i].proof = t.gel[j].proof => i = j
  BY <1>2, <1>3, <1>4 DEF ReceiptsAgree
<1> QED
  BY <1>5, <1>6 DEF ReceiptsAgree

\* Receipts agree as long as ledger and nonces are the same and no Warrant is
\* newly consumed.
LEMMA SameLedgerKeepsReceipts ==
    ASSUME NEW s, NEW t, ReceiptsAgree(s), SameLedger(s, t),
           \A w \in WarrantIds : t.warrant[w] # NotFound /\ t.warrant[w].state = "Consumed" =>
                                 /\ s.warrant[w] # NotFound /\ s.warrant[w].state = "Consumed"
                                 /\ s.warrant[w].nonce = t.warrant[w].nonce
    PROVE  ReceiptsAgree(t)
<1>1. Receipts(t) = Receipts(s)
  BY DEF Receipts, SameLedger
<1> QED
  BY <1>1 DEF ReceiptsAgree, SameLedger

-----------------------------------------------------------------------------
(* The operations on the store                                             *)

\* The first store is good.
LEMMA FirstStoreGood == Good(FirstStore)
<1> USE ChainAssumption, InputAssumption
<1>1. \A m \in MaeIds : FirstStore.mae[m] \in {NotFound} \union Maes
                       /\ (FirstStore.mae[m] # NotFound => FirstStore.mae[m].body.id = m)
  <2> SUFFICES ASSUME NEW m \in MaeIds, \E b \in Founded : b.id = m
               PROVE  /\ SealedMae(CHOOSE b \in Founded : b.id = m, PrimaryKey) \in Maes
                      /\ SealedMae(CHOOSE b \in Founded : b.id = m, PrimaryKey).body.id = m
    BY DEF FirstStore, Founding
  <2> QED
    BY DEF SealedMae, Maes
<1>2. \A d \in WardIds : FirstStore.ward[d] \in {NotFound} \union Wards
                        /\ (FirstStore.ward[d] # NotFound => FirstStore.ward[d].body.id = d)
  <2> SUFFICES ASSUME NEW d \in WardIds, \E b \in Founded : b.id = d
               PROVE  /\ SealedWard(CHOOSE b \in Founded : b.id = d, PrimaryKey) \in Wards
                      /\ SealedWard(CHOOSE b \in Founded : b.id = d, PrimaryKey).body.id = d
    BY DEF FirstStore, Founding
  <2> QED
    BY DEF SealedWard, Wards
<1>3. \A e \in EnvIds : FirstStore.env[e] \in {NotFound} \union Envelopes
                       /\ (FirstStore.env[e] # NotFound => FirstStore.env[e].body.id = e)
  <2> SUFFICES ASSUME NEW e \in EnvIds, \E b \in Founded : b.id = e
               PROVE  /\ SealedEnvelope(CHOOSE b \in Founded : b.id = e, PrimaryKey) \in Envelopes
                      /\ SealedEnvelope(CHOOSE b \in Founded : b.id = e, PrimaryKey).body.id = e
    BY DEF FirstStore, Founding
  <2> QED
    BY DEF SealedEnvelope, Envelopes
<1>4. \A b \in BridgeIds : FirstStore.bridge[b] \in {NotFound} \union [body : BridgeInputs]
  <2> SUFFICES ASSUME NEW x \in BridgeIds, \E b \in Founded : b.id = x
               PROVE  SealedAgreement(CHOOSE b \in Founded : b.id = x, PrimaryKey) \in [body : BridgeInputs]
    BY DEF FirstStore, Founding
  <2> QED
    BY DEF SealedAgreement
<1>5. \A w \in WarrantIds :
        \/ FirstStore.warrant[w] = NotFound
        \/ /\ FirstStore.warrant[w] \in Warrants
           /\ FirstStore.warrant[w].state = "Unused" /\ FirstStore.warrant[w].body.id = w
  <2> SUFFICES ASSUME NEW w \in WarrantIds, \E b \in Founded : b.id = w,
                      NEW x, x = FoundedWarrant(CHOOSE b \in Founded : b.id = w, PrimaryKey)
               PROVE  x \in Warrants /\ x.state = "Unused" /\ x.body.id = w
    BY DEF FirstStore, Founding
  <2>1. PICK b \in WarrantInputs : b.id = w /\ x = FoundedWarrant(b, PrimaryKey)
    OBVIOUS
  <2> QED
    BY <2>1 DEF FoundedWarrant, SealedWarrant, Warrants
<1>6. FirstStore \in Stores
  <2>1. /\ FirstStore.mae \in [MaeIds -> {NotFound} \union Maes]
        /\ FirstStore.ward \in [WardIds -> {NotFound} \union Wards]
        /\ FirstStore.env \in [EnvIds -> {NotFound} \union Envelopes]
        /\ FirstStore.bridge \in [BridgeIds -> {NotFound} \union [body : BridgeInputs]]
    BY <1>1, <1>2, <1>3, <1>4 DEF FirstStore, Founding
  <2>2. /\ FirstStore.warrant \in [WarrantIds -> {NotFound} \union Warrants]
        /\ FirstStore.spent \in SUBSET Nonces
        /\ FirstStore.spend \in [EnvIds -> Int]
        /\ FirstStore.gel \in Seq(GelRecords)
    BY <1>5 DEF FirstStore, Founding
  <2> QED
    BY <2>1, <2>2 DEF Stores, FirstStore
<1>7. ReceiptsAgree(FirstStore)
  <2>1. Receipts(FirstStore) = {}
    BY DEF Receipts, FirstStore
  <2>2. FirstStore.spent = {}
    BY DEF FirstStore
  <2> QED
    BY <1>5, <2>1, <2>2 DEF ReceiptsAgree
<1> QED
  BY <1>1, <1>2, <1>3, <1>5, <1>6, <1>7 DEF Good, StoreOK

\* Authoring a MAE, a Ward, an Envelope or a bridge keeps the store good.
LEMMA AuthoringGood ==
    ASSUME Good(store), signKey \in Keys,
           \/ \E b \in MaeInputs : createMae(b)
           \/ \E b \in WardInputs : constituteWard(b)
           \/ \E b \in EnvInputs : createAuthorityEnvelope(b)
           \/ \E b \in BridgeInputs : createFederationAgreement(b)
    PROVE  Good(store)' /\ SameLedger(store, store') /\ store'.warrant = store.warrant
<1> USE InputAssumption
<1>1. store \in Stores
  BY DEF Good, StoreOK
<1>2. CASE \E b \in MaeInputs : createMae(b)
  <2>1. PICK b \in MaeInputs : createMae(b)
    BY <1>2
  <2>2. SealedMae(b, signKey) \in Maes /\ SealedMae(b, signKey).body.id = b.id
    BY DEF SealedMae, Maes
  <2>3. StoreOK(store)' /\ SameLedger(store, store') /\ store'.warrant = store.warrant
    BY <1>1, <2>1, <2>2 DEF createMae, Good, StoreOK, Stores, SameLedger
  <2> QED
    BY <2>3, SameLedgerKeepsReceipts DEF Good
<1>3. CASE \E b \in WardInputs : constituteWard(b)
  <2>1. PICK b \in WardInputs : constituteWard(b)
    BY <1>3
  <2>2. SealedWard(b, signKey) \in Wards /\ SealedWard(b, signKey).body.id = b.id
    BY DEF SealedWard, Wards
  <2>3. StoreOK(store)' /\ SameLedger(store, store') /\ store'.warrant = store.warrant
    BY <1>1, <2>1, <2>2 DEF constituteWard, Good, StoreOK, Stores, SameLedger
  <2> QED
    BY <2>3, SameLedgerKeepsReceipts DEF Good
<1>4. CASE \E b \in EnvInputs : createAuthorityEnvelope(b)
  <2>1. PICK b \in EnvInputs : createAuthorityEnvelope(b)
    BY <1>4
  <2>2. SealedEnvelope(b, signKey) \in Envelopes /\ SealedEnvelope(b, signKey).body.id = b.id
    BY DEF SealedEnvelope, Envelopes
  <2>3. StoreOK(store)' /\ SameLedger(store, store') /\ store'.warrant = store.warrant
    BY <1>1, <2>1, <2>2 DEF createAuthorityEnvelope, Good, StoreOK, Stores, SameLedger
  <2> QED
    BY <2>3, SameLedgerKeepsReceipts DEF Good
<1>5. CASE \E b \in BridgeInputs : createFederationAgreement(b)
  <2>1. PICK b \in BridgeInputs : createFederationAgreement(b)
    BY <1>5
  <2>2. SealedAgreement(b, signKey) \in [body : BridgeInputs]
    BY DEF SealedAgreement
  <2>3. StoreOK(store)' /\ SameLedger(store, store') /\ store'.warrant = store.warrant
    BY <1>1, <2>1, <2>2 DEF createFederationAgreement, Good, StoreOK, Stores, SameLedger
  <2> QED
    BY <2>3, SameLedgerKeepsReceipts DEF Good
<1> QED
  BY <1>2, <1>3, <1>4, <1>5

\* Issuing a Warrant keeps the store good, whatever was under its id.
LEMMA IssueGood ==
    ASSUME Good(store), signKey \in Keys, clock \in Nat,
           NEW b \in WarrantInputs, NEW n \in Nonces, issueWarrant(b, n)
    PROVE  Good(store)' /\ SameLedger(store, store')
<1> DEFINE new == SealedWarrant(b, n, signKey, clock)
<1>1. store \in Stores
  BY DEF Good, StoreOK
<1>2. new \in Warrants /\ new.state = "Unused" /\ new.body.id = b.id
  BY InputAssumption DEF SealedWarrant, Warrants
<1>3. store' = [store EXCEPT !.warrant[b.id] = new]
  BY DEF issueWarrant
<1> HIDE DEF new
<1>4. store'.warrant = [store.warrant EXCEPT ![b.id] = new]
  BY <1>1, <1>3 DEF Stores
<1>5. StoreOK(store)' /\ SameLedger(store, store')
  BY <1>1, <1>2, <1>3, InputAssumption DEF Good, StoreOK, Stores, SameLedger
<1>6. \A w \in WarrantIds :
        \/ store'.warrant[w] = store.warrant[w]
        \/ store'.warrant[w].state = "Unused"
  BY <1>1, <1>2, <1>4 DEF Stores
<1>7. ReceiptsAgree(store')
  BY <1>5, <1>6, SameLedgerKeepsReceipts DEF Good
<1> QED
  BY <1>5, <1>7 DEF Good

\* Suspending a Ward leaves the ledger and the Warrants alone.
LEMMA SuspendGood ==
    ASSUME Good(store), NEW d \in WardIds, suspendWard(d)
    PROVE  Good(store)' /\ SameLedger(store, store') /\ store'.warrant = store.warrant
<1>1. store \in Stores /\ store.ward[d] \in Wards
  BY DEF Good, StoreOK, Stores, suspendWard
<1>2. [store.ward[d] EXCEPT !.suspended = TRUE] \in Wards
  BY <1>1 DEF Wards
<1>3. StoreOK(store)' /\ SameLedger(store, store') /\ store'.warrant = store.warrant
  BY <1>1, <1>2 DEF suspendWard, Good, StoreOK, Stores, SameLedger, Wards
<1> QED
  BY <1>3, SameLedgerKeepsReceipts DEF Good

\* A revocation marks what is stored and keeps the store good.
LEMMA MarkGood ==
    ASSUME Good(store),
           NEW M \in SUBSET MaeIds, NEW D \in SUBSET WardIds, NEW E \in SUBSET EnvIds,
           NEW W \in SUBSET WarrantIds, NEW top,
           \A m \in M : store.mae[m] # NotFound,
           \A d \in D : store.ward[d] # NotFound,
           \A e \in E : store.env[e] # NotFound,
           MarkRevoked(M, D, E, W, top)
    PROVE  Good(store)' /\ SameLedger(store, store')
<1> DEFINE mae == [m \in MaeIds |-> IF m \in M THEN [store.mae[m] EXCEPT !.revoked = TRUE] ELSE store.mae[m]]
           ward == [d \in WardIds |-> IF d \in D THEN [store.ward[d] EXCEPT !.revoked = TRUE] ELSE store.ward[d]]
           env == [e \in EnvIds |-> IF e \in E THEN [store.env[e] EXCEPT !.revoked = TRUE] ELSE store.env[e]]
           warrant == [w \in WarrantIds |->
               IF w \in W /\ store.warrant[w] # NotFound /\ store.warrant[w].state = "Unused"
               THEN [store.warrant[w] EXCEPT !.state = "Revoked"]
               ELSE store.warrant[w]]
<1>1. store \in Stores
  BY DEF Good, StoreOK
<1>2. store' = [store EXCEPT !.mae = mae, !.ward = ward, !.env = env, !.warrant = warrant]
  BY <1>1 DEF MarkRevoked, Stores
<1>3. mae \in [MaeIds -> {NotFound} \union Maes]
      /\ \A m \in MaeIds : mae[m] # NotFound => mae[m].body.id = m
  <2> SUFFICES ASSUME NEW m \in MaeIds
               PROVE  mae[m] \in {NotFound} \union Maes /\ (mae[m] # NotFound => mae[m].body.id = m)
    OBVIOUS
  <2>1. store.mae[m] \in {NotFound} \union Maes /\ (store.mae[m] # NotFound => store.mae[m].body.id = m)
    BY <1>1 DEF Stores, Good, StoreOK
  <2>2. CASE m \in M
    <3>1. store.mae[m] \in Maes
      BY <2>1, <2>2
    <3> QED
      BY <2>1, <2>2, <3>1 DEF Maes
  <2>3. CASE m \notin M
    BY <2>1, <2>3
  <2> QED
    BY <2>2, <2>3
<1>4. ward \in [WardIds -> {NotFound} \union Wards]
      /\ \A d \in WardIds : ward[d] # NotFound => ward[d].body.id = d
  <2> SUFFICES ASSUME NEW d \in WardIds
               PROVE  ward[d] \in {NotFound} \union Wards /\ (ward[d] # NotFound => ward[d].body.id = d)
    OBVIOUS
  <2>1. store.ward[d] \in {NotFound} \union Wards /\ (store.ward[d] # NotFound => store.ward[d].body.id = d)
    BY <1>1 DEF Stores, Good, StoreOK
  <2>2. CASE d \in D
    <3>1. store.ward[d] \in Wards
      BY <2>1, <2>2
    <3> QED
      BY <2>1, <2>2, <3>1 DEF Wards
  <2>3. CASE d \notin D
    BY <2>1, <2>3
  <2> QED
    BY <2>2, <2>3
<1>5. env \in [EnvIds -> {NotFound} \union Envelopes]
      /\ \A e \in EnvIds : env[e] # NotFound => env[e].body.id = e
  <2> SUFFICES ASSUME NEW e \in EnvIds
               PROVE  env[e] \in {NotFound} \union Envelopes /\ (env[e] # NotFound => env[e].body.id = e)
    OBVIOUS
  <2>1. store.env[e] \in {NotFound} \union Envelopes /\ (store.env[e] # NotFound => store.env[e].body.id = e)
    BY <1>1 DEF Stores, Good, StoreOK
  <2>2. CASE e \in E
    <3>1. store.env[e] \in Envelopes
      BY <2>1, <2>2
    <3> QED
      BY <2>1, <2>2, <3>1 DEF Envelopes
  <2>3. CASE e \notin E
    BY <2>1, <2>3
  <2> QED
    BY <2>2, <2>3
<1>6. \A w \in WarrantIds :
        /\ warrant[w] \in {NotFound} \union Warrants
        /\ warrant[w] # NotFound => /\ store.warrant[w] # NotFound /\ warrant[w].body.id = w
                                    /\ warrant[w].nonce = store.warrant[w].nonce
                                    /\ warrant[w].state = "Consumed" => store.warrant[w].state = "Consumed"
  <2> SUFFICES ASSUME NEW w \in WarrantIds
               PROVE  /\ warrant[w] \in {NotFound} \union Warrants
                      /\ warrant[w] # NotFound =>
                            /\ store.warrant[w] # NotFound /\ warrant[w].body.id = w
                            /\ warrant[w].nonce = store.warrant[w].nonce
                            /\ warrant[w].state = "Consumed" => store.warrant[w].state = "Consumed"
    OBVIOUS
  <2>1. store.warrant[w] \in {NotFound} \union Warrants
        /\ (store.warrant[w] # NotFound => store.warrant[w].body.id = w)
    BY <1>1 DEF Stores, Good, StoreOK
  <2>2. CASE w \in W /\ store.warrant[w] # NotFound /\ store.warrant[w].state = "Unused"
    <3>1. store.warrant[w] \in Warrants
      BY <2>1, <2>2
    <3> QED
      BY <2>1, <2>2, <3>1 DEF Warrants
  <2>3. CASE ~(w \in W /\ store.warrant[w] # NotFound /\ store.warrant[w].state = "Unused")
    BY <2>1, <2>3
  <2> QED
    BY <2>2, <2>3
<1>7. warrant \in [WarrantIds -> {NotFound} \union Warrants]
  BY <1>6
<1> HIDE DEF mae, ward, env, warrant
<1>8. StoreOK(store)' /\ SameLedger(store, store') /\ store'.warrant = warrant
  BY <1>1, <1>2, <1>3, <1>4, <1>5, <1>6, <1>7 DEF StoreOK, Stores, SameLedger
<1>9. ReceiptsAgree(store')
  <2>1. \A w \in WarrantIds : warrant[w] # NotFound /\ warrant[w].state = "Consumed" =>
          /\ store.warrant[w] # NotFound /\ store.warrant[w].state = "Consumed"
          /\ store.warrant[w].nonce = warrant[w].nonce
    BY <1>6
  <2> QED
    BY <1>8, <2>1, SameLedgerKeepsReceipts DEF Good
<1> QED
  BY <1>8, <1>9 DEF Good

\* What a cascade may be called with: it reaches every Warrant whose authority
\* runs through what the operator has revoked.
Cascade(M, D, E, W, top) ==
    /\ M \subseteq MaeIds /\ D \subseteq WardIds /\ E \subseteq EnvIds /\ W \subseteq WarrantIds
    /\ \A m \in M : store.mae[m] # NotFound
    /\ \A d \in D : store.ward[d] # NotFound
    /\ \A e \in E : store.env[e] # NotFound
    /\ M = top.M
    /\ \A w \in WarrantIds :
          store.warrant[w] # NotFound /\ (w \in top.W \/ RunsThrough(w, top.M, top.D, top.E)) => w \in W

\* Every revocation reaches the Warrants that depend on it, by the ids in the
\* store.
LEMMA RevokingIsCascade ==
    ASSUME Good(store),
           \/ \E w \in WarrantIds : revokeWarrant(w)
           \/ \E e \in EnvIds : revokeEnvelope(e)
           \/ \E d \in WardIds : revokeWard(d)
           \/ \E m \in MaeIds : revokeMae(m)
    PROVE  /\ \E M, D, E, W, top : Cascade(M, D, E, W, top) /\ MarkRevoked(M, D, E, W, top)
           /\ Post /\ UNCHANGED <<clock, keyring, signKey, file, history>>
<1>1. CASE \E w \in WarrantIds : revokeWarrant(w)
  <2>1. PICK w \in WarrantIds : revokeWarrant(w)
    BY <1>1
  <2> DEFINE top == Top({}, {}, {}, {w})
  <2>2. top.M = {} /\ top.D = {} /\ top.E = {} /\ top.W = {w}
    BY DEF Top
  <2> HIDE DEF top
  <2>3. \A v \in WarrantIds : ~RunsThrough(v, top.M, top.D, top.E)
    BY <2>2 DEF RunsThrough
  <2>4. Cascade({}, {}, {}, {w}, top)
    BY <2>2, <2>3 DEF Cascade
  <2> QED
    BY <2>1, <2>4 DEF revokeWarrant, top
<1>2. CASE \E e \in EnvIds : revokeEnvelope(e)
  <2>1. PICK e \in EnvIds : revokeEnvelope(e)
    BY <1>2
  <2> DEFINE top == Top({}, {}, {e}, {})
  <2>2. top.M = {} /\ top.D = {} /\ top.E = {e} /\ top.W = {}
    BY DEF Top
  <2> HIDE DEF top
  <2>3. \A v \in WarrantIds :
          store.warrant[v] # NotFound /\ RunsThrough(v, top.M, top.D, top.E) => v \in warrantsForEnvelope(e)
    BY <2>2 DEF RunsThrough, warrantsForEnvelope
  <2>4. warrantsForEnvelope(e) \in SUBSET WarrantIds
    BY DEF warrantsForEnvelope
  <2>5. Cascade({}, {}, {e}, warrantsForEnvelope(e), top)
    BY <2>1, <2>2, <2>3, <2>4 DEF Cascade, revokeEnvelope
  <2> QED
    BY <2>1, <2>5 DEF revokeEnvelope, top
<1>3. \A D \in SUBSET WardIds :
        /\ EnvelopesUnder(D) \in SUBSET EnvIds /\ WarrantsUnder(D) \in SUBSET WarrantIds
        /\ \A e \in EnvelopesUnder(D) : store.env[e] # NotFound
  BY DEF EnvelopesUnder, WarrantsUnder, envelopesForWard, warrantsForEnvelope, warrantsForWard
<1>4. ASSUME NEW D \in SUBSET WardIds, NEW v \in WarrantIds, store.warrant[v] # NotFound,
             \/ store.warrant[v].body.ward \in D
             \/ /\ store.env[store.warrant[v].body.env] # NotFound
                /\ store.env[store.warrant[v].body.env].body.ward \in D
      PROVE  v \in WarrantsUnder(D)
  <2>1. CASE store.warrant[v].body.ward \in D
    <3>1. v \in warrantsForWard(store.warrant[v].body.ward)
      BY <1>4 DEF warrantsForWard
    <3> QED
      BY <2>1, <3>1 DEF WarrantsUnder
  <2>2. CASE /\ store.env[store.warrant[v].body.env] # NotFound
             /\ store.env[store.warrant[v].body.env].body.ward \in D
    <3> DEFINE e == store.warrant[v].body.env
    <3>1. e \in EnvIds
      BY <1>4, InputAssumption DEF Good, StoreOK, Stores, Warrants
    <3>2. e \in EnvelopesUnder(D)
      BY <2>2, <3>1 DEF EnvelopesUnder, envelopesForWard
    <3>3. v \in warrantsForEnvelope(e)
      BY <1>4 DEF warrantsForEnvelope
    <3> QED
      BY <3>2, <3>3 DEF WarrantsUnder
  <2> QED
    BY <1>4, <2>1, <2>2
<1>5. CASE \E d \in WardIds : revokeWard(d)
  <2>1. PICK d \in WardIds : revokeWard(d)
    BY <1>5
  <2> DEFINE top == Top({}, {d}, {}, {})
  <2>2. top.M = {} /\ top.D = {d} /\ top.E = {} /\ top.W = {}
    BY DEF Top
  <2> HIDE DEF top
  <2>3. \A v \in WarrantIds :
          store.warrant[v] # NotFound /\ RunsThrough(v, top.M, top.D, top.E) => v \in WarrantsUnder({d})
    <3> SUFFICES ASSUME NEW v \in WarrantIds, store.warrant[v] # NotFound, RunsThrough(v, {}, {d}, {})
                 PROVE  v \in WarrantsUnder({d})
      BY <2>2
    <3>1. \/ store.warrant[v].body.ward \in {d}
          \/ /\ store.env[store.warrant[v].body.env] # NotFound
             /\ store.env[store.warrant[v].body.env].body.ward \in {d}
      BY DEF RunsThrough
    <3> QED
      BY <1>4, <3>1
  <2>4. Cascade({}, {d}, EnvelopesUnder({d}), WarrantsUnder({d}), top)
    BY <1>3, <2>1, <2>2, <2>3 DEF Cascade, revokeWard
  <2> QED
    BY <2>1, <2>4 DEF revokeWard, top
<1>6. CASE \E m \in MaeIds : revokeMae(m)
  <2>1. PICK m \in MaeIds : revokeMae(m)
    BY <1>6
  <2> DEFINE top == Top({m}, {}, {}, {})
             D == wardsForMae(m)
  <2>2. top.M = {m} /\ top.D = {} /\ top.E = {} /\ top.W = {}
    BY DEF Top
  <2> HIDE DEF top
  <2>3. D \in SUBSET WardIds /\ \A d \in D : store.ward[d] # NotFound
    BY DEF wardsForMae
  <2>4. \A v \in WarrantIds :
          store.warrant[v] # NotFound /\ RunsThrough(v, top.M, top.D, top.E) => v \in WarrantsUnder(D)
    <3> SUFFICES ASSUME NEW v \in WarrantIds, store.warrant[v] # NotFound, RunsThrough(v, {m}, {}, {})
                 PROVE  v \in WarrantsUnder(D)
      BY <2>2
    <3>1. \/ store.warrant[v].body.ward \in D
          \/ /\ store.env[store.warrant[v].body.env] # NotFound
             /\ store.env[store.warrant[v].body.env].body.ward \in D
      BY DEF RunsThrough, wardsForMae
    <3> HIDE DEF D
    <3> QED
      BY <1>4, <2>3, <3>1
  <2>5. Cascade({m}, D, EnvelopesUnder(D), WarrantsUnder(D), top)
    <3> HIDE DEF D
    <3> QED
      BY <1>3, <2>1, <2>2, <2>3, <2>4 DEF Cascade, revokeMae
  <2> QED
    BY <2>1, <2>5 DEF revokeMae, top
<1> QED
  BY <1>1, <1>2, <1>5, <1>6

\* A revocation keeps the store good.
LEMMA RevokingGood ==
    ASSUME Good(store),
           \/ \E w \in WarrantIds : revokeWarrant(w)
           \/ \E e \in EnvIds : revokeEnvelope(e)
           \/ \E d \in WardIds : revokeWard(d)
           \/ \E m \in MaeIds : revokeMae(m)
    PROVE  Good(store)' /\ SameLedger(store, store')
<1>1. PICK M, D, E, W, top : Cascade(M, D, E, W, top) /\ MarkRevoked(M, D, E, W, top)
  BY RevokingIsCascade
<1> QED
  BY <1>1, MarkGood DEF Cascade

-----------------------------------------------------------------------------
(* The Commit Gate                                                         *)

\* A refusal with evidence keeps a store good and consumes nothing.
LEMMA RefusalGood ==
    ASSUME NEW s, Good(s), NEW r \in CommitRequests,
           NEW decision \in {"Deny", "Escalate", "FailClosed"}
    PROVE  Good(Refusal(s, decision, r)) /\ Refusal(s, decision, r).spent = s.spent
<1> DEFINE x == GelRecord(decision, r, NoProof, 0)
           t == Refusal(s, decision, r)
<1>1. s \in Stores
  BY DEF Good, StoreOK
<1>2. x \in GelRecords /\ x.proof = NoProof
  BY InputAssumption DEF GelRecord, GelRecords
<1>3. t = [s EXCEPT !.gel = Append(s.gel, x)]
  BY DEF Refusal
<1> HIDE DEF x, t
<1>4. Append(s.gel, x) \in Seq(GelRecords)
  BY <1>1, <1>2 DEF Stores
<1>5. /\ t \in Stores /\ t.gel = Append(s.gel, x)
      /\ t.spent = s.spent /\ t.warrant = s.warrant
      /\ t.mae = s.mae /\ t.ward = s.ward /\ t.env = s.env
  BY <1>1, <1>3, <1>4 DEF Stores
<1>6. StoreOK(t)
  BY <1>5 DEF Good, StoreOK
<1>7. \A w \in WarrantIds : t.warrant[w] # NotFound /\ t.warrant[w].state = "Consumed" =>
                            t.warrant[w].nonce \in t.spent
  BY <1>5 DEF Good, ReceiptsAgree
<1>8. ReceiptsAgree(t)
  BY <1>1, <1>2, <1>5, <1>7, RefusalKeepsReceipts DEF Good
<1> QED
  BY <1>5, <1>6, <1>8 DEF Good, t

\* Latching an unused Warrant as expired keeps the store good.
LEMMA LatchGood ==
    ASSUME Good(store), NEW r \in CommitRequests, store.warrant[r.warrant] # NotFound
    PROVE  Good(latchExpiredWarrant(r)) /\ latchExpiredWarrant(r).spent = store.spent
<1> DEFINE v == r.warrant
           old == store.warrant[v]
           new == [old EXCEPT !.state = "Expired"]
           t == [store EXCEPT !.warrant[v] = new]
<1>1. store \in Stores /\ v \in WarrantIds /\ old \in Warrants
  BY InputAssumption DEF Good, StoreOK, Stores
<1>2. CASE old.state = "Unused" /\ clock > old.until
  <2>1. latchExpiredWarrant(r) = t
    BY <1>1, <1>2 DEF latchExpiredWarrant, Stores
  <2>2. new \in Warrants /\ new.state = "Expired" /\ new.nonce = old.nonce /\ new.body = old.body
    BY <1>1 DEF Warrants
  <2> HIDE DEF new
  <2>3. /\ t \in Stores /\ t.gel = store.gel /\ t.spent = store.spent /\ t.spend = store.spend
        /\ t.mae = store.mae /\ t.ward = store.ward /\ t.env = store.env
        /\ t.warrant[v] = new
        /\ \A w \in WarrantIds \ {v} : t.warrant[w] = store.warrant[w]
    BY <1>1, <2>2 DEF Stores
  <2> HIDE DEF t
  <2>4. StoreOK(t)
    BY <1>2, <2>2, <2>3 DEF Good, StoreOK
  <2>5. ReceiptsAgree(t)
    <3>1. SameLedger(store, t)
      BY <2>3 DEF SameLedger
    <3>2. \A w \in WarrantIds : t.warrant[w] # NotFound /\ t.warrant[w].state = "Consumed" =>
             /\ store.warrant[w] # NotFound /\ store.warrant[w].state = "Consumed"
             /\ store.warrant[w].nonce = t.warrant[w].nonce
      BY <2>2, <2>3
    <3> QED
      BY <3>1, <3>2, SameLedgerKeepsReceipts DEF Good
  <2> QED
    BY <2>1, <2>3, <2>4, <2>5 DEF Good
<1>3. CASE ~(old.state = "Unused" /\ clock > old.until)
  BY <1>3 DEF latchExpiredWarrant
<1> QED
  BY <1>2, <1>3

\* The commit refused: the store stays good and no nonce is consumed.
LEMMA CommitRefusedGood ==
    ASSUME Good(store), NEW r \in CommitRequests,
           \/ CommitMissing(r) \/ CommitDenied(r) \/ CommitEscalated(r) \/ CommitReplayed(r)
    PROVE  Good(store)' /\ store'.spent = store.spent /\ granted' = granted
<1>1. CASE CommitMissing(r) \/ CommitEscalated(r) \/ CommitReplayed(r)
  BY <1>1, RefusalGood DEF CommitMissing, CommitEscalated, CommitReplayed, Good
<1>2. CASE CommitDenied(r)
  <2>1. store.warrant[r.warrant] # NotFound
    BY <1>2 DEF CommitDenied, Missing
  <2>2. Good(latchExpiredWarrant(r)) /\ latchExpiredWarrant(r).spent = store.spent
    BY <2>1, LatchGood
  <2>3. /\ Good(Refusal(latchExpiredWarrant(r), "Deny", r))
        /\ Refusal(latchExpiredWarrant(r), "Deny", r).spent = store.spent
    BY <2>2, RefusalGood
  <2>4. \/ store' = latchExpiredWarrant(r)
        \/ store' = Refusal(latchExpiredWarrant(r), "Deny", r)
    BY <1>2 DEF CommitDenied
  <2>5. granted' = granted
    BY <1>2 DEF CommitDenied
  <2>6. Good(store')
    BY <2>2, <2>3, <2>4
  <2> QED
    BY <2>2, <2>3, <2>4, <2>5, <2>6 DEF Good
<1> QED
  BY <1>1, <1>2

\* The commit allowed: the nonce was not consumed, it is now, and the receipt
\* is there.
LEMMA CommitAllowedGood ==
    ASSUME Good(store), NEW r \in CommitRequests, CommitAllowed(r)
    PROVE  LET n == store.warrant[r.warrant].nonce IN
           /\ Good(store)' /\ n \in Nonces \ store.spent
           /\ store'.spent = store.spent \union {n}
           /\ granted' = [granted EXCEPT ![n] = @ + 1]
<1> DEFINE v == r.warrant
           old == store.warrant[v]
           n == old.nonce
           x == GelRecord("Allow", r, n, Booked(r))
           new == [old EXCEPT !.state = "Consumed"]
           sum == [store.spend EXCEPT ![r.env] = @ + Booked(r)]
           t == [store EXCEPT !.warrant[v] = new, !.spent = store.spent \union {n},
                              !.spend = sum, !.gel = Append(store.gel, x)]
<1>1. /\ store \in Stores /\ v \in WarrantIds /\ old \in Warrants /\ r.env \in EnvIds
      /\ old.body.id = v
  <2>1. old # NotFound
    BY DEF CommitAllowed, Missing
  <2> QED
    BY <2>1, InputAssumption DEF Good, StoreOK, Stores
<1>2. n \in Nonces /\ n \notin store.spent /\ n # NoProof
  BY <1>1, ChainAssumption DEF CommitAllowed, Warrants
<1>3. Booked(r) \in Int
  BY InputAssumption DEF Booked
<1>4. store' = t
  BY <1>1 DEF CommitAllowed, Stores
<1>5. x \in GelRecords /\ x.proof = n
  BY <1>1, <1>2, <1>3 DEF GelRecord, GelRecords
<1>6. new \in Warrants /\ new.state = "Consumed" /\ new.nonce = n /\ new.body = old.body
  BY <1>1 DEF Warrants
<1>7. sum \in [EnvIds -> Int]
  BY <1>1, <1>3 DEF Stores
<1>8. granted' = [granted EXCEPT ![n] = @ + 1]
  BY DEF CommitAllowed
<1> HIDE DEF x, new, sum
<1>9. Append(store.gel, x) \in Seq(GelRecords)
  BY <1>1, <1>5 DEF Stores
<1>10. /\ t \in Stores /\ t.gel = Append(store.gel, x) /\ t.spent = store.spent \union {n}
       /\ t.mae = store.mae /\ t.ward = store.ward /\ t.env = store.env
       /\ t.warrant[v] = new
       /\ \A w \in WarrantIds \ {v} : t.warrant[w] = store.warrant[w]
  BY <1>1, <1>2, <1>6, <1>7, <1>9 DEF Stores
<1> HIDE DEF t
<1>11. StoreOK(t)
  BY <1>1, <1>6, <1>10 DEF Good, StoreOK
<1>13. \A w \in WarrantIds : t.warrant[w] # NotFound /\ t.warrant[w].state = "Consumed" =>
                             t.warrant[w].nonce \in t.spent
  BY <1>6, <1>10 DEF Good, ReceiptsAgree
<1>14. ReceiptsAgree(t)
  BY <1>1, <1>2, <1>5, <1>10, <1>13, AllowKeepsReceipts DEF Good
<1>15. Good(t)
  BY <1>11, <1>14 DEF Good
<1> QED
  BY <1>2, <1>4, <1>8, <1>10, <1>15 DEF Good

\* The outcome of an allowed act adds a record without a proof.
LEMMA OutcomeGood ==
    ASSUME Good(store), NEW i \in DOMAIN store.gel, recordExecutionOutcome(i)
    PROVE  Good(store)' /\ store'.spent = store.spent
<1> DEFINE x == [decision |-> "Allow", kind |-> "execution", env |-> store.gel[i].env,
                 proof |-> NoProof, booked |-> 0]
<1>1. store \in Stores /\ store.gel[i] \in GelRecords
  <2>1. store \in Stores /\ store.gel \in Seq(GelRecords)
    BY DEF Good, StoreOK, Stores
  <2> QED
    BY <2>1
<1>2. x \in GelRecords /\ x.proof = NoProof
  <2>1. store.gel[i].env \in EnvIds
    BY <1>1 DEF GelRecords
  <2> QED
    BY <2>1 DEF GelRecords
<1>3. store' = [store EXCEPT !.gel = Append(store.gel, x)]
  BY DEF recordExecutionOutcome
<1> HIDE DEF x
<1>4. Append(store.gel, x) \in Seq(GelRecords)
  BY <1>1, <1>2 DEF Stores
<1>5. /\ store' \in Stores /\ store'.gel = Append(store.gel, x)
      /\ store'.spent = store.spent /\ store'.warrant = store.warrant
      /\ store'.mae = store.mae /\ store'.ward = store.ward /\ store'.env = store.env
  BY <1>1, <1>3, <1>4 DEF Stores
<1>6. StoreOK(store')
  BY <1>5 DEF Good, StoreOK
<1>7. \A w \in WarrantIds : store'.warrant[w] # NotFound /\ store'.warrant[w].state = "Consumed" =>
                            store'.warrant[w].nonce \in store'.spent
  BY <1>5 DEF Good, ReceiptsAgree
<1>8. ReceiptsAgree(store')
  BY <1>1, <1>2, <1>5, <1>7, RefusalKeepsReceipts DEF Good
<1> QED
  BY <1>5, <1>6, <1>8 DEF Good

-----------------------------------------------------------------------------
(* Revocations                                                             *)

\* An operation leaves no unused Warrant under a revocation that the store
\* knows of, unless the revocation missed it and its MAE is still revoked.
RevocationStep ==
    /\ ended' \subseteq Ended /\ saved' = saved
    /\ CascadeComplete(store, ended \ forgotten)'

\* So does one that revokes nothing, authors no MAE and leaves the Warrants
\* that are still unused as they were.
LEMMA NothingRevived ==
    ASSUME IndInv, UNCHANGED revocations, store'.mae = store.mae,
           \A w \in WarrantIds : store'.warrant[w] # NotFound /\ store'.warrant[w].state = "Unused" =>
                                 store'.warrant[w] = store.warrant[w]
    PROVE  RevocationStep
  BY DEF RevocationStep, IndInv, TypeOK, CascadeComplete, revocations

\* Authoring a MAE puts the Warrants in force that only named it; the others
\* that its revocation reached stay revoked.
LEMMA AuthoringRevocation ==
    ASSUME IndInv,
           \/ \E b \in MaeInputs : createMae(b)
           \/ \E b \in WardInputs : constituteWard(b)
           \/ \E b \in EnvInputs : createAuthorityEnvelope(b)
           \/ \E b \in BridgeInputs : createFederationAgreement(b)
    PROVE  RevocationStep
<1>1. Good(store) /\ signKey \in Keys /\ store \in Stores
  BY DEF IndInv, TypeOK, Good, StoreOK
<1>2. store'.warrant = store.warrant
  BY <1>1, AuthoringGood
<1>3. CASE \E b \in MaeInputs : createMae(b)
  <2>1. PICK b \in MaeInputs : createMae(b)
    BY <1>3
  <2>2. \A m \in MaeIds : m # b.id => store'.mae[m] = store.mae[m]
    BY <1>1, <2>1 DEF createMae, Stores
  <2>3. /\ saved' = saved /\ ended' \subseteq ended
        /\ \A x \in (ended \ forgotten)' :
              x \in ended \ forgotten /\ (x.linked \/ x.doc.body.mae # b.id)
    BY <2>1 DEF createMae, Revive
  <2>4. CascadeComplete(store, ended \ forgotten)'
    <3> SUFFICES ASSUME NEW w \in WarrantIds, NEW x \in (ended \ forgotten)',
                        store'.warrant[w] # NotFound, store'.warrant[w].state = "Unused",
                        x.doc = Document(store'.warrant[w])
                 PROVE  ~x.linked /\ store'.mae[x.doc.body.mae].revoked
      BY DEF CascadeComplete
    <3>1. x \in ended \ forgotten /\ (x.linked \/ x.doc.body.mae # b.id)
      BY <2>3
    <3>2. ~x.linked /\ store.mae[x.doc.body.mae].revoked
      BY <1>2, <3>1 DEF IndInv, CascadeComplete
    <3>3. x.doc.body.mae \in MaeIds
      BY <3>1, InputAssumption DEF IndInv, TypeOK, Ended, Warrants
    <3> QED
      BY <2>2, <3>1, <3>2, <3>3
  <2> QED
    BY <2>3, <2>4 DEF RevocationStep, IndInv, TypeOK
<1>4. CASE \/ \E b \in WardInputs : constituteWard(b)
           \/ \E b \in EnvInputs : createAuthorityEnvelope(b)
           \/ \E b \in BridgeInputs : createFederationAgreement(b)
  <2>1. store'.mae = store.mae /\ UNCHANGED revocations
    BY <1>1, <1>4 DEF constituteWard, createAuthorityEnvelope, createFederationAgreement, Stores
  <2> QED
    BY <1>2, <2>1, NothingRevived
<1> QED
  BY <1>3, <1>4

\* An issued Warrant is a document of its own, or one that is in force again.
LEMMA IssueRevocation ==
    ASSUME IndInv, NEW b \in WarrantInputs, NEW n \in Nonces, issueWarrant(b, n)
    PROVE  RevocationStep
<1> DEFINE new == SealedWarrant(b, n, signKey, clock)
<1>1. store \in Stores
  BY DEF IndInv, TypeOK, StoreOK
<1>2. Document(new) = new
  BY DEF Document, SealedWarrant
<1>3. /\ store' = [store EXCEPT !.warrant[b.id] = new]
      /\ Revive({x \in ended : x.doc = new})
  BY DEF issueWarrant
<1> HIDE DEF new
<1>4. /\ store'.mae = store.mae
      /\ \A w \in WarrantIds : store'.warrant[w] = store.warrant[w] \/ store'.warrant[w] = new
  BY <1>1, <1>3 DEF Stores
<1>5. CascadeComplete(store, ended \ forgotten)'
  <2> SUFFICES ASSUME NEW w \in WarrantIds, NEW x \in (ended \ forgotten)',
                      store'.warrant[w] # NotFound, store'.warrant[w].state = "Unused",
                      x.doc = Document(store'.warrant[w])
               PROVE  ~x.linked /\ store'.mae[x.doc.body.mae].revoked
    BY DEF CascadeComplete
  <2>1. x \in ended \ forgotten /\ x.doc # new
    BY <1>3 DEF Revive
  <2>2. store'.warrant[w] = store.warrant[w]
    BY <1>2, <1>4, <2>1
  <2> QED
    BY <1>4, <2>1, <2>2 DEF IndInv, CascadeComplete
<1> QED
  BY <1>3, <1>5 DEF RevocationStep, Revive, IndInv, TypeOK

\* A revocation takes every unused Warrant that its cascade reaches, and leaves
\* the MAE revoked of those it misses.
LEMMA CascadeRevocation ==
    ASSUME IndInv, NEW M, NEW D, NEW E, NEW W, NEW top,
           Cascade(M, D, E, W, top), MarkRevoked(M, D, E, W, top)
    PROVE  RevocationStep
<1> DEFINE new == EndedBy(top)
           H == ended \ forgotten
<1>1. store \in Stores /\ \A w \in WarrantIds : store.warrant[w] # NotFound => store.warrant[w].body.id = w
  BY DEF IndInv, TypeOK, StoreOK
<1>2. /\ ended' = ended \union new /\ forgotten' = forgotten \ new /\ saved' = saved
  BY DEF MarkRevoked
<1>3. /\ \A m \in MaeIds :
           /\ m \in M => store'.mae[m] = [store.mae[m] EXCEPT !.revoked = TRUE]
           /\ m \notin M => store'.mae[m] = store.mae[m]
      /\ \A w \in WarrantIds :
           store'.warrant[w] = IF w \in W /\ store.warrant[w] # NotFound /\ store.warrant[w].state = "Unused"
                               THEN [store.warrant[w] EXCEPT !.state = "Revoked"]
                               ELSE store.warrant[w]
  BY <1>1 DEF MarkRevoked, Stores
<1>4. \A w \in WarrantIds :
        store'.warrant[w] # NotFound /\ store'.warrant[w].state = "Unused" =>
            /\ store.warrant[w] # NotFound /\ store.warrant[w] \in Warrants
            /\ store'.warrant[w] = store.warrant[w] /\ w \notin W
  <2> SUFFICES ASSUME NEW w \in WarrantIds, store'.warrant[w] # NotFound, store'.warrant[w].state = "Unused"
               PROVE  /\ store.warrant[w] # NotFound /\ store.warrant[w] \in Warrants
                      /\ store'.warrant[w] = store.warrant[w] /\ w \notin W
    OBVIOUS
  <2>1. CASE w \in W /\ store.warrant[w] # NotFound /\ store.warrant[w].state = "Unused"
    <3>1. store.warrant[w] \in Warrants
      BY <1>1, <2>1 DEF Stores
    <3>2. store'.warrant[w].state = "Revoked"
      BY <1>3, <2>1, <3>1 DEF Warrants
    <3> QED
      BY <3>2
  <2>2. CASE ~(w \in W /\ store.warrant[w] # NotFound /\ store.warrant[w].state = "Unused")
    BY <1>1, <1>3, <2>2 DEF Stores
  <2> QED
    BY <2>1, <2>2
<1>5. \A m \in MaeIds : store.mae[m].revoked \/ m \in M => store'.mae[m].revoked
  <2>1. \A m \in M : store.mae[m] \in Maes
    BY <1>1 DEF Stores, Cascade
  <2>2. \A m \in MaeIds : m \in M => store'.mae[m].revoked
    BY <1>3, <2>1 DEF Maes
  <2> QED
    BY <1>3, <2>2
<1>6. \A w \in WarrantIds : store.warrant[w] # NotFound =>
        /\ store.warrant[w] \in Warrants
        /\ Document(store.warrant[w]) \in Warrants
        /\ Document(store.warrant[w]).body = store.warrant[w].body
  <2> SUFFICES ASSUME NEW w \in WarrantIds, store.warrant[w] # NotFound
               PROVE  /\ store.warrant[w] \in Warrants
                      /\ Document(store.warrant[w]) \in Warrants
                      /\ Document(store.warrant[w]).body = store.warrant[w].body
    OBVIOUS
  <2>1. store.warrant[w] \in Warrants
    BY <1>1 DEF Stores
  <2> QED
    BY <2>1 DEF Document, Warrants
<1>7. \A x \in new : \E u \in WarrantIds :
        /\ store.warrant[u] # NotFound /\ x.doc = Document(store.warrant[u]) /\ x.linked \in BOOLEAN
        /\ x = [doc |-> Document(store.warrant[u]), linked |-> x.linked]
        /\ x.linked => u \in W
        /\ ~x.linked => store.warrant[u].body.mae \in M
  <2> DEFINE stored == {w \in WarrantIds : store.warrant[w] # NotFound}
             linked == {w \in stored : w \in top.W \/ RunsThrough(w, top.M, top.D, top.E)}
             named == {w \in stored : store.warrant[w].body.mae \in top.M}
  <2>1. linked \subseteq W /\ \A u \in named : store.warrant[u].body.mae \in M
    BY DEF Cascade
  <2>2. new = {[doc |-> Document(store.warrant[w]), linked |-> TRUE] : w \in linked}
              \union {[doc |-> Document(store.warrant[w]), linked |-> FALSE] : w \in named \ linked}
    BY DEF EndedBy
  <2>3. linked \subseteq stored /\ named \subseteq stored
    OBVIOUS
  <2>4. \A u \in stored : u \in WarrantIds /\ store.warrant[u] # NotFound
    OBVIOUS
  <2> HIDE DEF new, stored, linked, named
  <2> SUFFICES ASSUME NEW x \in new
               PROVE  \E u \in WarrantIds :
                        /\ store.warrant[u] # NotFound /\ x.doc = Document(store.warrant[u]) /\ x.linked \in BOOLEAN
                        /\ x = [doc |-> Document(store.warrant[u]), linked |-> x.linked]
                        /\ x.linked => u \in W
                        /\ ~x.linked => store.warrant[u].body.mae \in M
    OBVIOUS
  <2>5. CASE \E u \in linked : x = [doc |-> Document(store.warrant[u]), linked |-> TRUE]
    <3>1. PICK u \in linked : x = [doc |-> Document(store.warrant[u]), linked |-> TRUE]
      BY <2>5
    <3>2. x.doc = Document(store.warrant[u]) /\ x.linked = TRUE
      BY <3>1
    <3>3. u \in WarrantIds /\ store.warrant[u] # NotFound /\ u \in W
      BY <2>1, <2>3, <2>4, <3>1
    <3> QED
      BY <3>1, <3>2, <3>3
  <2>6. CASE \E u \in named : x = [doc |-> Document(store.warrant[u]), linked |-> FALSE]
    <3>1. PICK u \in named : x = [doc |-> Document(store.warrant[u]), linked |-> FALSE]
      BY <2>6
    <3>2. x.doc = Document(store.warrant[u]) /\ x.linked = FALSE
      BY <3>1
    <3>3. u \in WarrantIds /\ store.warrant[u] # NotFound /\ store.warrant[u].body.mae \in M
      BY <2>1, <2>3, <2>4, <3>1
    <3> QED
      BY <3>1, <3>2, <3>3
  <2> QED
    BY <2>2, <2>5, <2>6
<1>8. ended' \subseteq Ended
  <2>1. \A x \in new : x \in Ended
    <3> SUFFICES ASSUME NEW x \in new PROVE x \in Ended
      OBVIOUS
    <3>1. PICK u \in WarrantIds :
             /\ store.warrant[u] # NotFound /\ x.linked \in BOOLEAN
             /\ x = [doc |-> Document(store.warrant[u]), linked |-> x.linked]
      BY <1>7
    <3> QED
      BY <1>6, <3>1 DEF Ended
  <2> QED
    BY <1>2, <2>1 DEF IndInv, TypeOK
<1>9. CascadeComplete(store, ended \ forgotten)'
  <2> SUFFICES ASSUME NEW w \in WarrantIds, NEW x \in (ended \ forgotten)',
                      store'.warrant[w] # NotFound, store'.warrant[w].state = "Unused",
                      x.doc = Document(store'.warrant[w])
               PROVE  ~x.linked /\ store'.mae[x.doc.body.mae].revoked
    BY DEF CascadeComplete
  <2>1. /\ store.warrant[w] # NotFound /\ store.warrant[w] \in Warrants
        /\ store'.warrant[w] = store.warrant[w] /\ w \notin W
    BY <1>4
  <2>2. x.doc = Document(store.warrant[w]) /\ x.doc.body = store.warrant[w].body
    BY <1>6, <2>1
  <2>3. x.doc.body.mae \in MaeIds
    BY <2>1, <2>2, InputAssumption DEF Warrants
  <2>4. CASE x \in new
    <3>1. PICK u \in WarrantIds :
             /\ store.warrant[u] # NotFound /\ x.doc = Document(store.warrant[u]) /\ x.linked \in BOOLEAN
             /\ x.linked => u \in W
             /\ ~x.linked => store.warrant[u].body.mae \in M
      BY <1>7, <2>4
    <3>2. x.doc.body = store.warrant[u].body
      BY <1>6, <3>1
    <3>3. u = w
      BY <1>1, <2>1, <2>2, <3>1, <3>2
    <3>4. ~x.linked /\ x.doc.body.mae \in M
      BY <2>1, <3>1, <3>2, <3>3
    <3> QED
      BY <1>5, <2>3, <3>4
  <2>5. CASE x \in H
    <3>1. ~x.linked /\ store.mae[x.doc.body.mae].revoked
      BY <2>1, <2>2, <2>5 DEF IndInv, CascadeComplete
    <3> QED
      BY <1>5, <2>3, <3>1
  <2> QED
    BY <1>2, <2>4, <2>5
<1> QED
  BY <1>2, <1>8, <1>9 DEF RevocationStep

\* A commit only uses Warrants up, and says nothing of the MAEs.
LEMMA CommitRevocation ==
    ASSUME IndInv, NEW r \in CommitRequests, evaluateCommit(r)
    PROVE  RevocationStep
<1>1. store \in Stores
  BY DEF IndInv, TypeOK, StoreOK
<1> DEFINE Keeps(t) ==
      /\ t.mae = store.mae
      /\ \A w \in WarrantIds : t.warrant[w] # NotFound /\ t.warrant[w].state = "Unused" =>
                                t.warrant[w] = store.warrant[w]
<1>2. \A s \in Stores, decision \in {"Deny", "Escalate", "FailClosed"} :
        Refusal(s, decision, r).mae = s.mae /\ Refusal(s, decision, r).warrant = s.warrant
  BY DEF Refusal, Stores
<1>3. CASE CommitMissing(r) \/ CommitEscalated(r) \/ CommitReplayed(r)
  <2>1. Keeps(store')
    BY <1>1, <1>2, <1>3 DEF CommitMissing, CommitEscalated, CommitReplayed
  <2> QED
    BY <2>1, NothingRevived DEF evaluateCommit
<1>4. CASE CommitDenied(r)
  <2> DEFINE t == latchExpiredWarrant(r)
             v == r.warrant
  <2>1. v \in WarrantIds /\ store.warrant[v] # NotFound
    BY <1>4, InputAssumption DEF CommitDenied, Missing
  <2>2. store.warrant[v] \in Warrants /\ t \in Stores
    BY <1>1, <2>1, LatchGood DEF Stores, IndInv, TypeOK, Good, StoreOK
  <2>3. /\ t.mae = store.mae
        /\ \A w \in WarrantIds : w # v => t.warrant[w] = store.warrant[w]
        /\ t.warrant[v] = store.warrant[v] \/ t.warrant[v] = [store.warrant[v] EXCEPT !.state = "Expired"]
    BY <1>1, <2>1 DEF latchExpiredWarrant, Stores
  <2>4. [store.warrant[v] EXCEPT !.state = "Expired"].state # "Unused"
    BY <2>2 DEF Warrants
  <2>5. Keeps(t)
    BY <2>3, <2>4
  <2>6. Refusal(t, "Deny", r).mae = t.mae /\ Refusal(t, "Deny", r).warrant = t.warrant
    BY <1>2, <2>2
  <2>7. store' = t \/ store' = Refusal(t, "Deny", r)
    BY <1>4 DEF CommitDenied
  <2> HIDE DEF t
  <2>8. Keeps(store')
    BY <2>5, <2>6, <2>7
  <2> QED
    BY <2>8, NothingRevived DEF evaluateCommit
<1>5. CASE CommitAllowed(r)
  <2> DEFINE v == r.warrant
             new == [store.warrant[v] EXCEPT !.state = "Consumed"]
  <2>1. v \in WarrantIds /\ store.warrant[v] # NotFound
    BY <1>5, InputAssumption DEF CommitAllowed, Missing
  <2>2. store.warrant[v] \in Warrants
    BY <1>1, <2>1 DEF Stores
  <2>3. new.state # "Unused"
    BY <2>2 DEF Warrants
  <2>4. /\ store'.mae = store.mae /\ store'.warrant[v] = new
        /\ \A w \in WarrantIds : w # v => store'.warrant[w] = store.warrant[w]
    BY <1>1, <1>5, <2>1 DEF CommitAllowed, Stores
  <2> HIDE DEF new
  <2>5. Keeps(store')
    BY <2>3, <2>4
  <2> QED
    BY <2>5, NothingRevived DEF evaluateCommit
<1> QED
  BY <1>3, <1>4, <1>5 DEF evaluateCommit

\* What a step does to the revocations, or else it is a write, a restart or time.
LEMMA RevocationKinds ==
    ASSUME IndInv, [Next]_vars
    PROVE  RevocationStep \/ WriteTmp \/ Rename \/ Restart \/ Tick \/ UNCHANGED vars
<1>1. Good(store) /\ store \in Stores
  BY DEF IndInv, TypeOK, Good, StoreOK
<1>2. CASE \/ \E b \in MaeInputs : createMae(b)
           \/ \E b \in WardInputs : constituteWard(b)
           \/ \E b \in EnvInputs : createAuthorityEnvelope(b)
           \/ \E b \in BridgeInputs : createFederationAgreement(b)
  BY <1>2, AuthoringRevocation
<1>3. CASE \E b \in WarrantInputs, n \in Nonces : issueWarrant(b, n)
  BY <1>3, IssueRevocation
<1>4. CASE \E k \in Keys : rotateSigningKey(k)
  BY <1>4, NothingRevived DEF rotateSigningKey
<1>5. CASE \/ \E w \in WarrantIds : revokeWarrant(w)
           \/ \E e \in EnvIds : revokeEnvelope(e)
           \/ \E d \in WardIds : revokeWard(d)
           \/ \E m \in MaeIds : revokeMae(m)
  <2>1. PICK M, D, E, W, top : Cascade(M, D, E, W, top) /\ MarkRevoked(M, D, E, W, top)
    BY <1>1, <1>5, RevokingIsCascade
  <2> QED
    BY <2>1, CascadeRevocation
<1>6. CASE \E d \in WardIds : suspendWard(d)
  <2>1. store'.mae = store.mae /\ store'.warrant = store.warrant /\ UNCHANGED revocations
    BY <1>1, <1>6 DEF suspendWard, Stores
  <2> QED
    BY <2>1, NothingRevived
<1>7. CASE \E r \in CommitRequests : evaluateCommit(r)
  BY <1>7, CommitRevocation
<1>8. CASE \E r \in CommitRequests, b \in BridgeIds : evaluateFederatedCommit(b, r)
  <2>1. PICK r \in CommitRequests, b \in BridgeIds : evaluateFederatedCommit(b, r)
    BY <1>8
  <2>2. CASE evaluateCommit(r)
    BY <2>2, CommitRevocation
  <2>3. CASE /\ store' = Refusal(store, "FailClosed", r) \/ store' = Refusal(store, "Deny", r)
             /\ UNCHANGED revocations
    <3>1. store'.mae = store.mae /\ store'.warrant = store.warrant
      BY <1>1, <2>3 DEF Refusal, Stores
    <3> QED
      BY <2>3, <3>1, NothingRevived
  <2> QED
    BY <2>1, <2>2, <2>3 DEF evaluateFederatedCommit
<1>9. CASE \E i \in DOMAIN store.gel : recordExecutionOutcome(i)
  <2>1. store'.mae = store.mae /\ store'.warrant = store.warrant /\ UNCHANGED revocations
    BY <1>1, <1>9 DEF recordExecutionOutcome, Stores
  <2> QED
    BY <2>1, NothingRevived
<1> QED
  BY <1>2, <1>3, <1>4, <1>5, <1>6, <1>7, <1>8, <1>9 DEF Next

-----------------------------------------------------------------------------
(* The invariant                                                           *)

\* A step of the operations leaves the files alone, keeps the store good and
\* consumes at most one nonce, which counts as one more use.
OperationStep ==
    /\ Good(store)' /\ UNCHANGED <<tmp, disk, lost, unpaid, crashes>>
    /\ clock' = clock /\ posts' \in Nat
    /\ keyring' \subseteq Keys /\ signKey' \in keyring' /\ paid' \in [EnvIds -> Int]
    /\ \/ store'.spent = store.spent /\ granted' = granted
       \/ \E n \in Nonces \ store.spent :
             /\ store'.spent = store.spent \union {n}
             /\ granted' = [granted EXCEPT ![n] = @ + 1]

\* Such a step keeps the invariant.
LEMMA OperationKeepsInv ==
    ASSUME IndInv, OperationStep, RevocationStep
    PROVE  IndInv'
<1>1. TypeOK'
  BY DEF IndInv, TypeOK, OperationStep, RevocationStep, Good
<1>2. /\ ReceiptsAgree(store') /\ CascadeComplete(store, ended \ forgotten)'
      /\ ReceiptsAgree(disk') /\ CascadeComplete(disk, saved.disk)'
  BY DEF IndInv, OperationStep, RevocationStep, Good
<1>3. tmp' # NoWrite => /\ StoreOK(tmp') /\ ReceiptsAgree(tmp')
                        /\ CascadeComplete(tmp, saved.tmp)'
  BY DEF IndInv, OperationStep, RevocationStep
<1>4. store.spent \subseteq store'.spent
  BY DEF OperationStep
<1>5. /\ disk'.spent \subseteq store'.spent
      /\ tmp' # NoWrite => disk'.spent \subseteq tmp'.spent /\ tmp'.spent \subseteq store'.spent
  BY <1>4 DEF IndInv, OperationStep
<1>6. \A n \in Nonces :
        /\ granted'[n] = lost'[n] + (IF n \in store'.spent THEN 1 ELSE 0)
        /\ lost'[n] <= crashes'
  <2>1. CASE store'.spent = store.spent /\ granted' = granted
    BY <2>1 DEF IndInv, OperationStep
  <2>2. CASE \E m \in Nonces \ store.spent :
               /\ store'.spent = store.spent \union {m}
               /\ granted' = [granted EXCEPT ![m] = @ + 1]
    <3>1. PICK m \in Nonces \ store.spent :
               /\ store'.spent = store.spent \union {m}
               /\ granted' = [granted EXCEPT ![m] = @ + 1]
      BY <2>2
    <3>2. granted \in [Nonces -> Nat] /\ lost \in [Nonces -> Nat] /\ crashes \in Nat
      BY DEF IndInv, TypeOK
    <3> QED
      BY <3>1, <3>2 DEF IndInv, OperationStep
  <2> QED
    BY <2>1, <2>2 DEF OperationStep
<1> QED
  BY <1>1, <1>2, <1>3, <1>5, <1>6 DEF IndInv

\* The bound on posts keeps their number a number.
LEMMA PostCounts ==
    ASSUME posts \in Nat, Post \/ Bounded(2)
    PROVE  posts' \in Nat
  BY DEF Post, Bounded

\* Every commit, direct or over a bridge, is such a step.
LEMMA CommitStep ==
    ASSUME IndInv, NEW r \in CommitRequests, evaluateCommit(r)
    PROVE  OperationStep
<1>1. Good(store) /\ paid \in [EnvIds -> Int] /\ r.env \in EnvIds
  BY InputAssumption DEF IndInv, TypeOK, Good
<1>2. /\ UNCHANGED <<tmp, disk, lost, unpaid, crashes>> /\ clock' = clock /\ posts' \in Nat
      /\ keyring' \subseteq Keys /\ signKey' \in keyring'
  BY DEF evaluateCommit, file, IndInv, TypeOK
<1>3. CASE CommitMissing(r) \/ CommitDenied(r) \/ CommitEscalated(r) \/ CommitReplayed(r)
  <2>1. paid' = paid
    BY <1>3 DEF CommitMissing, CommitDenied, CommitEscalated, CommitReplayed
  <2> QED
    BY <1>1, <1>2, <1>3, <2>1, CommitRefusedGood DEF OperationStep
<1>4. CASE CommitAllowed(r)
  <2>1. Booked(r) \in Int
    BY InputAssumption DEF Booked
  <2>2. paid' \in [EnvIds -> Int]
    BY <1>1, <1>4, <2>1 DEF CommitAllowed
  <2> QED
    BY <1>1, <1>2, <1>4, <2>2, CommitAllowedGood DEF OperationStep
<1> QED
  BY <1>3, <1>4 DEF evaluateCommit

\* The invariant holds at first.
LEMMA InitInv == Init => IndInv
<1> SUFFICES ASSUME Init PROVE IndInv
  OBVIOUS
<1>1. Good(store) /\ Good(disk)
  BY FirstStoreGood DEF Init
<1>2. store.spent = {} /\ disk.spent = {}
  BY DEF Init, FirstStore
<1>3. ended = {} /\ saved = [tmp |-> {}, disk |-> {}]
  BY DEF Init
<1> QED
  BY <1>1, <1>2, <1>3, ChainAssumption DEF Init, IndInv, TypeOK, Good, Zero, CascadeComplete

\* What a step can be: an operation, a write, a restart, or time.
LEMMA StepKinds ==
    ASSUME IndInv, [Next]_vars
    PROVE  OperationStep \/ WriteTmp \/ Rename \/ Restart \/ Tick \/ UNCHANGED vars
<1>1. /\ Good(store) /\ Good(disk) /\ (tmp # NoWrite => Good(tmp))
      /\ clock \in Nat /\ posts \in Nat /\ crashes \in Nat
      /\ keyring \subseteq Keys /\ signKey \in keyring /\ signKey \in Keys
      /\ granted \in [Nonces -> Nat] /\ lost \in [Nonces -> Nat]
      /\ paid \in [EnvIds -> Int] /\ unpaid \in [EnvIds -> Int]
  BY DEF IndInv, TypeOK, Good
<1>2. CASE \/ \E b \in MaeInputs : createMae(b)
           \/ \E b \in WardInputs : constituteWard(b)
           \/ \E b \in EnvInputs : createAuthorityEnvelope(b)
           \/ \E b \in BridgeInputs : createFederationAgreement(b)
  <2>1. Good(store)' /\ SameLedger(store, store')
    BY <1>1, <1>2, AuthoringGood
  <2>2. Post /\ UNCHANGED <<clock, keyring, signKey, file, history>>
    BY <1>2 DEF createMae, constituteWard, createAuthorityEnvelope, createFederationAgreement
  <2> QED
    BY <1>1, <2>1, <2>2, PostCounts DEF OperationStep, SameLedger, file, history
<1>3. CASE \E b \in WarrantInputs, n \in Nonces : issueWarrant(b, n)
  <2>1. Good(store)' /\ SameLedger(store, store')
    BY <1>1, <1>3, IssueGood
  <2>2. Bounded(2) /\ UNCHANGED <<clock, keyring, signKey, file, history>>
    BY <1>3 DEF issueWarrant
  <2> QED
    BY <1>1, <2>1, <2>2, PostCounts DEF OperationStep, SameLedger, file, history
<1>4. CASE \E k \in Keys : rotateSigningKey(k)
  BY <1>1, <1>4 DEF OperationStep, Good, rotateSigningKey, file, history
<1>5. CASE \/ \E w \in WarrantIds : revokeWarrant(w)
           \/ \E e \in EnvIds : revokeEnvelope(e)
           \/ \E d \in WardIds : revokeWard(d)
           \/ \E m \in MaeIds : revokeMae(m)
  <2>1. Good(store)' /\ SameLedger(store, store')
    BY <1>1, <1>5, RevokingGood
  <2>2. Post /\ UNCHANGED <<clock, keyring, signKey, file, history>>
    BY <1>1, <1>5, RevokingIsCascade
  <2> QED
    BY <1>1, <2>1, <2>2, PostCounts DEF OperationStep, SameLedger, file, history
<1>6. CASE \E d \in WardIds : suspendWard(d)
  <2>1. Good(store)' /\ SameLedger(store, store')
    BY <1>1, <1>6, SuspendGood
  <2>2. Post /\ UNCHANGED <<clock, keyring, signKey, file, history>>
    BY <1>6 DEF suspendWard
  <2> QED
    BY <1>1, <2>1, <2>2, PostCounts DEF OperationStep, SameLedger, file, history
<1>7. CASE \E r \in CommitRequests : evaluateCommit(r)
  BY <1>7, CommitStep
<1>8. ASSUME NEW r \in CommitRequests, NEW b \in BridgeIds, evaluateFederatedCommit(b, r)
      PROVE  OperationStep
  <2>1. CASE evaluateCommit(r)
    BY <2>1, CommitStep
  <2>2. CASE /\ store' = Refusal(store, "FailClosed", r) \/ store' = Refusal(store, "Deny", r)
             /\ UNCHANGED <<clock, keyring, signKey, file, history, revocations, posts>>
    <3>1. Good(store)' /\ store'.spent = store.spent
      BY <1>1, <2>2, RefusalGood DEF Good
    <3> QED
      BY <1>1, <2>2, <3>1 DEF OperationStep, file, history
  <2> QED
    BY <1>8, <2>1, <2>2 DEF evaluateFederatedCommit
<1>9. CASE \E i \in DOMAIN store.gel : recordExecutionOutcome(i)
  <2>1. Good(store)' /\ store'.spent = store.spent
    BY <1>1, <1>9, OutcomeGood
  <2>2. UNCHANGED <<clock, keyring, signKey, file, history, posts>>
    BY <1>9 DEF recordExecutionOutcome
  <2> QED
    BY <1>1, <2>1, <2>2 DEF OperationStep, file, history
<1> QED
  BY <1>2, <1>3, <1>4, <1>5, <1>6, <1>7, <1>8, <1>9 DEF Next

\* Every step keeps the invariant: the operations as above, the writes because
\* they move a store the process had, the restart because the state file holds
\* one.
LEMMA NextInv == ASSUME IndInv, [Next]_vars PROVE IndInv'
<1>1. /\ Good(store) /\ Good(disk) /\ (tmp # NoWrite => Good(tmp))
      /\ clock \in Nat /\ posts \in Nat /\ crashes \in Nat
      /\ keyring \subseteq Keys /\ signKey \in keyring /\ signKey \in Keys
      /\ granted \in [Nonces -> Nat] /\ lost \in [Nonces -> Nat]
      /\ paid \in [EnvIds -> Int] /\ unpaid \in [EnvIds -> Int]
  BY DEF IndInv, TypeOK, Good
<1>10. CASE WriteTmp
  <2>1. TypeOK'
    BY <1>1, <1>10 DEF WriteTmp, memory, history, IndInv, TypeOK, Good
  <2>2. /\ tmp' = store /\ saved'.tmp = ended \ forgotten /\ saved'.disk = saved.disk
        /\ store' = store /\ disk' = disk /\ ended' = ended /\ forgotten' = forgotten
    BY <1>10 DEF WriteTmp, memory, IndInv, TypeOK
  <2>3. /\ CascadeComplete(store, ended \ forgotten)' /\ CascadeComplete(disk, saved.disk)'
        /\ CascadeComplete(tmp, saved.tmp)'
    BY <2>2 DEF IndInv, CascadeComplete
  <2> QED
    BY <1>1, <1>10, <2>1, <2>2, <2>3 DEF WriteTmp, memory, history, IndInv, Good
<1>11. CASE Rename
  <2>1. TypeOK'
    BY <1>1, <1>11 DEF Rename, memory, history, IndInv, TypeOK, Good
  <2>2. /\ disk' = tmp /\ tmp # NoWrite /\ tmp' = NoWrite /\ saved'.disk = saved.tmp
        /\ store' = store /\ ended' = ended /\ forgotten' = forgotten
    BY <1>11 DEF Rename, memory
  <2>3. CascadeComplete(store, ended \ forgotten)' /\ CascadeComplete(disk, saved.disk)'
    BY <2>2 DEF IndInv, CascadeComplete
  <2> QED
    BY <1>1, <1>11, <2>1, <2>2, <2>3 DEF Rename, memory, history, IndInv, Good
<1>12. CASE Restart
  <2>1. /\ store' = disk /\ disk' = disk /\ tmp' = NoWrite /\ crashes' = crashes + 1
        /\ granted' = granted
        /\ lost' = [n \in Nonces |-> lost[n] + IF n \in store.spent \ disk.spent THEN 1 ELSE 0]
    BY <1>12 DEF Restart, Loaded
  <2>2. unpaid' \in [EnvIds -> Int]
    <3>1. store.spend \in [EnvIds -> Int] /\ disk.spend \in [EnvIds -> Int]
      BY <1>1 DEF Good, StoreOK, Stores
    <3> QED
      BY <1>1, <1>12, <3>1 DEF Restart
  <2>3. lost' \in [Nonces -> Nat]
    BY <1>1, <2>1
  <2>4. TypeOK'
    BY <1>1, <1>12, <2>1, <2>2, <2>3, ChainAssumption DEF Restart, IndInv, TypeOK, Good
  <2>5. \A n \in Nonces :
          /\ granted'[n] = lost'[n] + (IF n \in store'.spent THEN 1 ELSE 0)
          /\ lost'[n] <= crashes'
    BY <1>1, <2>1 DEF IndInv
  <2>6. /\ (ended \ forgotten)' \subseteq saved.disk /\ saved'.disk = saved.disk
    BY <1>12 DEF Restart, IndInv, TypeOK
  <2>7. CascadeComplete(store, ended \ forgotten)' /\ CascadeComplete(disk, saved.disk)'
    BY <2>1, <2>6 DEF IndInv, CascadeComplete
  <2> QED
    BY <1>1, <2>1, <2>4, <2>5, <2>7 DEF IndInv, Good
<1>13. CASE Tick
  <2>1. UNCHANGED <<memory, file, history, revocations, posts>> /\ clock' \in Nat
    BY <1>1, <1>13 DEF Tick
  <2>2. TypeOK'
    BY <2>1 DEF memory, file, history, revocations, IndInv, TypeOK
  <2> QED
    BY <2>1, <2>2 DEF memory, file, history, revocations, IndInv, CascadeComplete
<1>14. CASE UNCHANGED vars
  <2>1. TypeOK'
    BY <1>14 DEF vars, memory, file, history, revocations, IndInv, TypeOK
  <2> QED
    BY <1>14, <2>1 DEF vars, memory, file, history, revocations, IndInv, CascadeComplete
<1> QED
  BY <1>10, <1>11, <1>12, <1>13, <1>14, StepKinds, RevocationKinds, OperationKeepsInv

\* In memory, in the file and in the file being written the store is sound: its
\* receipts and nonces agree, and no Warrant it has stored is unused whose
\* authority was revoked as far as the history of that store goes, but for one
\* that a cascade missed and whose MAE is still revoked.
THEOREM Invariance == Spec => []IndInv
<1>1. IndInv /\ [Next]_vars => IndInv'
  BY NextInv
<1> QED
  BY InitInv, <1>1, PTL DEF Spec

\* A nonce authorises one act, and one more for every crash that made the store
\* forget its consumption, whatever is issued, re-issued or revoked.
THEOREM SingleUseTheorem == Spec => []SingleUse
<1>1. IndInv => SingleUse
  BY DEF IndInv, TypeOK, SingleUse
<1> QED
  BY <1>1, Invariance, PTL

\* A consumption that has reached the state file is final: no later step
\* authorises another act with that nonce, and no write or restart forgets it.
THEOREM DurableIsFinalTheorem == Spec => DurableIsFinal
<1>1. ASSUME IndInv, [Next]_vars
      PROVE  \A n \in disk.spent : granted'[n] = granted[n] /\ n \in disk'.spent
  <2>1. /\ disk.spent \subseteq Nonces /\ disk.spent \subseteq store.spent
        /\ granted \in [Nonces -> Nat] /\ (tmp # NoWrite => disk.spent \subseteq tmp.spent)
    BY <1>1 DEF IndInv, TypeOK, StoreOK, Stores
  <2>2. CASE OperationStep
    BY <2>1, <2>2 DEF OperationStep
  <2>3. CASE WriteTmp
    BY <2>3 DEF WriteTmp, history
  <2>4. CASE Rename
    BY <2>1, <2>4 DEF Rename, history
  <2>5. CASE Restart
    BY <2>5 DEF Restart
  <2>6. CASE Tick \/ UNCHANGED vars
    BY <2>6 DEF Tick, vars, file, history
  <2> QED
    BY <1>1, <2>2, <2>3, <2>4, <2>5, <2>6, StepKinds
<1> QED
  BY <1>1, Invariance, PTL DEF Spec, DurableIsFinal

\* A step that allows an act under a Warrant is an allowed commit of a request
\* that names it.
LEMMA AllowsIsCommit ==
    ASSUME IndInv, [Next]_vars, NEW w \in WarrantIds, Allows(w)
    PROVE  \E r \in CommitRequests : CommitAllowed(r) /\ r.warrant = w
<1>1. Good(store) /\ granted' # granted /\ store \in Stores
  BY DEF IndInv, TypeOK, Good, StoreOK, Allows
<1>2. ASSUME NEW r \in CommitRequests, evaluateCommit(r)
      PROVE  CommitAllowed(r) /\ r.warrant = w
  <2>1. CommitAllowed(r)
    BY <1>1, <1>2, CommitRefusedGood DEF evaluateCommit
  <2>2. r.warrant # w => store'.warrant[w] = store.warrant[w]
    BY <1>1, <2>1 DEF CommitAllowed, Stores
  <2> QED
    BY <2>1, <2>2 DEF Allows
<1>3. CASE \E r \in CommitRequests : evaluateCommit(r)
  BY <1>2, <1>3
<1>4. CASE \E r \in CommitRequests, b \in BridgeIds : evaluateFederatedCommit(b, r)
  <2>1. PICK r \in CommitRequests, b \in BridgeIds : evaluateFederatedCommit(b, r)
    BY <1>4
  <2>2. evaluateCommit(r)
    BY <1>1, <2>1 DEF evaluateFederatedCommit, history
  <2> QED
    BY <1>2, <2>2
<1>5. CASE \/ \E b \in MaeInputs : createMae(b)
           \/ \E b \in WardInputs : constituteWard(b)
           \/ \E b \in EnvInputs : createAuthorityEnvelope(b)
           \/ \E b \in BridgeInputs : createFederationAgreement(b)
           \/ \E b \in WarrantInputs, n \in Nonces : issueWarrant(b, n)
           \/ \E k \in Keys : rotateSigningKey(k)
  BY <1>1, <1>5 DEF createMae, constituteWard, createAuthorityEnvelope, createFederationAgreement,
     issueWarrant, rotateSigningKey, history
<1>6. CASE \/ \E v \in WarrantIds : revokeWarrant(v)
           \/ \E e \in EnvIds : revokeEnvelope(e)
           \/ \E d \in WardIds : revokeWard(d) \/ suspendWard(d)
           \/ \E m \in MaeIds : revokeMae(m)
           \/ \E i \in DOMAIN store.gel : recordExecutionOutcome(i)
  BY <1>1, <1>6 DEF revokeWarrant, revokeEnvelope, revokeWard, suspendWard, revokeMae,
     recordExecutionOutcome, history
<1>7. CASE WriteTmp \/ Rename \/ Restart \/ Tick \/ UNCHANGED vars
  BY <1>1, <1>7 DEF WriteTmp, Rename, Restart, Tick, vars, history
<1> QED
  BY <1>3, <1>4, <1>5, <1>6, <1>7 DEF Next

\* A Warrant that was revoked, or whose authority was, is not honoured though
\* that authority is authored again: the cascade has taken the Warrant itself,
\* or its MAE is still revoked and the Commit Gate refuses.  What a crash has
\* lost of the revocations is excepted.
THEOREM RevokedNeverAllowedTheorem == Spec => RevokedNeverAllowed
<1>1. ASSUME IndInv, [Next]_vars, NEW w \in WarrantIds, Allows(w),
             NEW x \in ended \ forgotten, x.doc = Document(store.warrant[w])
      PROVE  FALSE
  <2>1. PICK r \in CommitRequests : CommitAllowed(r) /\ r.warrant = w
    BY <1>1, AllowsIsCommit
  <2> DEFINE v == store.warrant[w]
             m == store.mae[r.mae]
  <2>2. ~Missing(r) /\ StoreOK(store) /\ chainIsIntact(v, store.env[r.env], store.ward[r.ward], m, r)
    BY <1>1, <2>1 DEF CommitAllowed, Admissible, IndInv, TypeOK
  <2>3. m.body.id = r.mae
    BY <2>2, InputAssumption DEF Missing, StoreOK
  <2>4. ~m.revoked /\ v.body.mae = r.mae
    BY <2>2, <2>3 DEF chainIsIntact, validateMae, validateWarrant, Live
  <2>5. v \in Warrants
    BY <1>1, <2>2 DEF Allows, StoreOK, Stores
  <2>6. x.doc.body.mae = r.mae
    BY <1>1, <2>4, <2>5 DEF Document, Warrants
  <2>7. store.mae[x.doc.body.mae].revoked
    BY <1>1 DEF Allows, IndInv, CascadeComplete
  <2> QED
    BY <2>4, <2>6, <2>7
<1>2. IndInv /\ [Next]_vars =>
        [\A w \in WarrantIds : Allows(w) =>
            \A x \in ended \ forgotten : x.doc # Document(store.warrant[w])]_vars
  BY <1>1
<1> QED
  BY <1>2, Invariance, PTL DEF Spec, RevokedNeverAllowed

\* Authority only narrows along the chain of an allowed act.
THEOREM AuthorityNarrowsTheorem == Spec => AuthorityNarrows
<1> DEFINE Narrow(w) ==
      LET x == store.warrant[w].body
          e == store.env[x.env].body
          d == store.ward[x.ward].body
          m == store.mae[x.mae].body
      IN  /\ {x.act.class, Wildcard} \intersect d.permitted # {}
          /\ {x.act.class, Wildcard} \intersect m.permitted # {}
          /\ x.act.class \in d.prohibited \union m.prohibited => Wildcard \in e.allowed
<1>1. ASSUME IndInv, [Next]_vars, NEW w \in WarrantIds, Allows(w)
      PROVE  Narrow(w)
  <2>1. PICK r \in CommitRequests : CommitAllowed(r) /\ r.warrant = w
    BY <1>1, AllowsIsCommit
  <2> DEFINE x == store.warrant[w].body
             c == x.act.class
             e == store.env[r.env]
             d == store.ward[r.ward]
             m == store.mae[r.mae]
  <2>2. chainIsIntact(store.warrant[w], e, d, m, r)
    BY <2>1 DEF CommitAllowed, Admissible
  <2>3. m.body.id = r.mae /\ d.body.id = r.ward /\ e.body.id = r.env
    <3>1. ~Missing(r) /\ StoreOK(store)
      BY <1>1, <2>1 DEF CommitAllowed, IndInv, TypeOK
    <3> QED
      BY <3>1, InputAssumption DEF Missing, StoreOK
  <2>4. x.mae = r.mae /\ x.ward = r.ward /\ x.env = r.env
    BY <2>2, <2>3 DEF chainIsIntact, validateWarrant
  <2>5. /\ isSubsetOf({c}, e.body.allowed)
        /\ isSubsetOf(e.body.allowed, d.body.permitted)
        /\ isSubsetOf(e.body.allowed, m.body.permitted)
        /\ e.body.allowed \intersect (d.body.prohibited \union m.body.prohibited) = {}
    BY <2>2 DEF chainIsIntact, validateWarrant, validateEnvelopeUnderWard
  <2> HIDE DEF c, e, d, m, x
  <2>6. c \in e.body.allowed \/ Wildcard \in e.body.allowed
    BY <2>5 DEF isSubsetOf
  <2>7. /\ {c, Wildcard} \intersect d.body.permitted # {}
        /\ {c, Wildcard} \intersect m.body.permitted # {}
        /\ c \in d.body.prohibited \union m.body.prohibited => Wildcard \in e.body.allowed
    BY <2>5, <2>6 DEF isSubsetOf
  <2> QED
    BY <2>4, <2>7 DEF c, e, d, m, x
<1> HIDE DEF Narrow
<1>2. IndInv /\ [Next]_vars => [\A w \in WarrantIds : Allows(w) => Narrow(w)]_vars
  BY <1>1
<1> QED
  BY <1>2, Invariance, PTL DEF Spec, AuthorityNarrows, Narrow

-----------------------------------------------------------------------------
(* Totals                                                                  *)

\* A set of natural numbers that is not empty has a least member.
LEMMA LeastMember ==
    ASSUME NEW S, S \subseteq Nat, S # {}
    PROVE  \E x \in S : \A y \in S : x <= y
<1> DEFINE R == OpToRel(<, Nat)
<1>1. IsWellFoundedOn(R, Nat)
  BY NatLessThanWellFounded, Zenon
<1>2. \A x, y \in Nat : <<x, y>> \in R <=> x < y
  BY DEF OpToRel
<1> HIDE DEF R
<1>3. PICK x \in S : \A y \in S : <<y, x>> \notin R
  BY <1>1, WFMin
<1>4. \A y \in S : x <= y
  <2>1. ASSUME NEW y \in S PROVE x <= y
    <3>1. x \in Nat /\ y \in Nat
      OBVIOUS
    <3>2. ~(y < x)
      BY <1>2, <1>3, <3>1
    <3> QED
      BY <3>1, <3>2
  <2> QED
    BY <2>1
<1> QED
  BY <1>4

\* What a record books for Envelope e.
Share(e, x) == IF x.env = e THEN x.booked ELSE 0

\* f is the running total of the first n records.
RunsUp(f, e, gel, n) ==
    /\ f \in [0 .. n -> Int] /\ f[0] = 0
    /\ \A i \in 1 .. n : f[i] = f[i - 1] + Share(e, gel[i])

\* There is a running total of every list of records.
LEMMA RunningTotalExists ==
    ASSUME NEW e, NEW gel \in Seq(GelRecords)
    PROVE  \E f : RunsUp(f, e, gel, Len(gel))
<1> DEFINE Bad == {n \in 0 .. Len(gel) : ~ \E f : RunsUp(f, e, gel, n)}
<1>1. Len(gel) \in Nat /\ \A i \in 1 .. Len(gel) : Share(e, gel[i]) \in Int
  <2>1. ASSUME NEW i \in 1 .. Len(gel) PROVE Share(e, gel[i]) \in Int
    <3>1. gel[i] \in GelRecords
      OBVIOUS
    <3> QED
      BY <3>1 DEF Share, GelRecords
  <2> QED
    BY <2>1
<1>2. Bad = {}
  <2> SUFFICES ASSUME Bad # {} PROVE FALSE
    OBVIOUS
  <2>1. Bad \subseteq Nat
    BY <1>1
  <2>2. PICK n \in Bad : \A m \in Bad : n <= m
    BY <2>1, LeastMember
  <2>3. n \in Nat /\ n <= Len(gel) /\ ~ \E f : RunsUp(f, e, gel, n)
    BY <1>1, <2>2
  <2>4. n # 0
    <3> SUFFICES ASSUME n = 0 PROVE FALSE
      OBVIOUS
    <3> DEFINE f == [i \in 0 .. n |-> 0]
    <3>1. f \in [0 .. n -> Int] /\ f[0] = 0
      BY <2>3
    <3>2. \A i \in 1 .. n : FALSE
      OBVIOUS
    <3> HIDE DEF f
    <3> QED
      BY <2>3, <3>1, <3>2 DEF RunsUp
  <2>5. n - 1 \in 0 .. Len(gel) /\ n - 1 < n
    BY <1>1, <2>3, <2>4
  <2>6. n - 1 \notin Bad
    BY <2>1, <2>2, <2>5
  <2>7. PICK f : RunsUp(f, e, gel, n - 1)
    BY <2>5, <2>6
  <2> DEFINE g == [i \in 0 .. n |-> IF i = n THEN f[n - 1] + Share(e, gel[n]) ELSE f[i]]
  <2>8. f[n - 1] \in Int /\ Share(e, gel[n]) \in Int /\ \A i \in 0 .. n - 1 : f[i] \in Int
    BY <1>1, <2>3, <2>4, <2>5, <2>7 DEF RunsUp
  <2>9. g \in [0 .. n -> Int] /\ g[n] = f[n - 1] + Share(e, gel[n]) /\ \A i \in 0 .. n - 1 : g[i] = f[i]
    BY <2>3, <2>8
  <2> HIDE DEF g
  <2>10. g[0] = 0
    BY <2>3, <2>4, <2>7, <2>9 DEF RunsUp
  <2>11. ASSUME NEW i \in 1 .. n PROVE g[i] = g[i - 1] + Share(e, gel[i])
    <3>1. CASE i = n
      BY <2>3, <2>4, <2>9, <3>1
    <3>2. CASE i # n
      <4>1. i \in 1 .. n - 1 /\ i \in 0 .. n - 1 /\ i - 1 \in 0 .. n - 1
        BY <2>3, <3>2
      <4> QED
        BY <2>7, <2>9, <4>1 DEF RunsUp
    <3> QED
      BY <3>1, <3>2
  <2>12. RunsUp(g, e, gel, n)
    BY <2>9, <2>10, <2>11 DEF RunsUp
  <2> QED
    BY <2>3, <2>12
<1>3. Len(gel) \in 0 .. Len(gel)
  BY <1>1
<1> QED
  BY <1>2, <1>3

\* Two running totals of lists that begin alike agree where the lists do.
LEMMA RunningTotalUnique ==
    ASSUME NEW e, NEW gel \in Seq(GelRecords), NEW hel, NEW n \in Nat, n <= Len(gel),
           NEW m \in Nat, NEW k \in Nat, n <= m, n <= k,
           \A i \in 1 .. n : hel[i] = gel[i],
           NEW f, RunsUp(f, e, gel, m), NEW g, RunsUp(g, e, hel, k)
    PROVE  f[n] = g[n]
<1> DEFINE Bad == {i \in 0 .. n : f[i] # g[i]}
<1>1. Bad = {}
  <2> SUFFICES ASSUME Bad # {} PROVE FALSE
    OBVIOUS
  <2>1. Bad \subseteq Nat
    OBVIOUS
  <2>2. PICK i \in Bad : \A j \in Bad : i <= j
    BY <2>1, LeastMember
  <2>3. i \in 0 .. n /\ f[i] # g[i]
    BY <2>2
  <2>4. i # 0
    BY <2>3 DEF RunsUp
  <2>5. i - 1 \in 0 .. n /\ i - 1 < i /\ i \in 1 .. n /\ i \in 1 .. m /\ i \in 1 .. k
    BY <2>3, <2>4
  <2>6. f[i - 1] = g[i - 1]
    BY <2>1, <2>2, <2>5
  <2>7. f[i] = f[i - 1] + Share(e, gel[i]) /\ g[i] = g[i - 1] + Share(e, hel[i])
    BY <2>5 DEF RunsUp
  <2> QED
    BY <2>3, <2>5, <2>6, <2>7
<1> QED
  BY <1>1

\* TotalBooked is what a running total comes to.
LEMMA TotalIsRunningTotal ==
    ASSUME NEW e, NEW gel \in Seq(GelRecords)
    PROVE  \E f : RunsUp(f, e, gel, Len(gel)) /\ TotalBooked(e, gel) = f[Len(gel)]
<1> DEFINE Eq(h) == h = [i \in 0 .. Len(gel) |->
                           IF i = 0 THEN 0 ELSE h[i - 1] + IF gel[i].env = e THEN gel[i].booked ELSE 0]
           upTo == CHOOSE h : Eq(h)
<1>1. PICK f : RunsUp(f, e, gel, Len(gel))
  BY RunningTotalExists
<1>2. Len(gel) \in Nat
  OBVIOUS
<1>3. Eq(f)
  <2> DEFINE F == [i \in 0 .. Len(gel) |->
                     IF i = 0 THEN 0 ELSE f[i - 1] + IF gel[i].env = e THEN gel[i].booked ELSE 0]
  <2>1. \A i \in 0 .. Len(gel) : f[i] = F[i]
    <3> SUFFICES ASSUME NEW i \in 0 .. Len(gel) PROVE f[i] = F[i]
      OBVIOUS
    <3>1. CASE i = 0
      BY <1>1, <3>1 DEF RunsUp
    <3>2. CASE i # 0
      <4>1. i \in 1 .. Len(gel)
        BY <1>2, <3>2
      <4> QED
        BY <1>1, <3>2, <4>1 DEF RunsUp, Share
    <3> QED
      BY <3>1, <3>2
  <2>2. f \in [0 .. Len(gel) -> Int]
    BY <1>1 DEF RunsUp
  <2> QED
    BY <2>1, <2>2
<1>4. Eq(upTo)
  BY <1>3
<1>5. TotalBooked(e, gel) = upTo[Len(gel)]
  BY DEF TotalBooked
<1> HIDE DEF upTo
<1>6. \A i \in 0 .. Len(gel) : upTo[i] = f[i]
  <2> DEFINE Bad == {i \in 0 .. Len(gel) : upTo[i] # f[i]}
  <2> SUFFICES ASSUME Bad # {} PROVE FALSE
    OBVIOUS
  <2>1. Bad \subseteq Nat
    OBVIOUS
  <2>2. PICK i \in Bad : \A j \in Bad : i <= j
    BY <2>1, LeastMember
  <2>3. i \in 0 .. Len(gel) /\ upTo[i] # f[i]
    BY <2>2
  <2>4. \A j \in 0 .. Len(gel) :
           upTo[j] = IF j = 0 THEN 0 ELSE upTo[j - 1] + IF gel[j].env = e THEN gel[j].booked ELSE 0
    BY <1>4
  <2>5. i # 0
    BY <1>1, <2>3, <2>4 DEF RunsUp
  <2>6. i - 1 \in 0 .. Len(gel) /\ i - 1 < i /\ i \in 1 .. Len(gel)
    BY <1>2, <2>3, <2>5
  <2>7. upTo[i - 1] = f[i - 1]
    BY <2>1, <2>2, <2>6
  <2>8. upTo[i] = upTo[i - 1] + Share(e, gel[i])
    BY <2>3, <2>4, <2>5 DEF Share
  <2>9. f[i] = f[i - 1] + Share(e, gel[i])
    BY <1>1, <2>6 DEF RunsUp
  <2> QED
    BY <2>3, <2>7, <2>8, <2>9
<1> QED
  BY <1>1, <1>2, <1>5, <1>6

\* A list without records books nothing.
LEMMA NothingBooked == \A e : TotalBooked(e, <<>>) = 0
<1> SUFFICES ASSUME NEW e PROVE TotalBooked(e, <<>>) = 0
  OBVIOUS
<1>1. <<>> \in Seq(GelRecords) /\ Len(<<>>) = 0
  OBVIOUS
<1> QED
  BY <1>1, TotalIsRunningTotal DEF RunsUp

\* One more record books its share.
LEMMA OneMoreBooked ==
    ASSUME NEW e, NEW gel \in Seq(GelRecords), NEW x \in GelRecords
    PROVE  /\ TotalBooked(e, gel) \in Int
           /\ TotalBooked(e, Append(gel, x)) = TotalBooked(e, gel) + Share(e, x)
<1> DEFINE n == Len(gel)
           hel == Append(gel, x)
<1>1. /\ n \in Nat /\ hel \in Seq(GelRecords) /\ Len(hel) = n + 1
      /\ \A i \in 1 .. n : hel[i] = gel[i]
      /\ hel[n + 1] = x
  OBVIOUS
<1>2. PICK f : RunsUp(f, e, gel, n) /\ TotalBooked(e, gel) = f[n]
  BY TotalIsRunningTotal
<1>3. PICK g : RunsUp(g, e, hel, n + 1) /\ TotalBooked(e, hel) = g[n + 1]
  BY <1>1, TotalIsRunningTotal
<1> HIDE DEF n, hel
<1>4. f[n] = g[n]
  <2>1. n + 1 \in Nat /\ n <= n + 1 /\ n <= n /\ n <= Len(gel)
    BY <1>1 DEF n
  <2> QED
    BY <1>1, <1>2, <1>3, <2>1, RunningTotalUnique
<1>5. n + 1 \in 1 .. n + 1 /\ (n + 1) - 1 = n /\ n \in 0 .. n
  BY <1>1
<1>6. g[n + 1] = g[n] + Share(e, x)
  BY <1>1, <1>3, <1>5 DEF RunsUp
<1>7. f[n] \in Int
  BY <1>2, <1>5 DEF RunsUp
<1> QED
  BY <1>2, <1>3, <1>4, <1>6, <1>7 DEF hel

-----------------------------------------------------------------------------
(* The accounts                                                            *)

\* Nothing is booked from s to t: at most a record that books nothing is added.
BooksNothing(s, t) ==
    /\ t.spend = s.spend
    /\ t.gel = s.gel \/ \E x \in GelRecords : x.booked = 0 /\ t.gel = Append(s.gel, x)

\* Then the accounts stay in order.
LEMMA NothingKeepsAccounts ==
    ASSUME NEW s \in Stores, NEW t, AccountsOK(s), BooksNothing(s, t)
    PROVE  AccountsOK(t)
<1>1. s.gel \in Seq(GelRecords)
  BY DEF Stores
<1>2. ASSUME NEW e PROVE TotalBooked(e, t.gel) = TotalBooked(e, s.gel)
  <2>1. CASE t.gel = s.gel
    BY <2>1
  <2>2. ASSUME NEW x \in GelRecords, x.booked = 0, t.gel = Append(s.gel, x)
        PROVE  TotalBooked(e, t.gel) = TotalBooked(e, s.gel)
    <3>1. Share(e, x) = 0
      BY <2>2 DEF Share
    <3> QED
      BY <1>1, <2>2, <3>1, OneMoreBooked
  <2> QED
    BY <2>1, <2>2 DEF BooksNothing
<1> QED
  BY <1>2 DEF AccountsOK, BooksNothing

\* A refusal books nothing, nor does latching a Warrant that is past its time.
LEMMA RefusalBooksNothing ==
    ASSUME NEW s \in Stores, NEW r \in CommitRequests,
           NEW decision \in {"Deny", "Escalate", "FailClosed"}
    PROVE  BooksNothing(s, Refusal(s, decision, r))
<1> DEFINE x == GelRecord(decision, r, NoProof, 0)
<1>1. x \in GelRecords /\ x.booked = 0
  BY InputAssumption DEF GelRecord, GelRecords
<1>2. Refusal(s, decision, r) = [s EXCEPT !.gel = Append(s.gel, x)]
  BY DEF Refusal
<1> HIDE DEF x
<1>3. Refusal(s, decision, r).gel = Append(s.gel, x) /\ Refusal(s, decision, r).spend = s.spend
  BY <1>2 DEF Stores
<1> QED
  BY <1>1, <1>3 DEF BooksNothing

\* Marking an expired Warrant books nothing.
LEMMA LatchBooksNothing ==
    ASSUME store \in Stores, NEW r
    PROVE  latchExpiredWarrant(r).gel = store.gel /\ latchExpiredWarrant(r).spend = store.spend
  BY DEF latchExpiredWarrant, Stores

\* A commit that is refused books nothing.
LEMMA CommitRefusedBooksNothing ==
    ASSUME Good(store), NEW r \in CommitRequests,
           CommitMissing(r) \/ CommitDenied(r) \/ CommitEscalated(r) \/ CommitReplayed(r)
    PROVE  BooksNothing(store, store') /\ paid' = paid
<1>1. store \in Stores
  BY DEF Good, StoreOK
<1>2. CASE CommitMissing(r) \/ CommitEscalated(r) \/ CommitReplayed(r)
  BY <1>1, <1>2, RefusalBooksNothing DEF CommitMissing, CommitEscalated, CommitReplayed
<1>3. CASE CommitDenied(r)
  <2> DEFINE t == latchExpiredWarrant(r)
  <2>1. store.warrant[r.warrant] # NotFound
    BY <1>3 DEF CommitDenied, Missing
  <2>2. t \in Stores /\ t.gel = store.gel /\ t.spend = store.spend
    BY <1>1, <2>1, LatchGood, LatchBooksNothing DEF Good, StoreOK
  <2>3. (store' = t \/ store' = Refusal(t, "Deny", r)) /\ paid' = paid
    BY <1>3 DEF CommitDenied
  <2> HIDE DEF t
  <2>4. BooksNothing(t, Refusal(t, "Deny", r))
    BY <2>2, RefusalBooksNothing
  <2> QED
    BY <2>2, <2>3, <2>4 DEF BooksNothing
<1> QED
  BY <1>2, <1>3

\* A commit that is allowed books its amount in the spend, in the evidence and
\* in the history alike, and only within the budget of the stored Envelope.
LEMMA CommitAllowedAccounts ==
    ASSUME Good(store), AccountsOK(store), paid \in [EnvIds -> Int],
           NEW r \in CommitRequests, CommitAllowed(r)
    PROVE  /\ AccountsOK(store')
           /\ \A e \in EnvIds : paid'[e] - store'.spend[e] = paid[e] - store.spend[e]
<1> DEFINE n == store.warrant[r.warrant].nonce
           x == GelRecord("Allow", r, n, Booked(r))
<1>1. store \in Stores /\ r.env \in EnvIds /\ store.gel \in Seq(GelRecords) /\ Booked(r) \in Int
  BY InputAssumption DEF Good, StoreOK, Stores, Booked
<1>2. n \in Nonces
  BY CommitAllowedGood
<1>3. x \in GelRecords /\ x.env = r.env /\ x.booked = Booked(r)
  BY <1>1, <1>2 DEF GelRecord, GelRecords
<1>4. /\ store'.gel = Append(store.gel, x)
      /\ store'.spend = [store.spend EXCEPT ![r.env] = @ + Booked(r)]
      /\ paid' = [paid EXCEPT ![r.env] = @ + Booked(r)]
  BY <1>1 DEF CommitAllowed, Stores
<1> HIDE DEF x, n
<1>5. store.spend \in [EnvIds -> Int]
  BY <1>1 DEF Stores
<1>6. ASSUME NEW e \in EnvIds PROVE store'.spend[e] = TotalBooked(e, store'.gel)
  <2>1. store'.spend[e] = store.spend[e] + Share(e, x)
    BY <1>1, <1>3, <1>4, <1>5 DEF Share
  <2>2. TotalBooked(e, store'.gel) = TotalBooked(e, store.gel) + Share(e, x)
    BY <1>1, <1>3, <1>4, OneMoreBooked
  <2> QED
    BY <2>1, <2>2 DEF AccountsOK
<1>7. ASSUME NEW e \in EnvIds PROVE \E c \in Budgets(e) : store'.spend[e] <= c
  <2>1. CASE e # r.env \/ Booked(r) = 0
    BY <1>1, <1>4, <1>5, <2>1 DEF AccountsOK
  <2>2. CASE e = r.env /\ Booked(r) # 0
    <3> DEFINE b == store.env[r.env].body
    <3>1. store.env[r.env] # NotFound /\ WithinBudget(store.env[r.env], r)
      BY DEF CommitAllowed, Missing, Admissible
    <3>2. b \in EnvInputs /\ b.id = r.env
      BY <1>1, <3>1 DEF Good, StoreOK, Stores, Envelopes
    <3>3. b.hasBudget /\ r.act.priced /\ Booked(r) = r.act.amount
      BY <2>2 DEF Booked
    <3>4. store.spend[r.env] + r.act.amount <= b.budget
      BY <3>1, <3>3 DEF WithinBudget
    <3> HIDE DEF b
    <3>5. b.budget \in Budgets(e)
      BY <2>2, <3>2, <3>3 DEF Budgets
    <3>6. store'.spend[e] <= b.budget
      BY <1>1, <1>4, <1>5, <2>2, <3>3, <3>4
    <3> QED
      BY <3>5, <3>6
  <2> QED
    BY <2>1, <2>2
<1>8. \A e \in EnvIds : paid'[e] - store'.spend[e] = paid[e] - store.spend[e]
  BY <1>1, <1>4, <1>5
<1> QED
  BY <1>6, <1>7, <1>8 DEF AccountsOK

\* A step of the operations, for the accounts: the files and what crashes have
\* forgotten stay, memory is in order, and books what has been allowed.
AccountsStep ==
    /\ UNCHANGED <<tmp, disk, unpaid>> /\ AccountsOK(store')
    /\ \A e \in EnvIds : paid'[e] - store'.spend[e] = paid[e] - store.spend[e]

\* A step that books nothing and allows nothing is one.
LEMMA QuietAccounts ==
    ASSUME Good(store), AccountsOK(store), BooksNothing(store, store'), paid' = paid,
           UNCHANGED <<tmp, disk, unpaid>>
    PROVE  AccountsStep
  BY NothingKeepsAccounts DEF Good, StoreOK, AccountsStep, BooksNothing

\* So is every commit.
LEMMA CommitAccounts ==
    ASSUME IndInv, AccountsOK(store), NEW r \in CommitRequests, evaluateCommit(r)
    PROVE  AccountsStep
<1>1. Good(store) /\ paid \in [EnvIds -> Int]
  BY DEF IndInv, TypeOK, Good
<1>2. UNCHANGED <<tmp, disk, unpaid>>
  BY DEF evaluateCommit, file
<1>3. CASE CommitMissing(r) \/ CommitDenied(r) \/ CommitEscalated(r) \/ CommitReplayed(r)
  BY <1>1, <1>2, <1>3, CommitRefusedBooksNothing, QuietAccounts
<1>4. CASE CommitAllowed(r)
  BY <1>1, <1>2, <1>4, CommitAllowedAccounts DEF AccountsStep
<1> QED
  BY <1>3, <1>4 DEF evaluateCommit

\* What a step can be, for the accounts.
LEMMA AccountsKinds ==
    ASSUME IndInv, AccountsOK(store), [Next]_vars
    PROVE  AccountsStep \/ WriteTmp \/ Rename \/ Restart \/ Tick \/ UNCHANGED vars
<1>1. Good(store) /\ signKey \in Keys /\ clock \in Nat /\ store \in Stores
  BY DEF IndInv, TypeOK, Good, StoreOK
<1>2. ASSUME SameLedger(store, store'), UNCHANGED <<file, history>> PROVE AccountsStep
  BY <1>1, <1>2, QuietAccounts DEF SameLedger, BooksNothing, file, history
<1>3. CASE \/ \E b \in MaeInputs : createMae(b)
           \/ \E b \in WardInputs : constituteWard(b)
           \/ \E b \in EnvInputs : createAuthorityEnvelope(b)
           \/ \E b \in BridgeInputs : createFederationAgreement(b)
  <2>1. UNCHANGED <<file, history>>
    BY <1>3 DEF createMae, constituteWard, createAuthorityEnvelope, createFederationAgreement
  <2> QED
    BY <1>1, <1>2, <1>3, <2>1, AuthoringGood
<1>4. CASE \E b \in WarrantInputs, n \in Nonces : issueWarrant(b, n)
  <2>1. SameLedger(store, store')
    BY <1>1, <1>4, IssueGood
  <2>2. UNCHANGED <<file, history>>
    BY <1>4 DEF issueWarrant
  <2> QED
    BY <1>2, <2>1, <2>2
<1>5. CASE \E k \in Keys : rotateSigningKey(k)
  BY <1>2, <1>5 DEF rotateSigningKey, SameLedger
<1>6. CASE \/ \E w \in WarrantIds : revokeWarrant(w)
           \/ \E e \in EnvIds : revokeEnvelope(e)
           \/ \E d \in WardIds : revokeWard(d)
           \/ \E m \in MaeIds : revokeMae(m)
  <2>1. UNCHANGED <<file, history>>
    BY <1>6 DEF revokeWarrant, revokeEnvelope, revokeWard, revokeMae
  <2> QED
    BY <1>1, <1>2, <1>6, <2>1, RevokingGood
<1>7. CASE \E d \in WardIds : suspendWard(d)
  BY <1>1, <1>2, <1>7, SuspendGood DEF suspendWard
<1>8. CASE \E r \in CommitRequests : evaluateCommit(r)
  BY <1>8, CommitAccounts
<1>9. ASSUME NEW r \in CommitRequests, NEW b \in BridgeIds, evaluateFederatedCommit(b, r)
      PROVE  AccountsStep
  <2>1. CASE evaluateCommit(r)
    BY <2>1, CommitAccounts
  <2>2. CASE /\ store' = Refusal(store, "FailClosed", r) \/ store' = Refusal(store, "Deny", r)
             /\ UNCHANGED <<clock, keyring, signKey, file, history, posts>>
    <3>1. BooksNothing(store, store')
      BY <1>1, <2>2, RefusalBooksNothing
    <3> QED
      BY <1>1, <2>2, <3>1, QuietAccounts DEF file, history
  <2> QED
    BY <1>9, <2>1, <2>2 DEF evaluateFederatedCommit
<1>10. ASSUME NEW i \in DOMAIN store.gel, recordExecutionOutcome(i)
       PROVE  AccountsStep
  <2> DEFINE x == [decision |-> "Allow", kind |-> "execution", env |-> store.gel[i].env,
                   proof |-> NoProof, booked |-> 0]
  <2>1. store.gel \in Seq(GelRecords)
    BY <1>1 DEF Stores
  <2>2. store.gel[i] \in GelRecords
    BY <2>1
  <2>3. x \in GelRecords /\ x.booked = 0
    BY <2>2 DEF GelRecords
  <2>4. store' = [store EXCEPT !.gel = Append(store.gel, x)] /\ UNCHANGED <<file, history>>
    BY <1>10 DEF recordExecutionOutcome
  <2> HIDE DEF x
  <2>5. store'.gel = Append(store.gel, x) /\ store'.spend = store.spend
    BY <1>1, <2>4 DEF Stores
  <2>6. BooksNothing(store, store')
    BY <2>3, <2>5 DEF BooksNothing
  <2> QED
    BY <1>1, <2>4, <2>6, QuietAccounts DEF file, history
<1> QED
  BY <1>3, <1>4, <1>5, <1>6, <1>7, <1>8, <1>9, <1>10 DEF Next

\* The accounts are in order at first.
LEMMA InitAccounts == Init => AccountsInv
<1> SUFFICES ASSUME Init PROVE AccountsInv
  OBVIOUS
<1>1. AccountsOK(FirstStore)
  <2>1. ASSUME NEW e \in EnvIds PROVE FirstStore.spend[e] = 0 /\ FirstStore.gel = <<>> /\ 0 \in Budgets(e)
    BY DEF FirstStore, Budgets
  <2> QED
    BY <2>1, NothingBooked DEF AccountsOK
<1>2. \A e \in EnvIds : paid[e] = 0 /\ unpaid[e] = 0 /\ store.spend[e] = 0
  BY DEF Init, Zero, FirstStore
<1> QED
  BY <1>1, <1>2 DEF Init, AccountsInv

\* Every step keeps the accounts in order: the operations as above, the writes
\* because they move a store the process had; a restart goes back to the store
\* of the state file, and what it forgets is what is then unpaid.
LEMMA NextAccounts == ASSUME IndInv, AccountsInv, [Next]_vars PROVE AccountsInv'
<1>1. /\ AccountsOK(store) /\ AccountsOK(disk) /\ (tmp # NoWrite => AccountsOK(tmp))
      /\ \A e \in EnvIds : paid[e] = unpaid[e] + store.spend[e]
  BY DEF AccountsInv
<1>2. /\ paid \in [EnvIds -> Int] /\ unpaid \in [EnvIds -> Int]
      /\ store.spend \in [EnvIds -> Int] /\ disk.spend \in [EnvIds -> Int]
  BY DEF IndInv, TypeOK, StoreOK, Stores
<1>3. (paid \in [EnvIds -> Int] /\ unpaid \in [EnvIds -> Int] /\ store.spend \in [EnvIds -> Int])'
  BY NextInv DEF IndInv, TypeOK, StoreOK, Stores
<1>4. CASE AccountsStep
  BY <1>1, <1>2, <1>3, <1>4 DEF AccountsStep, AccountsInv
<1>5. CASE WriteTmp
  BY <1>1, <1>5 DEF WriteTmp, memory, history, AccountsInv
<1>6. CASE Rename
  BY <1>1, <1>6 DEF Rename, memory, history, AccountsInv
<1>7. CASE Restart
  <2>1. /\ store' = disk /\ disk' = disk /\ tmp' = NoWrite /\ paid' = paid
        /\ unpaid' = [e \in EnvIds |-> unpaid[e] + (store.spend[e] - disk.spend[e])]
    BY <1>7 DEF Restart, Loaded
  <2>2. \A e \in EnvIds : paid'[e] = unpaid'[e] + store'.spend[e]
    BY <1>1, <1>2, <2>1
  <2> QED
    BY <1>1, <2>1, <2>2 DEF AccountsInv
<1>8. CASE Tick \/ UNCHANGED vars
  BY <1>1, <1>8 DEF Tick, vars, memory, file, history, AccountsInv
<1> QED
  BY <1>1, <1>4, <1>5, <1>6, <1>7, <1>8, AccountsKinds

\* The accounts are in order in every reachable state, wherever a store is.
THEOREM AccountsInvariance == Spec => []AccountsInv
<1>1. IndInv /\ AccountsInv /\ [Next]_vars => AccountsInv'
  BY NextAccounts
<1> QED
  BY InitAccounts, <1>1, Invariance, PTL DEF Spec

\* In memory and in the state file, through crashes and restarts, the consumed
\* nonces, the Warrants, what is booked and the evidence tell one story.
THEOREM EvidenceTheorem == Spec => []EvidenceAgrees
<1>1. IndInv /\ AccountsInv => EvidenceAgrees
  BY DEF IndInv, AccountsInv, AccountsOK, EvidenceAgrees
<1> QED
  BY <1>1, Invariance, AccountsInvariance, PTL

\* What has been allowed under an Envelope, less what crashes made the store
\* forget, stays within the largest budget the Envelope was ever given.
THEOREM BudgetTheorem == Spec => []BudgetHolds
<1>1. IndInv /\ AccountsInv => BudgetHolds
  <2> SUFFICES ASSUME IndInv, AccountsInv, NEW e \in EnvIds
               PROVE  \E c \in Budgets(e) : paid[e] - unpaid[e] <= c
    BY DEF BudgetHolds
  <2>1. paid[e] \in Int /\ unpaid[e] \in Int /\ store.spend[e] \in Int
    BY DEF IndInv, TypeOK, StoreOK, Stores
  <2>2. paid[e] = unpaid[e] + store.spend[e] /\ \E c \in Budgets(e) : store.spend[e] <= c
    BY DEF AccountsInv, AccountsOK
  <2>3. paid[e] - unpaid[e] = store.spend[e]
    BY <2>1, <2>2
  <2> QED
    BY <2>2, <2>3
<1> QED
  BY <1>1, Invariance, AccountsInvariance, PTL
=============================================================================
