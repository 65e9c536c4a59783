------------------------- MODULE EffectStoreProofs -------------------------
(***************************************************************************)
(* Proofs about EffectStore for any number of dispatchers, Warrants,       *)
(* operations and observations, and any bounds on time and age.            *)
(***************************************************************************)
EXTENDS EffectStore, SequenceTheorems, TLAPS

\* The record a dispatcher without Warrant and attempt is reset to.
LEMMA AtType ==
    ASSUME NEW p \in {"idle", "down"}
    PROVE  At(p) \in Dispatcher /\ At(p).pc = p /\ At(p).attempt = 0
<1>1. PICK w0 \in Warrants : w0 = CHOOSE w \in Warrants : TRUE
    BY EffectStoreAssumption, Zenon
<1>2. QED BY <1>1 DEF At, Dispatcher

\* Updating row i with an attempt of the right type.
LEMMA UpdateRow ==
    ASSUME TypeOK, NEW i \in DOMAIN attempts, NEW a \in EffectAttempt
    PROVE  /\ [attempts EXCEPT ![i] = a] \in Seq(EffectAttempt)
           /\ Len([attempts EXCEPT ![i] = a]) = Len(attempts)
           /\ DOMAIN [attempts EXCEPT ![i] = a] = DOMAIN attempts
           /\ \A j \in DOMAIN attempts :
                 [attempts EXCEPT ![i] = a][j] = IF j = i THEN a ELSE attempts[j]
BY ExceptSeq, LenProperties DEF TypeOK

\* What markUnknown does to the table and to the chain.
LEMMA MarkUnknownStep ==
    ASSUME TypeOK, NEW i \in DOMAIN attempts, markUnknown(i)
    PROVE  /\ attempts' \in Seq(EffectAttempt)
           /\ gel' \in Seq(EffectEvent)
           /\ DOMAIN attempts' = DOMAIN attempts
           /\ Len(attempts') = Len(attempts)
           /\ \A j \in DOMAIN attempts :
                 /\ attempts'[j].warrant = attempts[j].warrant
                 /\ \/ attempts'[j] = attempts[j]
                    \/ /\ attempts[j].state = "IN_FLIGHT"
                       /\ attempts'[j].state = "EFFECT_UNKNOWN"
           /\ \A k \in DOMAIN gel : k \in DOMAIN gel' /\ gel'[k] = gel[k]
<1> DEFINE a == [attempts[i] EXCEPT !.state = "EFFECT_UNKNOWN", !.updated_at = clock]
<1>1. attempts[i] \in EffectAttempt BY ElementOfSeq, LenProperties DEF TypeOK
<1>2. a \in EffectAttempt BY <1>1 DEF TypeOK, EffectAttempt, EffectState
<1>3. /\ a.warrant = attempts[i].warrant /\ a.state = "EFFECT_UNKNOWN"
    BY <1>1 DEF EffectAttempt
<1> HIDE DEF a
<1>4. CASE attempts[i].state = "IN_FLIGHT"
  <2>1. attempts' = [attempts EXCEPT ![i] = a] /\ gel' = Append(gel, Event(i, a, {}))
      BY <1>4 DEF markUnknown, a
  <2>2. i \in Nat BY LenProperties DEF TypeOK
  <2>3. Event(i, a, {}) \in EffectEvent BY <1>2, <2>2 DEF Event, EffectEvent
  <2>4. /\ gel' \in Seq(EffectEvent)
        /\ \A k \in DOMAIN gel : k \in DOMAIN gel' /\ gel'[k] = gel[k]
      BY <2>1, <2>3, AppendProperties, LenProperties DEF TypeOK
  <2>5. QED BY <1>2, <1>3, <1>4, <2>1, <2>4, UpdateRow
<1>5. CASE attempts[i].state # "IN_FLIGHT"
  <2>1. attempts' = attempts /\ gel' = gel BY <1>5 DEF markUnknown
  <2>2. QED BY <2>1, LenProperties DEF TypeOK
<1>6. QED BY <1>4, <1>5

\* Every initial state satisfies the inductive invariant.
LEMMA InitIndInv == Init => IndInv
<1> SUFFICES ASSUME Init PROVE IndInv OBVIOUS
<1>1. disp \in [Dispatchers -> Dispatcher] /\ \A d \in Dispatchers : disp[d] = At("idle")
    BY AtType DEF Init
<1>2. TypeOK BY <1>1 DEF Init, TypeOK
<1>3. AttemptsOwned BY <1>1, AtType DEF Init, AttemptsOwned
<1>4. AttemptsSerial /\ SignedTruthful /\ ConfirmedIsTrue /\ OneOwner
    BY <1>1, AtType DEF Init, AttemptsSerial, SignedTruthful, ConfirmedIsTrue, OneOwner
<1>5. QED BY <1>2, <1>3, <1>4 DEF IndInv

\* The steps of a dispatcher that touch neither the tables nor the wire.
LEMMA DispatcherOnly ==
    ASSUME IndInv, NEW d \in Dispatchers, NEW r \in Dispatcher,
           disp' = [disp EXCEPT ![d] = r],
           UNCHANGED <<clock, revoked, attempts, gel, observations, wire, signed>>,
           \/ r.pc \in {"idle", "verified", "down"} /\ r.attempt = 0
           \/ r.pc = "returned" /\ r.attempt \in DOMAIN attempts /\ disp[d].pc = "sent"
                               /\ r.attempt = disp[d].attempt
    PROVE  IndInv'
<1>1. TypeOK' BY DEF IndInv, TypeOK
<1>2. AttemptsSerial' BY DEF IndInv, AttemptsSerial, SameScope
<1>3. AttemptsOwned' BY DEF IndInv, TypeOK, AttemptsOwned
<1>4. \A i : CannotCommit(i) => CannotCommit(i)' BY DEF IndInv, TypeOK, CannotCommit
<1>5. SignedTruthful' BY <1>4 DEF IndInv, SignedTruthful, Truthful
<1>6. ConfirmedIsTrue' BY <1>4 DEF IndInv, ConfirmedIsTrue
<1>7. OneOwner' BY DEF IndInv, TypeOK, OneOwner
<1>8. QED BY <1>1, <1>2, <1>3, <1>5, <1>6, <1>7 DEF IndInv

\* begin's transaction: the new row's operation was free.
LEMMA BeginCommitInv ==
    ASSUME IndInv, NEW d \in Dispatchers, BeginCommit(d)
    PROVE  IndInv'
<1> DEFINE w == disp[d].warrant
           i == Len(attempts) + 1
           a == [warrant |-> w, state |-> "AUTHORIZED",
                 started_at |-> disp[d].now, updated_at |-> disp[d].now]
           b == [warrant |-> w, state |-> "IN_FLIGHT",
                 started_at |-> disp[d].now, updated_at |-> disp[d].now]
<1>1. disp[d] \in Dispatcher /\ w \in Warrants /\ disp[d].now \in Nat
    BY DEF IndInv, TypeOK, Dispatcher
<1>2. a \in EffectAttempt /\ b \in EffectAttempt
    BY <1>1 DEF EffectAttempt, EffectState, Terminal
<1>3. /\ attempts' = Append(attempts, b)
      /\ gel' = gel \o <<Event(i, a, {}), Event(i, b, {})>>
      /\ wire' = Append(wire, "none")
      /\ disp' = [disp EXCEPT ![d] = [pc |-> "begun", warrant |-> w,
                                      attempt |-> i, now |-> disp[d].now]]
      /\ OperationFree(ScopeOf[w]) /\ UniqueColumns(w)
      /\ UNCHANGED <<clock, revoked, observations, signed>>
    BY DEF BeginCommit
<1>4. b.state = "IN_FLIGHT" /\ b.warrant = w OBVIOUS
<1>5. Len(attempts) \in Nat /\ DOMAIN attempts = 1..Len(attempts) /\ DOMAIN wire = 1..Len(attempts)
    BY LenProperties DEF IndInv, TypeOK
<1> HIDE DEF a, b, w
<1>6. /\ attempts' \in Seq(EffectAttempt) /\ Len(attempts') = i /\ DOMAIN attempts' = 1..i
      /\ \A j \in DOMAIN attempts : attempts'[j] = attempts[j]
      /\ attempts'[i] = b
    BY <1>2, <1>3, <1>5, AppendProperties, LenProperties DEF IndInv, TypeOK
<1>7. /\ wire' \in Seq({"none", "pending", "effect", "lost"}) /\ Len(wire') = i
      /\ DOMAIN wire' = 1..i
      /\ \A j \in DOMAIN wire : wire'[j] = wire[j]
      /\ wire'[i] = "none"
    BY <1>3, <1>5, AppendProperties, LenProperties DEF IndInv, TypeOK
<1>8. gel' \in Seq(EffectEvent)
  <2>1. Event(i, a, {}) \in EffectEvent /\ Event(i, b, {}) \in EffectEvent
      BY <1>2, <1>5 DEF Event, EffectEvent
  <2>2. <<Event(i, a, {}), Event(i, b, {})>> \in Seq(EffectEvent) BY <2>1
  <2>3. QED BY <1>3, <2>2, ConcatProperties DEF IndInv, TypeOK
<1>9. /\ disp' \in [Dispatchers -> Dispatcher]
      /\ disp'[d].pc = "begun" /\ disp'[d].attempt = i
      /\ \A e \in Dispatchers : e # d => disp'[e] = disp[e]
    BY <1>1, <1>3, <1>5 DEF IndInv, TypeOK, Dispatcher
<1>10. TypeOK' BY <1>3, <1>6, <1>7, <1>8, <1>9 DEF IndInv, TypeOK
<1>11. AttemptsSerial'
  <2> SUFFICES ASSUME NEW j \in DOMAIN attempts', NEW k \in DOMAIN attempts',
                      j < k, SameScope(j, k)'
               PROVE  attempts'[j].state = "CONFIRMED_NO_EFFECT"
      BY DEF AttemptsSerial
  <2>1. j \in DOMAIN attempts /\ attempts'[j] = attempts[j] BY <1>5, <1>6
  <2>2. CASE k \in DOMAIN attempts
      BY <1>6, <2>1, <2>2 DEF IndInv, AttemptsSerial, SameScope
  <2>3. CASE k \notin DOMAIN attempts
    <3>1. ScopeOf[attempts[j].warrant] = ScopeOf[w]
        BY <1>4, <1>5, <1>6, <2>1, <2>3 DEF SameScope
    <3>2. CASE \E m \in DOMAIN attempts : m > j /\ ScopeOf[attempts[m].warrant] = ScopeOf[w]
        BY <2>1, <3>1, <3>2, <1>5 DEF IndInv, AttemptsSerial, SameScope
    <3>3. CASE \A m \in DOMAIN attempts : m > j => ScopeOf[attempts[m].warrant] # ScopeOf[w]
        BY <1>3, <2>1, <3>1, <3>3 DEF OperationFree, LatestInScope
    <3>4. QED BY <3>2, <3>3
  <2>4. QED BY <2>2, <2>3
<1>12. AttemptsOwned'
  <2> SUFFICES ASSUME NEW e \in Dispatchers
               PROVE  /\ disp'[e].pc \in {"begun", "sent", "returned"} => disp'[e].attempt \in DOMAIN attempts'
                      /\ disp'[e].pc \in {"idle", "verified", "down"} => disp'[e].attempt = 0
                      /\ disp'[e].pc = "begun" =>
                            /\ wire'[disp'[e].attempt] = "none"
                            /\ attempts'[disp'[e].attempt].state # "CONFIRMED_NO_EFFECT"
      BY DEF AttemptsOwned
  <2>1. CASE e = d BY <1>4, <1>5, <1>6, <1>7, <1>9, <2>1
  <2>2. CASE e # d BY <1>5, <1>6, <1>7, <1>9, <2>2 DEF IndInv, AttemptsOwned
  <2>3. QED BY <2>1, <2>2
<1>13. ASSUME NEW j \in DOMAIN wire, CannotCommit(j) PROVE CannotCommit(j)'
    BY <1>5, <1>7, <1>9, <1>13 DEF CannotCommit
<1>14. SignedTruthful' BY <1>3, <1>5, <1>7, <1>13 DEF IndInv, SignedTruthful, Truthful
<1>15. ConfirmedIsTrue'
  <2> SUFFICES ASSUME NEW j \in DOMAIN attempts'
               PROVE  /\ attempts'[j].state = "CONFIRMED_EFFECT" => wire'[j] = "effect"
                      /\ attempts'[j].state = "CONFIRMED_NO_EFFECT" => CannotCommit(j)'
      BY DEF ConfirmedIsTrue
  <2>1. CASE j \in DOMAIN attempts BY <1>5, <1>6, <1>7, <1>13, <2>1 DEF IndInv, ConfirmedIsTrue
  <2>2. CASE j \notin DOMAIN attempts BY <1>4, <1>5, <1>6, <2>2
  <2>3. QED BY <2>1, <2>2
<1>16. OneOwner'
  <2>1. \A e \in Dispatchers : e # d /\ disp[e].pc \in {"begun", "sent", "returned"} =>
            disp[e].attempt # i
      BY <1>5 DEF IndInv, AttemptsOwned
  <2>2. QED BY <1>9, <2>1 DEF IndInv, OneOwner
<1>17. QED BY <1>10, <1>11, <1>12, <1>14, <1>15, <1>16 DEF IndInv

\* The request leaves: only the attempt's own wire changes, and its owner is
\* the one dispatcher that stood before the emission.
LEMMA DispatchInv ==
    ASSUME IndInv, NEW d \in Dispatchers, Dispatch(d)
    PROVE  IndInv'
<1> DEFINE i == disp[d].attempt
<1>1. disp[d].pc = "begun" /\ wire' = [wire EXCEPT ![i] = "pending"]
    BY DEF Dispatch
<1>2. /\ disp' \in [Dispatchers -> Dispatcher]
      /\ disp'[d].pc = "sent" /\ disp'[d].attempt = i
      /\ \A e \in Dispatchers : e # d => disp'[e] = disp[e]
    BY DEF Dispatch, IndInv, TypeOK, Dispatcher
<1>3. UNCHANGED <<clock, revoked, attempts, gel, observations, signed>> BY DEF Dispatch
<1>4. i \in DOMAIN attempts /\ wire[i] = "none" /\ attempts[i].state # "CONFIRMED_NO_EFFECT"
    BY <1>1 DEF IndInv, AttemptsOwned
<1>5. DOMAIN attempts = 1..Len(attempts) /\ DOMAIN wire = 1..Len(wire) /\ Len(wire) = Len(attempts)
    BY LenProperties DEF IndInv, TypeOK
<1> HIDE DEF i
<1>6. /\ wire' \in Seq({"none", "pending", "effect", "lost"}) /\ Len(wire') = Len(wire)
      /\ DOMAIN wire' = DOMAIN wire
      /\ \A j \in DOMAIN wire : wire'[j] = IF j = i THEN "pending" ELSE wire[j]
    BY <1>1, <1>4, <1>5, ExceptSeq, LenProperties DEF IndInv, TypeOK
<1>7. TypeOK' BY <1>2, <1>3, <1>6 DEF IndInv, TypeOK
<1>8. AttemptsSerial' BY <1>3 DEF IndInv, AttemptsSerial, SameScope
<1>9. AttemptsOwned'
  <2> SUFFICES ASSUME NEW e \in Dispatchers, e # d, disp[e].pc = "begun"
               PROVE  disp[e].attempt # i
      BY <1>2, <1>3, <1>4, <1>6, <1>5 DEF IndInv, AttemptsOwned
  <2>1. QED BY <1>1 DEF IndInv, OneOwner, i
<1>10. ASSUME NEW j \in DOMAIN wire, CannotCommit(j) PROVE CannotCommit(j)'
  <2>1. j # i BY <1>1, <1>4, <1>10 DEF CannotCommit, i
  <2>2. QED BY <1>2, <1>6, <1>10, <2>1 DEF CannotCommit
<1>11. SignedTruthful' BY <1>3, <1>4, <1>6, <1>10 DEF IndInv, SignedTruthful, Truthful
<1>12. ConfirmedIsTrue' BY <1>3, <1>4, <1>5, <1>6, <1>10 DEF IndInv, ConfirmedIsTrue
<1>13. OneOwner' BY <1>1, <1>2 DEF IndInv, OneOwner, i
<1>14. QED BY <1>7, <1>8, <1>9, <1>11, <1>12, <1>13 DEF IndInv

\* markUnknown, called by a dispatcher that returns (next = At("idle")) or by
\* an operator who leaves the dispatchers alone.
LEMMA MarkUnknownInv ==
    ASSUME IndInv, NEW i \in DOMAIN attempts, markUnknown(i),
           UNCHANGED <<clock, revoked, observations, wire, signed>>,
           \/ disp' = disp
           \/ \E d \in Dispatchers : disp' = [disp EXCEPT ![d] = At("idle")]
    PROVE  IndInv'
<1>1. /\ attempts' \in Seq(EffectAttempt) /\ gel' \in Seq(EffectEvent)
      /\ DOMAIN attempts' = DOMAIN attempts /\ Len(attempts') = Len(attempts)
      /\ \A j \in DOMAIN attempts :
            /\ attempts'[j].warrant = attempts[j].warrant
            /\ \/ attempts'[j] = attempts[j]
               \/ /\ attempts[j].state = "IN_FLIGHT"
                  /\ attempts'[j].state = "EFFECT_UNKNOWN"
    BY MarkUnknownStep DEF IndInv
<1>2. /\ disp' \in [Dispatchers -> Dispatcher]
      /\ \A e \in Dispatchers :
            disp'[e] = disp[e] \/ (disp'[e].pc = "idle" /\ disp'[e].attempt = 0)
    BY AtType DEF IndInv, TypeOK
<1>3. TypeOK' BY <1>1, <1>2 DEF IndInv, TypeOK
<1>4. AttemptsSerial' BY <1>1 DEF IndInv, AttemptsSerial, SameScope
<1>5. AttemptsOwned'
  <2> SUFFICES ASSUME NEW e \in Dispatchers
               PROVE  /\ disp'[e].pc \in {"begun", "sent", "returned"} => disp'[e].attempt \in DOMAIN attempts'
                      /\ disp'[e].pc \in {"idle", "verified", "down"} => disp'[e].attempt = 0
                      /\ disp'[e].pc = "begun" =>
                            /\ wire'[disp'[e].attempt] = "none"
                            /\ attempts'[disp'[e].attempt].state # "CONFIRMED_NO_EFFECT"
      BY DEF AttemptsOwned
  <2>1. CASE disp'[e] = disp[e] BY <1>1, <2>1 DEF IndInv, AttemptsOwned
  <2>2. CASE disp'[e].pc = "idle" /\ disp'[e].attempt = 0 BY <2>2
  <2>3. QED BY <1>2, <2>1, <2>2
<1>6. OneOwner' BY <1>2 DEF IndInv, OneOwner
<1>7. \A j : CannotCommit(j) => CannotCommit(j)' BY <1>2 DEF CannotCommit
<1>8. SignedTruthful' BY <1>7 DEF IndInv, SignedTruthful, Truthful
<1>9. ConfirmedIsTrue' BY <1>1, <1>7 DEF IndInv, ConfirmedIsTrue
<1>10. QED BY <1>3, <1>4, <1>5, <1>6, <1>8, <1>9 DEF IndInv

\* reconcile's change to the table and the chain.
LEMMA ReconcileStep ==
    ASSUME TypeOK, NEW o \in EffectObservation, reconcile(o)
    PROVE  /\ attempts' \in Seq(EffectAttempt)
           /\ gel' \in Seq(EffectEvent)
           /\ DOMAIN attempts' = DOMAIN attempts
           /\ Len(attempts') = Len(attempts)
           /\ o.about = o.attempt /\ o.attempt \in DOMAIN attempts
           /\ attempts[o.attempt].state \notin Terminal
           /\ attempts'[o.attempt].state = o.outcome
           /\ \A j \in DOMAIN attempts :
                 /\ attempts'[j].warrant = attempts[j].warrant
                 /\ j # o.attempt => attempts'[j] = attempts[j]
           /\ \A k \in DOMAIN gel : k \in DOMAIN gel' /\ gel'[k] = gel[k]
<1> DEFINE i == o.attempt
           a == [attempts[i] EXCEPT !.state = o.outcome, !.updated_at = clock]
<1>1. i \in DOMAIN attempts /\ o.about = i /\ attempts[i].state \notin Terminal
    BY DEF reconcile, Binds, Reconcilable
<1>2. attempts[i] \in EffectAttempt BY <1>1, ElementOfSeq, LenProperties DEF TypeOK
<1>3. o.outcome \in EffectState BY DEF EffectObservation, EffectState, Terminal
<1>4. a \in EffectAttempt /\ a.warrant = attempts[i].warrant /\ a.state = o.outcome
    BY <1>2, <1>3 DEF TypeOK, EffectAttempt
<1>5. attempts' = [attempts EXCEPT ![i] = a] /\ gel' = Append(gel, Event(i, a, {o}))
    BY DEF reconcile
<1> HIDE DEF a
<1>6. i \in Nat BY <1>1, LenProperties DEF TypeOK
<1>7. Event(i, a, {o}) \in EffectEvent BY <1>4, <1>6 DEF Event, EffectEvent
<1>8. /\ gel' \in Seq(EffectEvent)
      /\ \A k \in DOMAIN gel : k \in DOMAIN gel' /\ gel'[k] = gel[k]
    BY <1>5, <1>7, AppendProperties, LenProperties DEF TypeOK
<1>9. QED BY <1>1, <1>4, <1>5, <1>8, UpdateRow

\* A signed observation only ever confirms what is true of its own attempt.
LEMMA ReconcileInv ==
    ASSUME IndInv, NEW o \in EffectObservation, o \in signed \/ ~o.trusted, reconcile(o)
    PROVE  IndInv'
<1> DEFINE i == o.attempt
<1>1. /\ attempts' \in Seq(EffectAttempt) /\ gel' \in Seq(EffectEvent)
      /\ DOMAIN attempts' = DOMAIN attempts /\ Len(attempts') = Len(attempts)
      /\ o.about = i /\ i \in DOMAIN attempts
      /\ attempts[i].state \notin Terminal
      /\ attempts'[i].state = o.outcome
      /\ \A j \in DOMAIN attempts :
            /\ attempts'[j].warrant = attempts[j].warrant
            /\ j # i => attempts'[j] = attempts[j]
    BY ReconcileStep DEF IndInv
<1>2. o.trusted /\ (o.outcome = "EFFECT_UNKNOWN" \/ o.settled)
    BY DEF reconcile, ObservationAcceptable
<1>3. o \in signed /\ Truthful(o) BY <1>2 DEF IndInv, SignedTruthful
<1>4. /\ UNCHANGED <<clock, revoked, disp, wire, signed>>
      /\ observations' = observations \union {o}
    BY DEF reconcile
<1>5. TypeOK' BY <1>1, <1>4 DEF IndInv, TypeOK
<1>6. AttemptsSerial' BY <1>1 DEF IndInv, AttemptsSerial, SameScope, Terminal
<1>7. /\ o.outcome = "CONFIRMED_EFFECT" => wire[i] = "effect"
      /\ o.outcome = "CONFIRMED_NO_EFFECT" => CannotCommit(i)
    BY <1>1, <1>2, <1>3 DEF Truthful
<1>8. AttemptsOwned'
  <2>1. \A d \in Dispatchers : disp[d].pc = "begun" /\ disp[d].attempt = i =>
            o.outcome # "CONFIRMED_NO_EFFECT"
      BY <1>7 DEF IndInv, AttemptsOwned, CannotCommit
  <2>2. QED BY <1>1, <1>4, <2>1 DEF IndInv, AttemptsOwned
<1>9. OneOwner' BY <1>4 DEF IndInv, OneOwner
<1>10. \A j : CannotCommit(j) => CannotCommit(j)' BY <1>4 DEF CannotCommit
<1>11. SignedTruthful' BY <1>4, <1>10 DEF IndInv, SignedTruthful, Truthful
<1>12. ConfirmedIsTrue' BY <1>1, <1>4, <1>7, <1>10 DEF IndInv, ConfirmedIsTrue
<1>13. QED BY <1>5, <1>6, <1>8, <1>9, <1>11, <1>12 DEF IndInv

\* Every observation the environment can produce or submit is well typed.
LEMMA PossibleObservationType == TypeOK => PossibleObservation \subseteq EffectObservation
<1> SUFFICES ASSUME TypeOK PROVE PossibleObservation \subseteq EffectObservation OBVIOUS
<1>1. DOMAIN attempts \subseteq Nat BY LenProperties DEF TypeOK
<1>2. clock..(clock + Skew) \subseteq Nat BY EffectStoreAssumption DEF TypeOK
<1>3. QED BY <1>1, <1>2 DEF PossibleObservation, EffectObservation

\* The receiver settles a pending request: no statement about an attempt that
\* cannot commit, or already took effect, is touched.
LEMMA ReceiverSettlesInv ==
    ASSUME IndInv, NEW i \in DOMAIN wire, NEW fate \in {"effect", "lost"}, ReceiverSettles(i, fate)
    PROVE  IndInv'
<1>1. /\ wire[i] = "pending" /\ wire' = [wire EXCEPT ![i] = fate]
      /\ UNCHANGED <<clock, revoked, disp, attempts, gel, observations, signed>>
    BY DEF ReceiverSettles
<1>2. DOMAIN attempts = 1..Len(attempts) /\ DOMAIN wire = 1..Len(wire) /\ Len(wire) = Len(attempts)
    BY LenProperties DEF IndInv, TypeOK
<1>3. /\ wire' \in Seq({"none", "pending", "effect", "lost"}) /\ Len(wire') = Len(wire)
      /\ DOMAIN wire' = DOMAIN wire
      /\ \A j \in DOMAIN wire : wire'[j] = IF j = i THEN fate ELSE wire[j]
    BY <1>1, <1>2, ExceptSeq, LenProperties DEF IndInv, TypeOK
<1>4. TypeOK' BY <1>1, <1>3 DEF IndInv, TypeOK
<1>5. AttemptsSerial' BY <1>1 DEF IndInv, AttemptsSerial, SameScope
<1>6. AttemptsOwned' BY <1>1, <1>2, <1>3 DEF IndInv, AttemptsOwned
<1>7. OneOwner' BY <1>1 DEF IndInv, OneOwner
<1>8. ASSUME NEW j \in DOMAIN wire, CannotCommit(j) PROVE CannotCommit(j)'
    BY <1>1, <1>3, <1>8 DEF CannotCommit
<1>9. SignedTruthful' BY <1>1, <1>3, <1>8 DEF IndInv, SignedTruthful, Truthful
<1>10. ConfirmedIsTrue' BY <1>1, <1>2, <1>3, <1>8 DEF IndInv, ConfirmedIsTrue
<1>11. QED BY <1>4, <1>5, <1>6, <1>7, <1>9, <1>10 DEF IndInv

\* Steps that leave the tables, the wire and the dispatchers alone.
LEMMA OutsideInv ==
    ASSUME IndInv, UNCHANGED <<disp, attempts, gel, observations, wire>>,
           clock' \in Nat, revoked' \in SUBSET Warrants, signed' \in SUBSET EffectObservation,
           \A o \in signed' : o \in signed \/ (o.trusted /\ o.about \in DOMAIN wire /\ Truthful(o))
    PROVE  IndInv'
<1>1. TypeOK' BY DEF IndInv, TypeOK
<1>2. AttemptsSerial' /\ AttemptsOwned' /\ OneOwner'
    BY DEF IndInv, AttemptsSerial, SameScope, AttemptsOwned, OneOwner
<1>3. \A j : CannotCommit(j) => CannotCommit(j)' BY DEF CannotCommit
<1>4. SignedTruthful' BY <1>3 DEF IndInv, SignedTruthful, Truthful
<1>5. ConfirmedIsTrue' BY <1>3 DEF IndInv, ConfirmedIsTrue
<1>6. QED BY <1>1, <1>2, <1>4, <1>5 DEF IndInv

\* One step of any dispatcher preserves the invariant.
LEMMA DispatcherStepInv ==
    ASSUME IndInv, NEW d \in Dispatchers, DispatcherStep(d)
    PROVE  IndInv'
<1>1. disp[d] \in Dispatcher /\ disp \in [Dispatchers -> Dispatcher] /\ clock \in Nat
    BY DEF IndInv, TypeOK
<1>2. ASSUME NEW w \in Warrants, BeginVerify(d, w) PROVE IndInv'
  <2> DEFINE r == [pc |-> "verified", warrant |-> w, attempt |-> 0, now |-> clock]
  <2>1. r \in Dispatcher /\ r.pc = "verified" /\ r.attempt = 0 BY <1>1 DEF Dispatcher
  <2>2. /\ disp' = [disp EXCEPT ![d] = r]
        /\ UNCHANGED <<clock, revoked, attempts, gel, observations, wire, signed>>
      BY <1>2 DEF BeginVerify
  <2> HIDE DEF r
  <2>3. QED BY <2>1, <2>2, DispatcherOnly
<1>3. CASE BeginCommit(d) BY <1>3, BeginCommitInv
<1>4. CASE BeginRefuse(d) \/ FinishFails(d) \/ Reopen(d)
  <2>1. /\ disp' = [disp EXCEPT ![d] = At("idle")]
        /\ UNCHANGED <<clock, revoked, attempts, gel, observations, wire, signed>>
      BY <1>4 DEF BeginRefuse, FinishFails, Reopen
  <2>2. QED BY <2>1, AtType, DispatcherOnly
<1>5. CASE Crash(d)
  <2>1. /\ disp' = [disp EXCEPT ![d] = At("down")]
        /\ UNCHANGED <<clock, revoked, attempts, gel, observations, wire, signed>>
      BY <1>5 DEF Crash
  <2>2. QED BY <2>1, AtType, DispatcherOnly
<1>6. CASE Dispatch(d) BY <1>6, DispatchInv
<1>7. CASE TransportReturns(d)
  <2> DEFINE r == [disp[d] EXCEPT !.pc = "returned"]
  <2>1. r \in Dispatcher /\ r.pc = "returned" /\ r.attempt = disp[d].attempt
      BY <1>1 DEF Dispatcher
  <2>2. /\ disp' = [disp EXCEPT ![d] = r] /\ disp[d].pc = "sent"
        /\ UNCHANGED <<clock, revoked, attempts, gel, observations, wire, signed>>
      BY <1>7 DEF TransportReturns
  <2>3. disp[d].attempt \in DOMAIN attempts BY <2>2 DEF IndInv, AttemptsOwned
  <2> HIDE DEF r
  <2>4. QED BY <2>1, <2>2, <2>3, DispatcherOnly
<1>8. CASE Finish(d)
  <2>1. disp[d].attempt \in DOMAIN attempts BY <1>8 DEF Finish, IndInv, AttemptsOwned
  <2>2. QED BY <1>8, <2>1, MarkUnknownInv DEF Finish
<1>9. QED BY <1>2, <1>3, <1>4, <1>5, <1>6, <1>7, <1>8 DEF DispatcherStep

\* One step outside the dispatchers preserves the invariant.
LEMMA EnvironmentInv == ASSUME IndInv, Environment PROVE IndInv'
<1>1. ASSUME NEW i \in DOMAIN attempts, RecoverUnknown(i) PROVE IndInv'
    BY <1>1, MarkUnknownInv DEF RecoverUnknown
<1>2. ASSUME NEW i \in DOMAIN wire, NEW fate \in {"effect", "lost"}, ReceiverSettles(i, fate)
      PROVE  IndInv'
    BY <1>2, ReceiverSettlesInv
<1>3. ASSUME NEW o \in PossibleObservation, Observe(o) PROVE IndInv'
  <2>1. o \in EffectObservation BY PossibleObservationType DEF IndInv
  <2>2. QED BY <1>3, <2>1, OutsideInv DEF Observe, IndInv, TypeOK
<1>4. ASSUME NEW o \in signed \union {p \in PossibleObservation : ~p.trusted}, reconcile(o)
      PROVE  IndInv'
  <2>1. o \in EffectObservation /\ (o \in signed \/ ~o.trusted)
      BY PossibleObservationType DEF IndInv, TypeOK
  <2>2. QED BY <1>4, <2>1, ReconcileInv
<1>5. CASE Tick BY <1>5, OutsideInv DEF Tick, IndInv, TypeOK
<1>6. ASSUME NEW w \in Revocable, Revoke(w) PROVE IndInv'
    BY <1>6, OutsideInv, EffectStoreAssumption DEF Revoke, IndInv, TypeOK
<1>7. QED BY <1>1, <1>2, <1>3, <1>4, <1>5, <1>6 DEF Environment

\* The inductive invariant holds in every reachable state, whatever the
\* number of dispatchers and however they crash.
THEOREM Invariance == Spec => []IndInv
<1>1. IndInv /\ [Next]_vars => IndInv'
  <2> SUFFICES ASSUME IndInv, [Next]_vars PROVE IndInv' OBVIOUS
  <2>1. CASE UNCHANGED vars
      BY <2>1, OutsideInv DEF vars, IndInv, TypeOK
  <2>2. CASE Next BY <2>2, DispatcherStepInv, EnvironmentInv DEF Next
  <2>3. QED BY <2>1, <2>2
<1>2. QED BY <1>1, InitIndInv, PTL DEF Spec

\* TypeOK: the database, the chain and the dispatchers stay well formed.
THEOREM TypeCorrect == Spec => []TypeOK
<1>1. IndInv => TypeOK BY DEF IndInv
<1>2. QED BY <1>1, Invariance, PTL

\* A confirmed state in the table is the truth about the receiver.
THEOREM ConfirmedCorrect == Spec => []ConfirmedIsTrue
<1>1. IndInv => ConfirmedIsTrue BY DEF IndInv
<1>2. QED BY <1>1, Invariance, PTL

\* An operation takes effect at most once: of two attempts, the earlier one
\* is confirmed without effect, and such an attempt can never commit.
THEOREM EffectAtMostOnce == Spec => []AtMostOneEffect
<1>1. IndInv => AtMostOneEffect
  <2> SUFFICES ASSUME IndInv, NEW i \in DOMAIN wire, NEW j \in DOMAIN wire,
                      SameScope(i, j), wire[i] = "effect", wire[j] = "effect", i # j
               PROVE  FALSE
      BY DEF AtMostOneEffect
  <2>1. DOMAIN wire = DOMAIN attempts /\ DOMAIN wire \subseteq Nat
      BY LenProperties DEF IndInv, TypeOK
  <2>2. i < j \/ j < i BY <2>1
  <2>3. attempts[i].state = "CONFIRMED_NO_EFFECT" \/ attempts[j].state = "CONFIRMED_NO_EFFECT"
      BY <2>1, <2>2 DEF IndInv, AttemptsSerial, SameScope
  <2>4. QED BY <2>1, <2>3 DEF IndInv, ConfirmedIsTrue, CannotCommit
<1>2. QED BY <1>1, Invariance, PTL

-----------------------------------------------------------------------------
(* The signed chain                                                        *)

\* What the verifier says of event k depends on the chain up to k only.
LEMMA EventStable ==
    ASSUME NEW log, NEW longer, NEW k \in Nat \ {0},
           \A m \in 1..k : longer[m] = log[m],
           EventOK(log, k)
    PROVE  EventOK(longer, k)
<1>1. \A j \in 1..k : Earlier(longer, j) = Earlier(log, j) BY DEF Earlier
<1>2. ASSUME NEW i, NEW j \in 1..(k - 1)
      PROVE  IsLatestBefore(longer, k, i, j) <=> IsLatestBefore(log, k, i, j)
    BY DEF IsLatestBefore
<1>3. longer[k] = log[k] OBVIOUS
<1> DEFINE prev(l) == {l[j].attempt : j \in {m \in Earlier(l, k) :
                           IsLatestBefore(l, k, l[k].attempt_id, m)}}
<1>4. Earlier(log, k) \subseteq 1..(k - 1) BY DEF Earlier
<1>5. prev(longer) = prev(log)
  <2>1. {m \in Earlier(longer, k) : IsLatestBefore(longer, k, longer[k].attempt_id, m)}
            = {m \in Earlier(log, k) : IsLatestBefore(log, k, log[k].attempt_id, m)}
      BY <1>1, <1>2, <1>3, <1>4
  <2>2. QED BY <2>1, <1>4
<1>6. FirstEventOK(log, k) => FirstEventOK(longer, k)
  <2> SUFFICES ASSUME FirstEventOK(log, k) PROVE FirstEventOK(longer, k) OBVIOUS
  <2>1. longer[k].attempt.state = "AUTHORIZED" BY <1>3 DEF FirstEventOK
  <2>2. \A j \in 1..(k - 1) : longer[j].attempt.warrant # longer[k].attempt.warrant
      BY <1>3 DEF FirstEventOK
  <2> DEFINE opens(l, j) == /\ Earlier(l, j) = {}
                            /\ ScopeOf[l[j].attempt.warrant] = ScopeOf[l[k].attempt.warrant]
  <2>3. \A j \in 1..k : opens(longer, j) <=> opens(log, j) BY <1>1, <1>3
  <2>4. ASSUME NEW f \in 1..(k - 1), NEW j \in 1..(k - 1), opens(longer, f),
               \A m \in (f + 1)..(k - 1) : ~opens(longer, m),
               IsLatestBefore(longer, k, longer[f].attempt_id, j)
        PROVE  longer[j].attempt.state = "CONFIRMED_NO_EFFECT"
    <3>1. opens(log, f) /\ \A m \in (f + 1)..(k - 1) : ~opens(log, m) BY <2>3, <2>4
    <3>2. IsLatestBefore(log, k, log[f].attempt_id, j) BY <1>2, <2>4
    <3>3. log[j].attempt.state = "CONFIRMED_NO_EFFECT" BY <3>1, <3>2 DEF FirstEventOK
    <3>4. QED BY <3>3
  <2>5. QED BY <2>1, <2>2, <2>4 DEF FirstEventOK
<1>7. /\ prev(log) = {} => FirstEventOK(log, k)
      /\ \A p \in prev(log) : TransitionOK(p, log[k].attempt)
      /\ ObservationOK(log[k], {p.state : p \in prev(log)})
    BY DEF EventOK
<1>8. /\ prev(longer) = {} => FirstEventOK(longer, k)
      /\ \A p \in prev(longer) : TransitionOK(p, longer[k].attempt)
      /\ ObservationOK(longer[k], {p.state : p \in prev(longer)})
    BY <1>3, <1>5, <1>6, <1>7
<1>9. QED BY <1>8 DEF EventOK

\* The event of row i that integrity names is the only latest one.
LEMMA LatestIsRow ==
    ASSUME TypeOK, assertIntegrity, NEW i \in DOMAIN attempts, NEW j \in DOMAIN gel,
           IsLatestBefore(gel, Len(gel) + 1, i, j)
    PROVE  gel[j].attempt = attempts[i]
<1>1. DOMAIN gel = 1..Len(gel) /\ Len(gel) \in Nat BY LenProperties DEF TypeOK
<1>2. PICK k \in DOMAIN gel : /\ gel[k].attempt_id = i
                              /\ gel[k].attempt = attempts[i]
                              /\ \A m \in DOMAIN gel : m > k => gel[m].attempt_id # i
    BY DEF assertIntegrity
<1>3. k = j BY <1>1, <1>2 DEF IsLatestBefore
<1>4. QED BY <1>2, <1>3

\* Both boundaries that extend the chain by one event about a row in flight or
\* unknown keep the evidence well formed.
LEMMA AppendEvidence ==
    ASSUME TypeOK, EvidenceInv, NEW i \in DOMAIN attempts,
           NEW a \in EffectAttempt, NEW obs \in SUBSET EffectObservation,
           attempts' = [attempts EXCEPT ![i] = a],
           gel' = Append(gel, Event(i, a, obs)),
           a.warrant = attempts[i].warrant, a.started_at = attempts[i].started_at,
           attempts[i].state \notin Terminal,
           a.state \notin {"AUTHORIZED", "IN_FLIGHT"},
           ObservationOK(Event(i, a, obs), {attempts[i].state})
    PROVE  EvidenceInv'
<1> DEFINE n == Len(gel)
           e == Event(i, a, obs)
<1>1. n \in Nat /\ DOMAIN gel = 1..n BY LenProperties DEF TypeOK
<1>2. /\ DOMAIN attempts' = DOMAIN attempts
      /\ \A j \in DOMAIN attempts : attempts'[j] = IF j = i THEN a ELSE attempts[j]
    BY UpdateRow
<1>3. DOMAIN attempts \subseteq Nat /\ i \in Nat BY LenProperties DEF TypeOK
<1>4. e \in EffectEvent BY <1>3 DEF Event, EffectEvent
<1>5. e.attempt_id = i /\ e.attempt = a BY DEF Event
<1> HIDE DEF e
<1>6. /\ DOMAIN gel' = 1..(n + 1) /\ gel'[n + 1] = e /\ Len(gel') = n + 1
      /\ \A k \in 1..n : gel'[k] = gel[k]
    BY <1>1, <1>4, AppendProperties, LenProperties DEF TypeOK, e
<1> HIDE DEF n
<1>7. \A k \in 1..n : Earlier(gel', k) = Earlier(gel, k) BY <1>1, <1>6 DEF Earlier
<1>8. assertIntegrity'
  <2>1. ASSUME NEW j \in DOMAIN attempts
        PROVE  \E k \in DOMAIN gel' :
                  /\ gel'[k].attempt_id = j
                  /\ gel'[k].attempt = attempts'[j]
                  /\ \A m \in DOMAIN gel' : m > k => gel'[m].attempt_id # j
    <3>1. CASE j = i
      <4>1. n + 1 \in DOMAIN gel' /\ \A m \in DOMAIN gel' : ~(m > n + 1) BY <1>1, <1>6
      <4>2. QED BY <1>2, <1>5, <1>6, <3>1, <4>1
    <3>2. CASE j # i
      <4>1. PICK k \in DOMAIN gel : /\ gel[k].attempt_id = j
                                    /\ gel[k].attempt = attempts[j]
                                    /\ \A m \in DOMAIN gel : m > k => gel[m].attempt_id # j
          BY DEF EvidenceInv, assertIntegrity
      <4>2. k \in DOMAIN gel' /\ gel'[k] = gel[k] BY <1>1, <1>6
      <4>3. ASSUME NEW m \in DOMAIN gel', m > k PROVE gel'[m].attempt_id # j
          BY <1>1, <1>5, <1>6, <3>2, <4>1, <4>3
      <4>4. QED BY <1>2, <3>2, <4>1, <4>2, <4>3
    <3>3. QED BY <3>1, <3>2
  <2>2. \A k \in DOMAIN gel' : gel'[k].attempt_id \in DOMAIN attempts'
      BY <1>1, <1>2, <1>5, <1>6 DEF EvidenceInv, assertIntegrity
  <2>3. QED BY <1>2, <2>1, <2>2 DEF assertIntegrity
<1>10. EventsBound'
  <2>1. \A k \in DOMAIN gel' : gel'[k].attempt.warrant = attempts'[gel'[k].attempt_id].warrant
      BY <1>1, <1>2, <1>5, <1>6 DEF EvidenceInv, EventsBound, assertIntegrity
  <2>2. \A j \in DOMAIN attempts' : attempts'[j].state # "AUTHORIZED"
      BY <1>2 DEF EvidenceInv, EventsBound
  <2>3. QED BY <2>1, <2>2 DEF EventsBound
<1>11. PICK k0 \in 1..n : gel[k0].attempt_id = i /\ Earlier(gel, k0) = {}
    BY <1>1 DEF EvidenceInv, AttemptsOpened
<1>12. Earlier(gel', n + 1) # {}
    BY <1>1, <1>5, <1>6, <1>11 DEF Earlier
<1>13. AttemptsOpened'
  <2>1. ASSUME NEW j \in DOMAIN attempts'
        PROVE  \E k \in DOMAIN gel' : gel'[k].attempt_id = j /\ Earlier(gel', k) = {}
    <3>1. PICK k \in 1..n : gel[k].attempt_id = j /\ Earlier(gel, k) = {}
        BY <1>1, <1>2 DEF EvidenceInv, AttemptsOpened
    <3>2. QED BY <1>1, <1>6, <1>7, <3>1
  <2>2. ASSUME NEW k \in DOMAIN gel', NEW m \in DOMAIN gel', Earlier(gel', k) = {},
               gel'[k].attempt_id < gel'[m].attempt_id
        PROVE  k < m
    <3>1. k \in 1..n BY <1>1, <1>6, <1>12, <2>2
    <3>2. CASE m \in 1..n BY <1>1, <1>6, <1>7, <2>2, <3>1, <3>2 DEF EvidenceInv, AttemptsOpened
    <3>3. CASE m = n + 1 BY <1>1, <3>1, <3>3
    <3>4. QED BY <1>1, <1>6, <3>2, <3>3
  <2>3. QED BY <2>1, <2>2 DEF AttemptsOpened
<1>14. EventOK(gel', n + 1)
  <2> DEFINE last == {m \in Earlier(gel', n + 1) : IsLatestBefore(gel', n + 1, gel'[n + 1].attempt_id, m)}
             prev == {gel'[j].attempt : j \in last}
  <2>1. ASSUME NEW m \in last PROVE m \in DOMAIN gel /\ gel'[m].attempt = attempts[i]
    <3>1. m \in 1..n BY <1>1 DEF Earlier
    <3>2. IsLatestBefore(gel, n + 1, i, m) BY <1>1, <1>5, <1>6, <3>1 DEF IsLatestBefore
    <3>3. QED BY <1>1, <1>6, <3>1, <3>2, LatestIsRow DEF EvidenceInv, n
  <2>2. PICK k \in DOMAIN gel : /\ gel[k].attempt_id = i
                                /\ \A m \in DOMAIN gel : m > k => gel[m].attempt_id # i
      BY DEF EvidenceInv, assertIntegrity
  <2>3. k \in last BY <1>1, <1>5, <1>6, <2>2 DEF Earlier, IsLatestBefore
  <2>4. prev = {attempts[i]} BY <2>1, <2>3
  <2>5. {p.state : p \in prev} = {attempts[i].state} BY <2>4
  <2>6. TransitionOK(attempts[i], a)
      BY DEF TransitionOK, EvidenceInv, EventsBound
  <2>7. ObservationOK(gel'[n + 1], {p.state : p \in prev}) BY <1>6, <2>5 DEF e
  <2> HIDE DEF prev
  <2>8. /\ prev = {} => FirstEventOK(gel', n + 1)
        /\ \A p \in prev : TransitionOK(p, gel'[n + 1].attempt)
        /\ ObservationOK(gel'[n + 1], {p.state : p \in prev})
      BY <1>5, <1>6, <2>4, <2>6, <2>7
  <2>9. QED BY <2>8 DEF EventOK, prev
<1>15. \A k \in DOMAIN gel' : EventOK(gel', k)
  <2>1. ASSUME NEW k \in 1..n PROVE EventOK(gel', k)
    <3>1. EventOK(gel, k) /\ k \in Nat \ {0} /\ \A m \in 1..k : gel'[m] = gel[m]
        BY <1>1, <1>6 DEF EvidenceInv
    <3>2. QED BY <3>1, EventStable
  <2>2. QED BY <1>1, <1>6, <1>14, <2>1
<1>16. QED BY <1>8, <1>10, <1>13, <1>15 DEF EvidenceInv

\* begin's transaction: the opening event of a fresh row, for an operation
\* whose last row is confirmed without effect, and the IN_FLIGHT event.
LEMMA BeginEvidence ==
    ASSUME IndInv, EvidenceInv, NEW d \in Dispatchers, BeginCommit(d)
    PROVE  EvidenceInv'
<1> DEFINE w == disp[d].warrant
           i == Len(attempts) + 1
           n == Len(gel)
           a == [warrant |-> w, state |-> "AUTHORIZED",
                 started_at |-> disp[d].now, updated_at |-> disp[d].now]
           b == [warrant |-> w, state |-> "IN_FLIGHT",
                 started_at |-> disp[d].now, updated_at |-> disp[d].now]
           e1 == Event(i, a, {})
           e2 == Event(i, b, {})
<1>1. disp[d] \in Dispatcher /\ w \in Warrants /\ disp[d].now \in Nat
    BY DEF IndInv, TypeOK, Dispatcher
<1>2. a \in EffectAttempt /\ b \in EffectAttempt
    BY <1>1 DEF EffectAttempt, EffectState, Terminal
<1>3. /\ attempts' = Append(attempts, b) /\ gel' = gel \o <<e1, e2>>
      /\ OperationFree(ScopeOf[w]) /\ UniqueColumns(w)
    BY DEF BeginCommit
<1>4. /\ a.state = "AUTHORIZED" /\ b.state = "IN_FLIGHT" /\ a.warrant = w /\ b.warrant = w
      /\ a.started_at = b.started_at
    OBVIOUS
<1>5. /\ Len(attempts) \in Nat /\ DOMAIN attempts = 1..Len(attempts)
      /\ n \in Nat /\ DOMAIN gel = 1..n
    BY LenProperties DEF IndInv, TypeOK
<1> HIDE DEF a, b, w
<1>6. e1.attempt_id = i /\ e1.attempt = a /\ e1.obs = {} BY DEF Event
<1>7. e2.attempt_id = i /\ e2.attempt = b /\ e2.obs = {} BY DEF Event
<1>8. e1 \in EffectEvent /\ e2 \in EffectEvent BY <1>2, <1>5 DEF Event, EffectEvent
<1> HIDE DEF e1, e2
<1>9. /\ DOMAIN attempts' = 1..i /\ attempts'[i] = b
      /\ \A j \in DOMAIN attempts : attempts'[j] = attempts[j]
    BY <1>2, <1>3, <1>5, AppendProperties, LenProperties DEF IndInv, TypeOK
<1>10. /\ Len(gel') = n + 2 /\ DOMAIN gel' = 1..(n + 2)
       /\ gel'[n + 1] = e1 /\ gel'[n + 2] = e2
       /\ \A k \in 1..n : gel'[k] = gel[k]
  <2>1. <<e1, e2>> \in Seq(EffectEvent) BY <1>8
  <2>2. QED BY <1>3, <1>5, <2>1, ConcatProperties, LenProperties DEF IndInv, TypeOK
<1> HIDE DEF n, i
<1>11. i \in Nat /\ i = Len(attempts) + 1 /\ DOMAIN attempts = 1..(i - 1) BY <1>5 DEF i
<1>12. \A k \in 1..n : gel[k].attempt_id \in DOMAIN attempts
    BY <1>5 DEF EvidenceInv, assertIntegrity
<1>13. \A k \in 1..n : gel[k].attempt_id # i BY <1>11, <1>12
<1>14. \A k \in 1..n : Earlier(gel', k) = Earlier(gel, k) BY <1>5, <1>10 DEF Earlier
<1>15. Earlier(gel', n + 1) = {}
    BY <1>5, <1>6, <1>10, <1>13 DEF Earlier
<1>16. Earlier(gel', n + 2) = {n + 1}
  <2>1. 1..((n + 2) - 1) = 1..n \union {n + 1} BY <1>5
  <2>2. Earlier(gel', n + 2) = {k \in 1..n \union {n + 1} : gel'[k].attempt_id = i}
      BY <1>7, <1>10, <2>1 DEF Earlier
  <2>3. \A k \in 1..n : gel'[k].attempt_id # i BY <1>10, <1>13
  <2>4. gel'[n + 1].attempt_id = i BY <1>6, <1>10
  <2>5. QED BY <2>2, <2>3, <2>4
<1>17. assertIntegrity'
  <2>1. ASSUME NEW j \in DOMAIN attempts'
        PROVE  \E k \in DOMAIN gel' :
                  /\ gel'[k].attempt_id = j
                  /\ gel'[k].attempt = attempts'[j]
                  /\ \A m \in DOMAIN gel' : m > k => gel'[m].attempt_id # j
    <3>1. CASE j = i
      <4>1. n + 2 \in DOMAIN gel' /\ \A m \in DOMAIN gel' : ~(m > n + 2) BY <1>5, <1>10
      <4>2. QED BY <1>7, <1>9, <1>10, <3>1, <4>1
    <3>2. CASE j # i
      <4>0. j \in DOMAIN attempts BY <1>9, <1>11, <3>2
      <4>1. PICK k \in DOMAIN gel : /\ gel[k].attempt_id = j
                                    /\ gel[k].attempt = attempts[j]
                                    /\ \A m \in DOMAIN gel : m > k => gel[m].attempt_id # j
          BY <4>0 DEF EvidenceInv, assertIntegrity
      <4>2. k \in DOMAIN gel' /\ gel'[k] = gel[k] BY <1>5, <1>10
      <4>3. ASSUME NEW m \in DOMAIN gel', m > k PROVE gel'[m].attempt_id # j
        <5>1. m \in 1..n \/ m = n + 1 \/ m = n + 2 BY <1>5, <1>10
        <5>2. QED BY <1>5, <1>6, <1>7, <1>10, <3>2, <4>1, <4>3, <5>1
      <4>4. QED BY <1>9, <4>0, <4>1, <4>2, <4>3
    <3>3. QED BY <3>1, <3>2
  <2>2. ASSUME NEW k \in DOMAIN gel' PROVE gel'[k].attempt_id \in DOMAIN attempts'
    <3>1. k \in 1..n \/ k = n + 1 \/ k = n + 2 BY <1>5, <1>10
    <3>2. i \in DOMAIN attempts' /\ DOMAIN attempts \subseteq DOMAIN attempts' BY <1>9, <1>11, <1>5
    <3>3. QED BY <1>6, <1>7, <1>10, <1>12, <3>1, <3>2
  <2>3. QED BY <2>1, <2>2 DEF assertIntegrity
<1>19. EventsBound'
  <2>1. ASSUME NEW k \in DOMAIN gel'
        PROVE  gel'[k].attempt.warrant = attempts'[gel'[k].attempt_id].warrant
    <3>1. k \in 1..n \/ k = n + 1 \/ k = n + 2 BY <1>5, <1>10
    <3>2. CASE k \in 1..n
        BY <1>5, <1>9, <1>10, <1>12, <3>2 DEF EvidenceInv, EventsBound
    <3>3. CASE k = n + 1 \/ k = n + 2 BY <1>4, <1>6, <1>7, <1>9, <1>10, <3>3
    <3>4. QED BY <3>1, <3>2, <3>3
  <2>2. ASSUME NEW j \in DOMAIN attempts' PROVE attempts'[j].state # "AUTHORIZED"
    <3>1. j \in DOMAIN attempts \/ j = i BY <1>9, <1>11
    <3>2. QED BY <1>4, <1>9, <3>1 DEF EvidenceInv, EventsBound
  <2>3. QED BY <2>1, <2>2 DEF EventsBound
<1>20. AttemptsOpened'
  <2>1. ASSUME NEW j \in DOMAIN attempts'
        PROVE  \E k \in DOMAIN gel' : gel'[k].attempt_id = j /\ Earlier(gel', k) = {}
    <3>1. CASE j = i
      <4>1. n + 1 \in DOMAIN gel' BY <1>5, <1>10
      <4>2. QED BY <1>6, <1>10, <1>15, <3>1, <4>1
    <3>2. CASE j # i
      <4>1. j \in DOMAIN attempts BY <1>9, <1>11, <3>2
      <4>2. PICK k \in 1..n : gel[k].attempt_id = j /\ Earlier(gel, k) = {}
          BY <1>5, <4>1 DEF EvidenceInv, AttemptsOpened
      <4>3. k \in DOMAIN gel' BY <1>5, <1>10
      <4>4. QED BY <1>10, <1>14, <4>2, <4>3
    <3>3. QED BY <3>1, <3>2
  <2>2. ASSUME NEW k \in DOMAIN gel', NEW m \in DOMAIN gel', Earlier(gel', k) = {},
               gel'[k].attempt_id < gel'[m].attempt_id
        PROVE  k < m
    <3>1. /\ k \in 1..n \/ k = n + 1 \/ k = n + 2
          /\ m \in 1..n \/ m = n + 1 \/ m = n + 2
        BY <1>5, <1>10
    <3>2. k # n + 2 BY <1>16, <2>2
    <3>3. k # n + 1
      <4>1. SUFFICES ASSUME k = n + 1 PROVE FALSE OBVIOUS
      <4>2. i < gel'[m].attempt_id BY <1>6, <1>10, <2>2, <4>1
      <4>3. gel'[m].attempt_id \in 1..i
          BY <1>6, <1>7, <1>10, <1>11, <1>12, <3>1
      <4>4. QED BY <1>11, <4>2, <4>3
    <3>4. CASE m \in 1..n
        BY <1>5, <1>10, <1>14, <2>2, <3>1, <3>2, <3>3, <3>4 DEF EvidenceInv, AttemptsOpened
    <3>5. CASE m \notin 1..n BY <1>5, <3>1, <3>2, <3>3, <3>5
    <3>6. QED BY <3>4, <3>5
  <2>3. QED BY <2>1, <2>2 DEF AttemptsOpened
<1>21. FirstEventOK(gel', n + 1)
  <2>1. gel'[n + 1].attempt.state = "AUTHORIZED" /\ gel'[n + 1].attempt.warrant = w
      BY <1>4, <1>6, <1>10
  <2>2. \A j \in 1..((n + 1) - 1) : gel'[j].attempt.warrant # gel'[n + 1].attempt.warrant
    <3>1. \A j \in 1..n : gel[j].attempt.warrant # w
        BY <1>3, <1>5, <1>12 DEF EvidenceInv, EventsBound, UniqueColumns
    <3>2. QED BY <1>5, <1>10, <2>1, <3>1
  <2> DEFINE opens(j) == /\ Earlier(gel', j) = {}
                         /\ ScopeOf[gel'[j].attempt.warrant] = ScopeOf[gel'[n + 1].attempt.warrant]
  <2>3. ASSUME NEW f \in 1..((n + 1) - 1), NEW j \in 1..((n + 1) - 1), opens(f),
               \A m \in (f + 1)..((n + 1) - 1) : ~opens(m),
               IsLatestBefore(gel', n + 1, gel'[f].attempt_id, j)
        PROVE  gel'[j].attempt.state = "CONFIRMED_NO_EFFECT"
    <3> DEFINE r == gel[f].attempt_id
    <3>1. f \in 1..n /\ j \in 1..n /\ gel'[f] = gel[f] /\ gel'[j] = gel[j] BY <1>5, <1>10
    <3>2. r \in DOMAIN attempts BY <1>12, <3>1
    <3>3. IsLatestBefore(gel, n + 1, r, j) BY <1>5, <1>10, <2>3, <3>1 DEF IsLatestBefore
    <3>4. gel[j].attempt = attempts[r]
        BY <1>5, <3>1, <3>2, <3>3, LatestIsRow DEF IndInv, EvidenceInv, n
    <3>5. ScopeOf[attempts[r].warrant] = ScopeOf[w]
        BY <1>5, <2>1, <2>3, <3>1 DEF EvidenceInv, EventsBound
    <3>6. ASSUME NEW q \in DOMAIN attempts, q > r, ScopeOf[attempts[q].warrant] = ScopeOf[w]
          PROVE  FALSE
      <4>1. PICK g \in 1..n : gel[g].attempt_id = q /\ Earlier(gel, g) = {}
          BY <1>5 DEF EvidenceInv, AttemptsOpened
      <4>2. f < g
          BY <1>5, <1>11, <1>14, <2>3, <3>1, <3>2, <3>6, <4>1 DEF EvidenceInv, AttemptsOpened
      <4>3. opens(g)
          BY <1>5, <1>10, <1>14, <2>1, <3>6, <4>1 DEF EvidenceInv, EventsBound
      <4>4. g \in (f + 1)..((n + 1) - 1) BY <1>5, <3>1, <4>2
      <4>5. QED BY <2>3, <4>3, <4>4
    <3>7. LatestInScope(r, ScopeOf[w]) BY <3>5, <3>6 DEF LatestInScope
    <3>8. QED BY <1>3, <3>1, <3>2, <3>4, <3>7 DEF OperationFree
  <2>4. QED BY <2>1, <2>2, <2>3 DEF FirstEventOK
<1>22. EventOK(gel', n + 1)
  <2> DEFINE prev == {gel'[j].attempt : j \in {m \in Earlier(gel', n + 1) :
                          IsLatestBefore(gel', n + 1, gel'[n + 1].attempt_id, m)}}
  <2>1. prev = {} BY <1>15
  <2>2. ObservationOK(gel'[n + 1], {p.state : p \in prev})
      BY <1>4, <1>6, <1>10 DEF ObservationOK, Terminal
  <2> HIDE DEF prev
  <2>3. /\ prev = {} => FirstEventOK(gel', n + 1)
        /\ \A p \in prev : TransitionOK(p, gel'[n + 1].attempt)
        /\ ObservationOK(gel'[n + 1], {p.state : p \in prev})
      BY <1>21, <2>1, <2>2
  <2>4. QED BY <2>3 DEF EventOK, prev
<1>23. EventOK(gel', n + 2)
  <2> DEFINE last == {m \in Earlier(gel', n + 2) :
                          IsLatestBefore(gel', n + 2, gel'[n + 2].attempt_id, m)}
             prev == {gel'[j].attempt : j \in last}
  <2>1. n + 1 \in last BY <1>5, <1>6, <1>7, <1>10, <1>16 DEF IsLatestBefore
  <2>2. last = {n + 1} BY <1>16, <2>1
  <2>3. prev = {a} BY <1>6, <1>10, <2>2
  <2>4. TransitionOK(a, b) BY <1>4 DEF TransitionOK, Terminal
  <2>5. ObservationOK(gel'[n + 2], {p.state : p \in prev})
      BY <1>4, <1>7, <1>10 DEF ObservationOK, Terminal
  <2> HIDE DEF prev
  <2>6. /\ prev = {} => FirstEventOK(gel', n + 2)
        /\ \A p \in prev : TransitionOK(p, gel'[n + 2].attempt)
        /\ ObservationOK(gel'[n + 2], {p.state : p \in prev})
      BY <1>7, <1>10, <2>3, <2>4, <2>5
  <2>7. QED BY <2>6 DEF EventOK, prev
<1>24. \A k \in DOMAIN gel' : EventOK(gel', k)
  <2>1. ASSUME NEW k \in 1..n PROVE EventOK(gel', k)
    <3>1. EventOK(gel, k) /\ k \in Nat \ {0} /\ \A m \in 1..k : gel'[m] = gel[m]
        BY <1>5, <1>10 DEF EvidenceInv
    <3>2. QED BY <3>1, EventStable
  <2>2. \A k \in DOMAIN gel' : k \in 1..n \/ k = n + 1 \/ k = n + 2 BY <1>5, <1>10
  <2>3. QED BY <1>22, <1>23, <2>1, <2>2
<1>25. QED BY <1>17, <1>19, <1>20, <1>24 DEF EvidenceInv

\* Every step keeps the evidence well formed.
LEMMA EvidenceStep == ASSUME IndInv, EvidenceInv, [Next]_vars PROVE EvidenceInv'
<1>1. ASSUME UNCHANGED <<attempts, gel>> PROVE EvidenceInv'
  <2>1. assertIntegrity' BY <1>1 DEF EvidenceInv, assertIntegrity
  <2>2. EventsBound' BY <1>1 DEF EvidenceInv, EventsBound
  <2>3. AttemptsOpened' BY <1>1 DEF EvidenceInv, AttemptsOpened
  <2>4. \A k \in DOMAIN gel' : EventOK(gel', k) BY <1>1 DEF EvidenceInv
  <2>5. QED BY <2>1, <2>2, <2>3, <2>4 DEF EvidenceInv
<1>2. ASSUME NEW i \in DOMAIN attempts, markUnknown(i) PROVE EvidenceInv'
  <2> DEFINE a == [attempts[i] EXCEPT !.state = "EFFECT_UNKNOWN", !.updated_at = clock]
  <2>1. CASE attempts[i].state # "IN_FLIGHT" BY <1>1, <1>2, <2>1 DEF markUnknown
  <2>2. CASE attempts[i].state = "IN_FLIGHT"
    <3>1. attempts[i] \in EffectAttempt BY ElementOfSeq, LenProperties DEF IndInv, TypeOK
    <3>2. a \in EffectAttempt BY <3>1 DEF IndInv, TypeOK, EffectAttempt, EffectState
    <3>3. /\ a.warrant = attempts[i].warrant /\ a.started_at = attempts[i].started_at
          /\ a.state = "EFFECT_UNKNOWN"
        BY <3>1 DEF EffectAttempt
    <3>4. attempts' = [attempts EXCEPT ![i] = a] /\ gel' = Append(gel, Event(i, a, {}))
        BY <1>2, <2>2 DEF markUnknown
    <3> HIDE DEF a
    <3>5. ObservationOK(Event(i, a, {}), {attempts[i].state})
        BY <3>3 DEF ObservationOK, Event, Terminal
    <3>6. attempts[i].state \notin Terminal BY <2>2 DEF Terminal
    <3>7. TypeOK /\ {} \in SUBSET EffectObservation BY DEF IndInv
    <3>8. a.state \notin {"AUTHORIZED", "IN_FLIGHT"} BY <3>3
    <3>9. QED BY <3>2, <3>3, <3>4, <3>5, <3>6, <3>7, <3>8, AppendEvidence, Zenon
  <2>3. QED BY <2>1, <2>2
<1>3. ASSUME NEW o \in EffectObservation, reconcile(o) PROVE EvidenceInv'
  <2> DEFINE i == o.attempt
             a == [attempts[i] EXCEPT !.state = o.outcome, !.updated_at = clock]
  <2>1. /\ i \in DOMAIN attempts /\ o.about = i /\ attempts[i].state \notin Terminal
        /\ o.observed_at >= attempts[i].started_at /\ o.observed_at <= clock
        /\ o.trusted /\ (o.outcome = "EFFECT_UNKNOWN" \/ o.settled)
        /\ ~(attempts[i].state = "IN_FLIGHT" /\ o.outcome = "CONFIRMED_NO_EFFECT")
      BY <1>3 DEF reconcile, Binds, Reconcilable, ObservationAcceptable
  <2>2. attempts[i] \in EffectAttempt BY <2>1, ElementOfSeq, LenProperties DEF IndInv, TypeOK
  <2>3. /\ o.outcome \in EffectState /\ o.outcome \notin {"AUTHORIZED", "IN_FLIGHT"}
        /\ o.observed_at \in Nat
      BY DEF EffectObservation, EffectState, Terminal
  <2>4. /\ a \in EffectAttempt /\ a.warrant = attempts[i].warrant /\ a.state = o.outcome
        /\ a.started_at = attempts[i].started_at /\ a.updated_at = clock
        /\ a.started_at \in Nat /\ clock \in Nat
      BY <2>2, <2>3 DEF IndInv, TypeOK, EffectAttempt
  <2>5. attempts' = [attempts EXCEPT ![i] = a] /\ gel' = Append(gel, Event(i, a, {o}))
      BY <1>3 DEF reconcile
  <2> HIDE DEF a, i
  <2>6. /\ Event(i, a, {o}).attempt = a /\ Event(i, a, {o}).obs = {o}
        /\ Event(i, a, {o}).attempt_id = i
      BY DEF Event
  <2>7. o.observed_at \in a.started_at..a.updated_at BY <2>1, <2>3, <2>4
  <2>8. ObservationOK(Event(i, a, {o}), {attempts[i].state})
      BY <2>1, <2>4, <2>6, <2>7 DEF ObservationOK
  <2>9. TypeOK /\ {o} \in SUBSET EffectObservation BY DEF IndInv
  <2>10. a.state \notin {"AUTHORIZED", "IN_FLIGHT"} BY <2>3, <2>4
  <2>11. QED BY <2>1, <2>4, <2>5, <2>8, <2>9, <2>10, AppendEvidence, Zenon
<1>4. ASSUME NEW d \in Dispatchers, DispatcherStep(d) PROVE EvidenceInv'
  <2>1. CASE BeginCommit(d) BY <2>1, BeginEvidence
  <2>2. CASE Finish(d)
    <3>1. disp[d].attempt \in DOMAIN attempts BY <2>2 DEF Finish, IndInv, AttemptsOwned
    <3>2. QED BY <1>2, <2>2, <3>1 DEF Finish
  <2>3. CASE ~BeginCommit(d) /\ ~Finish(d)
      BY <1>1, <1>4, <2>3 DEF DispatcherStep, BeginVerify, BeginRefuse, Dispatch,
         TransportReturns, FinishFails, Crash, Reopen
  <2>4. QED BY <2>1, <2>2, <2>3
<1>5. CASE Environment
  <2>1. ASSUME NEW i \in DOMAIN attempts, RecoverUnknown(i) PROVE EvidenceInv'
      BY <1>2, <2>1 DEF RecoverUnknown
  <2>2. ASSUME NEW o \in signed \union {p \in PossibleObservation : ~p.trusted}, reconcile(o)
        PROVE  EvidenceInv'
    <3>1. o \in EffectObservation BY PossibleObservationType DEF IndInv, TypeOK
    <3>2. QED BY <1>3, <2>2, <3>1
  <2>3. QED BY <1>1, <1>5, <2>1, <2>2
        DEF Environment, ReceiverSettles, Observe, Tick, Revoke
<1>6. QED BY <1>1, <1>4, <1>5 DEF Next, vars

\* The signed chain is well formed in every reachable state: each event is one
\* the offline verifier accepts and the table is the chain's last word.
THEOREM EvidenceInvariance == Spec => []EvidenceInv
<1>1. Init => EvidenceInv
    BY DEF Init, EvidenceInv, assertIntegrity, EventsBound, AttemptsOpened
<1>2. IndInv /\ EvidenceInv /\ [Next]_vars => EvidenceInv' BY EvidenceStep
<1>3. QED BY <1>1, <1>2, Invariance, PTL DEF Spec

\* The database can be opened again after any crash.
THEOREM ReopenAlways == Spec => []ReopenSucceeds
<1>1. EvidenceInv => ReopenSucceeds BY DEF EvidenceInv, ReopenSucceeds
<1>2. QED BY <1>1, EvidenceInvariance, PTL

\* verifyEffectEvidence never fails what the store wrote, and its PASS is a
\* true statement about every attempt at the receiver.
THEOREM EvidenceTrue == Spec => []EvidenceAgrees
<1>1. IndInv /\ EvidenceInv => EvidenceAgrees
  <2> SUFFICES ASSUME IndInv, EvidenceInv PROVE EvidenceAgrees OBVIOUS
  <2>1. verifyEffectEvidence(gel) # "FAIL" BY DEF EvidenceInv, verifyEffectEvidence
  <2>2. ASSUME verifyEffectEvidence(gel) = "PASS", NEW i \in DOMAIN wire
        PROVE  IF wire[i] = "effect" THEN attempts[i].state = "CONFIRMED_EFFECT"
                                     ELSE attempts[i].state = "CONFIRMED_NO_EFFECT"
    <3>1. i \in DOMAIN attempts BY LenProperties DEF IndInv, TypeOK
    <3>2. PICK k \in DOMAIN gel : /\ gel[k].attempt_id = i
                                  /\ gel[k].attempt = attempts[i]
                                  /\ \A m \in DOMAIN gel : m > k => gel[m].attempt_id # i
        BY <3>1 DEF EvidenceInv, assertIntegrity
    <3>3. Len(gel) \in Nat /\ DOMAIN gel = 1..Len(gel) BY LenProperties DEF IndInv, TypeOK
    <3>4. IsLatestBefore(gel, Len(gel) + 1, gel[k].attempt_id, k)
        BY <3>2, <3>3 DEF IsLatestBefore
    <3>5. attempts[i].state \in Terminal BY <2>2, <3>2, <3>4 DEF verifyEffectEvidence
    <3>6. QED BY <3>1, <3>5 DEF Terminal, IndInv, ConfirmedIsTrue, CannotCommit
  <2>3. QED BY <2>1, <2>2 DEF EvidenceAgrees
<1>2. QED BY <1>1, Invariance, EvidenceInvariance, PTL

\* No step reopens a settled attempt or rewrites an event.
THEOREM SettledForever == Spec => SettledStaysSettled
<1> DEFINE Kept == /\ \A i \in DOMAIN attempts :
                         attempts[i].state \in Terminal => attempts'[i] = attempts[i]
                   /\ \A k \in DOMAIN gel : k \in DOMAIN gel' /\ gel'[k] = gel[k]
<1>1. ASSUME IndInv, [Next]_vars PROVE Kept
  <2>1. ASSUME UNCHANGED <<attempts, gel>> PROVE Kept BY <2>1
  <2>2. ASSUME NEW i \in DOMAIN attempts, markUnknown(i) PROVE Kept
      BY <1>1, <2>2, MarkUnknownStep DEF IndInv, Terminal
  <2>3. ASSUME NEW d \in Dispatchers, BeginCommit(d) PROVE Kept
    <3> DEFINE b == [warrant |-> disp[d].warrant, state |-> "IN_FLIGHT",
                     started_at |-> disp[d].now, updated_at |-> disp[d].now]
               a == [warrant |-> disp[d].warrant, state |-> "AUTHORIZED",
                     started_at |-> disp[d].now, updated_at |-> disp[d].now]
               i == Len(attempts) + 1
    <3>1. disp[d] \in Dispatcher BY <1>1 DEF IndInv, TypeOK
    <3>2. a \in EffectAttempt /\ b \in EffectAttempt
        BY <3>1 DEF Dispatcher, EffectAttempt, EffectState, Terminal
    <3>3. /\ attempts' = Append(attempts, b)
          /\ gel' = gel \o <<Event(i, a, {}), Event(i, b, {})>>
        BY <2>3 DEF BeginCommit
    <3>4. i \in Nat BY <1>1, LenProperties DEF IndInv, TypeOK
    <3> HIDE DEF a, b, i
    <3>5. Event(i, a, {}) \in EffectEvent /\ Event(i, b, {}) \in EffectEvent
        BY <3>2, <3>4 DEF Event, EffectEvent
    <3>6. <<Event(i, a, {}), Event(i, b, {})>> \in Seq(EffectEvent) BY <3>5
    <3>7. \A k \in DOMAIN gel : k \in DOMAIN gel' /\ gel'[k] = gel[k]
        BY <1>1, <3>3, <3>6, ConcatProperties, LenProperties DEF IndInv, TypeOK
    <3>8. \A j \in DOMAIN attempts : attempts'[j] = attempts[j]
        BY <1>1, <3>2, <3>3, AppendProperties, LenProperties DEF IndInv, TypeOK
    <3>9. QED BY <3>7, <3>8
  <2>4. ASSUME NEW o \in EffectObservation, reconcile(o) PROVE Kept
      BY <1>1, <2>4, ReconcileStep DEF IndInv
  <2> HIDE DEF Kept
  <2>5. ASSUME NEW d \in Dispatchers, DispatcherStep(d) PROVE Kept
    <3>1. CASE Finish(d)
      <4>1. disp[d].attempt \in DOMAIN attempts BY <1>1, <3>1 DEF Finish, IndInv, AttemptsOwned
      <4>2. QED BY <2>2, <3>1, <4>1 DEF Finish
    <3>2. CASE ~BeginCommit(d) /\ ~Finish(d)
        BY <2>1, <2>5, <3>2 DEF DispatcherStep, BeginVerify, BeginRefuse, Dispatch,
           TransportReturns, FinishFails, Crash, Reopen
    <3>3. QED BY <2>3, <3>1, <3>2
  <2>6. CASE Environment
    <3>1. ASSUME NEW i \in DOMAIN attempts, RecoverUnknown(i) PROVE Kept
        BY <2>2, <3>1 DEF RecoverUnknown
    <3>2. ASSUME NEW o \in signed \union {p \in PossibleObservation : ~p.trusted}, reconcile(o)
          PROVE  Kept
      <4>1. o \in EffectObservation BY <1>1, PossibleObservationType DEF IndInv, TypeOK
      <4>2. QED BY <2>4, <3>2, <4>1
    <3>3. QED BY <2>1, <2>6, <3>1, <3>2
          DEF Environment, ReceiverSettles, Observe, Tick, Revoke
  <2>7. QED BY <1>1, <2>1, <2>5, <2>6 DEF Next, vars
<1>2. IndInv /\ [Next]_vars => [Kept]_vars BY <1>1
<1>3. QED BY <1>2, Invariance, PTL DEF Spec, SettledStaysSettled

-----------------------------------------------------------------------------
(* What the store promises of operations                                   *)

\* What is known of an attempt.
Knowledge == [warrant : Warrants, outcome : {"open", "effect", "no_effect"}]

\* The mapped attempts are a sequence like the table.
KnownMirrors ==
    /\ KnownAttempts \in Seq(Knowledge) /\ Len(KnownAttempts) = Len(attempts)
    /\ DOMAIN KnownAttempts = DOMAIN attempts
    /\ \A i \in DOMAIN attempts :
          /\ KnownAttempts[i].warrant = attempts[i].warrant
          /\ KnownAttempts[i].outcome = Outcome(attempts[i].state)
          /\ attempts[i].warrant \in Warrants /\ attempts[i].state \in EffectState

LEMMA KnownType == TypeOK => KnownMirrors
<1> HAVE TypeOK
<1>1. Len(attempts) \in Nat /\ DOMAIN attempts = 1 .. Len(attempts)
    BY LenProperties DEF TypeOK
<1>2. \A i \in DOMAIN attempts : attempts[i].warrant \in Warrants /\ attempts[i].state \in EffectState
  <2>1. \A i \in DOMAIN attempts : attempts[i] \in EffectAttempt BY <1>1, ElementOfSeq DEF TypeOK
  <2>2. QED BY <2>1 DEF EffectAttempt
<1>3. \A e \in EffectState : Outcome(e) \in {"open", "effect", "no_effect"}
    BY DEF Outcome, EffectState, Terminal
<1>4. KnownAttempts \in [1 .. Len(attempts) -> Knowledge]
    BY <1>1, <1>2, <1>3 DEF KnownAttempts, Knowledge
<1>5. KnownAttempts \in Seq(Knowledge) BY <1>1, <1>4, SeqDef
<1>6. DOMAIN KnownAttempts = 1 .. Len(KnownAttempts) /\ Len(KnownAttempts) \in Nat
    BY <1>5, LenProperties
<1>7. Len(KnownAttempts) = Len(attempts)
  <2>1. \A m, n \in Nat : 1 .. m = 1 .. n => m = n
    <3> SUFFICES ASSUME NEW m \in Nat, NEW n \in Nat, 1 .. m = 1 .. n, n < m PROVE FALSE OBVIOUS
    <3>1. m \in 1 .. m /\ m \notin 1 .. n OBVIOUS
    <3>2. QED BY <3>1
  <2>2. 1 .. Len(KnownAttempts) = 1 .. Len(attempts) BY <1>4, <1>6
  <2>3. QED BY <1>1, <1>6, <2>1, <2>2
<1>8. QED BY <1>1, <1>2, <1>5, <1>6, <1>7 DEF KnownAttempts, KnownMirrors

\* The outcome that stands for each state.
LEMMA Outcomes ==
    ASSUME NEW e \in EffectState
    PROVE  /\ Outcome(e) = "effect" <=> e = "CONFIRMED_EFFECT"
           /\ Outcome(e) = "no_effect" <=> e = "CONFIRMED_NO_EFFECT"
           /\ Outcome(e) = "open" <=> e \notin Terminal
BY DEF Outcome, EffectState, Terminal

\* begin opens an attempt only at an operation all of whose attempts are known
\* to have had no effect: the last by its own check, the others by AttemptsSerial.
LEMMA BeginPromised ==
    ASSUME IndInv, TypeOK', NEW d \in Dispatchers, BeginCommit(d)
    PROVE  Operations!Attempt(disp[d].warrant)
<1> DEFINE w == disp[d].warrant
           b == [warrant |-> w, state |-> "IN_FLIGHT",
                 started_at |-> disp[d].now, updated_at |-> disp[d].now]
           new == [warrant |-> w, outcome |-> "open"]
           n == Len(attempts)
<1>1. w \in Warrants /\ b \in EffectAttempt
    BY DEF IndInv, TypeOK, Dispatcher, EffectAttempt, EffectState, Terminal
<1>2. /\ attempts' = Append(attempts, b) /\ wire' = Append(wire, "none")
      /\ OperationFree(ScopeOf[w]) /\ UniqueColumns(w)
    BY DEF BeginCommit
<1>3. n \in Nat /\ DOMAIN attempts = 1 .. n /\ DOMAIN wire = 1 .. n /\ Len(wire) = n
    BY LenProperties DEF IndInv, TypeOK
<1>4. b.warrant = w /\ b.state = "IN_FLIGHT" /\ new.warrant = w /\ new.outcome = "open"
      /\ new \in Knowledge
    BY <1>1 DEF Knowledge
<1> HIDE DEF w, b, new
<1>5. /\ Len(attempts') = n + 1 /\ DOMAIN attempts' = 1 .. n + 1
      /\ \A j \in 1 .. n : attempts'[j] = attempts[j]
      /\ attempts'[n + 1] = b
    BY <1>1, <1>2, <1>3, AppendProperties, LenProperties DEF IndInv, TypeOK
<1>6. KnownAttempts' = Append(KnownAttempts, new)
  <2>1. /\ KnownAttempts \in Seq(Knowledge) /\ Len(KnownAttempts) = n
        /\ \A i \in 1 .. n : /\ KnownAttempts[i].warrant = attempts[i].warrant
                             /\ KnownAttempts[i].outcome = Outcome(attempts[i].state)
      BY <1>3, KnownType DEF IndInv, KnownMirrors
  <2>2. /\ KnownAttempts' \in Seq(Knowledge) /\ Len(KnownAttempts') = n + 1
        /\ \A i \in 1 .. n + 1 : /\ KnownAttempts'[i].warrant = attempts'[i].warrant
                                 /\ KnownAttempts'[i].outcome = Outcome(attempts'[i].state)
    <3>1. /\ KnownAttempts' \in Seq(Knowledge) /\ Len(KnownAttempts') = Len(attempts')
          /\ \A i \in DOMAIN attempts' :
                 /\ KnownAttempts'[i].warrant = attempts'[i].warrant
                 /\ KnownAttempts'[i].outcome = Outcome(attempts'[i].state)
      <4>1. KnownMirrors' BY KnownType, PTL
      <4>2. QED BY <4>1 DEF KnownMirrors
    <3>2. QED BY <1>5, <3>1
  <2> DEFINE t == Append(KnownAttempts, new)
  <2>3. /\ t \in Seq(Knowledge) /\ Len(t) = n + 1
        /\ \A i \in 1 .. n : t[i] = KnownAttempts[i]
        /\ t[n + 1] = new
      BY <1>4, <2>1, AppendProperties
  <2> HIDE DEF t
  <2>4. Outcome("IN_FLIGHT") = "open" BY DEF Outcome, Terminal
  <2>5. ASSUME NEW i \in 1 .. n + 1 PROVE KnownAttempts'[i] = t[i]
    <3>1. KnownAttempts'[i] \in Knowledge /\ t[i] \in Knowledge
        BY <2>2, <2>3, ElementOfSeq
    <3>2. CASE i = n + 1 BY <1>3, <1>4, <1>5, <2>2, <2>3, <2>4, <3>1, <3>2 DEF Knowledge
    <3>3. CASE i # n + 1
      <4>1. i \in 1 .. n BY <1>3, <3>3
      <4>2. t[i] = KnownAttempts[i] BY <2>3, <4>1
      <4>3. /\ KnownAttempts'[i].warrant = KnownAttempts[i].warrant
            /\ KnownAttempts'[i].outcome = KnownAttempts[i].outcome
          BY <1>3, <1>5, <2>1, <2>2, <4>1
      <4>4. QED BY <3>1, <4>2, <4>3 DEF Knowledge
    <3>4. QED BY <3>2, <3>3
  <2>6. KnownAttempts' = t BY <1>3, <2>2, <2>3, <2>5, SeqEqual
  <2>7. QED BY <2>6 DEF t
<1>7. TookEffect' = TookEffect
  <2>1. /\ Len(wire') = n + 1 /\ DOMAIN wire' = 1 .. n + 1
        /\ \A j \in 1 .. n : wire'[j] = wire[j]
        /\ wire'[n + 1] = "none"
      BY <1>2, <1>3, AppendProperties, LenProperties DEF IndInv, TypeOK
  <2>2. QED BY <1>3, <2>1 DEF TookEffect
<1>8. ASSUME NEW i \in DOMAIN KnownAttempts
      PROVE  /\ KnownAttempts[i].warrant # w /\ NonceOf[KnownAttempts[i].warrant] # NonceOf[w]
             /\ ScopeOf[KnownAttempts[i].warrant] = ScopeOf[w] => KnownAttempts[i].outcome = "no_effect"
  <2>1. /\ i \in DOMAIN attempts /\ KnownAttempts[i].warrant = attempts[i].warrant
        /\ KnownAttempts[i].outcome = Outcome(attempts[i].state) /\ attempts[i].state \in EffectState
      BY KnownType DEF IndInv, KnownMirrors
  <2>2. ASSUME ScopeOf[attempts[i].warrant] = ScopeOf[w]
        PROVE  attempts[i].state = "CONFIRMED_NO_EFFECT"
    <3>1. CASE LatestInScope(i, ScopeOf[w]) BY <1>2, <2>1, <3>1 DEF OperationFree
    <3>2. CASE ~LatestInScope(i, ScopeOf[w])
      <4>1. PICK j \in DOMAIN attempts : j > i /\ ScopeOf[attempts[j].warrant] = ScopeOf[w]
          BY <2>2, <3>2 DEF LatestInScope
      <4>2. i < j BY <1>3, <2>1, <4>1
      <4>3. QED BY <2>1, <2>2, <4>1, <4>2 DEF IndInv, AttemptsSerial, SameScope
    <3>3. QED BY <3>1, <3>2
  <2>3. QED BY <1>2, <2>1, <2>2, Outcomes DEF UniqueColumns
<1>9. QED BY <1>6, <1>7, <1>8 DEF Operations!Attempt, w, new

\* What changes neither the wire nor the outcome of an attempt shows nothing.
LEMMA Unseen ==
    ASSUME UNCHANGED wire, DOMAIN attempts' = DOMAIN attempts,
           \A i \in DOMAIN attempts : /\ attempts'[i].warrant = attempts[i].warrant
                                      /\ Outcome(attempts'[i].state) = Outcome(attempts[i].state)
    PROVE  UNCHANGED <<KnownAttempts, TookEffect>>
BY DEF KnownAttempts, TookEffect

\* A settled observation tells what has happened; an unsettled one tells nothing.
LEMMA ReconcilePromised ==
    ASSUME IndInv, NEW o \in EffectObservation, o \in signed \/ ~o.trusted, reconcile(o)
    PROVE  Operations!Learn(o.attempt) \/ UNCHANGED <<KnownAttempts, TookEffect>>
<1> DEFINE i == o.attempt
<1>1. /\ DOMAIN attempts' = DOMAIN attempts /\ o.about = i /\ i \in DOMAIN attempts
      /\ attempts[i].state \notin Terminal /\ attempts'[i].state = o.outcome
      /\ \A j \in DOMAIN attempts : /\ attempts'[j].warrant = attempts[j].warrant
                                    /\ j # i => attempts'[j] = attempts[j]
    BY ReconcileStep DEF IndInv
<1>2. wire' = wire BY DEF reconcile
<1>3. o \in signed /\ Truthful(o) /\ (o.outcome = "EFFECT_UNKNOWN" \/ o.settled)
    BY DEF reconcile, ObservationAcceptable, IndInv, SignedTruthful
<1>4. o.outcome \in Terminal \union {"EFFECT_UNKNOWN"} BY DEF EffectObservation
<1>5. CASE o.outcome = "EFFECT_UNKNOWN"
  <2>1. Outcome(attempts'[i].state) = Outcome(attempts[i].state)
      BY <1>1, <1>5, KnownType, Outcomes DEF KnownMirrors, IndInv, EffectState, Terminal
  <2>2. QED BY <1>1, <1>2, <2>1, Unseen
<1>6. CASE o.outcome \in Terminal
  <2>1. /\ DOMAIN wire = DOMAIN attempts /\ DOMAIN KnownAttempts = DOMAIN attempts
        /\ KnownAttempts[i].outcome = "open" /\ KnownAttempts \in Seq(Knowledge)
        /\ KnownAttempts[i].warrant = attempts[i].warrant
    <3>1. DOMAIN wire = DOMAIN attempts BY LenProperties DEF IndInv, TypeOK
    <3>2. QED BY <1>1, <3>1, KnownType, Outcomes DEF KnownMirrors, IndInv
  <2>2. Outcome(o.outcome) = IF i \in TookEffect THEN "effect" ELSE "no_effect"
      BY <1>1, <1>3, <1>6, <2>1, Outcomes
      DEF Truthful, CannotCommit, TookEffect, EffectState, Terminal
  <2>3. KnownAttempts' = [KnownAttempts EXCEPT ![i].outcome = Outcome(o.outcome)]
    <3> DEFINE s == [KnownAttempts EXCEPT ![i].outcome = Outcome(o.outcome)]
    <3>1. DOMAIN s = DOMAIN attempts /\ DOMAIN KnownAttempts' = DOMAIN attempts
        BY <1>1, <2>1 DEF KnownAttempts
    <3>2. ASSUME NEW j \in DOMAIN attempts, j # i PROVE KnownAttempts'[j] = s[j]
        BY <1>1, <2>1, <3>2 DEF KnownAttempts
    <3>3. KnownAttempts'[i] = s[i]
      <4>1. KnownAttempts'[i] = [warrant |-> attempts[i].warrant, outcome |-> Outcome(o.outcome)]
          BY <1>1 DEF KnownAttempts
      <4>2. KnownAttempts[i] = [warrant |-> attempts[i].warrant, outcome |-> Outcome(attempts[i].state)]
          BY <1>1 DEF KnownAttempts
      <4>3. s[i] = [KnownAttempts[i] EXCEPT !.outcome = Outcome(o.outcome)] BY <1>1, <2>1
      <4> HIDE DEF s
      <4>4. QED BY <4>1, <4>2, <4>3
    <3>4. QED BY <3>1, <3>2, <3>3 DEF KnownAttempts
  <2>4. TookEffect' = TookEffect BY <1>2 DEF TookEffect
  <2>5. QED BY <2>1, <2>2, <2>3, <2>4 DEF Operations!Learn
<1>7. QED BY <1>4, <1>5, <1>6

\* A request still on the wire is one whose attempt is open.
LEMMA SettlesPromised ==
    ASSUME IndInv, NEW i \in DOMAIN wire, NEW fate \in {"effect", "lost"}, ReceiverSettles(i, fate)
    PROVE  Operations!TakeEffect(i) \/ UNCHANGED <<KnownAttempts, TookEffect>>
<1>1. wire[i] = "pending" /\ wire' = [wire EXCEPT ![i] = fate] /\ attempts' = attempts
    BY DEF ReceiverSettles
<1>2. DOMAIN wire = DOMAIN attempts BY LenProperties DEF IndInv, TypeOK
<1>3. KnownAttempts' = KnownAttempts BY <1>1 DEF KnownAttempts
<1>4. TookEffect' = IF fate = "effect" THEN TookEffect \union {i} ELSE TookEffect
    BY <1>1 DEF TookEffect
<1>5. i \notin TookEffect BY <1>1 DEF TookEffect
<1>6. KnownAttempts[i].outcome = "open"
  <2>1. attempts[i].state \notin Terminal
      BY <1>1, <1>2 DEF IndInv, ConfirmedIsTrue, CannotCommit, Terminal
  <2>2. QED BY <1>2, <2>1, KnownType, Outcomes DEF KnownMirrors, IndInv
<1>7. QED BY <1>3, <1>4, <1>5, <1>6 DEF Operations!TakeEffect

\* markUnknown leaves an open attempt open.
LEMMA MarkUnknownUnseen ==
    ASSUME TypeOK, NEW i \in DOMAIN attempts, markUnknown(i), UNCHANGED wire
    PROVE  UNCHANGED <<KnownAttempts, TookEffect>>
<1>1. /\ DOMAIN attempts' = DOMAIN attempts
      /\ \A j \in DOMAIN attempts :
            /\ attempts'[j].warrant = attempts[j].warrant
            /\ \/ attempts'[j] = attempts[j]
               \/ attempts[j].state = "IN_FLIGHT" /\ attempts'[j].state = "EFFECT_UNKNOWN"
    BY MarkUnknownStep
<1>2. Outcome("IN_FLIGHT") = Outcome("EFFECT_UNKNOWN") BY DEF Outcome, Terminal
<1>3. QED BY <1>1, <1>2, Unseen

\* Every step of a dispatcher is one of the promised steps or shows nothing.
LEMMA DispatcherPromised ==
    ASSUME IndInv, TypeOK', NEW d \in Dispatchers, DispatcherStep(d)
    PROVE  Operations!Next \/ UNCHANGED <<KnownAttempts, TookEffect>>
<1>1. CASE BeginCommit(d)
  <2>1. Operations!Attempt(disp[d].warrant) BY <1>1, BeginPromised
  <2>2. disp[d].warrant \in Warrants BY DEF IndInv, TypeOK, Dispatcher
  <2>3. QED BY <2>1, <2>2 DEF Operations!Next
<1>2. CASE Finish(d)
  <2>1. disp[d].attempt \in DOMAIN attempts BY <1>2 DEF Finish, IndInv, AttemptsOwned
  <2>2. QED BY <1>2, <2>1, MarkUnknownUnseen DEF Finish, IndInv
<1>3. CASE Dispatch(d)
  <2>1. /\ wire' = [wire EXCEPT ![disp[d].attempt] = "pending"] /\ attempts' = attempts
        /\ wire[disp[d].attempt] = "none"
      BY <1>3 DEF Dispatch, IndInv, AttemptsOwned
  <2>2. QED BY <2>1 DEF KnownAttempts, TookEffect
<1>4. CASE ~BeginCommit(d) /\ ~Finish(d) /\ ~Dispatch(d)
  <2>1. UNCHANGED <<attempts, wire>>
      BY <1>4 DEF DispatcherStep, BeginVerify, BeginRefuse, TransportReturns, FinishFails, Crash, Reopen
  <2>2. QED BY <2>1 DEF KnownAttempts, TookEffect
<1>5. QED BY <1>1, <1>2, <1>3, <1>4

\* So is every step of operators, receivers and observers.
LEMMA EnvironmentPromised ==
    ASSUME IndInv, Environment
    PROVE  Operations!Next \/ UNCHANGED <<KnownAttempts, TookEffect>>
<1> DEFINE goal == Operations!Next \/ UNCHANGED <<KnownAttempts, TookEffect>>
<1>1. ASSUME NEW i \in DOMAIN attempts, RecoverUnknown(i) PROVE goal
    BY <1>1, MarkUnknownUnseen DEF RecoverUnknown, IndInv
<1>2. DOMAIN wire = DOMAIN attempts /\ DOMAIN KnownAttempts = DOMAIN attempts
    BY LenProperties, KnownType DEF KnownMirrors, IndInv, TypeOK
<1>3. ASSUME NEW i \in DOMAIN wire, NEW fate \in {"effect", "lost"}, ReceiverSettles(i, fate)
      PROVE  goal
    BY <1>2, <1>3, SettlesPromised DEF Operations!Next
<1>4. ASSUME NEW o \in signed \union {p \in PossibleObservation : ~p.trusted}, reconcile(o)
      PROVE  goal
  <2>1. o \in EffectObservation /\ (o \in signed \/ ~o.trusted)
      BY PossibleObservationType DEF IndInv, TypeOK
  <2>2. o.attempt \in DOMAIN KnownAttempts BY <1>2, <1>4 DEF reconcile, Binds
  <2>3. Operations!Learn(o.attempt) \/ UNCHANGED <<KnownAttempts, TookEffect>>
      BY <1>4, <2>1, ReconcilePromised
  <2>4. QED BY <2>2, <2>3 DEF Operations!Next
<1>5. ASSUME (\E o \in PossibleObservation : Observe(o)) \/ Tick \/ (\E w \in Revocable : Revoke(w))
      PROVE  goal
  <2>1. UNCHANGED <<attempts, wire>> BY <1>5 DEF Observe, Tick, Revoke
  <2>2. QED BY <2>1 DEF KnownAttempts, TookEffect
<1> HIDE DEF goal
<1>6. goal BY <1>1, <1>3, <1>4, <1>5 DEF Environment
<1>7. QED BY <1>6 DEF goal

(* Every behaviour of the store, seen from the attempts and the receiver,  *)
(* is a behaviour of OperationEffects.                                     *)
THEOREM OperationsRefinement == Spec => OperationsSpec
<1>1. Init => Operations!Init
  <2> SUFFICES ASSUME Init PROVE Operations!Init OBVIOUS
  <2>1. DOMAIN attempts = {} /\ DOMAIN wire = {} BY EmptySeq DEF Init
  <2>2. KnownAttempts = << >> /\ TookEffect = {}
      BY <2>1 DEF KnownAttempts, TookEffect
  <2>3. QED BY <2>2 DEF Operations!Init
<1>2. IndInv /\ IndInv' /\ [Next]_vars => [Operations!Next]_(Operations!vars)
  <2> SUFFICES ASSUME IndInv, IndInv', [Next]_vars
               PROVE  Operations!Next \/ UNCHANGED <<KnownAttempts, TookEffect>>
      BY DEF Operations!vars
  <2>1. TypeOK' BY DEF IndInv
  <2>2. CASE UNCHANGED vars BY <2>2 DEF vars, KnownAttempts, TookEffect
  <2>3. CASE Next BY <2>1, <2>3, DispatcherPromised, EnvironmentPromised DEF Next
  <2>4. QED BY <2>2, <2>3
<1>3. QED BY <1>1, <1>2, Invariance, PTL DEF Spec, OperationsSpec, Operations!Spec
=============================================================================
