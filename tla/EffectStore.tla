---------------------------- MODULE EffectStore ----------------------------
(***************************************************************************)
(* Durable dispatch accounting: SqliteEffectStore (effects.ts) and the two *)
(* boundaries that dispatch through it, the HTTP proxy (proxy.ts) and the  *)
(* durable adapter boundary (adapter-effects.ts).                          *)
(*                                                                         *)
(* Several dispatcher processes share one SQLite database.  A dispatcher   *)
(* verifies a Warrant, reserves the operation in one transaction, emits    *)
(* the request, waits for the transport, and records the uncertainty.      *)
(* Observers sign statements about an attempt; reconcile applies them.     *)
(* A dispatcher may crash between any two of its steps; the database, the  *)
(* request already on the wire and the observations survive.               *)
(*                                                                         *)
(* An attempt's identifier is its row number: begin draws a fresh one.     *)
(* A scope stands for the triple <<ward, subject, operation_id>>.          *)
(***************************************************************************)
EXTENDS Integers, Sequences, FiniteSets

CONSTANTS
    Dispatchers,   \* processes sharing the database
    Warrants,      \* Warrants with a matching ALLOW admission record
    Scopes,        \* operation scopes
    Nonces,
    ScopeOf,       \* the operation each Warrant was issued for
    NonceOf,
    ExpiresAt,     \* expires_at of each Warrant
    Revocable,     \* Warrants that may be put on the revocation list
    ObsIds,        \* observation_id values observers use
    MaxAge,        \* maxAgeMs of reconcile
    Skew,          \* how far an observer's clock may run ahead
    MaxTime,       \* bound on the clock
    MaxObs         \* bound on the observations signed in one behaviour

ASSUME EffectStoreAssumption ==
    /\ ScopeOf \in [Warrants -> Scopes]
    /\ NonceOf \in [Warrants -> Nonces]
    /\ ExpiresAt \in [Warrants -> Nat] /\ Revocable \subseteq Warrants
    /\ MaxAge \in Nat /\ Skew \in Nat /\ MaxTime \in Nat /\ MaxObs \in Nat
    /\ Warrants # {} /\ IsFiniteSet(Warrants)

VARIABLES
    clock,         \* the boundary's clock
    revoked,       \* Warrants on the revocation list
    disp,          \* each dispatcher's control state and local variables
    attempts,      \* table effect_attempts, in seq order
    gel,           \* table effect_gel: the signed effect chain
    observations,  \* table effect_observations
    wire,          \* per attempt, what became of the emitted request
    signed         \* observations trusted observers have signed so far

vars == <<clock, revoked, disp, attempts, gel, observations, wire, signed>>

-----------------------------------------------------------------------------
Terminal == {"CONFIRMED_EFFECT", "CONFIRMED_NO_EFFECT"}

EffectState == Terminal \union {"AUTHORIZED", "IN_FLIGHT", "EFFECT_UNKNOWN"}

EffectAttempt ==
    [warrant : Warrants, state : EffectState, started_at : Nat, updated_at : Nat]

\* attempt names the attempt the observation claims to bind; about is the
\* attempt whose effect the observer really looked at.
EffectObservation ==
    [observation_id : ObsIds, attempt : Nat, about : Nat,
     outcome : Terminal \union {"EFFECT_UNKNOWN"}, settled : BOOLEAN,
     observed_at : Nat, trusted : BOOLEAN]

\* obs is empty or holds the one observation the event carries.
EffectEvent ==
    [attempt_id : Nat, attempt : EffectAttempt, obs : SUBSET EffectObservation]

\* "idle" -> verified -> begun -> sent -> returned -> idle, or "down".
Dispatcher ==
    [pc : {"idle", "verified", "begun", "sent", "returned", "down"},
     warrant : Warrants, attempt : Nat, now : Nat]

\* A dispatcher at pc that holds no Warrant and no attempt.
At(pc) == [pc |-> pc, warrant |-> CHOOSE w \in Warrants : TRUE, attempt |-> 0, now |-> 0]

TypeOK ==
    /\ clock \in Nat
    /\ revoked \in SUBSET Warrants
    /\ disp \in [Dispatchers -> Dispatcher]
    /\ attempts \in Seq(EffectAttempt)
    /\ gel \in Seq(EffectEvent)
    /\ observations \in SUBSET EffectObservation
    /\ wire \in Seq({"none", "pending", "effect", "lost"})
    /\ Len(wire) = Len(attempts)
    /\ signed \in SUBSET EffectObservation

Init ==
    /\ clock = 0
    /\ revoked = {}
    /\ disp = [d \in Dispatchers |-> At("idle")]
    /\ attempts = <<>>
    /\ gel = <<>>
    /\ observations = {}
    /\ wire = <<>>
    /\ signed = {}

-----------------------------------------------------------------------------
(* SqliteEffectStore                                                       *)

Event(i, a, obs) == [attempt_id |-> i, attempt |-> a, obs |-> obs]

\* verifyWarrant as begin calls it, on the clock read at entry.
verifyWarrant(w, now) == now < ExpiresAt[w] /\ w \notin revoked

\* Row i is what "WHERE scope=? ORDER BY seq DESC LIMIT 1" selects.
LatestInScope(i, s) ==
    /\ ScopeOf[attempts[i].warrant] = s
    /\ \A j \in DOMAIN attempts : j > i => ScopeOf[attempts[j].warrant] # s

\* Mutant: any settled attempt frees the operation.
OperationFree_AnyTerminal(s) ==
    \A i \in DOMAIN attempts : LatestInScope(i, s) => attempts[i].state \in Terminal

\* No earlier attempt at the operation, or the last one had no effect.
OperationFree(s) ==
    \A i \in DOMAIN attempts :
        LatestInScope(i, s) => attempts[i].state = "CONFIRMED_NO_EFFECT"

\* The UNIQUE columns warrant_id and nonce.
UniqueColumns(w) ==
    \A i \in DOMAIN attempts : /\ attempts[i].warrant # w
                               /\ NonceOf[attempts[i].warrant] # NonceOf[w]

\* begin, up to the transaction: the Warrant is verified with no lock held.
BeginVerify(d, w) ==
    /\ disp[d].pc = "idle"
    /\ verifyWarrant(w, clock)
    /\ disp' = [disp EXCEPT ![d] = [pc |-> "verified", warrant |-> w,
                                    attempt |-> 0, now |-> clock]]
    /\ UNCHANGED <<clock, revoked, attempts, gel, observations, wire, signed>>

\* begin's transaction: reserve the operation, consume the Warrant and the
\* nonce, record AUTHORIZED and then IN_FLIGHT.
BeginCommit(d) ==
    LET w == disp[d].warrant
        i == Len(attempts) + 1
        a(state) == [warrant |-> w, state |-> state,
                     started_at |-> disp[d].now, updated_at |-> disp[d].now]
    IN /\ disp[d].pc = "verified"
       /\ OperationFree(ScopeOf[w])
       /\ UniqueColumns(w)
       /\ attempts' = Append(attempts, a("IN_FLIGHT"))
       /\ gel' = gel \o <<Event(i, a("AUTHORIZED"), {}), Event(i, a("IN_FLIGHT"), {})>>
       /\ wire' = Append(wire, "none")
       /\ disp' = [disp EXCEPT ![d] = [pc |-> "begun", warrant |-> w,
                                       attempt |-> i, now |-> disp[d].now]]
       /\ UNCHANGED <<clock, revoked, observations, signed>>

\* begin's transaction throws and rolls back: the dispatcher answers
\* NOT_ATTEMPTED.
BeginRefuse(d) ==
    /\ disp[d].pc = "verified"
    /\ ~(OperationFree(ScopeOf[disp[d].warrant]) /\ UniqueColumns(disp[d].warrant))
    /\ disp' = [disp EXCEPT ![d] = At("idle")]
    /\ UNCHANGED <<clock, revoked, attempts, gel, observations, wire, signed>>

\* Mutant: the table is updated and the event forgotten.
markUnknown_NoEvent(i) ==
    /\ UNCHANGED gel
    /\ IF attempts[i].state = "IN_FLIGHT"
       THEN attempts' = [attempts EXCEPT ![i].state = "EFFECT_UNKNOWN", ![i].updated_at = clock]
       ELSE UNCHANGED attempts

\* The two effects of markUnknown: only an IN_FLIGHT attempt changes.
markUnknown(i) ==
    LET a == [attempts[i] EXCEPT !.state = "EFFECT_UNKNOWN", !.updated_at = clock]
    IN IF attempts[i].state = "IN_FLIGHT"
       THEN /\ attempts' = [attempts EXCEPT ![i] = a]
            /\ gel' = Append(gel, Event(i, a, {}))
       ELSE UNCHANGED <<attempts, gel>>

\* Mutant: the observer's clock is trusted.
ObservationAcceptable_Future(o) ==
    /\ o.trusted
    /\ o.outcome = "EFFECT_UNKNOWN" \/ o.settled
    /\ clock - o.observed_at <= MaxAge

\* What reconcile checks before its transaction.
ObservationAcceptable(o) ==
    /\ o.trusted
    /\ o.outcome = "EFFECT_UNKNOWN" \/ o.settled
    /\ o.observed_at <= clock
    /\ clock - o.observed_at <= MaxAge

\* Mutant: only the attempt's identifier is compared.
Binds_ByIdOnly(o, i) == i \in DOMAIN attempts /\ o.observed_at >= attempts[i].started_at

\* The observation binds attempt i and does not predate it.
Binds(o, i) ==
    /\ i \in DOMAIN attempts
    /\ o.about = i
    /\ o.observed_at >= attempts[i].started_at

\* Mutant: a settled attempt may be settled again.
Reconcilable_Terminal(a, outcome) == ~(a.state = "IN_FLIGHT" /\ outcome = "CONFIRMED_NO_EFFECT")

\* EFFECT_TERMINAL_CONFLICT and EFFECT_ATTEMPT_STILL_IN_FLIGHT.
Reconcilable(a, outcome) ==
    /\ a.state \notin Terminal
    /\ ~(a.state = "IN_FLIGHT" /\ outcome = "CONFIRMED_NO_EFFECT")

\* reconcile's transaction: a fresh observation moves an attempt that is not
\* terminal; an observation already stored changes nothing, and every refusal
\* rolls back.
reconcile(o) ==
    LET i == o.attempt
        a == [attempts[i] EXCEPT !.state = o.outcome, !.updated_at = clock]
    IN /\ ObservationAcceptable(o)
       /\ Binds(o, i)
       /\ \A p \in observations : p.observation_id # o.observation_id
       /\ Reconcilable(attempts[i], o.outcome)
       /\ attempts' = [attempts EXCEPT ![i] = a]
       /\ observations' = observations \union {o}
       /\ gel' = Append(gel, Event(i, a, {o}))
       /\ UNCHANGED <<clock, revoked, disp, wire, signed>>

\* The constructor's check: the table is the last event of every attempt.
assertIntegrity ==
    /\ \A i \in DOMAIN attempts :
          \E k \in DOMAIN gel :
              /\ gel[k].attempt_id = i
              /\ gel[k].attempt = attempts[i]
              /\ \A m \in DOMAIN gel : m > k => gel[m].attempt_id # i
    /\ \A k \in DOMAIN gel : gel[k].attempt_id \in DOMAIN attempts

-----------------------------------------------------------------------------
(* Dispatchers                                                             *)

\* fetch (or the adapter's emit) puts the request on the wire.
Dispatch(d) ==
    /\ disp[d].pc = "begun"
    /\ wire' = [wire EXCEPT ![disp[d].attempt] = "pending"]
    /\ disp' = [disp EXCEPT ![d].pc = "sent"]
    /\ UNCHANGED <<clock, revoked, attempts, gel, observations, signed>>

\* The await ends with a response or an exception; neither says what the
\* receiver did or will still do.
TransportReturns(d) ==
    /\ disp[d].pc = "sent"
    /\ disp' = [disp EXCEPT ![d].pc = "returned"]
    /\ UNCHANGED <<clock, revoked, attempts, gel, observations, wire, signed>>

\* The boundary persists the uncertainty after transport success or failure.
Finish(d) ==
    /\ disp[d].pc = "returned"
    /\ markUnknown(disp[d].attempt)
    /\ disp' = [disp EXCEPT ![d] = At("idle")]
    /\ UNCHANGED <<clock, revoked, observations, wire, signed>>

\* markUnknown throws: the durable attempt remains in flight.
FinishFails(d) ==
    /\ disp[d].pc = "returned"
    /\ disp' = [disp EXCEPT ![d] = At("idle")]
    /\ UNCHANGED <<clock, revoked, attempts, gel, observations, wire, signed>>

Crash(d) ==
    /\ disp[d].pc # "down"
    /\ disp' = [disp EXCEPT ![d] = At("down")]
    /\ UNCHANGED <<clock, revoked, attempts, gel, observations, wire, signed>>

\* Opening another connection runs assertIntegrity and resets no attempt.
Reopen(d) ==
    /\ disp[d].pc = "down"
    /\ assertIntegrity
    /\ disp' = [disp EXCEPT ![d] = At("idle")]
    /\ UNCHANGED <<clock, revoked, attempts, gel, observations, wire, signed>>

\* Operator recovery: markUnknown on an attempt whose dispatcher is fenced.
RecoverUnknown(i) ==
    /\ \A d \in Dispatchers : disp[d].attempt # i
    /\ attempts[i].state = "IN_FLIGHT"
    /\ markUnknown(i)
    /\ UNCHANGED <<clock, revoked, disp, observations, wire, signed>>

-----------------------------------------------------------------------------
(* The receiver, the observers, time and the revocation list: external.    *)

\* The receiver commits the request, possibly long after the transport gave
\* up, or the request is lost for good.
ReceiverSettles(i, fate) ==
    /\ wire[i] = "pending"
    /\ fate \in {"effect", "lost"}
    /\ wire' = [wire EXCEPT ![i] = fate]
    /\ UNCHANGED <<clock, revoked, disp, attempts, gel, observations, signed>>

\* No effect now and none later.
CannotCommit(i) ==
    \/ wire[i] = "lost"
    \/ wire[i] = "none" /\ ~\E d \in Dispatchers : disp[d].attempt = i /\ disp[d].pc = "begun"

\* Observer truth is an assumption of the store (docs/effect-accounting.md,
\* Limits): a settled statement is true and stays true.
Truthful(o) ==
    /\ o.outcome = "CONFIRMED_EFFECT" => wire[o.about] = "effect"
    /\ o.outcome = "CONFIRMED_NO_EFFECT" /\ o.settled => CannotCommit(o.about)

Observe(o) ==
    /\ Cardinality(signed) < MaxObs
    /\ o.trusted /\ o.about \in DOMAIN wire
    /\ o.observed_at \in clock..(clock + Skew)
    /\ Truthful(o)
    /\ signed' = signed \union {o}
    /\ UNCHANGED <<clock, revoked, disp, attempts, gel, observations, wire>>

Tick ==
    /\ clock < MaxTime
    /\ clock' = clock + 1
    /\ UNCHANGED <<revoked, disp, attempts, gel, observations, wire, signed>>

Revoke(w) ==
    /\ w \notin revoked
    /\ revoked' = revoked \union {w}
    /\ UNCHANGED <<clock, disp, attempts, gel, observations, wire, signed>>

-----------------------------------------------------------------------------
\* Observations that can name an attempt within the bounds; an unsigned one
\* (trusted = FALSE) needs no observer and can be submitted at any time.
PossibleObservation ==
    {o \in [observation_id : ObsIds, attempt : DOMAIN attempts, about : DOMAIN attempts,
            outcome : Terminal \union {"EFFECT_UNKNOWN"}, settled : BOOLEAN,
            observed_at : clock..(clock + Skew), trusted : BOOLEAN] :
        o.outcome = "EFFECT_UNKNOWN" => ~o.settled}

DispatcherStep(d) ==
    \/ \E w \in Warrants : BeginVerify(d, w)
    \/ BeginCommit(d) \/ BeginRefuse(d) \/ Dispatch(d) \/ TransportReturns(d)
    \/ Finish(d) \/ FinishFails(d) \/ Crash(d) \/ Reopen(d)

Environment ==
    \/ \E i \in DOMAIN attempts : RecoverUnknown(i)
    \/ \E i \in DOMAIN wire, fate \in {"effect", "lost"} : ReceiverSettles(i, fate)
    \/ \E o \in PossibleObservation : Observe(o)
    \/ \E o \in signed \union {p \in PossibleObservation : ~p.trusted} : reconcile(o)
    \/ Tick
    \/ \E w \in Revocable : Revoke(w)

Next == (\E d \in Dispatchers : DispatcherStep(d)) \/ Environment

Spec == Init /\ [][Next]_vars

-----------------------------------------------------------------------------
(* verifyEffectEvidence, with trust configured and the tip anchored        *)

Earlier(log, k) == {j \in 1..(k - 1) : log[j].attempt_id = log[k].attempt_id}

\* j is the event latest holds for attempt i when event k is read.
IsLatestBefore(log, k, i, j) ==
    /\ j < k /\ log[j].attempt_id = i
    /\ \A m \in (j + 1)..(k - 1) : log[m].attempt_id # i

\* An attempt's first event: AUTHORIZED, a Warrant not seen before, and the
\* attempt last opened for the operation confirmed without effect.
FirstEventOK(log, k) ==
    LET scope(j) == ScopeOf[log[j].attempt.warrant]
        opens(j) == Earlier(log, j) = {} /\ scope(j) = scope(k)
    IN /\ log[k].attempt.state = "AUTHORIZED"
       /\ \A j \in 1..(k - 1) : log[j].attempt.warrant # log[k].attempt.warrant
       /\ \A f, j \in 1..(k - 1) :
             /\ opens(f) /\ \A m \in (f + 1)..(k - 1) : ~opens(m)
             /\ IsLatestBefore(log, k, log[f].attempt_id, j)
             => log[j].attempt.state = "CONFIRMED_NO_EFFECT"

\* A later event: same binding, and a transition of the effect lifecycle.
TransitionOK(previous, next) ==
    /\ previous.warrant = next.warrant /\ previous.started_at = next.started_at
    /\ previous.state \notin Terminal
    /\ previous.state = "AUTHORIZED" => next.state = "IN_FLIGHT"
    /\ previous.state # "AUTHORIZED" => next.state \notin {"AUTHORIZED", "IN_FLIGHT"}

\* A terminal state, and any event that carries one, needs an observation
\* that states that very outcome about that attempt.
ObservationOK(e, previousStates) ==
    e.attempt.state \in Terminal \/ e.obs # {} =>
        \E o \in e.obs :
            /\ o.outcome = e.attempt.state
            /\ o.settled \/ o.outcome = "EFFECT_UNKNOWN"
            /\ o.observed_at \in e.attempt.started_at..e.attempt.updated_at
            /\ ~(o.outcome = "CONFIRMED_NO_EFFECT" /\ "IN_FLIGHT" \in previousStates)
            /\ o.about = e.attempt_id
            /\ o.trusted

EventOK(log, k) ==
    LET previous == {log[j].attempt : j \in {m \in Earlier(log, k) :
                        IsLatestBefore(log, k, log[k].attempt_id, m)}}
    IN /\ previous = {} => FirstEventOK(log, k)
       /\ \A p \in previous : TransitionOK(p, log[k].attempt)
       /\ ObservationOK(log[k], {p.state : p \in previous})

verifyEffectEvidence(log) ==
    IF \E k \in DOMAIN log : ~EventOK(log, k) THEN "FAIL"
    ELSE IF \/ log = <<>>
            \/ \E k \in DOMAIN log :
                  /\ IsLatestBefore(log, Len(log) + 1, log[k].attempt_id, k)
                  /\ log[k].attempt.state \notin Terminal
         THEN "INDETERMINATE"
         ELSE "PASS"

-----------------------------------------------------------------------------
(* Properties                                                              *)

SameScope(i, j) == ScopeOf[attempts[i].warrant] = ScopeOf[attempts[j].warrant]

\* The point of the store: however dispatchers race, crash, retry with new
\* Warrants and receive late or repeated observations, an operation takes
\* effect at the receiver at most once (begin's transaction and reconcile).
AtMostOneEffect ==
    \A i, j \in DOMAIN wire :
        SameScope(i, j) /\ wire[i] = "effect" /\ wire[j] = "effect" => i = j

\* A confirmed state is the truth about the receiver, now and later: no
\* observation of another attempt, no stale or unsigned one, and no delayed
\* commit can make it wrong (reconcile's checks).
ConfirmedIsTrue ==
    \A i \in DOMAIN attempts :
        /\ attempts[i].state = "CONFIRMED_EFFECT" => wire[i] = "effect"
        /\ attempts[i].state = "CONFIRMED_NO_EFFECT" => CannotCommit(i)

\* Table and signed chain are written together, so a process can always open
\* the database again, whatever crashed and when (assertIntegrity).
ReopenSucceeds == assertIntegrity

\* The offline verifier agrees with the store: it never calls evidence the
\* store wrote a FAIL, and its PASS means that every attempt is settled and
\* recorded as what the receiver did (verifyEffectEvidence).
EvidenceAgrees ==
    /\ verifyEffectEvidence(gel) # "FAIL"
    /\ verifyEffectEvidence(gel) = "PASS" =>
          \A i \in DOMAIN wire :
              IF wire[i] = "effect" THEN attempts[i].state = "CONFIRMED_EFFECT"
                                    ELSE attempts[i].state = "CONFIRMED_NO_EFFECT"

\* The inductive invariant behind AtMostOneEffect.  Attempts at one operation
\* are serial: all but the last are confirmed without effect.
AttemptsSerial ==
    \A i, j \in DOMAIN attempts :
        i < j /\ SameScope(i, j) => attempts[i].state = "CONFIRMED_NO_EFFECT"

\* An attempt belongs to the dispatcher that began it; until the dispatcher
\* emits, nothing is on the wire.
AttemptsOwned ==
    \A d \in Dispatchers :
        /\ disp[d].pc \in {"begun", "sent", "returned"} => disp[d].attempt \in DOMAIN attempts
        /\ disp[d].pc \in {"idle", "verified", "down"} => disp[d].attempt = 0
        /\ disp[d].pc = "begun" =>
              /\ wire[disp[d].attempt] = "none"
              /\ attempts[disp[d].attempt].state # "CONFIRMED_NO_EFFECT"

\* No two dispatchers own one attempt.
OneOwner ==
    \A d, e \in Dispatchers :
        /\ disp[d].pc \in {"begun", "sent", "returned"}
        /\ disp[e].pc \in {"begun", "sent", "returned"}
        /\ disp[d].attempt = disp[e].attempt
        => d = e

\* What trusted observers signed is still true.
SignedTruthful ==
    \A o \in signed : o.trusted /\ o.about \in DOMAIN wire /\ Truthful(o)

IndInv ==
    /\ TypeOK
    /\ AttemptsSerial
    /\ AttemptsOwned
    /\ OneOwner
    /\ SignedTruthful
    /\ ConfirmedIsTrue

\* The inductive invariant behind EvidenceAgrees, on top of IndInv.  Events
\* are bound to the row they are about, and no row rests in AUTHORIZED.
EventsBound ==
    /\ \A k \in DOMAIN gel :
          gel[k].attempt.warrant = attempts[gel[k].attempt_id].warrant
    /\ \A i \in DOMAIN attempts : attempts[i].state # "AUTHORIZED"

\* Every row has an opening event, before all events of later rows.
AttemptsOpened ==
    /\ \A i \in DOMAIN attempts :
          \E k \in DOMAIN gel : gel[k].attempt_id = i /\ Earlier(gel, k) = {}
    /\ \A k, m \in DOMAIN gel :
          Earlier(gel, k) = {} /\ gel[k].attempt_id < gel[m].attempt_id => k < m

EvidenceInv ==
    /\ assertIntegrity
    /\ EventsBound
    /\ AttemptsOpened
    /\ \A k \in DOMAIN gel : EventOK(gel, k)

\* A settled attempt is never reopened and evidence is never rewritten.
SettledStaysSettled ==
    [][/\ \A i \in DOMAIN attempts :
             attempts[i].state \in Terminal => attempts'[i] = attempts[i]
       /\ \A k \in DOMAIN gel : k \in DOMAIN gel' /\ gel'[k] = gel[k]]_vars

\* What is known of an attempt in this state; AUTHORIZED, IN_FLIGHT and
\* EFFECT_UNKNOWN leave it open.
Outcome(state) ==
    CASE state = "CONFIRMED_EFFECT"    -> "effect"
      [] state = "CONFIRMED_NO_EFFECT" -> "no_effect"
      [] state \notin Terminal         -> "open"

KnownAttempts ==
    [i \in DOMAIN attempts |->
        [warrant |-> attempts[i].warrant, outcome |-> Outcome(attempts[i].state)]]

TookEffect == {i \in DOMAIN wire : wire[i] = "effect"}

Operations ==
    INSTANCE OperationEffects WITH known <- KnownAttempts, happened <- TookEffect

(* Dispatchers, transports, observers, crashes and all, the store keeps    *)
(* what OperationEffects promises: no retry before the earlier attempts    *)
(* are known to have had no effect, and no delayed commit, repeated or     *)
(* misdirected observation that makes a confirmed state wrong or changes   *)
(* it (begin and reconcile).                                               *)
OperationsSpec == Operations!Spec
=============================================================================
