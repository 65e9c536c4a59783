-------------------------- MODULE GateDegradation --------------------------
(***************************************************************************)
(* One action re-submitted to the Commit Gate while its circumstances get  *)
(* worse: infrastructure conditions accumulate, the clock runs towards the *)
(* envelope's expiry, the Ward is relabelled more critical and declares    *)
(* physical bounds, the data label is raised, the plant's readings leave   *)
(* their limits or are lost, and the action comes with other requests of   *)
(* its vertical's adapters.  The gate keeps no state: the state here is    *)
(* its input.                                                              *)
(***************************************************************************)
EXTENDS CommitGate, PhysicalInvariants

CONSTANTS
    Inputs,       \* the gate inputs the behaviours start from
    PlantInput,   \* the gate input of the behaviours that watch one bound
    Plants,       \* the verticals whose bounds are watched
    Labels,       \* the data labels an action may come to carry
    MaxTime       \* bound on the clock

ASSUME GateDegradationAssumption ==
    /\ Inputs \union {PlantInput} \subseteq GateInput
    /\ Plants \subseteq DOMAIN Verticals
    /\ Labels \subseteq Classification
    /\ MaxTime \in Nat

VARIABLES
    input, conditions, now,
    site,         \* the vertical, the bound its Ward may declare, if any, and
                  \* whether the action's type is a hard interlock
    bounds,       \* the Ward's physical_bounds, if any
    snapshot,     \* the plant's readings the bound reads
    request       \* what the request writes of the parameters the bound reads

plant == <<bounds, snapshot, request>>

vars == <<input, conditions, now, site, plant>>

PhysicalOk ==
    evaluatePhysicalInvariants(site.interlocked, ActionParams(snapshot, request), bounds)

\* Bound by a quantifier, so that TLC evaluates the gate's input once.
verdict ==
    CHOOSE v \in {evaluateCommitGate(in, conditions, now) :
                    in \in {[input EXCEPT !.physicalOk = PhysicalOk]}} : TRUE

-----------------------------------------------------------------------------
(* What parameter p of a bound of this kind can be, the nominal value      *)
(* first: the one that speaks least against the action.                    *)
Values(kind, p) ==
    CASE kind \in {"max", "min"}   -> <<"at", "below", "above">>
      [] kind = "permit"           -> <<"listed", "unlisted">>
      [] kind = "proof"            -> <<"true", "false">>
      [] kind = "never"            -> <<"false", "true">>
      [] kind = "within"           -> <<"inside", "outside">>
      [] kind = "signal_not_stop"  -> <<"clear", "stop">>
      [] kind = "collaborative"    ->
            IF p = "human_present" THEN <<"false", "true">>
                                   ELSE <<"collaborative", "automatic">>
      [] kind = "endorsed"         ->
            IF p = "hazmat_class" THEN <<"none", "listed">> ELSE <<"true", "false">>
      [] kind = "tpo_or_consent"   ->
            IF p = "patient_consent_valid" THEN <<"true", "false">>
                                           ELSE <<"treatment", "marketing">>
      [] kind = "break_glass"      ->
            IF p = "tpo_basis" THEN <<"treatment", "emergency">> ELSE <<"true", "false">>
      [] kind = "drive_hours"      ->
            IF p = "required_drive_minutes" THEN <<"at", "above">> ELSE <<"at", "below">>

Watched == UNION {Reads(b) : b \in site.bound}

ValuesOf(p) == Values((CHOOSE b \in site.bound : TRUE).kind, p)

Nominal(p) == Head(ValuesOf(p))

OutOfPlace(p) == {ValuesOf(p)[i] : i \in 2 .. Len(ValuesOf(p))}

CanBe(p) == {Nominal(p)} \union OutOfPlace(p)

Site(vertical, bound, interlocked) ==
    [vertical |-> vertical, bound |-> bound, interlocked |-> interlocked]

KnownBounds == {DriveHours} \union UNION {Verticals[v].bounds : v \in DOMAIN Verticals}

\* At most one bound is watched, and it alone says which parameters matter.
TypeOK ==
    /\ input \in GateInput /\ conditions \subseteq DegradationCondition /\ now \in Nat
    /\ site.interlocked \in BOOLEAN /\ site.bound \in Optional(KnownBounds)
    /\ bounds \in {{}, {{}}, {site.bound}}
    /\ \A params \in {snapshot, request} :
          \A p \in DOMAIN params : p \in Watched /\ params[p] \in CanBe(p)

Init ==
    /\ \/ input \in Inputs /\ site = Site("general", {}, FALSE)
       \/ /\ input = PlantInput
          /\ \/ \E v \in Plants : \E b \in Verticals[v].bounds : site = Site(v, {b}, FALSE)
             \/ \E b \in {{}, {DriveHours}} : site = Site("logistics", b, b = {})
    /\ conditions = {} /\ now = 0
    /\ bounds = {}
    /\ snapshot = [p \in Watched \ Verticals[site.vertical].unmeasured |-> Nominal(p)]
    /\ request = <<>>

\* A degradation probe starts to report c.
Degrade(c) ==
    /\ c \notin conditions
    /\ conditions' = conditions \union {c}
    /\ UNCHANGED <<input, now, site, plant>>

Tick == now < MaxTime /\ now' = now + 1 /\ UNCHANGED <<input, conditions, site, plant>>

Severity == <<"best_effort", "routine", "mission_critical", "safety_critical">>

\* The operator declares the Ward more critical.
Promote ==
    \E i \in 1 .. 3 :
        /\ input.criticality = Severity[i]
        /\ input' = [input EXCEPT !.criticality = Severity[i + 1]]
        /\ UNCHANGED <<conditions, now, site, plant>>

\* The action's data turns out to carry a stronger label.
RaiseLabel ==
    \E l \in Labels :
        /\ \A k \in input.label : dominates(l, k)
        /\ input.label # {l}
        /\ input' = [input EXCEPT !.label = {l}]
        /\ UNCHANGED <<conditions, now, site, plant>>

\* The operator gives the Ward physical bounds, at first perhaps an empty record.
DeclareBounds ==
    /\ bounds # {site.bound}
    /\ bounds' \in {{{}}, {site.bound}} \ {bounds}
    /\ UNCHANGED <<input, conditions, now, site, snapshot, request>>

\* A reading leaves its nominal value.
Drift(p) ==
    /\ p \in DOMAIN snapshot
    /\ snapshot[p] = Nominal(p)
    /\ \E v \in OutOfPlace(p) : snapshot' = [snapshot EXCEPT ![p] = v]
    /\ UNCHANGED <<input, conditions, now, site, bounds, request>>

\* An optional reading is missing from the next snapshot.
LoseReading(p) ==
    /\ p \in DOMAIN snapshot \intersect Verticals[site.vertical].optional
    /\ snapshot' = [q \in DOMAIN snapshot \ {p} |-> snapshot[q]]
    /\ UNCHANGED <<input, conditions, now, site, bounds, request>>

\* The action is built from adapter request r of the vertical.
Request(r) ==
    LET fields == {f \intersect Watched : f \in r} \ {{}}
        of(p)  == IF p \in AlwaysTrue THEN {Nominal(p)} ELSE CanBe(p)
    IN /\ request = <<>> /\ fields # {}
       /\ \E c \in [UNION fields -> UNION {of(p) : p \in UNION fields}] :
             /\ \A p \in DOMAIN c : c[p] \in of(p)
             /\ \A f \in fields : \A p, q \in f : c[p] = c[q]
             /\ request' = c
       /\ UNCHANGED <<input, conditions, now, site, bounds, snapshot>>

Next ==
    \/ \E c \in DegradationCondition : Degrade(c)
    \/ Tick \/ Promote \/ RaiseLabel \/ DeclareBounds
    \/ \E p \in Watched : Drift(p) \/ LoseReading(p)
    \/ \E r \in Verticals[site.vertical].requests : Request(r)

Spec == Init /\ [][Next]_vars

-----------------------------------------------------------------------------
(* fail-mode.ts says the matrix "never *weakens* a Ward" and that "the     *)
(* more consequential the Ward, the more it fails closed": when            *)
(* circumstances only get worse, an action the gate does not admit stays   *)
(* not admitted.  The gate decides by the first failing condition, so an   *)
(* early condition that softens would mask a later refusal.  A lost        *)
(* reading and a new request are left out: the code admits an action whose *)
(* limit has no reading, and a request replaces readings by its own        *)
(* values.                                                                 *)
WorseNeverAdmits ==
    [][DOMAIN snapshot' = DOMAIN snapshot /\ request' = request /\ verdict'.decision = "ALLOW"
          => verdict.decision = "ALLOW"]_vars

(* Under a Ward that declares a bound, whatever drifted, was lost or was   *)
(* requested before and in whichever order, an admitted action keeps it:   *)
(* every parameter the bound is about is within it or spoken for by        *)
(* another one that is supplied, the situations it is there to exclude do  *)
(* not occur, a required proof is there, and a Ward that declares any      *)
(* bounds admits neither a hard interlock nor a trip longer than the       *)
(* stated drive time (evaluatePhysicalInvariants over the readings and the *)
(* request's fields that the verticals merge).                             *)
LimitsHold ==
    verdict.decision = "ALLOW" => LimitsKept(site.interlocked, snapshot, request, bounds)
=============================================================================
