---------------------------- MODULE SharedLedger ----------------------------
(***************************************************************************)
(* What boundary instances that share one Postgres ledger promise of it.   *)
(* A decision takes two steps, a replay lookup and the append of its       *)
(* record: the records form one chain, each request has at most one, and   *)
(* an action is admitted only if the lookup of that very request found it  *)
(* not admitted yet.  Two lookups that both precede the first append may   *)
(* therefore admit an action twice, which GovernanceLedger never does.     *)
(***************************************************************************)
EXTENDS Naturals, Sequences

CONSTANTS Requests, HashOf, Decisions

VARIABLES
    ledger,     \* the records, in storage order
    seen        \* the length of the ledger that each lookup read

vars == <<ledger, seen>>

Init == ledger = <<>> /\ seen = <<>>

\* The replay lookup of request r.
Lookup(r) ==
    /\ r \notin DOMAIN seen
    /\ seen' = [q \in DOMAIN seen \union {r} |-> IF q = r THEN Len(ledger) ELSE seen[q]]
    /\ UNCHANGED ledger

\* The action of r had been admitted when its lookup ran.
FoundAdmitted(r) ==
    \E k \in 1 .. seen[r] : ledger[k].hash = HashOf[r] /\ ledger[k].decision = "ALLOW"

\* The decision of r is recorded on the tip of the chain.
Record(r, d) ==
    /\ r \in DOMAIN seen
    /\ \A k \in DOMAIN ledger : ledger[k].request # r
    /\ d = "ALLOW" => ~FoundAdmitted(r)
    /\ ledger' = Append(ledger, [request |-> r, hash |-> HashOf[r], decision |-> d,
                                 previous |-> Len(ledger)])
    /\ UNCHANGED seen

Next == \E r \in Requests : Lookup(r) \/ \E d \in Decisions : Record(r, d)

Spec == Init /\ [][Next]_vars
=============================================================================
