-------------------------- MODULE GovernanceLedger --------------------------
(***************************************************************************)
(* What an execution-control boundary promises of its Governance Evidence  *)
(* Ledger: decisions are appended one at a time, each record links to the  *)
(* one before it, nothing recorded changes, and a canonical action is      *)
(* admitted at most once.                                                  *)
(***************************************************************************)
EXTENDS Naturals, Sequences

CONSTANTS Requests, Hashes, Decisions

VARIABLE ledger

Admitted(h) ==
    \E k \in DOMAIN ledger : ledger[k].hash = h /\ ledger[k].decision = "ALLOW"

Init == ledger = <<>>

\* One decision is recorded, an ALLOW only for an action not yet admitted.
\* A record's own hash is its position; GENESIS_HASH is 0.
Record(r, h, d) ==
    /\ d = "ALLOW" => ~Admitted(h)
    /\ ledger' = Append(ledger, [request |-> r, hash |-> h, decision |-> d,
                                 previous |-> Len(ledger)])

Next == \E r \in Requests, h \in Hashes, d \in Decisions : Record(r, h, d)

Spec == Init /\ [][Next]_ledger
=============================================================================
