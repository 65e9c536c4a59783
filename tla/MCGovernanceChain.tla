------------------------- MODULE MCGovernanceChain -------------------------
(***************************************************************************)
(* Instances of GovernanceChain for TLC.  The state file holds constitution *)
(* m1, which prohibits the class pay by name, Ward d1, an Envelope e1 with  *)
(* the wildcard, the bridge b1 from m1 to m1, and Warrant w1 for an act of  *)
(* class pay.  The Envelope may be authored again with the class named, the *)
(* Ward again without a class, and w2 issued for an act without a price or  *)
(* for one that escalates.  The bridge b2 is never authored.               *)
(***************************************************************************)
EXTENDS GovernanceChain

CONSTANTS m1, m2, d1, e1, w1, w2, b1, b2, n1, n2, pay, k1, k2

MCMaeInputs ==
    {[id |-> m1, sound |-> TRUE, from |-> 0, until |-> MaxTime + 1, keys |-> {}, depth |-> 2,
      permitted |-> {Wildcard}, prohibited |-> {pay}, federates |-> TRUE, trusts |-> {m1},
      exportable |-> TRUE]}

Protects(permitted) ==
    [id |-> d1, mae |-> m1, sound |-> TRUE, from |-> 0, until |-> MaxTime, depth |-> 1, ceiling |-> 2,
     permitted |-> permitted, prohibited |-> {}, maxValidity |-> 1, recordsDenials |-> FALSE]

MCWardInputs == {Protects({Wildcard}), Protects({}), [Protects({Wildcard}) EXCEPT !.mae = m2]}

Scopes(allowed, escalates, quota) ==
    [id |-> e1, ward |-> d1, mae |-> m1, sound |-> TRUE, from |-> 0, until |-> MaxTime, depth |-> 1,
     allowed |-> allowed, prohibited |-> {}, limit |-> 2, hasBudget |-> TRUE, budget |-> 1,
     escalates |-> escalates, hasQuota |-> TRUE, quota |-> quota]

MCEnvInputs == {Scopes({Wildcard}, {"unusual"}, 2), Scopes({pay}, {}, 1)}

MCBridgeInputs ==
    {[id |-> b1, localMae |-> m1, foreignMae |-> m1, localWard |-> d1, foreignWard |-> d1,
      classes |-> {pay}, until |-> MaxTime, exportable |-> TRUE]}

Act(priced, facts) ==
    [class |-> pay, priced |-> priced, amount |-> 1, currencyOk |-> TRUE, facts |-> facts, shared |-> TRUE]

Conveys(w, a, validity) ==
    [id |-> w, mae |-> m1, ward |-> d1, env |-> e1, act |-> a, validity |-> validity]

Paid == Conveys(w1, Act(TRUE, "within"), 1)
Free == Conveys(w2, Act(FALSE, "within"), 0)
Unusual == Conveys(w2, Act(FALSE, "unusual"), 0)

MCWarrantInputs == {Paid, Free, Unusual}

MCFounded ==
    {Protects({Wildcard}), Scopes({Wildcard}, {"unusual"}, 2), Paid}
    \union MCMaeInputs \union MCBridgeInputs

Request(b, at) ==
    [gate |-> TRUE, mae |-> b.mae, ward |-> b.ward, env |-> b.env, warrant |-> b.id,
     act |-> b.act, presented |-> at]

\* What the Warrants convey, and the act of w2 under w1.
MCCommitRequests ==
    {Request(b, MaxTime) : b \in MCWarrantInputs}
    \union {[Request(Paid, MaxTime) EXCEPT !.act = Unusual.act]}
=============================================================================
