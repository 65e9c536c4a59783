-------------------------- MODULE OperationEffects --------------------------
(***************************************************************************)
(* What the effect store promises of the operations dispatched through it: *)
(* an operation is attempted again only when its attempts are known to     *)
(* have had no effect, every attempt consumes a Warrant and a nonce of its *)
(* own, and what is known of an attempt is true and final.                 *)
(***************************************************************************)
EXTENDS Naturals, Sequences

CONSTANTS Warrants, ScopeOf, NonceOf

VARIABLES
    known,      \* the attempts in their order, and what is known of each
    happened    \* the attempts that have taken effect at the receiver

Init == known = <<>> /\ happened = {}

Attempt(w) ==
    /\ \A i \in DOMAIN known :
          /\ known[i].warrant # w /\ NonceOf[known[i].warrant] # NonceOf[w]
          /\ ScopeOf[known[i].warrant] = ScopeOf[w] => known[i].outcome = "no_effect"
    /\ known' = Append(known, [warrant |-> w, outcome |-> "open"])
    /\ UNCHANGED happened

TakeEffect(i) ==
    /\ known[i].outcome = "open" /\ i \notin happened
    /\ happened' = happened \union {i}
    /\ UNCHANGED known

Learn(i) ==
    /\ known[i].outcome = "open"
    /\ known' = [known EXCEPT ![i].outcome = IF i \in happened THEN "effect" ELSE "no_effect"]
    /\ UNCHANGED happened

vars == <<known, happened>>

Next ==
    \/ \E w \in Warrants : Attempt(w)
    \/ \E i \in DOMAIN known : TakeEffect(i) \/ Learn(i)

Spec == Init /\ [][Next]_vars
=============================================================================
