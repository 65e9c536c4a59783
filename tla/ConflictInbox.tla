---------------------------- MODULE ConflictInbox ----------------------------
(***************************************************************************)
(* The edge conflict inbox (execution-control-runtime/src/conflict-inbox.ts *)
(* and reconcile.ts): decisions made at the edge are compared with what    *)
(* the Commit Gate decides now, and operators resolve the conflicts.       *)
(*                                                                         *)
(* ingest and resolve are synchronous: each reads the JSON file, changes   *)
(* it and writes it back.  A batch is ingested as its records one by one,  *)
(* which leaves the same inbox.  Several edges may report the same action, *)
(* and the policy may change between two reports.  Names that every state  *)
(* machine has carry the prefix Inbox, so that a module can extend this    *)
(* one and that of another store.                                          *)
(***************************************************************************)

CONSTANTS
    Actions,         \* action ids
    GateDecisions    \* ExecutionControlDecision

VARIABLES
    policy,    \* what the Commit Gate decides now, for each action
    items,     \* the items of the inbox
    decided    \* the last status an operator has given to an action, since the
               \* file was last found unreadable

inboxVars == <<policy, items, decided>>

ResolutionActions == {"accept", "reject", "escalate", "reconcile"}

RESOLVED_STATES == {"accepted", "rejected", "escalated", "reconciled"}

NEXT_STATUS ==
    [accept |-> "accepted", reject |-> "rejected",
     escalate |-> "escalated", reconcile |-> "reconciled"]

\* resolved: the item carries a resolution_action.
Item == [edge : GateDecisions, current : GateDecisions,
         status : RESOLVED_STATES \union {"open"}, resolved : BOOLEAN]

NoItem == [status |-> "none"]

InboxTypeOK ==
    /\ policy \in [Actions -> GateDecisions]
    /\ items \in [Actions -> Item \union {NoItem}]
    /\ decided \in [Actions -> RESOLVED_STATES \union {"none"}]

InboxInit ==
    /\ policy \in [Actions -> GateDecisions]
    /\ items = [a \in Actions |-> NoItem]
    /\ decided = [a \in Actions |-> "none"]

-----------------------------------------------------------------------------
\* Mutant: a conflict starts escalated.
Reconciled_Escalates(a, e) ==
    [edge |-> e, current |-> policy[a],
     status |-> IF e = policy[a] THEN "reconciled" ELSE "escalated",
     resolved |-> FALSE]

\* Agreements need no operator, conflicts start open.
Reconciled(a, e) ==
    [edge |-> e, current |-> policy[a],
     status |-> IF e = policy[a] THEN "reconciled" ELSE "open",
     resolved |-> FALSE]

\* Mutant: every report of an action starts a new item.
Ingested_Overwrites(a, e) == Reconciled(a, e)

\* The evidence is refreshed; a resolution is kept.
Ingested(a, e) ==
    LET fresh == Reconciled(a, e)
        existing == items[a]
    IN  IF existing # NoItem /\ existing.resolved /\ existing.status \in RESOLVED_STATES
        THEN [edge |-> fresh.edge, current |-> fresh.current,
              status |-> existing.status, resolved |-> TRUE]
        ELSE fresh

ingest(a, e) ==
    /\ items' = [items EXCEPT ![a] = Ingested(a, e)]
    /\ UNCHANGED <<policy, decided>>

\* applyResolution: only from open or escalated.
applyResolution(a, action) ==
    /\ items[a] # NoItem /\ items[a].status \in {"open", "escalated"}
    /\ items' = [items EXCEPT ![a] = [edge |-> items[a].edge, current |-> items[a].current,
                                      status |-> NEXT_STATUS[action], resolved |-> TRUE]]

resolve(a, action) ==
    /\ applyResolution(a, action)
    /\ decided' = [decided EXCEPT ![a] = NEXT_STATUS[action]]
    /\ UNCHANGED policy

\* A file that was being written when the process died is not readable, and
\* the inbox starts clean.
CrashWhileWriting ==
    /\ items' = [a \in Actions |-> NoItem]
    /\ decided' = [a \in Actions |-> "none"]
    /\ UNCHANGED policy

ChangePolicy(a, d) ==
    /\ policy[a] # d
    /\ policy' = [policy EXCEPT ![a] = d]
    /\ UNCHANGED <<items, decided>>

InboxNext ==
    \/ \E a \in Actions, d \in GateDecisions : ingest(a, d) \/ ChangePolicy(a, d)
    \/ \E a \in Actions, action \in ResolutionActions : resolve(a, action)
    \/ CrashWhileWriting

InboxSpec == InboxInit /\ [][InboxNext]_inboxVars

-----------------------------------------------------------------------------
(* Properties                                                              *)

(* "Re-ingesting refreshes an item's replay evidence but never reopens or  *)
(* overwrites a resolution an operator already made": whatever edges       *)
(* report and however the policy changes, the item has the status the      *)
(* operator gave it last.  Only an unreadable file ends this.              *)
ResolutionStands ==
    \A a \in Actions : decided[a] # "none" =>
        items[a] # NoItem /\ items[a].status = decided[a]

(* "It decides nothing on the operator's behalf", not even after a crash:  *)
(* an item that is not open is an agreement or has its status from the     *)
(* operator.                                                               *)
OperatorDecides ==
    \A a \in Actions : items[a] # NoItem /\ items[a].status # "open" =>
        \/ decided[a] = items[a].status
        \/ items[a].status = "reconciled" /\ items[a].edge = items[a].current

-----------------------------------------------------------------------------
\* The inductive invariant: items are marked as resolved exactly where an
\* operator has decided, and no other item has left the state open unless
\* the two decisions agree.
InboxInv ==
    /\ InboxTypeOK
    /\ \A a \in Actions : decided[a] # "none" =>
        items[a] # NoItem /\ items[a].resolved /\ items[a].status = decided[a]
    /\ \A a \in Actions : items[a] # NoItem =>
        /\ items[a].resolved => decided[a] = items[a].status
        /\ ~items[a].resolved /\ items[a].status # "open" =>
              items[a].status = "reconciled" /\ items[a].edge = items[a].current
=============================================================================
