---------------------------- MODULE MeshRuntime ----------------------------
(***************************************************************************)
(* The mesh of a root authority, witnesses and edge gates                  *)
(* (shared/mesh-runtime/src/index.ts).  The root issues and revokes        *)
(* authority envelopes; envelopes and revocations travel to the edges      *)
(* directly and through the witnesses.  An edge that holds an unexpired    *)
(* Fluidity Token issues Warrants on its own, also while partitioned, and  *)
(* reconciles them with the root later.                                    *)
(*                                                                         *)
(* Every await is a place where other steps interleave: an evaluation      *)
(* waits for its ping, a propagation waits for each peer in turn, a        *)
(* reconciliation for each decision.  A partition makes sends fail;        *)
(* a reply already under way still arrives.  Signatures are those of       *)
(* trusted nodes: every verification succeeds.  Envelopes do not expire    *)
(* before their tokens do.                                                 *)
(***************************************************************************)
EXTENDS Integers, Sequences, FiniteSets, FiniteSetsExt, SequencesExt

CONSTANTS
    Root,
    Witnesses,
    Edges,
    Envelopes,
    Calls,            \* evaluations an edge can have in progress
    EdgeOf,           \* the edge each of them runs on
    Loops,            \* reconcile() calls an edge can have in progress
    MaxDisconnected,  \* maxWarrantsWhileDisconnected
    Cosigned,         \* witness signatures the root puts on a revocation
    RequireQuorum,    \* requireRevocationQuorum of the edges
    TokenTTL,         \* ttl_ms of a Fluidity Token
    Margin,           \* the second pulled before the last known contact
    LinkSets,         \* sets of links that are cut together
    HealAfterNoticed, \* a partition lasts until the edge's ping has failed
    Latency,          \* bound on the age of a message in flight
    MaxCuts,          \* bound on the partitions
    MaxVersion,       \* bound on the envelope versions issued
    MaxTokens,        \* bound on the tokens an edge holds
    MaxHistory,       \* bound on the Warrants that are tracked
    MaxTime           \* bound on the clock

Nodes == {Root} \union Witnesses \union Edges

ASSUME MeshAssumption ==
    /\ IsFiniteSet(Witnesses) /\ IsFiniteSet(Edges) /\ Edges # {} /\ Envelopes # {}
    /\ LinkSets \subseteq SUBSET SUBSET Nodes
    /\ EdgeOf \in [Calls -> Edges]
    /\ MaxDisconnected \in Nat /\ Cosigned \in Nat /\ RequireQuorum \in Nat
    /\ TokenTTL \in Nat /\ Margin \in Nat /\ Latency \in Nat
    /\ HealAfterNoticed \in BOOLEAN
    /\ MaxCuts \in Nat /\ MaxVersion \in Nat /\ MaxTokens \in Nat /\ MaxHistory \in Nat /\ MaxTime \in Nat

VARIABLES
    clock,
    cut,        \* links whose ends refuse each other's traffic
    cuts,       \* the sets of links cut so far, in order
    root,       \* envelope versions, revocations and submitted decisions
    tasks,      \* propagations the root has started and not finished
    seenBy,     \* each witness's cached envelopes and revocations
    edge,       \* each edge's caches, tokens and contact state
    calls,      \* evaluations
    pulls,      \* revocation pulls under way
    local,      \* each edge's localDecisions, as positions in issued
    loops,      \* each edge's running reconcile() calls
    atRisk,     \* decisions whose last submission failed, or that were kept
                \* beside a reconcile() that reads an array already replaced
    issued      \* all Warrants issued, in order

vars == <<clock, cut, cuts, root, tasks, seenBy, edge, calls, pulls,
          local, loops, atRisk, issued>>

Link(m, n) == {m, n}

Connected(m, n) == Link(m, n) \notin cut

Revocation == [target : Envelopes, revoked_at : Nat]

\* A decision the root has reconciled, and whether it was a conflict.
Submission == [warrant : 1 .. MaxHistory, conflict : BOOLEAN]

\* A Warrant with the revocations its edge had cached when it was issued.
Warrant ==
    [edge : Edges, envelope : Envelopes, issued_at : Nat,
     root_reachable : BOOLEAN, observed : SUBSET Revocation]

WitnessState == [versions : [Envelopes -> Nat], revocations : SUBSET Revocation]

EdgeState ==
    [versions : [Envelopes -> Nat], revocations : SUBSET Revocation,
     tokens : SUBSET [envelope : Envelopes, expires_at : Nat],
     contact : Nat, reachable : BOOLEAN, sinceContact : 0 .. Max({1, MaxDisconnected})]

\* A call of propagateEnvelope or gossipRevocation: the sends left to do.
Task ==
    [envelope : Envelopes, version : Nat, revocation : SUBSET Revocation,
     todo : Seq(Nodes \X Nodes) \ {<<>>}, started : Nat]

Call ==
    [pc : {"idle", "pinging", "ponged", "unreachable"},
     envelope : Envelopes, since : Nat]

\* A reconcile() at element `at' of localDecisions, or of `array' if another
\* call has given the edge a new localDecisions since; 0 when not running.
Loop == [at : Nat, live : BOOLEAN, array : Seq(1 .. MaxHistory)]

NoLoop == [at |-> 0, live |-> TRUE, array |-> <<>>]

Running(e, l) == loops[e][l].at > 0

Array(e, l) == IF loops[e][l].live THEN local[e] ELSE loops[e][l].array

Idle == [pc |-> "idle", envelope |-> CHOOSE x \in Envelopes : TRUE, since |-> 0]

TypeOK ==
    /\ clock \in 0 .. MaxTime
    /\ cuts \in Seq(LinkSets) /\ Len(cuts) <= MaxCuts
    /\ cut \subseteq SUBSET Nodes
    /\ root \in [versions : [Envelopes -> 0 .. MaxVersion],
                 revocations : SUBSET Revocation, submitted : SUBSET Submission]
    /\ tasks \subseteq Task
    /\ seenBy \in [Witnesses -> WitnessState]
    /\ edge \in [Edges -> EdgeState]
    /\ calls \in [Calls -> Call]
    /\ pulls \subseteq [edge : Edges, since : Int]
    /\ local \in [Edges -> Seq(1 .. MaxHistory)]
    /\ loops \in [Edges -> [Loops -> Loop]]
    /\ atRisk \subseteq 1 .. MaxHistory
    /\ issued \in Seq(Warrant)

Init ==
    /\ clock = 0 /\ cut = {} /\ cuts = <<>>
    /\ root = [versions |-> [x \in Envelopes |-> 0], revocations |-> {}, submitted |-> {}]
    /\ tasks = {}
    /\ seenBy = [w \in Witnesses |-> [versions |-> [x \in Envelopes |-> 0], revocations |-> {}]]
    /\ edge = [e \in Edges |->
                 [versions |-> [x \in Envelopes |-> 0], revocations |-> {}, tokens |-> {},
                  contact |-> 0, reachable |-> TRUE, sinceContact |-> 0]]
    /\ calls = [c \in Calls |-> Idle]
    /\ pulls = {}
    /\ local = [e \in Edges |-> <<>>]
    /\ loops = [e \in Edges |-> [l \in Loops |-> NoLoop]]
    /\ atRisk = {}
    /\ issued = <<>>

-----------------------------------------------------------------------------
(* RootNode                                                                *)

\* The sends of one propagation, in the order of the peer list; here the
\* witnesses come before the edges.
Hops(from, peers) == LET order == SetToSeq(peers)
                     IN [i \in 1 .. Len(order) |-> <<from, order[i]>>]

NewTask(x, version, revocation) ==
    [envelope |-> x, version |-> version, revocation |-> revocation,
     todo |-> Hops(Root, Witnesses) \o Hops(Root, Edges), started |-> clock]

\* The caller numbers the versions of an envelope upwards.
issueEnvelope(x) ==
    /\ root.versions[x] < MaxVersion
    /\ root' = [root EXCEPT !.versions[x] = @ + 1]
    /\ tasks' = tasks \union {NewTask(x, root.versions[x] + 1, {})}
    /\ UNCHANGED <<clock, cut, cuts, seenBy, edge, calls, pulls, local, loops, atRisk, issued>>

\* revoke, or revokeWithQuorum when Cosigned > 0; once for each envelope.
revoke(x) ==
    LET rev == [target |-> x, revoked_at |-> clock]
    IN /\ root.versions[x] > 0
       /\ \A r \in root.revocations : r.target # x
       /\ root' = [root EXCEPT !.revocations = @ \union {rev}]
       /\ tasks' = tasks \union {NewTask(x, 0, {rev})}
       /\ UNCHANGED <<clock, cut, cuts, seenBy, edge, calls, pulls, local, loops, atRisk, issued>>

\* issueFluidityToken, handed to the edge's receiveFluidityToken.
GrantToken(e, x) ==
    /\ root.versions[x] > 0 /\ Cardinality(edge[e].tokens) < MaxTokens
    /\ edge' = [edge EXCEPT ![e].tokens =
                  @ \union {[envelope |-> x, expires_at |-> clock + TokenTTL]}]
    /\ edge' # edge
    /\ UNCHANGED <<clock, cut, cuts, root, tasks, seenBy, calls, pulls, local, loops, atRisk, issued>>

-----------------------------------------------------------------------------
(* Propagation: the handlers of WitnessNode and EdgeNode                   *)

\* Mutant: whatever arrives last is cached.
CacheVersion_Last(cached, t) == [cached EXCEPT ![t.envelope] = t.version]

\* Accept only a newer or equal version.
CacheVersion(cached, t) ==
    [cached EXCEPT ![t.envelope] = IF t.version >= @ THEN t.version ELSE @]

\* What a node's caches are after task t's message.
Cache(node, t) ==
    IF t.revocation = {}
    THEN [node EXCEPT !.versions = CacheVersion(@, t)]
    ELSE [node EXCEPT !.revocations = @ \union t.revocation]

\* Revocations that reach an edge must carry enough witness signatures.
QuorumMet(t) == t.revocation = {} \/ Cosigned >= RequireQuorum

\* The send that task t is at.  A witness forwards to the edges before it
\* answers; a send across a cut link throws and is skipped.
PropagateStep(t) ==
    LET hop == Head(t.todo)
        from == hop[1]
        to == hop[2]
        delivered == Connected(from, to)
        forwards == IF delivered /\ to \in Witnesses THEN Hops(to, Edges) ELSE <<>>
        rest == forwards \o Tail(t.todo)
    IN /\ tasks' = (tasks \ {t}) \union
                     (IF rest = <<>> THEN {} ELSE {[t EXCEPT !.todo = rest]})
       /\ seenBy' = IF delivered /\ to \in Witnesses
                    THEN [seenBy EXCEPT ![to] = Cache(@, t)] ELSE seenBy
       /\ edge' = IF delivered /\ to \in Edges /\ QuorumMet(t)
                  THEN [edge EXCEPT ![to] = Cache(@, t)] ELSE edge
       /\ UNCHANGED <<clock, cut, cuts, root, calls, pulls, local, loops, atRisk, issued>>

-----------------------------------------------------------------------------
(* EdgeNode.evaluate                                                       *)

Knows(e, x) == \E r \in edge[e].revocations : r.target = x

ValidTokens(e, x) == {t \in edge[e].tokens : t.envelope = x /\ t.expires_at > clock}

\* evaluate up to its await: the envelope is cached and not known revoked,
\* and there is an unexpired token, any of which is as good as another.
\* Otherwise the call returns without any effect.
EvaluateStart(c, x) ==
    LET e == EdgeOf[c]
    IN /\ calls[c].pc = "idle"
       /\ edge[e].versions[x] > 0
       /\ ~Knows(e, x)
       /\ ValidTokens(e, x) # {}
       /\ calls' = [calls EXCEPT ![c] = [pc |-> "pinging", envelope |-> x, since |-> clock]]
       /\ UNCHANGED <<clock, cut, cuts, root, tasks, seenBy, edge, pulls, local, loops, atRisk, issued>>

\* The PING reaches the root, or fails.
Ping(c) ==
    /\ calls[c].pc = "pinging"
    /\ calls' = [calls EXCEPT ![c] =
                    [@ EXCEPT !.since = clock,
                              !.pc = IF Connected(EdgeOf[c], Root) THEN "ponged"
                                     ELSE "unreachable"]]
    /\ UNCHANGED <<clock, cut, cuts, root, tasks, seenBy, edge, pulls, local, loops, atRisk, issued>>

\* Mutant: no safety margin before the last known contact.
PullSince_NoMargin(e) == edge[e].contact

\* From where the pull after a reconnect asks for revocations.
PullSince(e) == edge[e].contact - Margin

\* Mutant: one Warrant more than the cap.
QuotaLeft_OffByOne(e) == edge[e].sinceContact <= MaxDisconnected

QuotaLeft(e) == edge[e].sinceContact < MaxDisconnected

\* The rest of evaluate: issue, count and keep the decision.
Issue(c, reachable, counted) ==
    LET e == EdgeOf[c]
        w == [edge |-> e, envelope |-> calls[c].envelope, issued_at |-> clock,
              root_reachable |-> reachable, observed |-> edge[e].revocations]
        tracked == Len(issued) < MaxHistory
    IN /\ edge' = [edge EXCEPT ![e] =
                     [@ EXCEPT !.reachable = reachable, !.sinceContact = counted,
                               !.contact = IF reachable THEN clock ELSE edge[e].contact]]
       /\ issued' = IF tracked THEN Append(issued, w) ELSE issued
       /\ local' = IF tracked THEN [local EXCEPT ![e] = Append(@, Len(issued) + 1)] ELSE local
       /\ atRisk' = IF tracked /\ \E l \in Loops : Running(e, l) /\ ~loops[e][l].live
                    THEN atRisk \union {Len(issued) + 1} ELSE atRisk

\* The root answered: pingRoot records the contact and, if the last ping
\* had failed, starts a pull; the counter restarts with this Warrant.
FinishReachable(c) ==
    LET e == EdgeOf[c]
    IN /\ calls[c].pc = "ponged"
       /\ calls' = [calls EXCEPT ![c] = Idle]
       /\ pulls' = IF edge[e].reachable THEN pulls
                   ELSE pulls \union {[edge |-> e, since |-> PullSince(e)]}
       /\ Issue(c, TRUE, 1)
       /\ UNCHANGED <<clock, cut, cuts, root, tasks, seenBy, loops>>

FinishUnreachable(c) ==
    LET e == EdgeOf[c]
    IN /\ calls[c].pc = "unreachable"
       /\ calls' = [calls EXCEPT ![c] = Idle]
       /\ \/ QuotaLeft(e) /\ Issue(c, FALSE, edge[e].sinceContact + 1)
          \/ /\ ~QuotaLeft(e)
             /\ edge' = [edge EXCEPT ![e].reachable = FALSE]
             /\ UNCHANGED <<issued, local, atRisk>>
       /\ UNCHANGED <<clock, cut, cuts, root, tasks, seenBy, pulls, loops>>

-----------------------------------------------------------------------------
(* EdgeNode.pullRevocations and EdgeNode.reconcile                         *)

\* QUERY_REVOCATIONS is answered and applied, or the pull fails for good.
PullStep(p) ==
    /\ pulls' = pulls \ {p}
    /\ edge' = IF Connected(p.edge, Root) /\ Cosigned >= RequireQuorum
               THEN [edge EXCEPT ![p.edge].revocations = @ \union
                       {r \in root.revocations : r.revoked_at >= p.since}]
               ELSE edge
    /\ UNCHANGED <<clock, cut, cuts, root, tasks, seenBy, calls, local, loops, atRisk, issued>>

\* On an empty list reconcile() returns without any effect.
ReconcileStart(e, l) ==
    /\ ~Running(e, l) /\ local[e] # <<>>
    /\ loops' = [loops EXCEPT ![e][l] = [NoLoop EXCEPT !.at = 1]]
    /\ UNCHANGED <<clock, cut, cuts, root, tasks, seenBy, edge, calls, pulls, local, atRisk, issued>>

\* Mutant: the root trusts the revocations the edge says it had observed.
Conflict_Observed(w) == \E r \in w.observed : r.target = w.envelope

\* RECONCILE_DECISION: was the envelope revoked when the Warrant was issued?
Conflict(w) ==
    \E r \in root.revocations : r.target = w.envelope /\ r.revoked_at <= w.issued_at

\* Mutant: a failed send ends the loop.
Advance_Break(e, l, sent) == IF sent THEN loops[e][l].at + 1 ELSE Len(Array(e, l)) + 1

\* Where the loop goes on; the iterator looks at the length every time.
Advance(e, l, sent) == loops[e][l].at + 1

\* One iteration of the loop; a failed send is caught and the loop goes on.
ReconcileStep(e, l) ==
    LET k == Array(e, l)[loops[e][l].at]
        sent == Connected(e, Root) /\ root.versions[issued[k].envelope] > 0
    IN /\ loops[e][l].at \in 1 .. Len(Array(e, l))
       /\ loops' = [loops EXCEPT ![e][l].at = Advance(e, l, sent)]
       /\ root' = IF sent
                  THEN [root EXCEPT !.submitted = @ \union
                          {[warrant |-> k, conflict |-> Conflict(issued[k])]}]
                  ELSE root
       /\ atRisk' = IF sent THEN atRisk \ {k} ELSE atRisk \union {k}
       /\ UNCHANGED <<clock, cut, cuts, tasks, seenBy, edge, calls, pulls, local, issued>>

\* Behind the loop the edge gets a new, empty localDecisions; other loops
\* over the old one keep what is left of it.
ReconcileEnd(e, l) ==
    /\ Running(e, l) /\ loops[e][l].at > Len(Array(e, l))
    /\ loops' = [loops EXCEPT ![e] =
                   [m \in Loops |->
                      IF m = l THEN NoLoop
                      ELSE IF Running(e, m) /\ @[m].live
                      THEN [at |-> 1, live |-> FALSE,
                            array |-> SubSeq(local[e], @[m].at, Len(local[e]))]
                      ELSE @[m]]]
    /\ local' = [local EXCEPT ![e] = <<>>]
    /\ UNCHANGED <<clock, cut, cuts, root, tasks, seenBy, edge, calls, pulls, atRisk, issued>>

-----------------------------------------------------------------------------
(* The network and time                                                    *)

\* partitionFrom on both ends of each link of a set.
Partition(links) ==
    /\ Len(cuts) < MaxCuts
    /\ ~(links \subseteq cut)
    /\ cut' = cut \union links
    /\ cuts' = Append(cuts, links)
    /\ UNCHANGED <<clock, root, tasks, seenBy, edge, calls, pulls, local, loops, atRisk, issued>>

\* healPartition; with HealAfterNoticed not before the edge has noticed.
Heal(links) ==
    /\ links \subseteq cut
    /\ HealAfterNoticed => \A e \in Edges : Link(e, Root) \in links => ~edge[e].reachable
    /\ cut' = cut \ links
    /\ UNCHANGED <<clock, cuts, root, tasks, seenBy, edge, calls, pulls, local, loops, atRisk, issued>>

\* No message is in flight for longer than Latency.
Prompt ==
    /\ \A t \in tasks : clock < t.started + Latency
    /\ \A c \in Calls : calls[c].pc # "idle" => clock < calls[c].since + Latency

Tick ==
    /\ clock < MaxTime /\ Prompt
    /\ clock' = clock + 1
    /\ UNCHANGED <<cut, cuts, root, tasks, seenBy, edge, calls, pulls, local, loops, atRisk, issued>>

EvaluateStep(c) ==
    (\E x \in Envelopes : EvaluateStart(c, x)) \/ Ping(c) \/ FinishReachable(c) \/ FinishUnreachable(c)

Reconcile(e, l) == ReconcileStart(e, l) \/ ReconcileStep(e, l) \/ ReconcileEnd(e, l)

Next ==
    \/ \E x \in Envelopes : issueEnvelope(x) \/ revoke(x)
    \/ \E e \in Edges, x \in Envelopes : GrantToken(e, x)
    \/ \E t \in tasks : PropagateStep(t)
    \/ \E c \in Calls : EvaluateStep(c)
    \/ \E p \in pulls : PullStep(p)
    \/ \E e \in Edges, l \in Loops : Reconcile(e, l)
    \/ \E links \in LinkSets : Partition(links) \/ Heal(links)
    \/ Tick

Spec == Init /\ [][Next]_vars

\* Promises settle, the agent behind each edge keeps submitting actions,
\* and partitions end.
Fairness ==
    /\ WF_vars(\E t \in tasks : PropagateStep(t))
    /\ WF_vars(\E p \in pulls : PullStep(p))
    /\ \A c \in Calls : WF_vars(EvaluateStep(c))
    /\ \A links \in LinkSets : WF_vars(Heal(links))

FairSpec == Spec /\ Fairness

-----------------------------------------------------------------------------
(* Properties                                                              *)

\* The Warrants of edge e among the i-th to the j-th.
IssuedBy(e, i, j) == {k \in i .. j : issued[k].edge = e}

(* An edge never issues more than maxWarrantsWhileDisconnected Warrants in *)
(* a row without having reached the root, however its evaluations overlap  *)
(* at the ping.                                                            *)
QuotaHolds ==
    \A e \in Edges, i, j \in DOMAIN issued :
        (\A k \in IssuedBy(e, i, j) : ~issued[k].root_reachable)
            => Cardinality(IssuedBy(e, i, j)) <= MaxDisconnected

\* Links that were cut at some time.
EverCut == UNION Range(cuts)

\* The sends that take a message of the root to edge e: its own, or one to
\* a witness and the witness's.
Paths(e) == {{<<Root, e>>}} \union {{<<Root, w>>, <<w, e>>} : w \in Witnesses}

NeverCut(path) == \A hop \in path : Link(hop[1], hop[2]) \notin EverCut

(* Once no propagation of an envelope is under way, an edge has the        *)
(* version the root issued last, although older and newer versions reach   *)
(* it directly and through the witnesses in any order (MESH.md, "Monotonic *)
(* envelope versioning") and partitions make sends fail: one of its paths  *)
(* that was never cut is enough.                                           *)
NewestVersionArrives ==
    \A e \in Edges, x \in Envelopes :
        (\E path \in Paths(e) : NeverCut(path)) /\ (\A t \in tasks : t.envelope = x => t.revocation # {})
            => edge[e].versions[x] = root.versions[x]

(* "Warrants issued after a revocation are flagged" (MESH.md): whatever    *)
(* the edge knew, a reconciled Warrant that was issued after the root had  *)
(* revoked its envelope is a conflict, and one issued before is not.       *)
LateWarrantsFlagged ==
    \A s \in root.submitted :
        LET w == issued[s.warrant]
            revs == {r \in root.revocations : r.target = w.envelope}
        IN /\ (\E r \in revs : r.revoked_at < w.issued_at) => s.conflict
           /\ (\A r \in revs : r.revoked_at > w.issued_at) => ~s.conflict

\* Kept by its edge, ahead of one of its loops, submitted, or at risk.
OnItsWay(e, k) ==
    \/ k \in Range(local[e])
    \/ \E l \in Loops : Running(e, l) /\ \E i \in loops[e][l].at .. Len(Array(e, l)) : Array(e, l)[i] = k
    \/ \E s \in root.submitted : s.warrant = k
    \/ k \in atRisk

(* A Warrant an edge has issued stays on its way to the root: it is still  *)
(* kept, ahead of some reconcile(), or submitted, also when evaluations    *)
(* add to the list under the loop and reconcile() calls overlap.  The two  *)
(* exceptions are the ones the code has: a submission that failed, and a   *)
(* decision kept while a reconcile() was reading a replaced array.         *)
DecisionsReconciled == \A k \in DOMAIN issued : OnItsWay(issued[k].edge, k)

-----------------------------------------------------------------------------
(* Inductive invariants                                                    *)

\* The counter covers the Warrants the edge has issued since it last reached
\* the root, as far as Warrants are tracked.
QuotaInv ==
    /\ QuotaHolds
    /\ Len(issued) < MaxHistory =>
         \A e \in Edges, i \in DOMAIN issued :
            (\A k \in IssuedBy(e, i, Len(issued)) : ~issued[k].root_reachable)
                => Cardinality(IssuedBy(e, i, Len(issued))) <= edge[e].sinceContact

\* Nothing is stamped with a time that has not come.
StampsOK ==
    /\ \A k \in DOMAIN issued : issued[k].issued_at <= clock
    /\ \A r \in root.revocations : r.revoked_at <= clock

\* Task t takes the newest version of x along a path.
Carries(t, x, path) ==
    /\ t.envelope = x /\ t.revocation = {} /\ t.version = root.versions[x]
    /\ \E i \in DOMAIN t.todo : t.todo[i] \in path

\* No node is ahead of the root, and a version that an edge still misses is
\* under way on each of its paths that was never cut.
VersionsInv ==
    /\ cut \subseteq EverCut
    /\ \A t \in tasks : t.version <= root.versions[t.envelope]
    /\ \A e \in Edges, x \in Envelopes :
         /\ edge[e].versions[x] <= root.versions[x]
         /\ \A path \in Paths(e) :
              NeverCut(path) =>
                 \/ edge[e].versions[x] = root.versions[x]
                 \/ \E t \in tasks : Carries(t, x, path)

\* The positions kept anywhere are those of issued Warrants.
PositionsOK ==
    /\ \A s \in root.submitted : s.warrant \in DOMAIN issued
    /\ \A e \in Edges : \A i \in DOMAIN local[e] : local[e][i] \in DOMAIN issued
    /\ \A e \in Edges, l \in Loops :
         \A i \in DOMAIN loops[e][l].array : loops[e][l].array[i] \in DOMAIN issued

\* The root's answer was right when it was given, and what is revoked since
\* is not revoked before the Warrant was issued.
AnswersOK ==
    \A s \in root.submitted :
        LET w == issued[s.warrant]
            revs == {r \in root.revocations : r.target = w.envelope}
        IN IF s.conflict THEN \E r \in revs : r.revoked_at <= w.issued_at
           ELSE \A r \in revs : r.revoked_at >= w.issued_at

\* The root has the decision, or it is one of those that may be lost.
Settled(k) == k \in atRisk \/ \E s \in root.submitted : s.warrant = k

\* A reconcile() ends where its array ends, and what it has behind it is
\* settled.  While one reads a replaced
\* array, everything kept since is.
LoopsOK ==
    \A e \in Edges, l \in Loops :
        Running(e, l) =>
            /\ loops[e][l].at <= Len(Array(e, l)) + 1
            /\ \A i \in DOMAIN local[e] :
                 (loops[e][l].live /\ i >= loops[e][l].at) \/ Settled(local[e][i])

IndInv ==
    /\ TypeOK /\ QuotaInv /\ StampsOK /\ PositionsOK /\ AnswersOK
    /\ LoopsOK /\ DecisionsReconciled

-----------------------------------------------------------------------------
(* Liveness                                                                *)

(* A revocation becomes known to every edge that goes on evaluating under  *)
(* the envelope, in spite of partitions.                                   *)
RevocationArrives ==
    \A e \in Edges, x \in Envelopes :
        (\E r \in root.revocations : r.target = x)
            ~> (Knows(e, x) \/ ValidTokens(e, x) = {} \/ edge[e].versions[x] = 0)
=============================================================================
