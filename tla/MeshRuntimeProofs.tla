------------------------- MODULE MeshRuntimeProofs -------------------------
(***************************************************************************)
(* Proofs about MeshRuntime for any number of witnesses, edges, envelopes, *)
(* evaluations and reconcile() calls.                                      *)
(***************************************************************************)
EXTENDS MeshRuntime, FiniteSetTheorems, SequenceTheorems, TLAPS

-----------------------------------------------------------------------------
(* Sends                                                                   *)

\* A finite set can be put in an order.
LEMMA OrderExists ==
    ASSUME NEW S, IsFiniteSet(S)
    PROVE  SetToSeq(S) \in [1 .. Cardinality(S) -> S] /\ Cardinality(S) \in Nat
<1>1. Cardinality(S) \in Nat /\ ExistsBijection(1 .. Cardinality(S), S) BY FS_CardinalityType
<1>2. PICK f \in Bijection(1 .. Cardinality(S), S) : TRUE BY <1>1 DEF ExistsBijection
<1>3. f \in [1 .. Cardinality(S) -> S] /\ IsInjective(f)
    BY DEF Bijection, Injection, IsInjective
<1>4. QED BY <1>1, <1>3 DEF SetToSeq

\* The sends of one propagation are between nodes, one for each peer.
LEMMA HopsType ==
    ASSUME NEW from \in Nodes, NEW peers \in SUBSET Nodes, IsFiniteSet(peers)
    PROVE  /\ Hops(from, peers) \in Seq(Nodes \X Nodes)
           /\ Len(Hops(from, peers)) = Cardinality(peers)
<1> DEFINE order == SetToSeq(peers)
<1>1. order \in [1 .. Cardinality(peers) -> peers] /\ Cardinality(peers) \in Nat BY OrderExists
<1>2. Len(order) = Cardinality(peers) /\ order \in Seq(peers) BY <1>1
<1> HIDE DEF order
<1>3. \A i \in 1 .. Len(order) : order[i] \in Nodes BY <1>2
<1>4. Hops(from, peers) = [i \in 1 .. Len(order) |-> <<from, order[i]>>] BY DEF Hops, order
<1>5. QED BY <1>2, <1>3, <1>4, FS_CardinalityType

\* A new propagation is a task with sends to do.
LEMMA NewTaskType ==
    ASSUME TypeOK, NEW x \in Envelopes, NEW v \in Nat, NEW R \in SUBSET Revocation
    PROVE  NewTask(x, v, R) \in Task
<1>1. Root \in Nodes /\ Witnesses \in SUBSET Nodes /\ Edges \in SUBSET Nodes BY DEF Nodes
<1>2. Hops(Root, Witnesses) \in Seq(Nodes \X Nodes) BY <1>1, HopsType, MeshAssumption
<1>3. Hops(Root, Edges) \in Seq(Nodes \X Nodes) /\ Len(Hops(Root, Edges)) = Cardinality(Edges)
    BY <1>1, HopsType, MeshAssumption
<1>4. Cardinality(Edges) \in Nat /\ Cardinality(Edges) # 0
    BY FS_EmptySet, FS_CardinalityType, MeshAssumption
<1> DEFINE todo == Hops(Root, Witnesses) \o Hops(Root, Edges)
<1>5. todo \in Seq(Nodes \X Nodes) BY <1>2, <1>3
<1>6. Len(todo) # 0 BY <1>2, <1>3, <1>4
<1>7. todo # <<>> BY <1>6
<1> HIDE DEF todo
<1>8. NewTask(x, v, R) = [envelope |-> x, version |-> v, revocation |-> R,
                          todo |-> todo, started |-> clock]
    BY DEF NewTask, todo
<1>9. clock \in Nat BY MeshAssumption DEF TypeOK
<1>10. QED BY <1>5, <1>7, <1>8, <1>9 DEF Task

\* What is left of a propagation after a send is a propagation.
LEMMA RestType ==
    ASSUME NEW t \in Task, NEW forwards \in Seq(Nodes \X Nodes), forwards \o Tail(t.todo) # <<>>
    PROVE  [t EXCEPT !.todo = forwards \o Tail(t.todo)] \in Task
<1>1. t.todo \in Seq(Nodes \X Nodes) /\ t.todo # <<>> BY DEF Task
<1>2. forwards \o Tail(t.todo) \in Seq(Nodes \X Nodes) BY <1>1
<1>3. QED BY <1>2 DEF Task

\* The greater of the two.
LEMMA QuotaMax ==
    Max({1, MaxDisconnected}) = IF MaxDisconnected > 1 THEN MaxDisconnected ELSE 1
<1>1. MaxDisconnected \in Nat BY MeshAssumption
<1> DEFINE m == IF MaxDisconnected > 1 THEN MaxDisconnected ELSE 1
<1>2. m \in {1, MaxDisconnected} /\ \A y \in {1, MaxDisconnected} : m >= y BY <1>1
<1>3. \A x \in {1, MaxDisconnected} :
         (\A y \in {1, MaxDisconnected} : x >= y) => x = m
    BY <1>1
<1>4. QED BY <1>2, <1>3 DEF Max

-----------------------------------------------------------------------------
(* Types                                                                   *)

\* Every node starts well formed.
LEMMA InitTypeOK == Init => TypeOK
<1> SUFFICES ASSUME Init PROVE TypeOK OBVIOUS
<1> USE MeshAssumption DEF Init
<1>1. /\ clock \in 0 .. MaxTime /\ cut \subseteq SUBSET Nodes
      /\ cuts \in Seq(LinkSets) /\ Len(cuts) <= MaxCuts
    OBVIOUS
<1>2. root \in [versions : [Envelopes -> 0 .. MaxVersion],
                revocations : SUBSET Revocation, submitted : SUBSET Submission]
    OBVIOUS
<1>3. seenBy \in [Witnesses -> WitnessState] BY DEF WitnessState
<1>4. edge \in [Edges -> EdgeState] BY QuotaMax DEF EdgeState
<1>5. calls \in [Calls -> Call] BY DEF Call, Idle
<1>6. local \in [Edges -> Seq(1 .. MaxHistory)] OBVIOUS
<1>7. loops \in [Edges -> [Loops -> Loop]] BY DEF Loop, NoLoop
<1>8. tasks \subseteq Task /\ pulls \subseteq [edge : Edges, since : Int]
      /\ atRisk \subseteq 1 .. MaxHistory /\ issued \in Seq(Warrant)
    OBVIOUS
<1>9. QED BY <1>1, <1>2, <1>3, <1>4, <1>5, <1>6, <1>7, <1>8, Zenon DEF TypeOK

\* Caching a message keeps the caches well formed and the versions from
\* falling.
LEMMA CacheType ==
    ASSUME NEW t \in Task
    PROVE  /\ \A n \in WitnessState : Cache(n, t) \in WitnessState
           /\ \A n \in EdgeState : Cache(n, t) \in EdgeState
           /\ \A n \in WitnessState \union EdgeState, x \in Envelopes :
                 Cache(n, t).versions[x] >= n.versions[x]
           /\ \A n \in EdgeState : Cache(n, t).sinceContact = n.sinceContact
<1>1. t.envelope \in Envelopes /\ t.version \in Nat /\ t.revocation \subseteq Revocation BY DEF Task
<1>2. \A v \in [Envelopes -> Nat] :
        /\ CacheVersion(v, t) \in [Envelopes -> Nat]
        /\ \A x \in Envelopes : CacheVersion(v, t)[x] >= v[x]
    BY <1>1 DEF CacheVersion
<1>3. ASSUME NEW n \in WitnessState
      PROVE  /\ Cache(n, t) \in WitnessState
             /\ \A x \in Envelopes : Cache(n, t).versions[x] >= n.versions[x]
  <2>1. n.versions \in [Envelopes -> Nat] /\ n.revocations \subseteq Revocation BY DEF WitnessState
  <2>2. CASE t.revocation = {} BY <1>2, <2>1, <2>2 DEF Cache, WitnessState
  <2>3. CASE t.revocation # {} BY <1>1, <2>1, <2>3 DEF Cache, WitnessState
  <2>4. QED BY <2>2, <2>3
<1>4. ASSUME NEW n \in EdgeState
      PROVE  /\ Cache(n, t) \in EdgeState /\ Cache(n, t).sinceContact = n.sinceContact
             /\ \A x \in Envelopes : Cache(n, t).versions[x] >= n.versions[x]
  <2>1. n.versions \in [Envelopes -> Nat] /\ n.revocations \subseteq Revocation BY DEF EdgeState
  <2>2. CASE t.revocation = {} BY <1>2, <2>1, <2>2 DEF Cache, EdgeState
  <2>3. CASE t.revocation # {} BY <1>1, <2>1, <2>3 DEF Cache, EdgeState
  <2>4. QED BY <2>2, <2>3
<1>5. QED BY <1>3, <1>4

\* The root's own operations.
LEMMA RootType ==
    ASSUME TypeOK, NEW x \in Envelopes, issueEnvelope(x) \/ revoke(x)
    PROVE  TypeOK'
<1>1. clock \in Nat /\ root.versions[x] \in Nat /\ MaxVersion \in Nat
    BY MeshAssumption DEF TypeOK
<1>2. CASE issueEnvelope(x)
  <2>1. NewTask(x, root.versions[x] + 1, {}) \in Task BY <1>1, NewTaskType
  <2>2. root' \in [versions : [Envelopes -> 0 .. MaxVersion],
                   revocations : SUBSET Revocation, submitted : SUBSET Submission]
    <3>1. root \in [versions : [Envelopes -> 0 .. MaxVersion],
                    revocations : SUBSET Revocation, submitted : SUBSET Submission]
        BY DEF TypeOK
    <3> DEFINE v == [root.versions EXCEPT ![x] = @ + 1]
    <3>2. v \in [Envelopes -> 0 .. MaxVersion] BY <1>1, <1>2, <3>1 DEF issueEnvelope
    <3>3. root' = [root EXCEPT !.versions = v] BY <1>2, <3>1 DEF issueEnvelope
    <3> HIDE DEF v
    <3>4. QED BY <3>1, <3>2, <3>3
  <2>3. tasks' \subseteq Task BY <1>2, <2>1 DEF TypeOK, issueEnvelope
  <2>4. QED BY <1>2, <2>2, <2>3 DEF TypeOK, issueEnvelope
<1>3. CASE revoke(x)
  <2> DEFINE rev == [target |-> x, revoked_at |-> clock]
  <2>1. rev \in Revocation BY <1>1 DEF Revocation
  <2>2. NewTask(x, 0, {rev}) \in Task BY <2>1, NewTaskType
  <2>3. root' = [root EXCEPT !.revocations = @ \union {rev}] /\ tasks' = tasks \union {NewTask(x, 0, {rev})}
      BY <1>3 DEF revoke
  <2> HIDE DEF rev
  <2>4. root' \in [versions : [Envelopes -> 0 .. MaxVersion],
                   revocations : SUBSET Revocation, submitted : SUBSET Submission]
    <3>1. root \in [versions : [Envelopes -> 0 .. MaxVersion],
                    revocations : SUBSET Revocation, submitted : SUBSET Submission]
        BY DEF TypeOK
    <3>2. root.revocations \union {rev} \in SUBSET Revocation BY <2>1, <3>1
    <3>3. root' = [root EXCEPT !.revocations = root.revocations \union {rev}] BY <2>3
    <3>4. QED BY <3>1, <3>2, <3>3
  <2>5. tasks' \subseteq Task BY <2>2, <2>3 DEF TypeOK
  <2>6. QED BY <1>3, <2>4, <2>5 DEF TypeOK, revoke
<1>4. QED BY <1>2, <1>3

\* The hand-out of a token.
LEMMA TokenType ==
    ASSUME TypeOK, NEW e \in Edges, NEW x \in Envelopes, GrantToken(e, x)
    PROVE  TypeOK'
<1>1. clock + TokenTTL \in Nat BY MeshAssumption DEF TypeOK
<1>2. edge[e] \in EdgeState BY DEF TypeOK
<1> DEFINE n == [edge[e] EXCEPT !.tokens = @ \union {[envelope |-> x, expires_at |-> clock + TokenTTL]}]
<1>3. edge' = [edge EXCEPT ![e] = n] BY DEF GrantToken
<1>4. n \in EdgeState BY <1>1, <1>2 DEF EdgeState
<1> HIDE DEF n
<1>6. edge' \in [Edges -> EdgeState] BY <1>3, <1>4 DEF TypeOK
<1>7. QED BY <1>6 DEF TypeOK, GrantToken

\* A send, delivered or not.
LEMMA PropagateType ==
    ASSUME TypeOK, NEW t \in tasks, PropagateStep(t)
    PROVE  TypeOK'
<1>1. t \in Task BY DEF TypeOK
<1> DEFINE to == Head(t.todo)[2]
           delivered == Connected(Head(t.todo)[1], to)
           forwards == IF delivered /\ to \in Witnesses THEN Hops(to, Edges) ELSE <<>>
           rest == forwards \o Tail(t.todo)
<1>2. /\ tasks' = (tasks \ {t}) \union (IF rest = <<>> THEN {} ELSE {[t EXCEPT !.todo = rest]})
      /\ seenBy' = IF delivered /\ to \in Witnesses
                   THEN [seenBy EXCEPT ![to] = Cache(@, t)] ELSE seenBy
      /\ edge' = IF delivered /\ to \in Edges /\ QuorumMet(t)
                 THEN [edge EXCEPT ![to] = Cache(@, t)] ELSE edge
      /\ UNCHANGED <<clock, cut, cuts, root, calls, pulls, local, loops, atRisk, issued>>
    BY DEF PropagateStep
<1>3. forwards \in Seq(Nodes \X Nodes)
  <2>1. to \in Witnesses => to \in Nodes BY DEF Nodes
  <2>2. Edges \in SUBSET Nodes BY DEF Nodes
  <2>3. to \in Witnesses => Hops(to, Edges) \in Seq(Nodes \X Nodes)
      BY <2>1, <2>2, HopsType, MeshAssumption
  <2>4. QED BY <2>3
<1>4. rest # <<>> => [t EXCEPT !.todo = rest] \in Task BY <1>1, <1>3, RestType
<1> HIDE DEF rest, to, delivered, forwards
<1>5. tasks' \subseteq Task BY <1>2, <1>4 DEF TypeOK
<1>6. seenBy' \in [Witnesses -> WitnessState] BY <1>1, <1>2, CacheType DEF TypeOK
<1>7. edge' \in [Edges -> EdgeState] BY <1>1, <1>2, CacheType DEF TypeOK
<1>8. QED BY <1>2, <1>5, <1>6, <1>7 DEF TypeOK

\* A decision that is tracked gets the next position.
LEMMA IssueType ==
    ASSUME TypeOK, NEW c \in Calls, NEW reachable \in BOOLEAN,
           NEW counted \in 0 .. Max({1, MaxDisconnected}), Issue(c, reachable, counted)
    PROVE  /\ edge' \in [Edges -> EdgeState] /\ issued' \in Seq(Warrant)
           /\ local' \in [Edges -> Seq(1 .. MaxHistory)] /\ atRisk' \subseteq 1 .. MaxHistory
<1> DEFINE e == EdgeOf[c]
           w == [edge |-> e, envelope |-> calls[c].envelope, issued_at |-> clock,
                 root_reachable |-> reachable, observed |-> edge[e].revocations]
           tracked == Len(issued) < MaxHistory
           n == [edge[e] EXCEPT !.reachable = reachable, !.sinceContact = counted,
                                !.contact = IF reachable THEN clock ELSE edge[e].contact]
<1>1. /\ edge' = [edge EXCEPT ![e] = n]
      /\ issued' = IF tracked THEN Append(issued, w) ELSE issued
      /\ local' = IF tracked THEN [local EXCEPT ![e] = Append(@, Len(issued) + 1)] ELSE local
      /\ atRisk' = IF tracked /\ \E l \in Loops : Running(e, l) /\ ~loops[e][l].live
                   THEN atRisk \union {Len(issued) + 1} ELSE atRisk
    BY DEF Issue
<1>2. e \in Edges BY MeshAssumption
<1>3. clock \in Nat /\ Len(issued) \in Nat /\ MaxHistory \in Nat
    BY MeshAssumption DEF TypeOK
<1>4. w \in Warrant
  <2>1. edge[e] \in EdgeState /\ calls[c] \in Call BY <1>2 DEF TypeOK
  <2>2. QED BY <1>2, <1>3, <2>1 DEF Warrant, EdgeState, Call
<1> HIDE DEF w
<1>11. n \in EdgeState
  <2>1. edge[e] \in EdgeState BY <1>2 DEF TypeOK
  <2>2. QED BY <1>3, <2>1 DEF EdgeState
<1> HIDE DEF n
<1>5. tracked => Len(issued) + 1 \in 1 .. MaxHistory BY <1>3
<1> HIDE DEF tracked, e
<1>6. edge' \in [Edges -> EdgeState] BY <1>1, <1>2, <1>11 DEF TypeOK
<1>7. issued' \in Seq(Warrant) BY <1>1, <1>4 DEF TypeOK
<1>8. local' \in [Edges -> Seq(1 .. MaxHistory)]
  <2>1. local[e] \in Seq(1 .. MaxHistory) BY <1>2 DEF TypeOK
  <2>2. tracked => Append(local[e], Len(issued) + 1) \in Seq(1 .. MaxHistory) BY <1>5, <2>1
  <2>3. QED BY <1>1, <1>2, <2>2 DEF TypeOK
<1>9. atRisk' \subseteq 1 .. MaxHistory BY <1>1, <1>5 DEF TypeOK
<1>10. QED BY <1>6, <1>7, <1>8, <1>9

\* The steps of an evaluation.
LEMMA EvaluateType ==
    ASSUME TypeOK, NEW c \in Calls, EvaluateStep(c)
    PROVE  TypeOK'
<1>1. Idle \in Call BY MeshAssumption DEF Idle, Call
<1>2. clock \in Nat /\ EdgeOf[c] \in Edges BY MeshAssumption DEF TypeOK
<1>3. calls[c] \in Call /\ edge[EdgeOf[c]] \in EdgeState BY <1>2 DEF TypeOK
<1>4. ASSUME NEW x \in Envelopes, EvaluateStart(c, x) PROVE TypeOK'
  <2>1. [pc |-> "pinging", envelope |-> x, since |-> clock] \in Call BY <1>2 DEF Call
  <2>2. calls' \in [Calls -> Call] BY <1>4, <2>1 DEF TypeOK, EvaluateStart
  <2>3. QED BY <1>4, <2>2 DEF TypeOK, EvaluateStart
<1>5. CASE Ping(c)
  <2> DEFINE k == [calls[c] EXCEPT !.since = clock,
                                  !.pc = IF Connected(EdgeOf[c], Root) THEN "ponged" ELSE "unreachable"]
  <2>1. k \in Call BY <1>2, <1>3 DEF Call
  <2>2. calls' = [calls EXCEPT ![c] = k] BY <1>5 DEF Ping
  <2> HIDE DEF k
  <2>3. calls' \in [Calls -> Call] BY <2>1, <2>2 DEF TypeOK
  <2>4. QED BY <1>5, <2>3 DEF TypeOK, Ping
<1>6. CASE FinishReachable(c)
  <2>1. Issue(c, TRUE, 1) BY <1>6 DEF FinishReachable
  <2>2. 1 \in 0 .. Max({1, MaxDisconnected}) BY QuotaMax, MeshAssumption
  <2>3. /\ edge' \in [Edges -> EdgeState] /\ issued' \in Seq(Warrant)
        /\ local' \in [Edges -> Seq(1 .. MaxHistory)] /\ atRisk' \subseteq 1 .. MaxHistory
      BY <2>1, <2>2, IssueType
  <2>4. calls' \in [Calls -> Call] BY <1>1, <1>6 DEF TypeOK, FinishReachable
  <2>5. PullSince(EdgeOf[c]) \in Int BY <1>3, MeshAssumption DEF EdgeState, PullSince
  <2>6. pulls' \subseteq [edge : Edges, since : Int] BY <1>2, <1>6, <2>5 DEF TypeOK, FinishReachable
  <2>7. QED BY <1>6, <2>3, <2>4, <2>6 DEF TypeOK, FinishReachable
<1>7. CASE FinishUnreachable(c)
  <2>1. calls' \in [Calls -> Call] BY <1>1, <1>7 DEF TypeOK, FinishUnreachable
  <2>2. /\ edge' \in [Edges -> EdgeState] /\ issued' \in Seq(Warrant)
        /\ local' \in [Edges -> Seq(1 .. MaxHistory)] /\ atRisk' \subseteq 1 .. MaxHistory
    <3>1. CASE QuotaLeft(EdgeOf[c]) /\ Issue(c, FALSE, edge[EdgeOf[c]].sinceContact + 1)
      <4>1. edge[EdgeOf[c]].sinceContact + 1 \in 0 .. Max({1, MaxDisconnected})
          BY <1>3, <3>1, QuotaMax, MeshAssumption DEF QuotaLeft, EdgeState
      <4>2. QED BY <3>1, <4>1, IssueType
    <3>2. CASE /\ edge' = [edge EXCEPT ![EdgeOf[c]].reachable = FALSE]
               /\ UNCHANGED <<issued, local, atRisk>>
      <4> DEFINE n == [edge[EdgeOf[c]] EXCEPT !.reachable = FALSE]
      <4>1. n \in EdgeState BY <1>3 DEF EdgeState
      <4>2. edge' = [edge EXCEPT ![EdgeOf[c]] = n] BY <3>2
      <4> HIDE DEF n
      <4>3. QED BY <1>2, <3>2, <4>1, <4>2 DEF TypeOK
    <3>3. QED BY <1>7, <3>1, <3>2 DEF FinishUnreachable
  <2>3. QED BY <1>7, <2>1, <2>2 DEF TypeOK, FinishUnreachable
<1>8. QED BY <1>4, <1>5, <1>6, <1>7 DEF EvaluateStep

\* The answer to a pull.
LEMMA PullType ==
    ASSUME TypeOK, NEW p \in pulls, PullStep(p)
    PROVE  TypeOK'
<1> DEFINE n == [edge[p.edge] EXCEPT !.revocations = @ \union
                   {r \in root.revocations : r.revoked_at >= p.since}]
<1>1. p.edge \in Edges BY DEF TypeOK
<1>2. edge[p.edge] \in EdgeState /\ root.revocations \subseteq Revocation BY <1>1 DEF TypeOK
<1>3. n \in EdgeState BY <1>2 DEF EdgeState
<1>4. edge' = edge \/ edge' = [edge EXCEPT ![p.edge] = n] BY DEF PullStep
<1> HIDE DEF n
<1>5. edge' \in [Edges -> EdgeState] BY <1>3, <1>4 DEF TypeOK
<1>6. pulls' \subseteq [edge : Edges, since : Int] BY DEF TypeOK, PullStep
<1>7. QED BY <1>5, <1>6 DEF TypeOK, PullStep

\* An element of a sequence.
LEMMA ElementType ==
    ASSUME NEW S, NEW s \in Seq(S), NEW i \in 1 .. Len(s)
    PROVE  s[i] \in S
OBVIOUS

\* What is known of the arrays that the loops of an edge run over.
LEMMA ArrayType ==
    ASSUME TypeOK, NEW e \in Edges, NEW l \in Loops
    PROVE  /\ Array(e, l) \in Seq(1 .. MaxHistory) /\ local[e] \in Seq(1 .. MaxHistory)
           /\ loops[e][l] \in Loop /\ loops[e][l].at \in Nat
           /\ \A i \in 1 .. Len(Array(e, l)) : Array(e, l)[i] \in 1 .. MaxHistory
<1>1. loops[e][l] \in Loop /\ local[e] \in Seq(1 .. MaxHistory) BY DEF TypeOK
<1>2. Array(e, l) \in Seq(1 .. MaxHistory) BY <1>1 DEF Loop, Array
<1>3. \A i \in 1 .. Len(Array(e, l)) : Array(e, l)[i] \in 1 .. MaxHistory
    BY <1>2, ElementType
<1>4. loops[e][l].at \in Nat BY <1>1 DEF Loop
<1>5. QED BY <1>1, <1>2, <1>3, <1>4

\* The part of an array from one position on.
LEMMA RestOfArray ==
    ASSUME NEW S, NEW s \in Seq(S), NEW i \in Nat, i > 0
    PROVE  /\ SubSeq(s, i, Len(s)) \in Seq(S)
           /\ \A j \in i .. Len(s) : /\ j - i + 1 \in 1 .. Len(SubSeq(s, i, Len(s)))
                                     /\ SubSeq(s, i, Len(s))[j - i + 1] = s[j]
           /\ \A j \in 1 .. Len(SubSeq(s, i, Len(s))) :
                 SubSeq(s, i, Len(s))[j] = s[j + i - 1] /\ j + i - 1 \in 1 .. Len(s)
<1>1. Len(s) \in Nat /\ \A j \in i .. Len(s) : s[j] \in S OBVIOUS
<1> DEFINE r == SubSeq(s, i, Len(s))
<1>2. /\ r \in Seq(S)
      /\ Len(r) = IF i <= Len(s) THEN Len(s) - i + 1 ELSE 0
      /\ \A j \in 1 .. Len(s) - i + 1 : r[j] = s[i + j - 1]
    BY <1>1, SubSeqProperties
<1> HIDE DEF r
<1>3. \A j \in i .. Len(s) : j - i + 1 \in 1 .. Len(r) /\ r[j - i + 1] = s[j]
  <2> SUFFICES ASSUME NEW j \in i .. Len(s)
               PROVE  j - i + 1 \in 1 .. Len(r) /\ r[j - i + 1] = s[j]
      OBVIOUS
  <2>1. j - i + 1 \in 1 .. Len(s) - i + 1 /\ i + (j - i + 1) - 1 = j BY <1>1
  <2>2. QED BY <1>1, <1>2, <2>1
<1>4. \A j \in 1 .. Len(r) : r[j] = s[j + i - 1] /\ j + i - 1 \in 1 .. Len(s)
  <2> SUFFICES ASSUME NEW j \in 1 .. Len(r)
               PROVE  r[j] = s[j + i - 1] /\ j + i - 1 \in 1 .. Len(s)
      OBVIOUS
  <2>1. i <= Len(s) /\ j \in 1 .. Len(s) - i + 1 BY <1>1, <1>2
  <2>2. i + j - 1 = j + i - 1 /\ j + i - 1 \in 1 .. Len(s) BY <1>1, <2>1
  <2>3. QED BY <1>2, <2>1, <2>2
<1>5. QED BY <1>2, <1>3, <1>4 DEF r

\* The steps of a reconcile().
LEMMA ReconcileType ==
    ASSUME TypeOK, NEW e \in Edges, NEW l \in Loops, Reconcile(e, l)
    PROVE  TypeOK'
<1>1. loops[e] \in [Loops -> Loop] /\ loops[e][l] \in Loop /\ MaxHistory \in Nat
    BY MeshAssumption DEF TypeOK
<1>2. NoLoop \in Loop BY DEF NoLoop, Loop
<1>3. CASE ReconcileStart(e, l)
  <2> DEFINE n == [NoLoop EXCEPT !.at = 1]
  <2>1. n \in Loop BY <1>2 DEF Loop
  <2>2. loops' = [loops EXCEPT ![e][l] = n] BY <1>3 DEF ReconcileStart
  <2> HIDE DEF n
  <2>3. loops' \in [Edges -> [Loops -> Loop]] BY <1>1, <2>1, <2>2 DEF TypeOK
  <2>4. QED BY <1>3, <2>3 DEF TypeOK, ReconcileStart
<1>4. CASE ReconcileStep(e, l)
  <2> DEFINE k == Array(e, l)[loops[e][l].at]
             sent == Connected(e, Root) /\ root.versions[issued[k].envelope] > 0
             sub == [warrant |-> k, conflict |-> Conflict(issued[k])]
  <2>1. /\ loops[e][l].at \in 1 .. Len(Array(e, l))
        /\ loops' = [loops EXCEPT ![e][l].at = Advance(e, l, sent)]
        /\ root' = IF sent THEN [root EXCEPT !.submitted = @ \union {sub}] ELSE root
        /\ atRisk' = IF sent THEN atRisk \ {k} ELSE atRisk \union {k}
        /\ UNCHANGED <<clock, cut, cuts, tasks, seenBy, edge, calls, pulls, local, issued>>
      BY <1>4 DEF ReconcileStep
  <2>2. k \in 1 .. MaxHistory
    <3>1. loops[e][l].at \in 1 .. Len(Array(e, l)) BY <2>1
    <3>2. \A i \in 1 .. Len(Array(e, l)) : Array(e, l)[i] \in 1 .. MaxHistory BY ArrayType
    <3>3. QED BY <3>1, <3>2
  <2>3. sub \in Submission BY <2>2 DEF Submission, Conflict
  <2>4. loops' \in [Edges -> [Loops -> Loop]]
    <3> DEFINE n == [loops[e][l] EXCEPT !.at = loops[e][l].at + 1]
    <3>1. n \in Loop BY <1>1 DEF Loop
    <3>2. loops' = [loops EXCEPT ![e][l] = n] BY <2>1 DEF Advance
    <3> HIDE DEF n
    <3>3. QED BY <1>1, <3>1, <3>2 DEF TypeOK
  <2> HIDE DEF k, sent, sub
  <2>5. root' \in [versions : [Envelopes -> 0 .. MaxVersion],
                   revocations : SUBSET Revocation, submitted : SUBSET Submission]
    <3>1. root \in [versions : [Envelopes -> 0 .. MaxVersion],
                    revocations : SUBSET Revocation, submitted : SUBSET Submission]
        BY DEF TypeOK
    <3>2. root.submitted \union {sub} \in SUBSET Submission BY <2>3, <3>1
    <3>3. root' = root \/ root' = [root EXCEPT !.submitted = root.submitted \union {sub}] BY <2>1
    <3>4. QED BY <3>1, <3>2, <3>3
  <2>6. atRisk' \subseteq 1 .. MaxHistory BY <2>1, <2>2 DEF TypeOK
  <2>7. QED BY <2>1, <2>4, <2>5, <2>6 DEF TypeOK
<1>5. CASE ReconcileEnd(e, l)
  <2> DEFINE left(m) == [at |-> 1, live |-> FALSE, array |-> SubSeq(local[e], loops[e][m].at, Len(local[e]))]
             f == [m \in Loops |-> IF m = l THEN NoLoop
                                   ELSE IF Running(e, m) /\ loops[e][m].live THEN left(m)
                                   ELSE loops[e][m]]
  <2>1. loops' = [loops EXCEPT ![e] = f] BY <1>5 DEF ReconcileEnd
  <2>2. ASSUME NEW m \in Loops, Running(e, m) PROVE left(m) \in Loop
    <3>1. local[e] \in Seq(1 .. MaxHistory) /\ loops[e][m].at \in Nat /\ loops[e][m].at > 0
        BY <2>2, ArrayType DEF Running
    <3>2. SubSeq(local[e], loops[e][m].at, Len(local[e])) \in Seq(1 .. MaxHistory) BY <3>1, RestOfArray
    <3>3. QED BY <3>2 DEF Loop
  <2> HIDE DEF left
  <2>3. f \in [Loops -> Loop] BY <1>1, <1>2, <2>2
  <2> HIDE DEF f
  <2>4. loops' \in [Edges -> [Loops -> Loop]] BY <2>1, <2>3 DEF TypeOK
  <2>5. local' \in [Edges -> Seq(1 .. MaxHistory)] BY <1>5 DEF TypeOK, ReconcileEnd
  <2>6. QED BY <1>5, <2>4, <2>5 DEF TypeOK, ReconcileEnd
<1>6. QED BY <1>3, <1>4, <1>5 DEF Reconcile

\* Partitions, healing and the clock.
LEMMA NetworkType ==
    ASSUME TypeOK, Tick \/ \E links \in LinkSets : Partition(links) \/ Heal(links)
    PROVE  TypeOK'
<1>1. \A links \in LinkSets : links \subseteq SUBSET Nodes BY MeshAssumption
<1>2. MaxTime \in Nat /\ MaxCuts \in Nat BY MeshAssumption
<1>3. ASSUME NEW links \in LinkSets, Partition(links) PROVE TypeOK'
    BY <1>1, <1>2, <1>3 DEF TypeOK, Partition
<1>4. ASSUME NEW links \in LinkSets, Heal(links) PROVE TypeOK' BY <1>4 DEF TypeOK, Heal
<1>5. CASE Tick BY <1>2, <1>5 DEF TypeOK, Tick
<1>6. QED BY <1>3, <1>4, <1>5

\* Every step keeps the nodes and messages well formed.
LEMMA TypeStep == TypeOK /\ [Next]_vars => TypeOK'
<1> SUFFICES ASSUME TypeOK, [Next]_vars PROVE TypeOK' OBVIOUS
<1>1. CASE \E x \in Envelopes : issueEnvelope(x) \/ revoke(x) BY <1>1, RootType
<1>2. CASE \E e \in Edges, x \in Envelopes : GrantToken(e, x) BY <1>2, TokenType
<1>3. CASE \E t \in tasks : PropagateStep(t) BY <1>3, PropagateType
<1>4. CASE \E c \in Calls : EvaluateStep(c) BY <1>4, EvaluateType
<1>5. CASE \E p \in pulls : PullStep(p) BY <1>5, PullType
<1>6. CASE \E e \in Edges, l \in Loops : Reconcile(e, l) BY <1>6, ReconcileType
<1>7. CASE Tick \/ \E links \in LinkSets : Partition(links) \/ Heal(links) BY <1>7, NetworkType
<1>8. CASE UNCHANGED vars BY <1>8 DEF vars, TypeOK
<1>9. QED BY <1>1, <1>2, <1>3, <1>4, <1>5, <1>6, <1>7, <1>8 DEF Next

\* TypeOK: the state of the mesh stays well formed.
THEOREM TypeCorrect == Spec => []TypeOK
<1>1. QED BY InitTypeOK, TypeStep, PTL DEF Spec

-----------------------------------------------------------------------------
(* Cached versions                                                         *)

\* The steps that only concern the envelopes of tasks, caches and links.
Gossiping ==
    \/ \E x \in Envelopes : issueEnvelope(x) \/ revoke(x)
    \/ \E t \in tasks : PropagateStep(t)
    \/ \E links \in LinkSets : Partition(links) \/ Heal(links)

\* Every other step leaves versions, propagations and links as they are.
LEMMA OtherSteps ==
    ASSUME TypeOK, [Next]_vars, ~Gossiping
    PROVE  /\ root'.versions = root.versions /\ UNCHANGED <<tasks, cut, cuts>>
           /\ \A e \in Edges : edge'[e].versions = edge[e].versions
<1>1. /\ \A e \in Edges : edge[e] \in EdgeState
      /\ root \in [versions : [Envelopes -> 0 .. MaxVersion],
                   revocations : SUBSET Revocation, submitted : SUBSET Submission]
    BY DEF TypeOK
<1>2. CASE \E e \in Edges, x \in Envelopes : GrantToken(e, x)
    BY <1>1, <1>2 DEF GrantToken, TypeOK, EdgeState
<1>3. ASSUME NEW c \in Calls, EvaluateStep(c)
      PROVE  /\ UNCHANGED <<root, tasks, cut, cuts>>
             /\ \A e \in Edges : edge'[e].versions = edge[e].versions
  <2>1. CASE \E x \in Envelopes : EvaluateStart(c, x) BY <2>1 DEF EvaluateStart
  <2>2. CASE Ping(c) BY <2>2 DEF Ping
  <2>3. ASSUME NEW r, NEW n, Issue(c, r, n)
        PROVE  \A f \in Edges : edge'[f].versions = edge[f].versions
    <3> DEFINE m == [edge[EdgeOf[c]] EXCEPT !.reachable = r, !.sinceContact = n,
                       !.contact = IF r THEN clock ELSE edge[EdgeOf[c]].contact]
    <3>1. edge' = [edge EXCEPT ![EdgeOf[c]] = m] BY <2>3 DEF Issue
    <3>2. EdgeOf[c] \in Edges BY MeshAssumption
    <3>3. m.versions = edge[EdgeOf[c]].versions BY <1>1, <3>2 DEF EdgeState
    <3> HIDE DEF m
    <3>4. QED BY <3>1, <3>3 DEF TypeOK
  <2>4. CASE FinishReachable(c) BY <2>3, <2>4 DEF FinishReachable
  <2>5. CASE FinishUnreachable(c)
    <3>1. CASE edge' = [edge EXCEPT ![EdgeOf[c]].reachable = FALSE]
        BY <1>1, <2>5, <3>1 DEF TypeOK, EdgeState, FinishUnreachable
    <3>2. QED BY <2>3, <2>5, <3>1 DEF FinishUnreachable
  <2>6. QED BY <1>3, <2>1, <2>2, <2>4, <2>5 DEF EvaluateStep
<1>4. CASE \E p \in pulls : PullStep(p) BY <1>1, <1>4 DEF PullStep, TypeOK, EdgeState
<1>5. ASSUME NEW e \in Edges, NEW l \in Loops, Reconcile(e, l)
      PROVE  root'.versions = root.versions /\ UNCHANGED <<edge, tasks, cut, cuts>>
    BY <1>1, <1>5 DEF Reconcile, ReconcileStart, ReconcileStep, ReconcileEnd
<1>6. CASE Tick BY <1>6 DEF Tick
<1>7. CASE UNCHANGED vars BY <1>7 DEF vars
<1>8. QED BY <1>2, <1>3, <1>4, <1>5, <1>6, <1>7 DEF Next, Gossiping

\* The sends of one propagation reach every peer.
LEMMA HopsCover ==
    ASSUME NEW from, NEW peers, IsFiniteSet(peers), NEW p \in peers
    PROVE  \E i \in DOMAIN Hops(from, peers) : Hops(from, peers)[i] = <<from, p>>
<1> DEFINE order == SetToSeq(peers)
           n == Cardinality(peers)
<1>1. order \in [1 .. n -> peers] /\ n \in Nat BY OrderExists
<1>2. order \in Injection(1 .. n, peers)
  <2>1. ExistsBijection(1 .. n, peers) BY FS_CardinalityType
  <2>2. PICK f \in Bijection(1 .. n, peers) : TRUE BY <2>1 DEF ExistsBijection
  <2>3. f \in [1 .. n -> peers] /\ IsInjective(f)
      BY DEF Bijection, Injection, IsInjective
  <2>4. order \in [1 .. n -> peers] /\ IsInjective(order) BY <2>3 DEF SetToSeq
  <2> HIDE DEF order, n
  <2>5. QED BY <2>4, Zenon DEF Injection
<1>3. order \in Surjection(1 .. n, peers)
  <2>1. Cardinality(1 .. n) = n BY <1>1, FS_Interval
  <2> HIDE DEF order
  <2>2. QED BY <1>2, <2>1, FS_Injection
<1>4. Len(order) = n BY <1>1
<1> HIDE DEF order, n
<1>5. \E i \in 1 .. Len(order) : order[i] = p BY <1>3, <1>4 DEF Surjection
<1>6. Hops(from, peers) = [i \in 1 .. Len(order) |-> <<from, order[i]>>] BY DEF Hops, order
<1>7. QED BY <1>5, <1>6

\* A new propagation has a send on each path to each edge.
LEMMA NewTaskCovers ==
    ASSUME TypeOK, NEW x \in Envelopes, NEW v, NEW R, NEW e \in Edges, NEW path \in Paths(e)
    PROVE  \E i \in DOMAIN NewTask(x, v, R).todo : NewTask(x, v, R).todo[i] \in path
<1> DEFINE toWitnesses == Hops(Root, Witnesses)
           toEdges == Hops(Root, Edges)
<1>1. Root \in Nodes /\ Witnesses \in SUBSET Nodes /\ Edges \in SUBSET Nodes BY DEF Nodes
<1>2. toWitnesses \in Seq(Nodes \X Nodes) /\ toEdges \in Seq(Nodes \X Nodes)
    BY <1>1, HopsType, MeshAssumption
<1>3. NewTask(x, v, R).todo = toWitnesses \o toEdges BY DEF NewTask
<1>4. CASE path = {<<Root, e>>}
  <2>1. PICK i \in DOMAIN toEdges : toEdges[i] = <<Root, e>> BY HopsCover, MeshAssumption
  <2> HIDE DEF toWitnesses, toEdges
  <2>2. /\ Len(toWitnesses) + i \in DOMAIN (toWitnesses \o toEdges)
        /\ (toWitnesses \o toEdges)[Len(toWitnesses) + i] = <<Root, e>>
      BY <1>2, <2>1
  <2>3. QED BY <1>3, <1>4, <2>2
<1>5. ASSUME NEW w \in Witnesses, path = {<<Root, w>>, <<w, e>>}
      PROVE  \E i \in DOMAIN NewTask(x, v, R).todo : NewTask(x, v, R).todo[i] \in path
  <2>1. PICK i \in DOMAIN toWitnesses : toWitnesses[i] = <<Root, w>> BY HopsCover, MeshAssumption
  <2> HIDE DEF toWitnesses, toEdges
  <2>2. i \in DOMAIN (toWitnesses \o toEdges) /\ (toWitnesses \o toEdges)[i] = <<Root, w>>
      BY <1>2, <2>1
  <2>3. QED BY <1>3, <1>5, <2>2
<1>6. QED BY <1>4, <1>5 DEF Paths

\* Links that were cut stay on record.
LEMMA EverCutGrows ==
    ASSUME TypeOK, [Next]_vars
    PROVE  /\ EverCut \subseteq EverCut'
           /\ cut \subseteq EverCut => cut' \subseteq EverCut'
           /\ \A path : NeverCut(path)' => NeverCut(path)
<1>1. ASSUME NEW links \in LinkSets, Partition(links)
      PROVE  EverCut' = EverCut \union links /\ cut' = cut \union links
  <2>1. cuts \in Seq(LinkSets) /\ cuts' = Append(cuts, links) BY <1>1 DEF Partition, TypeOK
  <2>2. Range(cuts') = Range(cuts) \union {links} BY <2>1 DEF Range
  <2>3. QED BY <1>1, <2>2 DEF EverCut, Partition
<1>2. ASSUME NEW links \in LinkSets, Heal(links) PROVE cuts' = cuts /\ cut' \subseteq cut
    BY <1>2 DEF Heal
<1>3. (\E x \in Envelopes : issueEnvelope(x) \/ revoke(x)) \/ (\E t \in tasks : PropagateStep(t))
        => cut' = cut /\ cuts' = cuts
    BY DEF issueEnvelope, revoke, PropagateStep
<1>4. cuts' = cuts => EverCut' = EverCut BY DEF EverCut
<1>5. EverCut \subseteq EverCut' /\ (cut \subseteq EverCut => cut' \subseteq EverCut')
    BY <1>1, <1>2, <1>3, <1>4, OtherSteps DEF Gossiping
<1>6. QED BY <1>5 DEF NeverCut

\* Versions are numbers.
LEMMA VersionNumbers ==
    ASSUME TypeOK
    PROVE  /\ \A x \in Envelopes : root.versions[x] \in Nat
           /\ \A e \in Edges, x \in Envelopes : edge[e].versions[x] \in Nat
<1>1. root.versions \in [Envelopes -> 0 .. MaxVersion] /\ MaxVersion \in Nat
    BY MeshAssumption DEF TypeOK
<1>2. \A e \in Edges : edge[e].versions \in [Envelopes -> Nat] BY DEF TypeOK, EdgeState
<1>3. QED BY <1>1, <1>2

\* What one send does to the versions cached by the edges.
LEMMA SendEffect ==
    ASSUME TypeOK, VersionsInv, NEW t \in tasks, PropagateStep(t), NEW e \in Edges, NEW x \in Envelopes
    PROVE  /\ edge'[e].versions[x] <= root.versions[x]
           /\ edge'[e].versions[x] >= edge[e].versions[x]
           /\ Connected(Head(t.todo)[1], e) /\ Head(t.todo)[2] = e
                /\ t.envelope = x /\ t.revocation = {}
                  => edge'[e].versions[x] >= t.version
<1> DEFINE to == Head(t.todo)[2]
           reached == Connected(Head(t.todo)[1], to) /\ to \in Edges /\ QuorumMet(t)
<1>1. /\ t \in Task /\ edge[e] \in EdgeState /\ edge \in [Edges -> EdgeState]
      /\ root.versions[x] \in Nat /\ edge[e].versions[x] \in Nat
      /\ edge[e].versions[x] <= root.versions[x]
    BY VersionNumbers DEF TypeOK, VersionsInv
<1>2. t.envelope \in Envelopes /\ t.version \in Nat /\ t.version <= root.versions[t.envelope]
    BY <1>1 DEF Task, VersionsInv
<1>3. edge' = IF reached THEN [edge EXCEPT ![to] = Cache(edge[to], t)] ELSE edge
    BY DEF PropagateStep
<1>4. LET v == Cache(edge[e], t).versions[x] IN
        /\ v <= root.versions[x] /\ v >= edge[e].versions[x]
        /\ t.envelope = x /\ t.revocation = {} => v >= t.version
  <2>1. edge[e].versions \in [Envelopes -> Nat] BY <1>1 DEF EdgeState
  <2>2. CASE t.revocation # {}
    <3>1. Cache(edge[e], t).versions = edge[e].versions BY <1>1, <2>2 DEF Cache, EdgeState
    <3>2. QED BY <1>1, <2>2, <3>1
  <2>3. CASE t.revocation = {}
    <3>1. Cache(edge[e], t).versions = CacheVersion(edge[e].versions, t)
        BY <1>1, <2>3 DEF Cache, EdgeState
    <3>2. QED BY <1>1, <1>2, <2>1, <3>1 DEF CacheVersion
  <2>4. QED BY <2>2, <2>3
<1>5. t.revocation = {} => QuorumMet(t) BY DEF QuorumMet
<1> HIDE DEF to
<1>6. CASE reached /\ to = e BY <1>1, <1>3, <1>4, <1>6 DEF to
<1>7. CASE ~(reached /\ to = e)
  <2>1. edge'[e] = edge[e] BY <1>1, <1>3, <1>7
  <2>2. QED BY <1>1, <1>5, <1>7, <2>1 DEF to
<1>8. QED BY <1>6, <1>7

\* All but the head of a sequence is in what follows a concatenation.
LEMMA RestCovers ==
    ASSUME NEW S, NEW p \in Seq(S), NEW q \in Seq(S), NEW i \in DOMAIN q, i # 1
    PROVE  \E j \in DOMAIN (p \o Tail(q)) : (p \o Tail(q))[j] = q[i]
<1> DEFINE r == Tail(q)
           k == i - 1
<1>1. r \in Seq(S) /\ k \in 1 .. Len(r) /\ r[k] = q[i] OBVIOUS
<1> HIDE DEF r, k
<1>2. Len(p) + k \in DOMAIN (p \o r) /\ (p \o r)[Len(p) + k] = r[k] BY <1>1
<1>3. QED BY <1>1, <1>2 DEF r

\* A send takes the version it carries on, or delivers it.
LEMMA SendCarriesOn ==
    ASSUME TypeOK, VersionsInv, NEW t \in tasks, PropagateStep(t),
           NEW e \in Edges, NEW x \in Envelopes, NEW path \in Paths(e), NeverCut(path),
           Carries(t, x, path)
    PROVE  \/ edge'[e].versions[x] = root.versions[x]
           \/ \E u \in tasks' : Carries(u, x, path)'
<1> DEFINE from == Head(t.todo)[1]
           to == Head(t.todo)[2]
           forwards == IF Connected(from, to) /\ to \in Witnesses THEN Hops(to, Edges) ELSE <<>>
           rest == forwards \o Tail(t.todo)
           u == [t EXCEPT !.todo = rest]
<1>1. /\ t \in Task /\ t.todo \in Seq(Nodes \X Nodes) /\ t.todo # <<>>
      /\ t.envelope = x /\ t.revocation = {} /\ t.version = root.versions[x]
    BY DEF TypeOK, Task, Carries
<1>2. /\ tasks' = (tasks \ {t}) \union (IF rest = <<>> THEN {} ELSE {u})
      /\ root' = root
    BY DEF PropagateStep
<1>3. forwards \in Seq(Nodes \X Nodes)
  <2>1. to \in Witnesses => to \in Nodes BY DEF Nodes
  <2>2. Edges \in SUBSET Nodes BY DEF Nodes
  <2>3. to \in Witnesses => Hops(to, Edges) \in Seq(Nodes \X Nodes)
      BY <2>1, <2>2, HopsType, MeshAssumption
  <2>4. QED BY <2>3
<1>4. ASSUME \E i \in DOMAIN rest : rest[i] \in path
      PROVE  \E v \in tasks' : Carries(v, x, path)'
  <2> HIDE DEF rest
  <2>1. rest # <<>> BY <1>4
  <2>2. u.todo = rest /\ u.envelope = x /\ u.revocation = {} /\ u.version = root'.versions[x]
      BY <1>1, <1>2 DEF Task
  <2>3. PICK v \in tasks' : v = u BY <1>2, <2>1
  <2> HIDE DEF u
  <2>4. Carries(v, x, path)' BY <1>4, <2>2, <2>3 DEF Carries
  <2>5. QED BY <2>4
<1>5. PICK i \in DOMAIN t.todo : t.todo[i] \in path BY DEF Carries
<1>6. CASE i # 1
  <2> HIDE DEF forwards
  <2>1. t.todo \in Seq(Nodes \X Nodes) /\ i \in DOMAIN t.todo /\ i # 1 BY <1>1, <1>5, <1>6
  <2>2. \E j \in DOMAIN (forwards \o Tail(t.todo)) : (forwards \o Tail(t.todo))[j] = t.todo[i]
    <3> DEFINE S == Nodes \X Nodes
    <3>1. forwards \in Seq(S) /\ t.todo \in Seq(S) BY <1>3, <2>1
    <3> HIDE DEF S
    <3>2. \A p \in Seq(S), q \in Seq(S) : \A k \in DOMAIN q :
             k # 1 => \E j \in DOMAIN (p \o Tail(q)) : (p \o Tail(q))[j] = q[k]
        BY RestCovers
    <3>3. QED BY <2>1, <3>1, <3>2
  <2>3. \E j \in DOMAIN rest : rest[j] \in path BY <1>5, <2>2
  <2> HIDE DEF rest
  <2>4. QED BY <1>4, <2>3
<1>7. \A f \in Edges, y \in Envelopes : edge'[f].versions[y] \in Nat
  <2>1. edge' \in [Edges -> EdgeState] BY PropagateType DEF TypeOK
  <2>2. QED BY <2>1 DEF EdgeState
<1>8. CASE i = 1
  <2>1. Head(t.todo) \in path /\ Head(t.todo) = <<from, to>>
    <3>1. Head(t.todo) = t.todo[1] BY <1>1
    <3>2. Head(t.todo) \in Nodes \X Nodes BY <1>1
    <3>3. QED BY <1>5, <1>8, <3>1, <3>2
  <2>2. Connected(from, to)
    <3>1. Link(from, to) \notin EverCut BY <2>1 DEF NeverCut
    <3>2. QED BY <3>1 DEF Connected, VersionsInv
  <2>3. CASE to = e
    <3>1. edge'[e].versions[x] >= t.version /\ edge'[e].versions[x] <= root.versions[x]
        BY <1>1, <2>2, <2>3, SendEffect
    <3>2. edge'[e].versions[x] \in Nat /\ root.versions[x] \in Nat
        BY <1>7, VersionNumbers
    <3>3. QED BY <1>1, <3>1, <3>2
  <2>4. CASE to # e
    <3>1. PICK w \in Witnesses : path = {<<Root, w>>, <<w, e>>}
        BY <2>1, <2>4 DEF Paths
    <3>2. to = w BY <2>1, <2>4, <3>1
    <3>3. PICK j \in DOMAIN Hops(w, Edges) : Hops(w, Edges)[j] = <<w, e>>
        BY HopsCover, MeshAssumption
    <3>4. forwards = Hops(w, Edges) BY <2>2, <3>2
    <3>5. Tail(t.todo) \in Seq(Nodes \X Nodes) BY <1>1
    <3> HIDE DEF forwards, from, to
    <3>6. j \in DOMAIN rest /\ rest[j] = <<w, e>> BY <1>3, <3>3, <3>4, <3>5
    <3>7. QED BY <1>4, <3>1, <3>6
  <2>5. QED BY <2>3, <2>4
<1>9. QED BY <1>6, <1>8

\* Issuing a version starts it on every path; other envelopes see nothing.
LEMMA IssueVersions ==
    ASSUME TypeOK, VersionsInv, NEW y \in Envelopes, issueEnvelope(y) \/ revoke(y)
    PROVE  VersionsInv'
<1>1. /\ \A x \in Envelopes : root.versions[x] \in Nat
      /\ \A e \in Edges, x \in Envelopes : edge[e].versions[x] \in Nat
      /\ \A t \in tasks : t \in Task
    BY MeshAssumption DEF TypeOK, EdgeState
<1>2. cut' = cut /\ EverCut' = EverCut /\ edge' = edge
    BY DEF issueEnvelope, revoke, EverCut
<1>3. PICK v \in Nat, R \in {{}, {[target |-> y, revoked_at |-> clock]}} :
        /\ tasks' = tasks \union {NewTask(y, v, R)}
        /\ \/ R = {} /\ v = root'.versions[y] /\ v = root.versions[y] + 1
           \/ R # {} /\ v = 0 /\ root'.versions[y] = root.versions[y]
        /\ \A x \in Envelopes : x # y => root'.versions[x] = root.versions[x]
  <2>1. CASE issueEnvelope(y)
    <3>1. root'.versions = [root.versions EXCEPT ![y] = @ + 1] BY <2>1 DEF issueEnvelope, TypeOK
    <3>2. /\ root'.versions[y] = root.versions[y] + 1
          /\ \A x \in Envelopes : x # y => root'.versions[x] = root.versions[x]
        BY <3>1 DEF TypeOK
    <3>3. tasks' = tasks \union {NewTask(y, root.versions[y] + 1, {})} BY <2>1 DEF issueEnvelope
    <3>4. root.versions[y] + 1 \in Nat BY <1>1
    <3>5. QED BY <3>2, <3>3, <3>4
  <2>2. CASE revoke(y)
    <3> DEFINE rev == [target |-> y, revoked_at |-> clock]
    <3>1. root'.versions = root.versions BY <2>2 DEF revoke, TypeOK
    <3>2. tasks' = tasks \union {NewTask(y, 0, {rev})} BY <2>2 DEF revoke
    <3>3. \E R \in {{}, {rev}} : R # {} /\ tasks' = tasks \union {NewTask(y, 0, R)} BY <3>2
    <3>4. QED BY <3>1, <3>3
  <2>3. QED BY <2>1, <2>2
<1>4. \A x \in Envelopes : root'.versions[x] \in Nat /\ root'.versions[x] >= root.versions[x]
    BY <1>1, <1>3
<1> DEFINE new == NewTask(y, v, R)
<1>5. new.envelope = y /\ new.version = v /\ new.revocation = R BY DEF NewTask
<1>6. ASSUME NEW e \in Edges, NEW x \in Envelopes, NEW path \in Paths(e)
      PROVE  NeverCut(path)' => \/ edge'[e].versions[x] = root'.versions[x]
                                \/ \E t \in tasks' : Carries(t, x, path)'
  <2>1. CASE x = y /\ R = {}
    <3>1. \E i \in DOMAIN new.todo : new.todo[i] \in path BY NewTaskCovers
    <3>2. PICK t \in tasks' : t = new BY <1>3
    <3> HIDE DEF new
    <3>3. Carries(t, x, path)' BY <1>3, <1>5, <2>1, <3>1, <3>2 DEF Carries
    <3>4. QED BY <3>3
  <2>2. CASE ~(x = y /\ R = {})
    <3>1. root'.versions[x] = root.versions[x] BY <1>3, <2>2
    <3>2. \A t : Carries(t, x, path) => Carries(t, x, path)' BY <3>1 DEF Carries
    <3>3. NeverCut(path)' => NeverCut(path) BY <1>2 DEF NeverCut
    <3>4. tasks \subseteq tasks' BY <1>3
    <3>5. QED BY <1>2, <3>1, <3>2, <3>3, <3>4, Zenon DEF VersionsInv
  <2>3. QED BY <2>1, <2>2
<1>7. \A t \in tasks' : t.version <= root'.versions[t.envelope]
  <2>1. ASSUME NEW t \in tasks PROVE t.version <= root'.versions[t.envelope]
    <3>1. t.envelope \in Envelopes /\ t.version \in Nat BY <1>1 DEF Task
    <3>2. QED BY <1>1, <1>4, <3>1 DEF VersionsInv
  <2>2. new.version <= root'.versions[new.envelope] BY <1>1, <1>3, <1>5
  <2> HIDE DEF new
  <2>3. QED BY <1>3, <2>1, <2>2 DEF new
<1>8. \A e \in Edges, x \in Envelopes : edge'[e].versions[x] <= root'.versions[x]
    BY <1>1, <1>2, <1>4 DEF VersionsInv
<1>9. cut' \subseteq EverCut' BY <1>2 DEF VersionsInv
<1>10. QED BY <1>6, <1>7, <1>8, <1>9 DEF VersionsInv

\* Every step keeps a version an edge still misses on its way.
LEMMA VersionsStep == TypeOK /\ VersionsInv /\ [Next]_vars => VersionsInv'
<1> SUFFICES ASSUME TypeOK, VersionsInv, [Next]_vars PROVE VersionsInv' OBVIOUS
<1>1. CASE \E x \in Envelopes : issueEnvelope(x) \/ revoke(x) BY <1>1, IssueVersions
<1>2. ASSUME NEW t \in tasks, PropagateStep(t) PROVE VersionsInv'
  <2>1. root' = root /\ cut' = cut /\ cuts' = cuts BY <1>2 DEF PropagateStep
  <2>2. cut' \subseteq EverCut' BY <2>1 DEF VersionsInv, EverCut
  <2>3. ASSUME NEW u \in tasks' PROVE u.version <= root'.versions[u.envelope]
    <3>1. CASE u \in tasks BY <2>1, <3>1 DEF VersionsInv
    <3>2. CASE u \notin tasks
      <4>1. PICK rest : u = [t EXCEPT !.todo = rest] BY <1>2, <3>2 DEF PropagateStep
      <4>2. u.version = t.version /\ u.envelope = t.envelope BY <4>1 DEF TypeOK, Task
      <4>3. QED BY <2>1, <4>2 DEF VersionsInv
    <3>3. QED BY <3>1, <3>2
  <2>4. \A e \in Edges, x \in Envelopes : edge'[e].versions[x] <= root'.versions[x]
      BY <1>2, <2>1, SendEffect
  <2>5. ASSUME NEW e \in Edges, NEW x \in Envelopes, NEW path \in Paths(e), NeverCut(path)'
        PROVE  \/ edge'[e].versions[x] = root'.versions[x]
               \/ \E u \in tasks' : Carries(u, x, path)'
    <3>1. NeverCut(path) BY <2>1, <2>5 DEF NeverCut, EverCut
    <3>2. CASE edge[e].versions[x] = root.versions[x]
      <4>1. edge'[e].versions[x] <= root.versions[x] /\ edge'[e].versions[x] >= root.versions[x]
          BY <1>2, <3>2, SendEffect
      <4>2. edge'[e].versions[x] \in Nat /\ root.versions[x] \in Nat
        <5>1. edge' \in [Edges -> EdgeState] BY <1>2, PropagateType DEF TypeOK
        <5>2. QED BY <5>1, VersionNumbers DEF EdgeState
      <4>3. QED BY <2>1, <4>1, <4>2
    <3>3. ASSUME NEW u \in tasks, Carries(u, x, path), u # t
          PROVE  \E v \in tasks' : Carries(v, x, path)'
      <4>1. u \in tasks' BY <1>2, <3>3 DEF PropagateStep
      <4>2. Carries(u, x, path)' BY <2>1, <3>3 DEF Carries
      <4>3. QED BY <4>1, <4>2
    <3>4. CASE Carries(t, x, path) BY <1>2, <2>1, <3>1, <3>4, SendCarriesOn
    <3>5. QED BY <3>1, <3>2, <3>3, <3>4 DEF VersionsInv
  <2>6. QED BY <2>2, <2>3, <2>4, <2>5 DEF VersionsInv
<1>3. CASE /\ root'.versions = root.versions /\ tasks' = tasks
           /\ \A e \in Edges : edge'[e].versions = edge[e].versions
  <2>1. \A t, x, path : Carries(t, x, path) => Carries(t, x, path)' BY <1>3 DEF Carries
  <2>2. cut' \subseteq EverCut' /\ \A path : NeverCut(path)' => NeverCut(path)
      BY EverCutGrows DEF VersionsInv
  <2>3. \A t \in tasks' : t.version <= root'.versions[t.envelope] BY <1>3 DEF VersionsInv
  <2>4. ASSUME NEW e \in Edges, NEW x \in Envelopes
        PROVE  /\ edge'[e].versions[x] <= root'.versions[x]
               /\ \A path \in Paths(e) :
                    NeverCut(path)' =>
                       \/ edge'[e].versions[x] = root'.versions[x]
                       \/ \E t \in tasks' : Carries(t, x, path)'
      BY <1>3, <2>1, <2>2 DEF VersionsInv
  <2>5. QED BY <2>2, <2>3, <2>4 DEF VersionsInv
<1>4. CASE \E links \in LinkSets : Partition(links) \/ Heal(links)
    BY <1>3, <1>4 DEF Partition, Heal
<1>5. QED BY <1>1, <1>2, <1>3, <1>4, OtherSteps DEF Gossiping

\* NewestVersionArrives: whatever path and order envelopes arrive on, an edge
\* with a path that was never cut ends up with the root's version.
THEOREM VersionsArrive == Spec => []NewestVersionArrives
<1>1. Init => VersionsInv BY MeshAssumption DEF Init, VersionsInv
<1>2. VersionsInv => NewestVersionArrives BY DEF VersionsInv, NewestVersionArrives, Carries
<1>3. QED BY <1>1, <1>2, TypeCorrect, VersionsStep, PTL DEF Spec

-----------------------------------------------------------------------------
(* Kinds of steps                                                          *)

\* A step that issues, keeps and reconciles nothing; a revocation it may add
\* is stamped with the time.
Quiet ==
    /\ UNCHANGED <<local, loops, atRisk, issued>>
    /\ clock' >= clock
    /\ root'.submitted = root.submitted
    /\ root.revocations \subseteq root'.revocations
    /\ \A r \in root'.revocations \ root.revocations : r.revoked_at = clock
    /\ \A e \in Edges : edge'[e].sinceContact = edge[e].sinceContact

\* The end of an evaluation that issues a Warrant.
Issuing(c, reachable) ==
    /\ Issue(c, reachable, IF reachable THEN 1 ELSE edge[EdgeOf[c]].sinceContact + 1)
    /\ reachable \/ edge[EdgeOf[c]].sinceContact < MaxDisconnected
    /\ UNCHANGED <<clock, root, loops>>

\* Every step is of one of these kinds or a step of a reconcile().
LEMMA StepKinds ==
    ASSUME TypeOK, [Next]_vars
    PROVE  \/ Quiet
           \/ \E c \in Calls, reachable \in BOOLEAN : Issuing(c, reachable)
           \/ \E e \in Edges, l \in Loops : Reconcile(e, l)
<1>1. clock \in Nat /\ \A e \in Edges : edge[e] \in EdgeState BY DEF TypeOK
<1>2. ASSUME UNCHANGED <<local, loops, atRisk, issued, root, edge, clock>> PROVE Quiet
    BY <1>1, <1>2 DEF Quiet
<1>3. ASSUME NEW x \in Envelopes, issueEnvelope(x) PROVE Quiet
  <2>1. root'.revocations = root.revocations /\ root'.submitted = root.submitted
      BY <1>3 DEF issueEnvelope, TypeOK
  <2>2. QED BY <1>1, <1>3, <2>1 DEF issueEnvelope, Quiet
<1>4. ASSUME NEW x \in Envelopes, revoke(x) PROVE Quiet
  <2> DEFINE rev == [target |-> x, revoked_at |-> clock]
  <2>1. root'.revocations = root.revocations \union {rev} /\ root'.submitted = root.submitted
      BY <1>4 DEF revoke, TypeOK
  <2>2. rev.revoked_at = clock OBVIOUS
  <2> HIDE DEF rev
  <2>3. QED BY <1>1, <1>4, <2>1, <2>2 DEF revoke, Quiet
<1>5. ASSUME NEW e \in Edges, NEW x \in Envelopes, GrantToken(e, x) PROVE Quiet
  <2>1. \A f \in Edges : edge'[f].sinceContact = edge[f].sinceContact
      BY <1>1, <1>5 DEF GrantToken, TypeOK, EdgeState
  <2>2. QED BY <1>1, <1>5, <2>1 DEF GrantToken, Quiet
<1>6. ASSUME NEW t \in tasks, PropagateStep(t) PROVE Quiet
  <2> DEFINE to == Head(t.todo)[2]
  <2>1. t \in Task BY DEF TypeOK
  <2>2. edge' = edge \/ edge' = [edge EXCEPT ![to] = Cache(edge[to], t)]
      BY <1>6 DEF PropagateStep
  <2> HIDE DEF to
  <2>3. \A e \in Edges : edge'[e] = edge[e] \/ edge'[e] = Cache(edge[e], t) BY <2>2 DEF TypeOK
  <2>4. \A e \in Edges : edge'[e].sinceContact = edge[e].sinceContact
      BY <1>1, <2>1, <2>3, CacheType
  <2>5. QED BY <1>1, <1>6, <2>4 DEF PropagateStep, Quiet
<1>7. ASSUME NEW c \in Calls, EvaluateStep(c)
      PROVE  Quiet \/ \E reachable \in BOOLEAN : Issuing(c, reachable)
  <2>1. CASE \E x \in Envelopes : EvaluateStart(c, x)
    <3>1. UNCHANGED <<local, loops, atRisk, issued, root, edge, clock>> BY <2>1 DEF EvaluateStart
    <3>2. QED BY <1>2, <3>1
  <2>2. CASE Ping(c)
    <3>1. UNCHANGED <<local, loops, atRisk, issued, root, edge, clock>> BY <2>2 DEF Ping
    <3>2. QED BY <1>2, <3>1
  <2>3. CASE FinishReachable(c)
    <3>1. Issuing(c, TRUE) BY <2>3 DEF FinishReachable, Issuing
    <3>2. QED BY <3>1
  <2>4. CASE FinishUnreachable(c)
    <3>1. CASE QuotaLeft(EdgeOf[c]) /\ Issue(c, FALSE, edge[EdgeOf[c]].sinceContact + 1)
      <4>1. Issuing(c, FALSE) BY <2>4, <3>1 DEF FinishUnreachable, QuotaLeft, Issuing
      <4>2. QED BY <4>1
    <3>2. CASE /\ edge' = [edge EXCEPT ![EdgeOf[c]].reachable = FALSE]
               /\ UNCHANGED <<issued, local, atRisk>>
      <4>1. \A f \in Edges : edge'[f].sinceContact = edge[f].sinceContact
          BY <1>1, <3>2 DEF TypeOK, EdgeState
      <4>2. QED BY <1>1, <2>4, <3>2, <4>1 DEF FinishUnreachable, Quiet
    <3>3. QED BY <2>4, <3>1, <3>2 DEF FinishUnreachable
  <2>5. QED BY <1>7, <2>1, <2>2, <2>3, <2>4 DEF EvaluateStep
<1>8. ASSUME NEW p \in pulls, PullStep(p) PROVE Quiet
  <2>1. \A f \in Edges : edge'[f].sinceContact = edge[f].sinceContact
      BY <1>1, <1>8 DEF PullStep, TypeOK, EdgeState
  <2>2. QED BY <1>1, <1>8, <2>1 DEF PullStep, Quiet
<1>9. CASE \E links \in LinkSets : Partition(links) \/ Heal(links)
    BY <1>2, <1>9 DEF Partition, Heal
<1>10. CASE Tick BY <1>1, <1>10 DEF Tick, Quiet
<1>11. CASE UNCHANGED vars BY <1>2, <1>11 DEF vars
<1>12. QED
    BY <1>3, <1>4, <1>5, <1>6, <1>7, <1>8, <1>9, <1>10, <1>11 DEF Next

\* What a step that issues does to the lists and the counter.
LEMMA IssuingEffect ==
    ASSUME TypeOK, NEW c \in Calls, NEW reachable \in BOOLEAN, Issuing(c, reachable)
    PROVE  LET e == EdgeOf[c]
           IN /\ e \in Edges
              /\ reachable \/ edge[e].sinceContact < MaxDisconnected
              /\ edge'[e].sinceContact = IF reachable THEN 1 ELSE edge[e].sinceContact + 1
              /\ \A f \in Edges \ {e} : edge'[f] = edge[f]
              /\ \/ /\ Len(issued) >= MaxHistory
                    /\ UNCHANGED <<issued, local, atRisk>>
                 \/ \E w \in Warrant :
                       /\ Len(issued) < MaxHistory
                       /\ w.edge = e /\ w.root_reachable = reachable /\ w.issued_at = clock
                       /\ issued' = Append(issued, w)
                       /\ local' = [local EXCEPT ![e] = Append(@, Len(issued) + 1)]
                       /\ atRisk' = IF \E l \in Loops : Running(e, l) /\ ~loops[e][l].live
                                    THEN atRisk \union {Len(issued) + 1} ELSE atRisk
<1> DEFINE e == EdgeOf[c]
           counted == IF reachable THEN 1 ELSE edge[e].sinceContact + 1
           n == [edge[e] EXCEPT !.reachable = reachable, !.sinceContact = counted,
                                !.contact = IF reachable THEN clock ELSE edge[e].contact]
           w == [edge |-> e, envelope |-> calls[c].envelope, issued_at |-> clock,
                 root_reachable |-> reachable, observed |-> edge[e].revocations]
           tracked == Len(issued) < MaxHistory
<1>1. e \in Edges /\ edge[e] \in EdgeState /\ calls[c] \in Call /\ clock \in Nat
    BY MeshAssumption DEF TypeOK
<1>2. reachable \/ edge[e].sinceContact < MaxDisconnected BY DEF Issuing
<1>3. /\ edge' = [edge EXCEPT ![e] = n]
      /\ issued' = IF tracked THEN Append(issued, w) ELSE issued
      /\ local' = IF tracked THEN [local EXCEPT ![e] = Append(@, Len(issued) + 1)] ELSE local
      /\ atRisk' = IF tracked /\ \E l \in Loops : Running(e, l) /\ ~loops[e][l].live
                   THEN atRisk \union {Len(issued) + 1} ELSE atRisk
    BY DEF Issuing, Issue
<1>4. n.sinceContact = counted BY <1>1 DEF EdgeState
<1>5. /\ w \in Warrant /\ w.edge = e /\ w.root_reachable = reachable /\ w.issued_at = clock
    BY <1>1 DEF Warrant, EdgeState, Call
<1> HIDE DEF n, w
<1>6. edge'[e].sinceContact = counted /\ \A f \in Edges \ {e} : edge'[f] = edge[f]
    BY <1>1, <1>3, <1>4 DEF TypeOK
<1>7. ~tracked => Len(issued) >= MaxHistory BY MeshAssumption DEF TypeOK
<1>8. QED BY <1>1, <1>2, <1>3, <1>5, <1>6, <1>7

-----------------------------------------------------------------------------
(* The quota                                                               *)

\* IssuedBy, of any list of Warrants.
By(s, e, i, j) == {k \in i .. j : s[k].edge = e}

\* One more Warrant is one more of its own edge's and of no other's.
LEMMA AppendBy ==
    ASSUME NEW s \in Seq(Warrant), NEW w \in Warrant, NEW e, NEW i \in 1 .. Len(s) + 1
    PROVE  /\ \A j \in 1 .. Len(s) : By(Append(s, w), e, i, j) = By(s, e, i, j)
           /\ By(Append(s, w), e, i, Len(s) + 1) =
                By(s, e, i, Len(s)) \union (IF w.edge = e THEN {Len(s) + 1} ELSE {})
           /\ IsFiniteSet(By(s, e, i, Len(s))) /\ Cardinality(By(s, e, i, Len(s))) \in Nat
           /\ Len(s) + 1 \notin By(s, e, i, Len(s))
           /\ i = Len(s) + 1 => By(s, e, i, Len(s)) = {}
<1>1. Len(s) \in Nat /\ Append(s, w)[Len(s) + 1] = w
      /\ \A k \in 1 .. Len(s) : Append(s, w)[k] = s[k]
    OBVIOUS
<1> HIDE DEF Append
<1> DEFINE t == Append(s, w)
<1>2. t[Len(s) + 1] = w /\ \A k \in 1 .. Len(s) : t[k] = s[k] BY <1>1
<1> HIDE DEF t
<1>3. \A j \in 1 .. Len(s) : By(t, e, i, j) = By(s, e, i, j) BY <1>1, <1>2 DEF By
<1>4. By(t, e, i, Len(s) + 1) =
        By(s, e, i, Len(s)) \union (IF w.edge = e THEN {Len(s) + 1} ELSE {})
  <2>1. i .. Len(s) + 1 = (i .. Len(s)) \union {Len(s) + 1} BY <1>1
  <2>2. i .. Len(s) \subseteq 1 .. Len(s) BY <1>1
  <2>3. QED BY <1>2, <2>1, <2>2 DEF By
<1>5. IsFiniteSet(By(s, e, i, Len(s))) /\ Cardinality(By(s, e, i, Len(s))) \in Nat
  <2>1. IsFiniteSet(i .. Len(s)) BY <1>1, FS_Interval
  <2>2. By(s, e, i, Len(s)) \in SUBSET (i .. Len(s)) BY DEF By
  <2>3. QED BY <2>1, <2>2, FS_Subset, FS_CardinalityType
<1>6. Len(s) + 1 \notin By(s, e, i, Len(s)) BY <1>1 DEF By
<1>7. i = Len(s) + 1 => By(s, e, i, Len(s)) = {} BY <1>1 DEF By
<1>8. QED BY <1>3, <1>4, <1>5, <1>6, <1>7 DEF t

\* QuotaInv in terms of By.
Covered(s, e, n) ==
    \A i \in 1 .. Len(s) :
        (\A k \in By(s, e, i, Len(s)) : ~s[k].root_reachable) => Cardinality(By(s, e, i, Len(s))) <= n

Within(s, e) ==
    \A i, j \in 1 .. Len(s) :
        (\A k \in By(s, e, i, j) : ~s[k].root_reachable)
            => Cardinality(By(s, e, i, j)) <= MaxDisconnected

QuotaLists ==
    /\ \A e \in Edges : Within(issued, e)
    /\ Len(issued) < MaxHistory => \A e \in Edges : Covered(issued, e, edge[e].sinceContact)

\* The quota invariant, said of lists of Warrants.
LEMMA QuotaByLists == TypeOK => (QuotaInv <=> QuotaLists)
<1> SUFFICES ASSUME TypeOK PROVE QuotaInv <=> QuotaLists OBVIOUS
<1>1. DOMAIN issued = 1 .. Len(issued) BY DEF TypeOK
<1>2. \A e, i, j : IssuedBy(e, i, j) = By(issued, e, i, j) BY DEF IssuedBy, By
<1>3. QED BY <1>1, <1>2 DEF QuotaInv, QuotaHolds, QuotaLists, Within, Covered

\* And back, after a step.
LEMMA QuotaFromLists == TypeOK' /\ QuotaLists' => QuotaInv'
<1>1. QED BY QuotaByLists, PTL

\* Neither a Warrant nor a count: the quota is as it was.
LEMMA QuotaSame ==
    ASSUME TypeOK, TypeOK', QuotaInv, issued' = issued,
           \A e \in Edges : edge'[e].sinceContact = edge[e].sinceContact
    PROVE  QuotaInv'
<1>1. QuotaLists BY QuotaByLists
<1>2. QuotaLists' BY <1>1 DEF QuotaLists
<1>3. QED BY <1>2, QuotaFromLists

\* One Warrant more, of the edge whose counter says there is room for it or
\* whose counter starts again.
LEMMA AppendQuota ==
    ASSUME NEW s \in Seq(Warrant), NEW w \in Warrant, NEW e, NEW n \in Nat,
           Within(s, e), Covered(s, e, n), MaxDisconnected \in Nat,
           w.edge = e => w.root_reachable \/ n < MaxDisconnected
    PROVE  /\ Within(Append(s, w), e)
           /\ w.edge = e /\ w.root_reachable => \A m \in Nat : Covered(Append(s, w), e, m)
           /\ w.edge = e /\ ~w.root_reachable => Covered(Append(s, w), e, n + 1)
           /\ w.edge # e => Covered(Append(s, w), e, n)
<1> DEFINE t == Append(s, w)
           L == Len(s)
<1>1. L \in Nat /\ Len(t) = L + 1 /\ t[L + 1] = w /\ \A k \in 1 .. L : t[k] = s[k] OBVIOUS
<1>2. \A i \in 1 .. L + 1 :
        /\ \A j \in 1 .. L : By(t, e, i, j) = By(s, e, i, j)
        /\ By(t, e, i, L + 1) = By(s, e, i, L) \union (IF w.edge = e THEN {L + 1} ELSE {})
        /\ IsFiniteSet(By(s, e, i, L)) /\ Cardinality(By(s, e, i, L)) \in Nat
        /\ L + 1 \notin By(s, e, i, L)
        /\ i = L + 1 => By(s, e, i, L) = {}
    BY AppendBy
<1>3. \A i, j : By(s, e, i, j) \subseteq i .. j BY DEF By
<1> HIDE DEF t, L
\* How many of the edge's Warrants without contact reach to the end.
<1>4. ASSUME NEW i \in 1 .. L + 1, \A k \in By(t, e, i, L + 1) : ~t[k].root_reachable
      PROVE  /\ w.edge = e => /\ ~w.root_reachable
                              /\ Cardinality(By(t, e, i, L + 1)) <= n + 1
             /\ w.edge # e => /\ Cardinality(By(t, e, i, L + 1)) <= n
                              /\ Cardinality(By(t, e, i, L + 1)) <= MaxDisconnected
  <2>1. Cardinality(By(s, e, i, L)) <= n /\ Cardinality(By(s, e, i, L)) <= MaxDisconnected
    <3>1. CASE i = L + 1
      <4>1. By(s, e, i, L) = {} BY <1>2, <3>1
      <4>2. QED BY <4>1, FS_EmptySet
    <3>2. CASE i \in 1 .. L
      <4>1. L \in 1 .. L BY <1>1, <3>2
      <4>2. \A k \in By(s, e, i, L) : k \in 1 .. L BY <1>1, <1>3, <3>2
      <4>3. \A k \in By(s, e, i, L) : ~s[k].root_reachable
          BY <1>1, <1>2, <1>4, <4>2
      <4>4. QED BY <3>2, <4>1, <4>3 DEF Within, Covered, L
    <3>3. QED BY <1>1, <3>1, <3>2
  <2>2. CASE w.edge = e
    <3>1. By(t, e, i, L + 1) = By(s, e, i, L) \union {L + 1} BY <1>2, <2>2
    <3>2. ~w.root_reachable BY <1>1, <1>4, <3>1
    <3>3. Cardinality(By(t, e, i, L + 1)) = Cardinality(By(s, e, i, L)) + 1
        BY <1>2, <3>1, FS_AddElement
    <3>4. QED BY <1>2, <2>1, <2>2, <3>2, <3>3
  <2>3. CASE w.edge # e
    <3>1. By(t, e, i, L + 1) = By(s, e, i, L) BY <1>2, <2>3
    <3>2. QED BY <2>1, <2>3, <3>1
  <2>4. QED BY <2>2, <2>3
<1>5. \A i \in 1 .. L + 1 : Cardinality(By(t, e, i, L + 1)) \in Nat
  <2> SUFFICES ASSUME NEW i \in 1 .. L + 1 PROVE Cardinality(By(t, e, i, L + 1)) \in Nat OBVIOUS
  <2>1. CASE w.edge = e BY <1>2, <2>1, FS_AddElement, FS_CardinalityType
  <2>2. CASE w.edge # e BY <1>2, <2>2
  <2>3. QED BY <2>1, <2>2
<1>6. Within(t, e)
  <2> SUFFICES ASSUME NEW i \in 1 .. L + 1, NEW j \in 1 .. L + 1,
                      \A k \in By(t, e, i, j) : ~t[k].root_reachable
               PROVE  Cardinality(By(t, e, i, j)) <= MaxDisconnected
      BY <1>1 DEF Within
  <2>1. CASE j = L + 1
    <3>1. CASE w.edge = e BY <1>4, <1>5, <2>1, <3>1
    <3>2. CASE w.edge # e BY <1>4, <2>1, <3>2
    <3>3. QED BY <3>1, <3>2
  <2>2. CASE j \in 1 .. L
    <3>1. By(t, e, i, j) = By(s, e, i, j) BY <1>2, <2>2
    <3>2. CASE i \in 1 .. L
      <4>1. \A k \in By(s, e, i, j) : k \in 1 .. L BY <1>1, <1>3, <2>2, <3>2
      <4>2. \A k \in By(s, e, i, j) : ~s[k].root_reachable BY <1>1, <3>1, <4>1
      <4>3. QED BY <2>2, <3>1, <3>2, <4>2 DEF Within, L
    <3>3. CASE i = L + 1
      <4>1. By(s, e, i, j) = {} BY <1>1, <1>3, <2>2, <3>3
      <4>2. QED BY <3>1, <4>1, FS_EmptySet
    <3>4. QED BY <1>1, <3>2, <3>3
  <2>3. QED BY <1>1, <2>1, <2>2
<1>7. w.edge = e /\ w.root_reachable => \A m \in Nat : Covered(t, e, m)
    BY <1>1, <1>4 DEF Covered
<1>8. w.edge = e /\ ~w.root_reachable => Covered(t, e, n + 1) BY <1>1, <1>4 DEF Covered
<1>9. w.edge # e => Covered(t, e, n) BY <1>1, <1>4 DEF Covered
<1>10. QED BY <1>6, <1>7, <1>8, <1>9 DEF t

\* The quota's invariant is kept by a step that issues.
LEMMA QuotaIssuing ==
    ASSUME TypeOK, TypeOK', QuotaInv, NEW c \in Calls, NEW reachable \in BOOLEAN, Issuing(c, reachable)
    PROVE  QuotaInv'
<1> DEFINE e == EdgeOf[c]
<1>1. e \in Edges /\ \A f \in Edges : edge[f].sinceContact \in Nat
    BY MeshAssumption DEF TypeOK, EdgeState
<1>2. /\ \A f \in Edges : Within(issued, f)
      /\ Len(issued) < MaxHistory => \A f \in Edges : Covered(issued, f, edge[f].sinceContact)
    BY QuotaByLists DEF QuotaLists
<1>3. /\ reachable \/ edge[e].sinceContact < MaxDisconnected
      /\ edge'[e].sinceContact = IF reachable THEN 1 ELSE edge[e].sinceContact + 1
      /\ \A f \in Edges \ {e} : edge'[f] = edge[f]
      /\ \/ Len(issued) >= MaxHistory /\ issued' = issued
         \/ \E w \in Warrant : /\ Len(issued) < MaxHistory
                               /\ w.edge = e /\ w.root_reachable = reachable
                               /\ issued' = Append(issued, w)
    BY IssuingEffect
<1>4. issued \in Seq(Warrant) /\ Len(issued) \in Nat /\ MaxHistory \in Nat /\ MaxDisconnected \in Nat
    BY MeshAssumption DEF TypeOK
<1> HIDE DEF e
<1>5. /\ \A f \in Edges : Within(issued', f)
      /\ Len(issued') < MaxHistory => \A f \in Edges : Covered(issued', f, edge'[f].sinceContact)
  <2>1. CASE Len(issued) >= MaxHistory /\ issued' = issued BY <1>2, <1>4, <2>1
  <2>2. ASSUME NEW w \in Warrant, w.edge = e, w.root_reachable = reachable,
               issued' = Append(issued, w), Len(issued) < MaxHistory
        PROVE  \A f \in Edges : Within(issued', f) /\ Covered(issued', f, edge'[f].sinceContact)
    <3> SUFFICES ASSUME NEW f \in Edges
                 PROVE  Within(issued', f) /\ Covered(issued', f, edge'[f].sinceContact)
        OBVIOUS
    <3>1. w.edge = f => w.root_reachable \/ edge[f].sinceContact < MaxDisconnected BY <1>3, <2>2
    <3>2. /\ Within(Append(issued, w), f)
          /\ w.edge = f /\ w.root_reachable => \A m \in Nat : Covered(Append(issued, w), f, m)
          /\ w.edge = f /\ ~w.root_reachable => Covered(Append(issued, w), f, edge[f].sinceContact + 1)
          /\ w.edge # f => Covered(Append(issued, w), f, edge[f].sinceContact)
        BY <1>1, <1>2, <1>4, <2>2, <3>1, AppendQuota
    <3>3. CASE w.edge = f BY <1>3, <2>2, <3>2, <3>3
    <3>4. CASE w.edge # f BY <1>3, <2>2, <3>2, <3>4
    <3>5. QED BY <3>3, <3>4
  <2>3. QED BY <1>3, <2>1, <2>2
<1>6. QuotaLists' BY <1>5 DEF QuotaLists
<1>7. QED BY <1>6, QuotaFromLists

-----------------------------------------------------------------------------
(* Decisions and answers                                                   *)

\* Everything but types and the quota.
LedgerInv ==
    StampsOK /\ PositionsOK /\ AnswersOK /\ LoopsOK /\ DecisionsReconciled

\* Settled, with the submissions and the decisions at risk given.
Done(k, submitted, risk) == k \in risk \/ \E s \in submitted : s.warrant = k

\* What types say of the lists.
LEMMA ListTypes ==
    ASSUME TypeOK
    PROVE  /\ clock \in Nat /\ Len(issued) \in Nat /\ DOMAIN issued = 1 .. Len(issued)
           /\ \A k \in DOMAIN issued : /\ issued[k] \in Warrant /\ issued[k].edge \in Edges
                                       /\ issued[k].issued_at \in Nat
           /\ \A r \in root.revocations : r.revoked_at \in Nat
           /\ \A e \in Edges : /\ local[e] \in Seq(1 .. MaxHistory)
                               /\ Len(local[e]) \in Nat /\ DOMAIN local[e] = 1 .. Len(local[e])
<1>1. clock \in Nat /\ issued \in Seq(Warrant) /\ \A e \in Edges : local[e] \in Seq(1 .. MaxHistory)
    BY DEF TypeOK
<1>2. \A r \in root.revocations : r.revoked_at \in Nat BY DEF TypeOK, Revocation
<1>3. \A k \in DOMAIN issued : issued[k] \in Warrant BY <1>1
<1>4. \A w \in Warrant : w.edge \in Edges /\ w.issued_at \in Nat BY DEF Warrant
<1>5. QED BY <1>1, <1>2, <1>3, <1>4

\* A quiet step: the revocation it may add is not older than any Warrant.
LEMMA LedgerQuiet ==
    ASSUME TypeOK, TypeOK', LedgerInv, Quiet
    PROVE  LedgerInv'
<1>1. /\ UNCHANGED <<local, loops, atRisk, issued>> /\ clock' >= clock
      /\ root'.submitted = root.submitted /\ root.revocations \subseteq root'.revocations
      /\ \A r \in root'.revocations \ root.revocations : r.revoked_at = clock
    BY DEF Quiet
<1>2. /\ clock \in Nat /\ clock' \in Nat
      /\ \A k \in DOMAIN issued : issued[k].issued_at \in Nat
      /\ \A r \in root.revocations : r.revoked_at \in Nat
    BY ListTypes DEF TypeOK
<1>3. StampsOK'
  <2>1. \A k \in DOMAIN issued : issued[k].issued_at <= clock BY DEF LedgerInv, StampsOK
  <2>2. \A r \in root.revocations : r.revoked_at <= clock BY DEF LedgerInv, StampsOK
  <2>3. \A k \in DOMAIN issued : issued[k].issued_at <= clock' BY <1>1, <1>2, <2>1
  <2>4. \A r \in root'.revocations : r.revoked_at <= clock' BY <1>1, <1>2, <2>2
  <2>5. QED BY <1>1, <2>3, <2>4 DEF StampsOK
<1>4. PositionsOK' BY <1>1 DEF LedgerInv, PositionsOK
<1>5. AnswersOK'
  <2> SUFFICES ASSUME NEW s \in root.submitted
               PROVE  LET w == issued[s.warrant]
                          revs == {r \in root'.revocations : r.target = w.envelope}
                      IN IF s.conflict THEN \E r \in revs : r.revoked_at <= w.issued_at
                         ELSE \A r \in revs : r.revoked_at >= w.issued_at
      BY <1>1 DEF AnswersOK
  <2> DEFINE w == issued[s.warrant]
             old == {r \in root.revocations : r.target = w.envelope}
             new == {r \in root'.revocations : r.target = w.envelope}
  <2>1. IF s.conflict THEN \E r \in old : r.revoked_at <= w.issued_at
        ELSE \A r \in old : r.revoked_at >= w.issued_at
      BY DEF LedgerInv, AnswersOK
  <2>2. clock >= w.issued_at BY <1>2 DEF LedgerInv, PositionsOK, StampsOK
  <2>3. old \subseteq new /\ \A r \in new \ old : r.revoked_at = clock BY <1>1
  <2>4. QED BY <2>1, <2>2, <2>3
<1>6. LoopsOK' BY <1>1 DEF LedgerInv, LoopsOK, Running, Array, Settled
<1>7. DecisionsReconciled' BY <1>1 DEF LedgerInv, DecisionsReconciled, OnItsWay, Running, Array
<1>8. QED BY <1>3, <1>4, <1>5, <1>6, <1>7 DEF LedgerInv

\* A step that issues: the new Warrant is kept, and at risk if some loop of
\* its edge reads a replaced array.
LEMMA LedgerIssuing ==
    ASSUME TypeOK, LedgerInv, NEW c \in Calls, NEW reachable \in BOOLEAN, Issuing(c, reachable)
    PROVE  LedgerInv'
<1> DEFINE e == EdgeOf[c]
           L == Len(issued)
<1>1. e \in Edges /\ UNCHANGED <<clock, root, loops>> BY IssuingEffect DEF Issuing
<1>2. \/ UNCHANGED <<issued, local, atRisk>>
      \/ \E w \in Warrant :
            /\ w.edge = e /\ w.issued_at = clock
            /\ issued' = Append(issued, w)
            /\ local' = [local EXCEPT ![e] = Append(@, L + 1)]
            /\ atRisk' = IF \E l \in Loops : Running(e, l) /\ ~loops[e][l].live
                         THEN atRisk \union {L + 1} ELSE atRisk
    BY IssuingEffect
<1> HIDE DEF e
<1>3. CASE UNCHANGED <<issued, local, atRisk>>
    BY <1>1, <1>3 DEF LedgerInv, StampsOK, PositionsOK, AnswersOK, LoopsOK, DecisionsReconciled,
                      OnItsWay, Settled, Running, Array
<1>4. ASSUME NEW w \in Warrant, w.edge = e, w.issued_at = clock,
             issued' = Append(issued, w),
             local' = [local EXCEPT ![e] = Append(@, L + 1)],
             atRisk' = IF \E l \in Loops : Running(e, l) /\ ~loops[e][l].live
                       THEN atRisk \union {L + 1} ELSE atRisk
      PROVE  LedgerInv'
  <2>1. /\ clock \in Nat /\ L \in Nat /\ DOMAIN issued = 1 .. L
        /\ \A f \in Edges : /\ local[f] \in Seq(1 .. MaxHistory)
                            /\ Len(local[f]) \in Nat /\ DOMAIN local[f] = 1 .. Len(local[f])
      BY ListTypes
  <2>2. /\ DOMAIN issued' = 1 .. L + 1 /\ issued'[L + 1] = w
        /\ \A k \in 1 .. L : issued'[k] = issued[k]
      BY <1>4 DEF TypeOK
  <2>3. /\ DOMAIN local'[e] = 1 .. Len(local[e]) + 1 /\ Len(local'[e]) = Len(local[e]) + 1
        /\ local'[e][Len(local[e]) + 1] = L + 1
        /\ \A i \in 1 .. Len(local[e]) : local'[e][i] = local[e][i]
    <3>1. local'[e] = Append(local[e], L + 1) BY <1>1, <1>4 DEF TypeOK
    <3>2. local[e] \in Seq(1 .. MaxHistory) BY <1>1, <2>1
    <3> HIDE DEF L
    <3>3. QED BY <3>1, <3>2
  <2>4. \A f \in Edges \ {e} : local'[f] = local[f] BY <1>4 DEF TypeOK
  <2> HIDE DEF L
  <2>5. StampsOK' BY <1>1, <1>4, <2>1, <2>2 DEF LedgerInv, StampsOK
  <2>6. PositionsOK'
    <3>1. ASSUME NEW f \in Edges, NEW i \in DOMAIN local'[f] PROVE local'[f][i] \in 1 .. L + 1
      <4>1. CASE f = e
        <5>1. CASE i \in 1 .. Len(local[e]) BY <1>1, <2>1, <2>3, <4>1, <5>1 DEF LedgerInv, PositionsOK
        <5>2. CASE i = Len(local[e]) + 1 BY <2>1, <2>3, <4>1, <5>2
        <5>3. QED BY <1>1, <2>1, <2>3, <3>1, <4>1, <5>1, <5>2
      <4>2. CASE f # e BY <2>1, <2>4, <3>1, <4>2 DEF LedgerInv, PositionsOK
      <4>3. QED BY <4>1, <4>2
    <3>2. \A f \in Edges, l \in Loops :
             \A i \in DOMAIN loops[f][l].array : loops[f][l].array[i] \in 1 .. L + 1
        BY <2>1 DEF LedgerInv, PositionsOK
    <3>3. \A s \in root.submitted : s.warrant \in 1 .. L + 1 BY <2>1 DEF LedgerInv, PositionsOK
    <3>4. QED BY <1>1, <2>2, <3>1, <3>2, <3>3 DEF PositionsOK
  <2>7. AnswersOK'
    <3>1. \A s \in root.submitted : issued'[s.warrant] = issued[s.warrant]
        BY <2>1, <2>2 DEF LedgerInv, PositionsOK
    <3>2. QED BY <1>1, <3>1 DEF LedgerInv, AnswersOK
  <2>8. \A k : Done(k, root.submitted, atRisk) => Done(k, root.submitted, atRisk') BY <1>4 DEF Done
  <2>9. \A f \in Edges, l \in Loops :
          /\ Running(f, l)' <=> Running(f, l)
          /\ Len(Array(f, l)') >= Len(Array(f, l))
          /\ Len(Array(f, l)) \in Nat /\ Len(Array(f, l)') \in Nat
          /\ \A i \in 1 .. Len(Array(f, l)) : Array(f, l)'[i] = Array(f, l)[i]
    <3> SUFFICES ASSUME NEW f \in Edges, NEW l \in Loops
                 PROVE  /\ Running(f, l)' <=> Running(f, l)
                        /\ Len(Array(f, l)') >= Len(Array(f, l))
                        /\ Len(Array(f, l)) \in Nat /\ Len(Array(f, l)') \in Nat
                        /\ \A i \in 1 .. Len(Array(f, l)) : Array(f, l)'[i] = Array(f, l)[i]
        OBVIOUS
    <3>1. Running(f, l)' <=> Running(f, l) BY <1>1 DEF Running
    <3>2. Array(f, l) \in Seq(1 .. MaxHistory) BY ArrayType
    <3>3. CASE loops[f][l].live /\ f = e
        BY <1>1, <2>1, <2>3, <3>1, <3>3 DEF Array
    <3>4. CASE ~(loops[f][l].live /\ f = e)
      <4>1. Array(f, l)' = Array(f, l) BY <1>1, <2>4, <3>4 DEF Array
      <4>2. QED BY <3>1, <3>2, <4>1
    <3>5. QED BY <3>3, <3>4
  <2>10. LoopsOK'
    <3>1. ASSUME NEW f \in Edges, NEW l \in Loops, Running(f, l)
          PROVE  /\ loops[f][l].at <= Len(Array(f, l)') + 1
                 /\ \A i \in DOMAIN local'[f] :
                      (loops[f][l].live /\ i >= loops[f][l].at) \/ Done(local'[f][i], root.submitted, atRisk')
      <4>1. /\ loops[f][l].at <= Len(Array(f, l)) + 1 /\ loops[f][l].at \in Nat
            /\ \A i \in DOMAIN local[f] :
                 (loops[f][l].live /\ i >= loops[f][l].at) \/ Done(local[f][i], root.submitted, atRisk)
          BY <3>1, ArrayType DEF LedgerInv, LoopsOK, Settled, Done
      <4>2. loops[f][l].at <= Len(Array(f, l)') + 1 BY <2>9, <4>1
      <4>3. ASSUME NEW i \in DOMAIN local'[f]
            PROVE  (loops[f][l].live /\ i >= loops[f][l].at) \/ Done(local'[f][i], root.submitted, atRisk')
        <5>1. CASE f # e BY <2>4, <2>8, <4>1, <4>3, <5>1
        <5>2. CASE f = e /\ i \in 1 .. Len(local[e]) BY <2>1, <2>3, <2>8, <4>1, <5>2
        <5>3. CASE f = e /\ i = Len(local[e]) + 1 /\ loops[f][l].live
          <6>1. Array(f, l) = local[e] BY <5>3 DEF Array
          <6>2. QED BY <4>1, <5>3, <6>1
        <5>4. CASE f = e /\ i = Len(local[e]) + 1 /\ ~loops[f][l].live
          <6>1. L + 1 \in atRisk' BY <1>4, <3>1, <5>4
          <6>2. local'[f][i] = L + 1 BY <2>3, <5>4
          <6>3. QED BY <6>1, <6>2 DEF Done
        <5>5. QED BY <1>1, <2>1, <2>3, <4>3, <5>1, <5>2, <5>3, <5>4
      <4>4. QED BY <4>2, <4>3
    <3>2. loops' = loops /\ root' = root BY <1>1
    <3>3. QED BY <3>1, <3>2 DEF LoopsOK, Running, Array, Settled, Done
  <2>11. DecisionsReconciled'
    <3> SUFFICES ASSUME NEW k \in 1 .. L + 1, NEW f, f = issued'[k].edge
                 PROVE  OnItsWay(f, k)'
        BY <2>2 DEF DecisionsReconciled, OnItsWay, Running, Array
    <3>1. CASE k = L + 1
      <4>1. k \in Range(local'[e]) BY <2>1, <2>3, <3>1 DEF Range
      <4>2. QED BY <1>4, <2>2, <3>1, <4>1 DEF OnItsWay
    <3>2. CASE k \in 1 .. L
      <4>1. issued[k].edge = f /\ f \in Edges BY <2>1, <2>2, <3>2, ListTypes
      <4>2. CASE k \in Range(local[f])
        <5>1. PICK i \in 1 .. Len(local[f]) : local[f][i] = k BY <2>1, <4>1, <4>2 DEF Range
        <5>2. i \in DOMAIN local'[f] /\ local'[f][i] = k
          <6>1. CASE f = e
            <7>1. Len(local[e]) \in Nat BY <1>1, <2>1
            <7>2. i \in 1 .. Len(local[e]) /\ local[e][i] = k BY <5>1, <6>1
            <7>3. local'[e][i] = k BY <2>3, <7>2
            <7>4. i \in DOMAIN local'[e] BY <2>3, <7>1, <7>2
            <7>5. QED BY <6>1, <7>3, <7>4
          <6>2. CASE f # e
            <7>1. local'[f] = local[f] BY <2>4, <4>1, <6>2
            <7>2. i \in DOMAIN local[f] BY <2>1, <4>1, <5>1
            <7>3. QED BY <5>1, <7>1, <7>2
          <6>3. QED BY <6>1, <6>2
        <5>3. QED BY <5>2 DEF Range, OnItsWay
      <4>3. CASE \E l \in Loops : Running(f, l) /\ \E i \in loops[f][l].at .. Len(Array(f, l)) :
                                       Array(f, l)[i] = k
        <5>6. PICK l \in Loops : Running(f, l) /\ \E i \in loops[f][l].at .. Len(Array(f, l)) :
                                                     Array(f, l)[i] = k
            BY <4>3
        <5>1. PICK i \in loops[f][l].at .. Len(Array(f, l)) : Array(f, l)[i] = k BY <5>6
        <5>2. loops[f][l].at \in Nat /\ loops[f][l].at > 0 BY <4>1, <5>6, ArrayType DEF Running
        <5>3. Len(Array(f, l)) \in Nat /\ Len(Array(f, l)') \in Nat BY <2>9, <4>1
        <5>4. i \in 1 .. Len(Array(f, l)) /\ i \in loops[f][l].at .. Len(Array(f, l)')
            BY <2>9, <4>1, <5>1, <5>2, <5>3
        <5>5. Array(f, l)'[i] = k BY <2>9, <4>1, <5>1, <5>4
        <5>7. Running(f, l)' /\ loops' = loops BY <1>1, <5>6 DEF Running
        <5>8. QED BY <5>4, <5>5, <5>7 DEF OnItsWay
      <4>4. CASE \E s \in root.submitted : s.warrant = k BY <1>1, <4>4 DEF OnItsWay
      <4>5. CASE k \in atRisk BY <1>4, <4>5 DEF OnItsWay
      <4>6. QED BY <2>1, <3>2, <4>1, <4>2, <4>3, <4>4, <4>5 DEF LedgerInv, DecisionsReconciled, OnItsWay
    <3>3. QED BY <2>1, <3>1, <3>2
  <2>12. QED BY <2>5, <2>6, <2>7, <2>10, <2>11 DEF LedgerInv
<1>5. QED BY <1>2, <1>3, <1>4

\* A reconcile() begins at the start of the edge's list.
LEMMA LedgerStart ==
    ASSUME TypeOK, LedgerInv, NEW e \in Edges, NEW l \in Loops, ReconcileStart(e, l)
    PROVE  LedgerInv'
<1>1. /\ UNCHANGED <<clock, root, local, atRisk, issued>>
      /\ loops' = [loops EXCEPT ![e][l] = [NoLoop EXCEPT !.at = 1]]
      /\ ~Running(e, l) /\ local[e] # <<>>
    BY DEF ReconcileStart
<1>2. /\ loops'[e][l].at = 1 /\ loops'[e][l].live /\ loops'[e][l].array = <<>>
      /\ \A f \in Edges, m \in Loops : <<f, m>> # <<e, l>> => loops'[f][m] = loops[f][m]
    BY <1>1 DEF TypeOK, NoLoop
<1>3. StampsOK' /\ AnswersOK' BY <1>1 DEF LedgerInv, StampsOK, AnswersOK
<1>4. PositionsOK'
  <2>1. \A f \in Edges, m \in Loops : \A i \in DOMAIN loops'[f][m].array :
           loops'[f][m].array[i] \in DOMAIN issued
      BY <1>2 DEF LedgerInv, PositionsOK
  <2>2. QED BY <1>1, <2>1 DEF LedgerInv, PositionsOK
<1>5. LoopsOK'
  <2>1. ASSUME NEW f \in Edges, NEW m \in Loops, loops'[f][m].at > 0
        PROVE  /\ loops'[f][m].at <= Len(IF loops'[f][m].live THEN local[f] ELSE loops'[f][m].array) + 1
               /\ \A i \in DOMAIN local[f] :
                    (loops'[f][m].live /\ i >= loops'[f][m].at) \/ Done(local[f][i], root.submitted, atRisk)
    <3>1. CASE <<f, m>> = <<e, l>> BY <1>2, <3>1, ListTypes
    <3>2. CASE <<f, m>> # <<e, l>>
      <4>1. loops'[f][m] = loops[f][m] BY <1>2, <3>2
      <4>2. QED BY <2>1, <4>1 DEF LedgerInv, LoopsOK, Running, Array, Settled, Done
    <3>3. QED BY <3>1, <3>2
  <2>2. QED BY <1>1, <2>1 DEF LoopsOK, Running, Array, Settled, Done
<1>6. DecisionsReconciled'
  <2>1. ASSUME NEW k \in DOMAIN issued, NEW f, f = issued[k].edge PROVE OnItsWay(f, k)'
    <3>1. f \in Edges /\ OnItsWay(f, k)
        BY <2>1, ListTypes DEF LedgerInv, DecisionsReconciled
    <3>2. CASE \E m \in Loops : Running(f, m) /\ \E i \in loops[f][m].at .. Len(Array(f, m)) :
                                     Array(f, m)[i] = k
      <4>1. PICK m \in Loops : Running(f, m) /\ \E i \in loops[f][m].at .. Len(Array(f, m)) :
                                                   Array(f, m)[i] = k
          BY <3>2
      <4>2. loops'[f][m] = loops[f][m] BY <1>1, <1>2, <3>1, <4>1
      <4>3. QED BY <1>1, <4>1, <4>2 DEF OnItsWay, Running, Array
    <3>3. CASE k \in Range(local[f]) \/ k \in atRisk \/ \E s \in root.submitted : s.warrant = k
        BY <1>1, <3>3 DEF OnItsWay
    <3>4. QED BY <3>1, <3>2, <3>3 DEF OnItsWay
  <2>2. QED BY <1>1, <2>1 DEF DecisionsReconciled, OnItsWay, Running, Array
<1>7. QED BY <1>3, <1>4, <1>5, <1>6 DEF LedgerInv

\* A decision a reconcile() has sent is submitted, one it could not send is
\* at risk; either way it is settled, and the answer is right.
LEMMA LedgerSend ==
    ASSUME TypeOK, LedgerInv, NEW e \in Edges, NEW l \in Loops, ReconcileStep(e, l)
    PROVE  LedgerInv'
<1> DEFINE a == loops[e][l].at
           k == Array(e, l)[a]
           sent == Connected(e, Root) /\ root.versions[issued[k].envelope] > 0
           sub == [warrant |-> k, conflict |-> Conflict(issued[k])]
<1>1. /\ a \in 1 .. Len(Array(e, l))
      /\ loops' = [loops EXCEPT ![e][l].at = a + 1]
      /\ root' = IF sent THEN [root EXCEPT !.submitted = @ \union {sub}] ELSE root
      /\ atRisk' = IF sent THEN atRisk \ {k} ELSE atRisk \union {k}
      /\ UNCHANGED <<clock, local, issued>>
    BY DEF ReconcileStep, Advance
<1>2. sub.warrant = k /\ sub.conflict = Conflict(issued[k]) OBVIOUS
<1>3. k \in DOMAIN issued
  <2>1. Array(e, l) \in Seq(1 .. MaxHistory) /\ local[e] \in Seq(1 .. MaxHistory)
        /\ loops[e][l].array \in Seq(1 .. MaxHistory)
      BY ArrayType DEF Loop
  <2>2. \A i \in 1 .. Len(Array(e, l)) : Array(e, l)[i] \in DOMAIN issued
      BY <2>1 DEF LedgerInv, PositionsOK, Array
  <2>3. QED BY <1>1, <2>2
<1>4. /\ loops'[e][l].at = a + 1 /\ loops'[e][l].live = loops[e][l].live
      /\ loops'[e][l].array = loops[e][l].array /\ a \in Nat
      /\ \A f \in Edges, m \in Loops : <<f, m>> # <<e, l>> => loops'[f][m] = loops[f][m]
  <2>1. loops[e][l] \in Loop /\ a \in Nat BY ArrayType
  <2>2. QED BY <1>1, <2>1 DEF TypeOK, Loop
<1>5. \A f \in Edges, m \in Loops : Array(f, m)' = Array(f, m)
  <2>1. local' = local BY <1>1
  <2>2. \A f \in Edges, m \in Loops : /\ loops'[f][m].live = loops[f][m].live
                                        /\ loops'[f][m].array = loops[f][m].array
      BY <1>4
  <2>3. QED BY <2>1, <2>2 DEF Array
<1> HIDE DEF k, sent, sub, a
<1>6. /\ root'.revocations = root.revocations
      /\ root'.submitted = IF sent THEN root.submitted \union {sub} ELSE root.submitted
    BY <1>1 DEF TypeOK
<1>7. \A j : Done(j, root.submitted, atRisk) => Done(j, root'.submitted, atRisk')
    BY <1>1, <1>2, <1>6 DEF Done
<1>8. Done(k, root'.submitted, atRisk') BY <1>1, <1>2, <1>6 DEF Done
<1>9. StampsOK' BY <1>1, <1>6 DEF LedgerInv, StampsOK
<1>10. PositionsOK'
  <2>1. \A s \in root'.submitted : s.warrant \in DOMAIN issued
      BY <1>2, <1>3, <1>6 DEF LedgerInv, PositionsOK
  <2>2. \A f \in Edges, m \in Loops : loops'[f][m].array = loops[f][m].array BY <1>4
  <2>3. QED BY <1>1, <2>1, <2>2 DEF LedgerInv, PositionsOK
<1>11. AnswersOK'
  <2>1. IF sub.conflict
        THEN \E r \in {q \in root.revocations : q.target = issued[k].envelope} :
                r.revoked_at <= issued[k].issued_at
        ELSE \A r \in {q \in root.revocations : q.target = issued[k].envelope} :
                r.revoked_at >= issued[k].issued_at
      BY <1>2, <1>3, ListTypes DEF Conflict
  <2>2. QED BY <1>1, <1>2, <1>6, <2>1 DEF LedgerInv, AnswersOK
<1>12. LoopsOK'
  <2>1. ASSUME NEW f \in Edges, NEW m \in Loops, loops'[f][m].at > 0
        PROVE  /\ loops'[f][m].at <= Len(Array(f, m)) + 1
               /\ \A i \in DOMAIN local[f] :
                    \/ loops'[f][m].live /\ i >= loops'[f][m].at
                    \/ Done(local[f][i], root'.submitted, atRisk')
    <3>1. CASE <<f, m>> = <<e, l>>
      <4>1. Running(e, l) BY <1>1 DEF Running, a
      <4>2. \A i \in DOMAIN local[e] :
               \/ loops[e][l].live /\ i >= a
               \/ Done(local[e][i], root.submitted, atRisk)
          BY <4>1 DEF LedgerInv, LoopsOK, Settled, Done, a
      <4>3. ASSUME NEW i \in DOMAIN local[e]
            PROVE  \/ loops[e][l].live /\ i >= a + 1
                   \/ Done(local[e][i], root'.submitted, atRisk')
        <5>1. CASE loops[e][l].live /\ i = a BY <1>8, <5>1 DEF Array, k
        <5>2. i \in Nat BY <4>3, ListTypes
        <5>3. QED BY <1>4, <1>7, <4>2, <5>1, <5>2
      <4>4. a + 1 <= Len(Array(e, l)) + 1 BY <1>1, ArrayType
      <4>5. QED BY <1>4, <3>1, <4>3, <4>4
    <3>2. CASE <<f, m>> # <<e, l>>
      <4>1. loops'[f][m] = loops[f][m] BY <1>4, <3>2
      <4>2. /\ loops[f][m].at <= Len(Array(f, m)) + 1
            /\ \A i \in DOMAIN local[f] :
                 (loops[f][m].live /\ i >= loops[f][m].at) \/ Done(local[f][i], root.submitted, atRisk)
          BY <2>1, <4>1 DEF LedgerInv, LoopsOK, Running, Settled, Done
      <4>3. QED BY <1>7, <4>1, <4>2
    <3>3. QED BY <3>1, <3>2
  <2>2. QED BY <1>1, <1>5, <2>1 DEF LoopsOK, Running, Settled, Done
<1>13. DecisionsReconciled'
  <2>1. ASSUME NEW j \in DOMAIN issued, NEW f, f = issued[j].edge PROVE OnItsWay(f, j)'
    <3>1. f \in Edges /\ OnItsWay(f, j)
        BY <2>1, ListTypes DEF LedgerInv, DecisionsReconciled
    <3>2. CASE j \in Range(local[f]) BY <1>1, <3>2 DEF OnItsWay
    <3>3. CASE Done(j, root.submitted, atRisk) BY <1>7, <3>3 DEF OnItsWay, Done
    <3>4. CASE \E m \in Loops : Running(f, m) /\ \E i \in loops[f][m].at .. Len(Array(f, m)) :
                                     Array(f, m)[i] = j
      <4>1. PICK m \in Loops : Running(f, m) /\ \E i \in loops[f][m].at .. Len(Array(f, m)) :
                                                   Array(f, m)[i] = j
          BY <3>4
      <4>2. PICK i \in loops[f][m].at .. Len(Array(f, m)) : Array(f, m)[i] = j BY <4>1
      <4>3. CASE <<f, m>> # <<e, l>>
        <5>1. loops'[f][m] = loops[f][m] BY <1>4, <3>1, <4>3
        <5>2. QED BY <1>5, <3>1, <4>1, <4>2, <5>1 DEF OnItsWay, Running
      <4>4. CASE <<f, m>> = <<e, l>> /\ i = a
        <5>1. j = k BY <4>2, <4>4 DEF k
        <5>2. QED BY <1>8, <5>1 DEF OnItsWay, Done
      <4>5. CASE <<f, m>> = <<e, l>> /\ i # a
        <5>1. i \in a + 1 .. Len(Array(e, l)) BY <1>4, <4>2, <4>5, ArrayType DEF a
        <5>2. loops'[e][l].at > 0 BY <1>4
        <5>3. QED BY <1>4, <1>5, <4>2, <4>5, <5>1, <5>2 DEF OnItsWay, Running
      <4>6. QED BY <4>3, <4>4, <4>5
    <3>5. QED BY <3>1, <3>2, <3>3, <3>4 DEF OnItsWay, Done
  <2>2. QED BY <1>1, <2>1 DEF DecisionsReconciled, OnItsWay, Running, Array
<1>14. QED BY <1>9, <1>10, <1>11, <1>12, <1>13 DEF LedgerInv

\* When a reconcile() ends, everything its edge still keeps is settled; what
\* the other loops have ahead of them they keep ahead of them.
LEMMA LedgerEnd ==
    ASSUME TypeOK, LedgerInv, NEW e \in Edges, NEW l \in Loops, ReconcileEnd(e, l)
    PROVE  LedgerInv'
<1> DEFINE left(m) == [at |-> 1, live |-> FALSE, array |-> SubSeq(local[e], loops[e][m].at, Len(local[e]))]
<1>1. /\ Running(e, l) /\ loops[e][l].at > Len(Array(e, l))
      /\ loops' = [loops EXCEPT ![e] = [m \in Loops |-> IF m = l THEN NoLoop
                                                        ELSE IF Running(e, m) /\ loops[e][m].live THEN left(m)
                                                        ELSE loops[e][m]]]
      /\ local' = [local EXCEPT ![e] = <<>>]
      /\ UNCHANGED <<clock, root, atRisk, issued>>
    BY DEF ReconcileEnd
<1>2. /\ loops'[e][l] = NoLoop
      /\ \A m \in Loops \ {l} :
           loops'[e][m] = IF Running(e, m) /\ loops[e][m].live THEN left(m) ELSE loops[e][m]
      /\ \A f \in Edges \ {e} : loops'[f] = loops[f] /\ local'[f] = local[f]
      /\ local'[e] = <<>>
    BY <1>1 DEF TypeOK
<1>3. /\ local[e] \in Seq(1 .. MaxHistory) /\ Len(local[e]) \in Nat
      /\ DOMAIN local[e] = 1 .. Len(local[e])
    BY ListTypes
\* Nothing is lost with the old list.
<1>4. \A i \in DOMAIN local[e] : Done(local[e][i], root.submitted, atRisk)
  <2>1. \A i \in DOMAIN local[e] :
           (loops[e][l].live /\ i >= loops[e][l].at) \/ Done(local[e][i], root.submitted, atRisk)
      BY <1>1 DEF LedgerInv, LoopsOK, Settled, Done
  <2>2. CASE loops[e][l].live
    <3>1. loops[e][l].at > Len(local[e]) /\ loops[e][l].at \in Nat BY <1>1, <2>2, ArrayType DEF Array
    <3>2. QED BY <1>3, <2>1, <3>1
  <2>3. CASE ~loops[e][l].live BY <2>1, <2>3
  <2>4. QED BY <2>2, <2>3
\* The rest of the old list, for a loop that still reads it.
<1>5. ASSUME NEW m \in Loops, Running(e, m), loops[e][m].live
      PROVE  /\ left(m).at = 1 /\ ~left(m).live
             /\ left(m).array \in Seq(1 .. MaxHistory)
             /\ \A j \in loops[e][m].at .. Len(local[e]) :
                  /\ j - loops[e][m].at + 1 \in 1 .. Len(left(m).array)
                  /\ left(m).array[j - loops[e][m].at + 1] = local[e][j]
             /\ \A j \in DOMAIN left(m).array : left(m).array[j] \in DOMAIN issued
  <2> DEFINE b == loops[e][m].at
             r == SubSeq(local[e], b, Len(local[e]))
  <2>1. b \in Nat /\ b > 0 BY <1>5, ArrayType DEF Running
  <2>2. /\ r \in Seq(1 .. MaxHistory)
        /\ \A j \in b .. Len(local[e]) : j - b + 1 \in 1 .. Len(r) /\ r[j - b + 1] = local[e][j]
        /\ \A j \in 1 .. Len(r) : r[j] = local[e][j + b - 1] /\ j + b - 1 \in 1 .. Len(local[e])
      BY <1>3, <2>1, RestOfArray
  <2>3. left(m).at = 1 /\ ~left(m).live /\ left(m).array = r OBVIOUS
  <2> HIDE DEF left, r
  <2>4. \A j \in DOMAIN r : r[j] \in DOMAIN issued
    <3>1. \A i \in 1 .. Len(local[e]) : local[e][i] \in DOMAIN issued
        BY <1>3 DEF LedgerInv, PositionsOK
    <3>2. DOMAIN r = 1 .. Len(r) BY <2>2
    <3>3. QED BY <2>2, <3>1, <3>2
  <2>5. QED BY <2>2, <2>3, <2>4
<1> HIDE DEF left
<1>6. StampsOK' /\ AnswersOK' BY <1>1 DEF LedgerInv, StampsOK, AnswersOK
<1>7. PositionsOK'
  <2>1. ASSUME NEW f \in Edges, NEW m \in Loops, NEW i \in DOMAIN loops'[f][m].array
        PROVE  loops'[f][m].array[i] \in DOMAIN issued
    <3>1. CASE loops'[f][m] = loops[f][m] BY <2>1, <3>1 DEF LedgerInv, PositionsOK
    <3>2. CASE f = e /\ m = l BY <1>2, <2>1, <3>2 DEF NoLoop
    <3>3. CASE f = e /\ m # l /\ Running(e, m) /\ loops[e][m].live BY <1>2, <1>5, <2>1, <3>3
    <3>4. QED BY <1>2, <3>1, <3>2, <3>3
  <2>2. ASSUME NEW f \in Edges, NEW i \in DOMAIN local'[f] PROVE local'[f][i] \in DOMAIN issued
    <3>1. CASE f = e BY <1>2, <2>2, <3>1
    <3>2. CASE f # e BY <1>2, <2>2, <3>2 DEF LedgerInv, PositionsOK
    <3>3. QED BY <3>1, <3>2
  <2>3. QED BY <1>1, <2>1, <2>2 DEF LedgerInv, PositionsOK
<1>8. LoopsOK'
  <2>1. ASSUME NEW f \in Edges, NEW m \in Loops, loops'[f][m].at > 0
        PROVE  /\ loops'[f][m].at <= Len(IF loops'[f][m].live THEN local'[f] ELSE loops'[f][m].array) + 1
               /\ \A i \in DOMAIN local'[f] :
                    \/ loops'[f][m].live /\ i >= loops'[f][m].at
                    \/ Done(local'[f][i], root.submitted, atRisk)
    <3>1. CASE f # e
      <4>1. loops'[f] = loops[f] /\ local'[f] = local[f] BY <1>2, <3>1
      <4>2. QED BY <2>1, <4>1 DEF LedgerInv, LoopsOK, Running, Array, Settled, Done
    <3>2. CASE f = e /\ m = l BY <1>2, <2>1, <3>2 DEF NoLoop
    <3>3. CASE f = e /\ m # l /\ Running(e, m) /\ loops[e][m].live
      <4>1. loops'[f][m] = left(m) BY <1>2, <3>3
      <4>2. Len(left(m).array) \in Nat BY <1>5, <3>3
      <4>3. DOMAIN local'[f] = {} BY <1>2, <3>3
      <4>4. QED BY <1>5, <3>3, <4>1, <4>2, <4>3
    <3>4. CASE f = e /\ m # l /\ ~(Running(e, m) /\ loops[e][m].live)
      <4>1. loops'[f][m] = loops[f][m] BY <1>2, <3>4
      <4>2. Running(f, m) /\ ~loops[f][m].live BY <2>1, <3>4, <4>1 DEF Running
      <4>3. DOMAIN local'[f] = {} BY <1>2, <3>4
      <4>4. loops[f][m].at <= Len(loops[f][m].array) + 1
          BY <4>2 DEF LedgerInv, LoopsOK, Array
      <4>5. QED BY <4>1, <4>2, <4>3, <4>4
    <3>5. QED BY <3>1, <3>2, <3>3, <3>4
  <2>2. QED BY <1>1, <2>1 DEF LoopsOK, Running, Array, Settled, Done
<1>9. DecisionsReconciled'
  <2>1. ASSUME NEW k \in DOMAIN issued, NEW f, f = issued[k].edge PROVE OnItsWay(f, k)'
    <3>1. f \in Edges /\ OnItsWay(f, k)
        BY <2>1, ListTypes DEF LedgerInv, DecisionsReconciled
    <3>2. CASE Done(k, root.submitted, atRisk) BY <1>1, <3>2 DEF OnItsWay, Done
    <3>3. CASE k \in Range(local[f])
      <4>1. CASE f = e
        <5>1. Done(k, root.submitted, atRisk) BY <1>4, <3>3, <4>1 DEF Range
        <5>2. QED BY <3>2, <5>1
      <4>2. CASE f # e
        <5>1. local'[f] = local[f] BY <1>2, <3>1, <4>2
        <5>2. QED BY <3>3, <5>1 DEF OnItsWay
      <4>3. QED BY <4>1, <4>2
    <3>4. CASE \E m \in Loops : Running(f, m) /\ \E i \in loops[f][m].at .. Len(Array(f, m)) :
                                     Array(f, m)[i] = k
      <4>1. PICK m \in Loops : Running(f, m) /\ \E i \in loops[f][m].at .. Len(Array(f, m)) :
                                                   Array(f, m)[i] = k
          BY <3>4
      <4>2. PICK i \in loops[f][m].at .. Len(Array(f, m)) : Array(f, m)[i] = k BY <4>1
      <4>3. CASE f # e
        <5>1. loops'[f] = loops[f] /\ local'[f] = local[f] BY <1>2, <3>1, <4>3
        <5>2. QED BY <4>1, <4>2, <5>1 DEF OnItsWay, Running, Array
      <4>4. CASE f = e /\ m = l
        <5>1. loops[e][l].at \in Nat /\ Array(e, l) \in Seq(1 .. MaxHistory) BY ArrayType
        <5>2. QED BY <1>1, <4>2, <4>4, <5>1
      <4>5. CASE f = e /\ m # l /\ loops[e][m].live
        <5>1. loops'[e][m] = left(m) BY <1>2, <4>1, <4>5
        <5>2. i \in loops[e][m].at .. Len(local[e]) /\ local[e][i] = k BY <4>2, <4>5 DEF Array
        <5> DEFINE j == i - loops[e][m].at + 1
        <5>3. j \in 1 .. Len(left(m).array) /\ left(m).array[j] = k /\ left(m).at = 1 /\ ~left(m).live
            BY <1>5, <4>1, <4>5, <5>2
        <5> HIDE DEF j
        <5>4. QED BY <4>5, <5>1, <5>3 DEF OnItsWay, Running, Array
      <4>6. CASE f = e /\ m # l /\ ~loops[e][m].live
        <5>1. loops'[e][m] = loops[e][m] BY <1>2, <4>6
        <5>2. QED BY <4>1, <4>2, <4>6, <5>1 DEF OnItsWay, Running, Array
      <4>7. QED BY <4>3, <4>4, <4>5, <4>6
    <3>5. QED BY <3>1, <3>2, <3>3, <3>4 DEF OnItsWay, Done
  <2>2. \A k \in DOMAIN issued' : \A f : f = issued'[k].edge => OnItsWay(f, k)' BY <1>1, <2>1
  <2>3. QED BY <2>2, Zenon DEF DecisionsReconciled
<1>10. QED BY <1>6, <1>7, <1>8, <1>9 DEF LedgerInv

-----------------------------------------------------------------------------
(* The inductive invariant                                                 *)

\* Nothing has been decided at first.
LEMMA InitIndInv == Init => IndInv
<1> SUFFICES ASSUME Init PROVE IndInv OBVIOUS
<1>1. TypeOK BY InitTypeOK
<1>2. DOMAIN issued = {} /\ root.submitted = {} /\ root.revocations = {} BY DEF Init
<1>3. \A e \in Edges : DOMAIN local[e] = {} BY DEF Init
<1>4. \A e \in Edges, l \in Loops : loops[e][l].at = 0 /\ DOMAIN loops[e][l].array = {}
    BY DEF Init, NoLoop
<1>5. QuotaInv BY <1>2 DEF QuotaInv, QuotaHolds
<1>6. StampsOK /\ PositionsOK /\ AnswersOK BY <1>2, <1>3, <1>4 DEF StampsOK, PositionsOK, AnswersOK
<1>7. LoopsOK BY <1>4 DEF LoopsOK, Running
<1>8. DecisionsReconciled BY <1>2 DEF DecisionsReconciled
<1>9. QED BY <1>1, <1>5, <1>6, <1>7, <1>8 DEF IndInv

\* Every step keeps the inductive invariant.
LEMMA IndInvStep == IndInv /\ [Next]_vars => IndInv'
<1> SUFFICES ASSUME IndInv, [Next]_vars PROVE IndInv' OBVIOUS
<1>1. TypeOK /\ QuotaInv /\ LedgerInv BY DEF IndInv, LedgerInv
<1>2. TypeOK' BY <1>1, TypeStep
<1>3. CASE Quiet
  <2>1. LedgerInv' BY <1>1, <1>2, <1>3, LedgerQuiet
  <2>2. QuotaInv' BY <1>1, <1>2, <1>3, QuotaSame DEF Quiet
  <2>3. QED BY <1>2, <2>1, <2>2 DEF IndInv, LedgerInv
<1>4. ASSUME NEW c \in Calls, NEW reachable \in BOOLEAN, Issuing(c, reachable) PROVE IndInv'
  <2>1. LedgerInv' BY <1>1, <1>4, LedgerIssuing
  <2>2. QuotaInv' BY <1>1, <1>2, <1>4, QuotaIssuing
  <2>3. QED BY <1>2, <2>1, <2>2 DEF IndInv, LedgerInv
<1>5. ASSUME NEW e \in Edges, NEW l \in Loops, Reconcile(e, l) PROVE IndInv'
  <2>1. LedgerInv' BY <1>1, <1>5, LedgerStart, LedgerSend, LedgerEnd DEF Reconcile
  <2>2. issued' = issued /\ edge' = edge
      BY <1>5 DEF Reconcile, ReconcileStart, ReconcileStep, ReconcileEnd
  <2>3. QuotaInv' BY <1>1, <1>2, <2>2, QuotaSame
  <2>4. QED BY <1>2, <2>1, <2>3 DEF IndInv, LedgerInv
<1>6. QED BY <1>1, <1>3, <1>4, <1>5, StepKinds

\* IndInv holds of every reachable state.
THEOREM Invariance == Spec => []IndInv
<1>1. QED BY InitIndInv, IndInvStep, PTL DEF Spec

\* QuotaHolds: however evaluations overlap at the ping, an edge that does not
\* reach the root issues at most maxWarrantsWhileDisconnected Warrants in a row.
THEOREM QuotaBounded == Spec => []QuotaHolds
<1>1. IndInv => QuotaHolds BY DEF IndInv, QuotaInv
<1>2. QED BY <1>1, Invariance, PTL

\* LateWarrantsFlagged: the root's verdict on a decision agrees with the time
\* of the revocation, also of one that came after the verdict.
THEOREM LateFlagged == Spec => []LateWarrantsFlagged
<1>1. IndInv => LateWarrantsFlagged
  <2> SUFFICES ASSUME IndInv, NEW s \in root.submitted
               PROVE  LET w == issued[s.warrant]
                          revs == {r \in root.revocations : r.target = w.envelope}
                      IN /\ (\E r \in revs : r.revoked_at < w.issued_at) => s.conflict
                         /\ (\A r \in revs : r.revoked_at > w.issued_at) => ~s.conflict
      BY DEF LateWarrantsFlagged
  <2> DEFINE w == issued[s.warrant]
             revs == {r \in root.revocations : r.target = w.envelope}
  <2>1. IF s.conflict THEN \E r \in revs : r.revoked_at <= w.issued_at
        ELSE \A r \in revs : r.revoked_at >= w.issued_at
      BY DEF IndInv, AnswersOK
  <2>2. w.issued_at \in Nat /\ \A r \in revs : r.revoked_at \in Nat
      BY ListTypes DEF IndInv, PositionsOK
  <2> HIDE DEF w, revs
  <2>3. /\ (\E r \in revs : r.revoked_at < w.issued_at) => s.conflict
        /\ (\A r \in revs : r.revoked_at > w.issued_at) => ~s.conflict
    BY <2>1, <2>2
  <2>4. QED BY <2>3 DEF w, revs
<1>2. QED BY <1>1, Invariance, PTL

\* DecisionsReconciled: overlapping evaluations and reconcile() calls lose no
\* decision that is not listed as at risk.
THEOREM DecisionsKept == Spec => []DecisionsReconciled
<1>1. IndInv => DecisionsReconciled BY DEF IndInv
<1>2. QED BY <1>1, Invariance, PTL
=============================================================================
