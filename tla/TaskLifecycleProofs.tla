------------------------ MODULE TaskLifecycleProofs ------------------------
(***************************************************************************)
(* Proofs about TaskLifecycle for any number of tasks, agents and handlers *)
(* in flight, and any budget of attempts.                                  *)
(***************************************************************************)
EXTENDS TaskLifecycle, WellFoundedInduction, TLAPS

\* A set of natural numbers that is not empty has a least member.
LEMMA LeastMember ==
    ASSUME NEW S, S \subseteq Nat, S # {}
    PROVE  /\ \E x \in S : \A y \in S : x =< y
           /\ Min(S) \in S
<1> DEFINE R == OpToRel(<, Nat)
<1>1. IsWellFoundedOn(R, Nat) BY NatLessThanWellFounded, Zenon
<1>2. \A x, y \in Nat : <<x, y>> \in R <=> x < y BY DEF OpToRel
<1> HIDE DEF R
<1>3. PICK x \in S : \A y \in S : <<y, x>> \notin R BY <1>1, WFMin
<1>4. \A y \in S : x =< y
  <2>1. ASSUME NEW y \in S PROVE x =< y
    <3>1. x \in Nat /\ y \in Nat OBVIOUS
    <3>2. ~(y < x) BY <1>2, <1>3, <3>1
    <3>3. QED BY <3>1, <3>2
  <2>2. QED BY <2>1
<1>5. QED BY <1>4 DEF Min

\* The first copy of a loop is one of its copies.
LEMMA FirstMember ==
    ASSUME NEW todo \in SUBSET TaskCopies, todo # {}
    PROVE  First(todo) \in todo
<1> DEFINE S == {c.id : c \in todo}
<1>1. S \subseteq Nat /\ S # {} BY DEF TaskCopies, Tasks
<1>2. PICK x \in S : \A y \in S : x =< y BY <1>1, LeastMember
<1>3. PICK c \in todo : c.id = x OBVIOUS
<1>4. \A d \in todo : c.id <= d.id BY <1>2, <1>3
<1>5. QED BY <1>4 DEF First

-----------------------------------------------------------------------------
(* States and copies                                                       *)

\* Receipts and a halt are never taken back, and no success is added.
Grows(m, n) == /\ m.receipts \subseteq n.receipts
               /\ m.mission = "halted" => n.mission = "halted"

NothingNew(m, n) == \A t \in Tasks : Succeeded(n, t) => Succeeded(m, t)

\* Writing back a version of a task that is not completed.
LEMMA PutOK ==
    ASSUME NEW ex \in [Tasks -> Nat], NEW m, StateOK(m, ex), NEW t \in Tasks, NEW x \in TaskRecords,
           WithinBudget(x, t, ex), RightlyReleased(x, t, m),
           x.status = "completed" => Succeeded(m, t)
    PROVE  /\ StateOK(Put(m, t, x), ex) /\ Grows(m, Put(m, t, x)) /\ NothingNew(m, Put(m, t, x))
           /\ Put(m, t, x).task[t] = x
           /\ Put(m, t, x).receipts = m.receipts /\ Put(m, t, x).mission = m.mission
<1> DEFINE n == Put(m, t, x)
<1>1. m \in States BY DEF StateOK
<1>2. /\ n \in States /\ n.receipts = m.receipts /\ n.mission = m.mission
      /\ \A u \in Tasks : n.task[u] = IF u = t THEN x ELSE m.task[u]
    BY <1>1 DEF Put, States
<1> HIDE DEF n
<1>3. \A u \in Tasks : Succeeded(n, u) <=> Succeeded(m, u) BY <1>2 DEF Succeeded
<1>4. Deps(t) \subseteq Tasks /\ \A u \in Tasks : Deps(u) \subseteq Tasks BY DEF Deps
<1>5. StateOK(n, ex)
    BY <1>2, <1>3, <1>4 DEF StateOK, RightlyReleased
<1>6. QED BY <1>2, <1>3, <1>5 DEF Grows, NothingNew, n

\* Adding receipts to a state.
LEMMA ReceiptOK ==
    ASSUME NEW ex \in [Tasks -> Nat], NEW m, StateOK(m, ex),
           NEW R \in SUBSET (Tasks \X {"success", "blocked", "halted"})
    PROVE  LET n == [m EXCEPT !.receipts = @ \union R]
           IN  /\ StateOK(n, ex) /\ Grows(m, n) /\ n.task = m.task
               /\ n.receipts = m.receipts \union R
               /\ (\A t \in Tasks : <<t, "success">> \in R => Succeeded(m, t)) => NothingNew(m, n)
<1> DEFINE n == [m EXCEPT !.receipts = @ \union R]
<1>1. m \in States BY DEF StateOK
<1>2. /\ n \in States /\ n.receipts = m.receipts \union R /\ n.mission = m.mission
      /\ n.task = m.task
    BY <1>1 DEF States
<1> HIDE DEF n
<1>3. \A u \in Tasks : Succeeded(m, u) => Succeeded(n, u) BY <1>2 DEF Succeeded
<1>4. \A u \in Tasks : Deps(u) \subseteq Tasks BY DEF Deps
<1>5. StateOK(n, ex) BY <1>2, <1>3, <1>4 DEF StateOK, RightlyReleased
<1>6. (\A t \in Tasks : <<t, "success">> \in R => Succeeded(m, t)) => NothingNew(m, n)
    BY <1>2 DEF NothingNew, Succeeded
<1>7. QED BY <1>2, <1>5, <1>6 DEF Grows, n

\* Setting the status of the mission and its workspace.
LEMMA WithStatusOK ==
    ASSUME NEW ex \in [Tasks -> Nat], NEW m, StateOK(m, ex),
           NEW status \in {"none", "planned", "active", "blocked", "completed", "halted"}
    PROVE  LET n == WithStatus(m, status)
           IN  /\ StateOK(n, ex) /\ n.receipts = m.receipts /\ n.mission = status
               /\ n.task = m.task /\ NothingNew(m, n)
<1> DEFINE n == WithStatus(m, status)
           ws == CASE status = "completed" -> "sealed"
                   [] status \in {"halted", "blocked"} -> "paused"
                   [] OTHER -> "active"
<1>1. m \in States BY DEF StateOK
<1>2. ws \in {"active", "paused", "sealed"} OBVIOUS
<1>3. n = [m EXCEPT !.mission = status, !.workspace = ws] BY DEF WithStatus
<1> HIDE DEF ws
<1>4. n \in States /\ n.receipts = m.receipts /\ n.mission = status /\ n.task = m.task
    BY <1>1, <1>2, <1>3 DEF States
<1> HIDE DEF n
<1>5. \A u : Succeeded(n, u) <=> Succeeded(m, u) BY <1>4 DEF Succeeded
<1>6. StateOK(n, ex) BY <1>4, <1>5 DEF StateOK, RightlyReleased
<1>7. QED BY <1>4, <1>5, <1>6 DEF NothingNew, n

\* The derived status of a mission never undoes a halt.
LEMMA DerivedStatus ==
    ASSUME NEW m \in States
    PROVE  /\ deriveMissionStatusFromTasks(m) \in {"planned", "active", "blocked", "completed", "halted"}
           /\ m.mission = "halted" => deriveMissionStatusFromTasks(m) = "halted"
BY DEF deriveMissionStatusFromTasks, TasksStatus, States

\* Dependencies that are completed have succeeded.
LEMMA DependenciesSucceeded ==
    ASSUME NEW ex \in [Tasks -> Nat], NEW m, StateOK(m, ex), NEW t \in Tasks
    PROVE  /\ taskDependencyState(m, t) => \A d \in Deps(t) : Succeeded(m, d)
           /\ Released(m, t) => \A d \in Deps(t) : Succeeded(m, d)
<1>1. Deps(t) \subseteq Tasks BY DEF Deps
<1>2. taskDependencyState(m, t) => \A d \in Deps(t) : Succeeded(m, d)
    BY <1>1 DEF taskDependencyState, StateOK
<1>3. QED BY <1>2 DEF Released, StateOK, RightlyReleased

\* syncMissionDerivedState stores flags that are right and keeps a halt.
LEMMA SyncOK ==
    ASSUME NEW ex \in [Tasks -> Nat], NEW m, StateOK(m, ex)
    PROVE  LET n == syncMissionDerivedState(m)
           IN  /\ StateOK(n, ex) /\ Grows(m, n) /\ NothingNew(m, n)
               /\ n.receipts = m.receipts
<1> DEFINE F(t) == IF m.task[t].status = "absent" THEN m.task[t]
                   ELSE [m.task[t] EXCEPT !.ready = IF taskDependencyState(m, t) THEN "yes" ELSE "no"]
           p == [m EXCEPT !.task = [t \in Tasks |-> F(t)]]
           n == WithStatus(p, deriveMissionStatusFromTasks(m))
<1>1. m \in States BY DEF StateOK
<1>2. ASSUME NEW t \in Tasks
      PROVE  /\ F(t) \in TaskRecords /\ F(t).status = m.task[t].status
             /\ F(t).attempts = m.task[t].attempts
             /\ F(t).ready = "yes" => m.task[t].ready = "yes" \/ taskDependencyState(m, t)
  <2>1. m.task[t] \in TaskRecords BY <1>1 DEF States
  <2>2. QED BY <2>1 DEF TaskRecords
<1> HIDE DEF F
<1>3. /\ p \in States /\ p.receipts = m.receipts /\ p.mission = m.mission
      /\ \A t \in Tasks : p.task[t] = F(t)
    BY <1>1, <1>2 DEF States
<1> HIDE DEF p
<1>4. \A u : Succeeded(p, u) <=> Succeeded(m, u) BY <1>3 DEF Succeeded
<1>5. StateOK(p, ex)
  <2> SUFFICES ASSUME NEW t \in Tasks
               PROVE  /\ WithinBudget(p.task[t], t, ex)
                      /\ RightlyReleased(p.task[t], t, p)
                      /\ p.task[t].status = "completed" => Succeeded(p, t)
      BY <1>3 DEF StateOK
  <2>1. WithinBudget(p.task[t], t, ex) BY <1>2, <1>3 DEF StateOK, WithinBudget
  <2>2. RightlyReleased(p.task[t], t, p)
      BY <1>2, <1>3, <1>4, DependenciesSucceeded DEF StateOK, RightlyReleased
  <2>3. QED BY <1>2, <1>3, <1>4, <2>1, <2>2 DEF StateOK
<1>6. deriveMissionStatusFromTasks(m) \in {"planned", "active", "blocked", "completed", "halted"}
      /\ (m.mission = "halted" => deriveMissionStatusFromTasks(m) = "halted")
    BY <1>1, DerivedStatus
<1>7. /\ StateOK(n, ex) /\ n.receipts = p.receipts /\ NothingNew(p, n)
      /\ n.mission = deriveMissionStatusFromTasks(m)
    BY <1>5, <1>6, WithStatusOK
<1>8. n = syncMissionDerivedState(m) BY DEF syncMissionDerivedState, n, p, F
<1> HIDE DEF n
<1>9. Grows(m, n) /\ NothingNew(m, n) BY <1>3, <1>4, <1>6, <1>7 DEF Grows, NothingNew
<1>10. QED BY <1>3, <1>7, <1>8, <1>9

\* A copy taken now.
LEMMA CopyIsOK ==
    ASSUME NEW ex \in [Tasks -> Nat], NEW m, StateOK(m, ex), NEW t \in Tasks
    PROVE  /\ CopyOK(Copy(m, t), m, ex)
           /\ Copy(m, t).id = t /\ Copy(m, t).was.status = m.task[t].status
<1>1. m.task[t] \in TaskRecords BY DEF StateOK, States
<1>2. /\ Copy(m, t) \in TaskCopies /\ Copy(m, t).id = t
      /\ Copy(m, t).was.status = m.task[t].status
      /\ Copy(m, t).was.attempts = m.task[t].attempts
      /\ Copy(m, t).was.ready = m.task[t].ready
    BY <1>1 DEF Copy, TaskCopies, TaskRecords
<1>3. WithinBudget(Copy(m, t).was, t, ex) BY <1>2 DEF StateOK, WithinBudget
<1>4. RightlyReleased(Copy(m, t).was, t, m) BY <1>2 DEF StateOK, RightlyReleased
<1>5. QED BY <1>2, <1>3, <1>4 DEF CopyOK

\* So are the copies a loop starts from, each with the status it was read with.
LEMMA CopiesOK ==
    ASSUME NEW ex \in [Tasks -> Nat], NEW m, StateOK(m, ex), NEW S \in SUBSET Tasks
    PROVE  /\ Copies(m, S) \in SUBSET TaskCopies
           /\ \A c \in Copies(m, S) : /\ CopyOK(c, m, ex) /\ c.id \in S
                                      /\ c.was.status = m.task[c.id].status
<1>1. \A c \in Copies(m, S) : /\ CopyOK(c, m, ex) /\ c.id \in S
                              /\ c.was.status = m.task[c.id].status
    BY CopyIsOK DEF Copies
<1>2. QED BY <1>1 DEF CopyOK

\* A copy stays good while the state grows and grants are added.
LEMMA CopyStaysOK ==
    ASSUME NEW ex \in [Tasks -> Nat], NEW fx \in [Tasks -> Nat], \A t \in Tasks : ex[t] <= fx[t],
           NEW m, NEW n, Grows(m, n), NEW c, CopyOK(c, m, ex)
    PROVE  CopyOK(c, n, fx)
<1>1. c \in TaskCopies /\ c.id \in Tasks /\ c.was.attempts \in Nat
    BY DEF CopyOK, TaskCopies, TaskRecords
<1>2. ex[c.id] \in Nat /\ fx[c.id] \in Nat /\ ex[c.id] <= fx[c.id] BY <1>1
<1>3. WithinBudget(c.was, c.id, fx) BY <1>1, <1>2, TaskAssumption DEF CopyOK, WithinBudget
<1>4. RightlyReleased(c.was, c.id, n) BY DEF CopyOK, RightlyReleased, Grows, Succeeded
<1>5. QED BY <1>1, <1>3, <1>4 DEF CopyOK

\* A state stays good when grants are added.
LEMMA StateStaysOK ==
    ASSUME NEW ex \in [Tasks -> Nat], NEW fx \in [Tasks -> Nat], \A t \in Tasks : ex[t] <= fx[t],
           NEW m, StateOK(m, ex)
    PROVE  StateOK(m, fx)
<1> SUFFICES ASSUME NEW t \in Tasks PROVE WithinBudget(m.task[t], t, fx) BY DEF StateOK
<1>1. m.task[t].attempts \in Nat BY DEF StateOK, States, TaskRecords
<1>2. ex[t] \in Nat /\ fx[t] \in Nat /\ ex[t] <= fx[t] OBVIOUS
<1>3. QED BY <1>1, <1>2, TaskAssumption DEF StateOK, WithinBudget

-----------------------------------------------------------------------------
(* Handlers                                                                *)

\* What a handler carries along, whatever it awaits.
CarriesOK(h, m, ex, k) ==
    /\ h \in Handlers
    /\ h.copy # NoCopy => CopyOK(h.copy, m, ex)
    /\ \A c \in h.todo : CopyOK(c, m, ex)
    /\ h.job \in {"close", "sweep"} => \A c \in h.todo : c.was.status = "queued"
    /\ h.job = "claim" => ~h.own
    /\ \A t \in h.done : Succeeded(m, t)
    /\ h.killed => k

\* A handler that is where it should be carries what it may.
LEMMA HandlerCarries ==
    ASSUME NEW m, NEW ex, NEW k, NEW h, HandlerOK(h, m, ex, k)
    PROVE  CarriesOK(h, m, ex, k)
BY DEF HandlerOK, CarriesOK

\* What a handler carries stays good while others move the state on.
LEMMA CarriesStaysOK ==
    ASSUME NEW ex \in [Tasks -> Nat], NEW fx \in [Tasks -> Nat], \A t \in Tasks : ex[t] <= fx[t],
           NEW m, NEW n, Grows(m, n), NEW k, NEW h, CarriesOK(h, m, ex, k)
    PROVE  CarriesOK(h, n, fx, k)
<1>1. \A c : CopyOK(c, m, ex) => CopyOK(c, n, fx) BY CopyStaysOK
<1>2. \A t : Succeeded(m, t) => Succeeded(n, t) BY DEF Grows, Succeeded
<1>3. QED BY <1>1, <1>2 DEF CarriesOK

\* A handler that waits is not disturbed by the steps of the others.
LEMMA HandlerStaysOK ==
    ASSUME NEW ex \in [Tasks -> Nat], NEW fx \in [Tasks -> Nat], \A t \in Tasks : ex[t] <= fx[t],
           NEW m, NEW n, Grows(m, n), NEW k, NEW h, HandlerOK(h, m, ex, k)
    PROVE  HandlerOK(h, n, fx, k)
<1>1. \A c : CopyOK(c, m, ex) => CopyOK(c, n, fx) BY CopyStaysOK
<1>2. \A t : Succeeded(m, t) => Succeeded(n, t) BY DEF Grows, Succeeded
<1>3. QED BY <1>1, <1>2 DEF HandlerOK, Grows

\* A step of a handler that keeps everything in order and grants no success.
GoodStep(m, x, ex, k) ==
    /\ StateOK(x.m, ex) /\ HandlerOK(x.h, x.m, ex, k)
    /\ Grows(m, x.m) /\ NothingNew(m, x.m)

\* It is enough that the memory is good and the handler is good over it.
LEMMA StepIsGood ==
    ASSUME NEW ex, NEW k, NEW m, NEW n, NEW h, StateOK(n, ex), HandlerOK(h, n, ex, k),
           Grows(m, n), NothingNew(m, n)
    PROVE  GoodStep(m, Step(n, h), ex, k)
BY DEF GoodStep, Step

\* A state that is left alone adds nothing.
LEMMA SameState == ASSUME NEW m PROVE Grows(m, m) /\ NothingNew(m, m)
BY DEF Grows, NothingNew

\* A good step after a change that adds no success is good from before it.
LEMMA GoodStepFrom ==
    ASSUME NEW ex, NEW k, NEW l, NEW m, NEW x, Grows(l, m), NothingNew(l, m), GoodStep(m, x, ex, k)
    PROVE  GoodStep(l, x, ex, k)
BY DEF GoodStep, Grows, NothingNew

\* An idle handler carries nothing.
LEMMA IdleOK ==
    ASSUME NEW ex, NEW k, NEW m
    PROVE  /\ Idle \in Handlers /\ HandlerOK(Idle, m, ex, k)
           /\ Idle.job = "none" /\ Idle.pc = "idle" /\ Idle.copy = NoCopy /\ Idle.todo = {}
           /\ ~Idle.own /\ Idle.done = {} /\ ~Idle.killed
<1>1. /\ Idle \in Handlers
      /\ Idle.job = "none" /\ Idle.pc = "idle" /\ Idle.copy = NoCopy /\ Idle.todo = {}
      /\ ~Idle.own /\ Idle.done = {} /\ ~Idle.killed
    BY DEF Idle, Handlers
<1>2. QED BY <1>1 DEF HandlerOK, AwaitsOf, HoldsCopy, HandsOut

\* A handler that only awaits its write.
LEMMA SavingOK ==
    ASSUME NEW ex, NEW k, NEW m, NEW h, CarriesOK(h, m, ex, k),
           h.job \notin {"none", "reconcile"}, h.job = "halt" => m.mission = "halted"
    PROVE  HandlerOK(Saving(h), m, ex, k)
<1>1. h \in Handlers BY DEF CarriesOK
<1>2. /\ Saving(h) \in Handlers /\ Saving(h).job = h.job /\ Saving(h).pc = "persist"
      /\ Saving(h).copy = NoCopy /\ Saving(h).todo = {} /\ ~Saving(h).own
      /\ Saving(h).done = h.done /\ ~Saving(h).killed
    BY <1>1 DEF Saving, Idle, Handlers
<1>3. "persist" \in AwaitsOf(h.job) BY <1>1 DEF AwaitsOf, Handlers
<1>4. QED BY <1>2, <1>3 DEF HandlerOK, HoldsCopy, HandsOut, CarriesOK

\* A handler that awaits its write.
LEMMA SaveStepOK ==
    ASSUME NEW ex, NEW k, NEW m, StateOK(m, ex), NEW h, CarriesOK(h, m, ex, k),
           h.job \notin {"none", "reconcile", "halt"}
    PROVE  GoodStep(m, Step(m, Saving(h)), ex, k)
BY SavingOK, SameState, StepIsGood

\* The jobs that dispatch and complete tasks.
Working == {"advance", "close", "complete", "sweep", "tick"}

\* completeTaskWithGovernance up to its first await.
LEMMA CompleteStepOK ==
    ASSUME NEW ex, NEW k, NEW m, StateOK(m, ex), NEW h, CarriesOK(h, m, ex, k),
           h.job \in Working, NEW c, CopyOK(c, m, ex)
    PROVE  GoodStep(m, completeTaskWithGovernance(m, h, c), ex, k)
<1> DEFINE R == {t \in InStatus(m, {"queued"}) : m.task[t].ready = "yes"}
           g == [At(h, "complete") EXCEPT !.copy = c, !.released = R]
<1>1. h \in Handlers /\ c \in TaskCopies BY DEF CarriesOK, CopyOK
<1>2. R \in SUBSET Tasks BY DEF InStatus
<1> HIDE DEF R
<1>3. /\ g \in Handlers /\ g.job = h.job /\ g.pc = "complete" /\ g.copy = c
      /\ g.todo = h.todo /\ g.own = h.own /\ g.done = h.done /\ g.killed = h.killed
    BY <1>1, <1>2 DEF At, Handlers
<1>4. completeTaskWithGovernance(m, h, c) = Step(m, g) BY DEF completeTaskWithGovernance, R
<1> HIDE DEF g
<1>5. "complete" \in AwaitsOf(h.job) BY DEF Working, AwaitsOf, HoldsCopy
<1>6. HandlerOK(g, m, ex, k)
    BY <1>3, <1>5 DEF HandlerOK, CarriesOK, HandsOut, Working
<1>7. QED BY <1>4, <1>6, SameState, StepIsGood

\* A handler that awaits the assessment of a queued copy.
LEMMA DispatchingOK ==
    ASSUME NEW ex, NEW k, NEW m, NEW g, CarriesOK(g, m, ex, k),
           g.job \in Working \union {"claim"}, g.pc = "dispatch",
           CopyOK(g.copy, m, ex), g.copy.was.status = "queued",
           g.job # "sweep" => \A d \in Deps(g.copy.id) : Succeeded(m, d)
    PROVE  HandlerOK(g, m, ex, k)
<1>1. "dispatch" \in AwaitsOf(g.job) BY DEF Working, AwaitsOf, HoldsCopy
<1>2. QED BY <1>1 DEF HandlerOK, CarriesOK, HandsOut, HoldsCopy

\* The next copy of a completion sweep, or its end.
LEMMA SweepNextOK ==
    ASSUME NEW ex \in [Tasks -> Nat], NEW k, NEW m, StateOK(m, ex), NEW h, CarriesOK(h, m, ex, k),
           h.job = "sweep", NEW todo \in SUBSET TaskCopies,
           \A c \in todo : CopyOK(c, m, ex) /\ c.was.status = "queued"
    PROVE  GoodStep(m, SweepNext(m, h, todo), ex, k)
<1>1. CASE todo = {}
  <2>1. LET n == syncMissionDerivedState(m) IN StateOK(n, ex) /\ Grows(m, n) /\ NothingNew(m, n)
      BY SyncOK
  <2>2. CarriesOK(h, syncMissionDerivedState(m), ex, k) BY <2>1, CarriesStaysOK
  <2>3. HandlerOK(Saving(h), syncMissionDerivedState(m), ex, k) BY <2>2, SavingOK
  <2>4. QED BY <1>1, <2>1, <2>3, StepIsGood DEF SweepNext
<1>2. CASE todo # {}
  <2> DEFINE c == First(todo)
             g == [At(h, "dispatch") EXCEPT !.copy = c, !.todo = Rest(todo)]
  <2>1. c \in todo /\ c \in TaskCopies BY <1>2, FirstMember
  <2>2. Rest(todo) \in SUBSET todo /\ Rest(todo) \in SUBSET TaskCopies BY DEF Rest
  <2>3. h \in Handlers BY DEF CarriesOK
  <2> HIDE DEF c
  <2>4. /\ g \in Handlers /\ g.job = h.job /\ g.pc = "dispatch" /\ g.copy = c
        /\ g.todo = Rest(todo) /\ g.own = h.own /\ g.done = h.done /\ g.killed = h.killed
      BY <2>1, <2>2, <2>3 DEF At, Handlers
  <2>5. SweepNext(m, h, todo) = Step(m, g) BY <1>2 DEF SweepNext, c
  <2> HIDE DEF g
  <2>6. CarriesOK(g, m, ex, k) BY <2>1, <2>2, <2>4 DEF CarriesOK
  <2>7. CopyOK(g.copy, m, ex) /\ g.copy.was.status = "queued" BY <2>1, <2>4
  <2>8. HandlerOK(g, m, ex, k) BY <2>4, <2>6, <2>7, DispatchingOK DEF Working
  <2>9. QED BY <2>5, <2>8, SameState, StepIsGood
<1>3. QED BY <1>1, <1>2

\* What follows when a handler's task has been dealt with.
LEMMA ReturnOK ==
    ASSUME NEW ex \in [Tasks -> Nat], NEW k, NEW m, StateOK(m, ex), NEW h, CarriesOK(h, m, ex, k),
           h.job \in Working \union {"claim"}
    PROVE  GoodStep(m, Return(m, h), ex, k)
<1>1. CASE h.job \in {"claim", "complete", "tick"}
    BY <1>1, SaveStepOK DEF Return
<1>2. CASE h.job = "advance"
  <2>1. LET n == syncMissionDerivedState(m) IN StateOK(n, ex) /\ Grows(m, n) /\ NothingNew(m, n)
      BY SyncOK
  <2>2. CarriesOK(h, syncMissionDerivedState(m), ex, k) BY <2>1, CarriesStaysOK
  <2>3. HandlerOK(Saving(h), syncMissionDerivedState(m), ex, k) BY <1>2, <2>2, SavingOK
  <2>4. QED BY <1>2, <2>1, <2>3, StepIsGood DEF Return
<1>3. CASE h.job = "close"
  <2> DEFINE S == {t \in Tasks : m.task[t].status = "queued"}
             g == [h EXCEPT !.job = "sweep"]
  <2>1. h \in Handlers BY DEF CarriesOK
  <2>2. /\ g \in Handlers /\ g.job = "sweep" /\ g.copy = h.copy
        /\ g.todo = h.todo /\ g.own = h.own /\ g.done = h.done /\ g.killed = h.killed
      BY <2>1 DEF Handlers
  <2>3. Return(m, h) = SweepNext(m, g, Copies(m, S)) BY <1>3 DEF Return
  <2> HIDE DEF g
  <2>4. CarriesOK(g, m, ex, k) BY <1>3, <2>2 DEF CarriesOK
  <2>5. S \in SUBSET Tasks OBVIOUS
  <2>6. /\ Copies(m, S) \in SUBSET TaskCopies
        /\ \A c \in Copies(m, S) : CopyOK(c, m, ex) /\ c.was.status = "queued"
      BY <2>5, CopiesOK
  <2> HIDE DEF S
  <2>7. QED BY <2>2, <2>3, <2>4, <2>6, SweepNextOK
<1>4. CASE h.job = "sweep"
  <2>1. h.todo \in SUBSET TaskCopies BY DEF CarriesOK, Handlers
  <2>2. \A c \in h.todo : CopyOK(c, m, ex) /\ c.was.status = "queued" BY <1>4 DEF CarriesOK
  <2>3. Return(m, h) = SweepNext(m, h, h.todo) BY <1>4 DEF Return
  <2>4. QED BY <1>4, <2>1, <2>2, <2>3, SweepNextOK
<1>5. QED BY <1>1, <1>2, <1>3, <1>4 DEF Working

\* dispatchNextEligibleTask up to its first await.
LEMMA DispatchNextOK ==
    ASSUME NEW ex \in [Tasks -> Nat], NEW k, NEW m, StateOK(m, ex), NEW h, CarriesOK(h, m, ex, k),
           h.job \in Working, NEW S \in SUBSET Tasks, NEW own \in BOOLEAN
    PROVE  GoodStep(m, dispatchNextEligibleTask(m, h, S, own), ex, k)
<1> DEFINE E == {t \in S : Eligible(m, t)}
           t0 == Min(E)
           g == [At(h, "dispatch") EXCEPT !.copy = Copy(m, t0), !.own = own]
<1>1. CASE E = {}
    BY <1>1, ReturnOK DEF dispatchNextEligibleTask
<1>2. CASE E # {}
  <2>0. Tasks \subseteq Nat BY TaskAssumption DEF Tasks
  <2>1. E \subseteq Nat BY <2>0
  <2>2. t0 \in E BY <1>2, <2>1, LeastMember
  <2> HIDE DEF t0
  <2>3. t0 \in Tasks /\ Eligible(m, t0) BY <2>2
  <2>4. /\ CopyOK(Copy(m, t0), m, ex) /\ Copy(m, t0).id = t0
        /\ Copy(m, t0).was.status = "queued"
      BY <2>3, CopyIsOK DEF Eligible
  <2>5. \A d \in Deps(t0) : Succeeded(m, d) BY <2>3, DependenciesSucceeded DEF Eligible
  <2>6. h \in Handlers /\ Copy(m, t0) \in TaskCopies BY <2>4 DEF CarriesOK, CopyOK
  <2>7. /\ g \in Handlers /\ g.job = h.job /\ g.pc = "dispatch" /\ g.copy = Copy(m, t0)
        /\ g.todo = h.todo /\ g.own = own /\ g.done = h.done /\ g.killed = h.killed
      BY <2>6 DEF At, Handlers
  <2>8. dispatchNextEligibleTask(m, h, S, own) = Step(m, g)
      BY <1>2 DEF dispatchNextEligibleTask, t0
  <2> HIDE DEF g
  <2>9. CarriesOK(g, m, ex, k) BY <2>4, <2>7 DEF CarriesOK, Working
  <2>10. HandlerOK(g, m, ex, k) BY <2>4, <2>5, <2>7, <2>9, DispatchingOK
  <2>11. QED BY <2>8, <2>10, SameState, StepIsGood
<1>3. QED BY <1>1, <1>2

\* The second half of the autonomy tick.
LEMMA TickMissionOK ==
    ASSUME NEW ex \in [Tasks -> Nat], NEW k, NEW m, StateOK(m, ex), NEW h, CarriesOK(h, m, ex, k),
           h.job = "tick"
    PROVE  GoodStep(m, TickMission(m, h), ex, k)
<1> DEFINE mine == InStatus(m, {"running"}) \intersect Autonomous
           open == m.mission \in {"active", "planned"}
<1>1. GoodStep(m, Step(m, Saving(h)), ex, k) BY SaveStepOK
<1>2. CASE ~open BY <1>1, <1>2 DEF TickMission
<1>3. CASE open /\ mine # {}
  <2>1. mine \subseteq Tasks /\ mine \subseteq Nat BY DEF InStatus, Tasks
  <2>2. Min(mine) \in Tasks BY <1>3, <2>1, LeastMember
  <2>3. CopyOK(Copy(m, Min(mine)), m, ex) BY <2>2, CopyIsOK
  <2>4. TickMission(m, h) = completeTaskWithGovernance(m, h, Copy(m, Min(mine)))
      BY <1>3 DEF TickMission
  <2>5. QED BY <2>3, <2>4, CompleteStepOK DEF Working
<1>4. CASE open /\ InStatus(m, {"running"}) = {}
  <2>1. TickMission(m, h) = dispatchNextEligibleTask(m, h, Autonomous, TRUE)
      BY <1>4 DEF TickMission
  <2>2. Autonomous \in SUBSET Tasks BY TaskAssumption
  <2>3. QED BY <2>1, <2>2, DispatchNextOK DEF Working
<1>5. CASE open /\ mine = {} /\ InStatus(m, {"running"}) # {}
    BY <1>1, <1>5 DEF TickMission
<1>6. QED BY <1>2, <1>3, <1>4, <1>5

\* queueTaskRetry stays within the budget, whatever the version.
LEMMA RetryVersion ==
    ASSUME NEW ex \in [Tasks -> Nat], NEW t \in Tasks, NEW x \in TaskRecords, WithinBudget(x, t, ex)
    PROVE  /\ queueTaskRetry(x) \in TaskRecords /\ WithinBudget(queueTaskRetry(x), t, ex)
           /\ queueTaskRetry(x).ready = x.ready /\ queueTaskRetry(x).status # "completed"
<1>1. x.attempts \in Nat /\ ex[t] \in Nat /\ MaxAttempts \in Nat
    BY TaskAssumption DEF TaskRecords
<1>2. CASE x.attempts >= MaxAttempts
    BY <1>1, <1>2 DEF queueTaskRetry, TaskRecords, Statuses, WithinBudget
<1>3. CASE ~(x.attempts >= MaxAttempts)
  <2> DEFINE y == [x EXCEPT !.status = "queued", !.claimedBy = NoAgent, !.stale = FALSE]
  <2>1. queueTaskRetry(x) = y BY <1>3 DEF queueTaskRetry
  <2>2. /\ y \in TaskRecords /\ y.attempts = x.attempts /\ y.ready = x.ready
        /\ y.status = "queued"
      BY DEF TaskRecords, Statuses
  <2> HIDE DEF y
  <2>3. WithinBudget(y, t, ex) BY <1>1, <1>3, <2>2 DEF WithinBudget
  <2>4. QED BY <2>1, <2>2, <2>3
<1>4. QED BY <1>2, <1>3

\* reconcileStaleRunningTasks up to its next await, or its end.
LEMMA StaleStepOK ==
    ASSUME NEW ex \in [Tasks -> Nat], NEW k, NEW m, StateOK(m, ex), NEW h, CarriesOK(h, m, ex, k),
           h.job \in {"tick", "reconcile"},
           NEW todo \in SUBSET TaskCopies, \A c \in todo : CopyOK(c, m, ex)
    PROVE  GoodStep(m, reconcileStaleRunningTasks(m, h, todo), ex, k)
<1>1. CASE todo # {}
  <2> DEFINE c == First(todo)
             n == Put(m, c.id, queueTaskRetry(c.was))
             g == [At(h, "stale") EXCEPT !.todo = Rest(todo)]
  <2>1. c \in todo BY <1>1, FirstMember
  <2>2. Rest(todo) \in SUBSET todo /\ Rest(todo) \in SUBSET TaskCopies BY DEF Rest
  <2>3. h \in Handlers BY DEF CarriesOK
  <2>4. reconcileStaleRunningTasks(m, h, todo) = Step(n, g)
      BY <1>1 DEF reconcileStaleRunningTasks
  <2>5. /\ g \in Handlers /\ g.job = h.job /\ g.pc = "stale" /\ g.copy = h.copy
        /\ g.todo = Rest(todo) /\ g.own = h.own /\ g.done = h.done /\ g.killed = h.killed
      BY <2>2, <2>3 DEF At, Handlers
  <2> HIDE DEF c, g
  <2>6. c.id \in Tasks /\ c.was \in TaskRecords /\ WithinBudget(c.was, c.id, ex)
        /\ RightlyReleased(c.was, c.id, m)
      BY <2>1 DEF CopyOK, TaskCopies
  <2>7. /\ queueTaskRetry(c.was) \in TaskRecords /\ WithinBudget(queueTaskRetry(c.was), c.id, ex)
        /\ queueTaskRetry(c.was).ready = c.was.ready /\ queueTaskRetry(c.was).status # "completed"
      BY <2>6, RetryVersion
  <2>8. RightlyReleased(queueTaskRetry(c.was), c.id, m) BY <2>6, <2>7 DEF RightlyReleased
  <2>9. StateOK(n, ex) /\ Grows(m, n) /\ NothingNew(m, n) BY <2>6, <2>7, <2>8, PutOK
  <2> HIDE DEF n
  <2>10. CarriesOK(g, m, ex, k) BY <2>2, <2>5 DEF CarriesOK
  <2>11. CarriesOK(g, n, ex, k) BY <2>9, <2>10, CarriesStaysOK
  <2>12. "stale" \in AwaitsOf(g.job) BY <2>5 DEF AwaitsOf
  <2>13. HandlerOK(g, n, ex, k) BY <2>5, <2>11, <2>12 DEF HandlerOK, CarriesOK, HandsOut, HoldsCopy
  <2>14. QED BY <2>4, <2>9, <2>13, StepIsGood
<1>2. CASE todo = {} /\ h.job = "tick"
    BY <1>2, TickMissionOK DEF reconcileStaleRunningTasks
<1>3. CASE todo = {} /\ h.job = "reconcile"
  <2>1. reconcileStaleRunningTasks(m, h, todo) = Step(m, Idle)
      BY <1>3 DEF reconcileStaleRunningTasks
  <2>2. QED BY <2>1, IdleOK, SameState, StepIsGood
<1>4. QED BY <1>1, <1>2, <1>3

\* The cancellation of the next copy, or the end of the halt.
LEMMA HaltStepOK ==
    ASSUME NEW ex \in [Tasks -> Nat], NEW k, NEW m, StateOK(m, ex), NEW h, CarriesOK(h, m, ex, k),
           h.job = "halt",
           NEW todo \in SUBSET TaskCopies, \A c \in todo : CopyOK(c, m, ex)
    PROVE  GoodStep(m, HaltNext(m, h, todo), ex, k)
<1>1. CASE todo = {}
  <2> DEFINE p == syncMissionDerivedState(m)
             n == WithStatus(p, "halted")
  <2>1. StateOK(p, ex) /\ Grows(m, p) /\ NothingNew(m, p) BY SyncOK
  <2>2. HaltNext(m, h, todo) = Step(n, Saving(h)) BY <1>1 DEF HaltNext
  <2> HIDE DEF p
  <2>3. StateOK(n, ex) /\ n.receipts = p.receipts /\ n.mission = "halted" /\ NothingNew(p, n)
      BY <2>1, WithStatusOK
  <2> HIDE DEF n
  <2>4. Grows(m, n) /\ NothingNew(m, n) BY <2>1, <2>3 DEF Grows, NothingNew
  <2>5. CarriesOK(h, n, ex, k) BY <2>4, CarriesStaysOK
  <2>6. HandlerOK(Saving(h), n, ex, k) BY <2>3, <2>5, SavingOK
  <2>7. QED BY <2>2, <2>3, <2>4, <2>6, StepIsGood
<1>2. CASE todo # {}
  <2> DEFINE c == First(todo)
             x == [c.was EXCEPT !.status = "cancelled"]
             p == Put(m, c.id, x)
             n == [p EXCEPT !.receipts = @ \union {<<c.id, "halted">>}]
             g == [At(h, "halting") EXCEPT !.todo = Rest(todo)]
  <2>1. c \in todo BY <1>2, FirstMember
  <2>2. Rest(todo) \in SUBSET todo /\ Rest(todo) \in SUBSET TaskCopies BY DEF Rest
  <2>3. h \in Handlers BY DEF CarriesOK
  <2>4. HaltNext(m, h, todo) = Step(n, g) BY <1>2 DEF HaltNext
  <2>5. /\ g \in Handlers /\ g.job = h.job /\ g.pc = "halting" /\ g.copy = h.copy
        /\ g.todo = Rest(todo) /\ g.own = h.own /\ g.done = h.done /\ g.killed = h.killed
      BY <2>2, <2>3 DEF At, Handlers
  <2> HIDE DEF c, g
  <2>6. c.id \in Tasks /\ c.was \in TaskRecords /\ WithinBudget(c.was, c.id, ex)
        /\ RightlyReleased(c.was, c.id, m)
      BY <2>1 DEF CopyOK, TaskCopies
  <2>7. /\ x \in TaskRecords /\ x.attempts = c.was.attempts /\ x.ready = c.was.ready
        /\ x.status = "cancelled"
      BY <2>6 DEF TaskRecords, Statuses
  <2> HIDE DEF x
  <2>8. WithinBudget(x, c.id, ex) /\ RightlyReleased(x, c.id, m)
      BY <2>6, <2>7 DEF WithinBudget, RightlyReleased
  <2>9. StateOK(p, ex) /\ Grows(m, p) /\ NothingNew(m, p) BY <2>6, <2>7, <2>8, PutOK
  <2> HIDE DEF p
  <2>10. {<<c.id, "halted">>} \in SUBSET (Tasks \X {"success", "blocked", "halted"})
         /\ \A t \in Tasks : <<t, "success">> \notin {<<c.id, "halted">>}
      BY <2>6
  <2>11. StateOK(n, ex) /\ Grows(p, n) /\ NothingNew(p, n) BY <2>9, <2>10, ReceiptOK
  <2> HIDE DEF n
  <2>12. Grows(m, n) /\ NothingNew(m, n) BY <2>9, <2>11 DEF Grows, NothingNew
  <2>13. CarriesOK(g, m, ex, k) BY <2>2, <2>5 DEF CarriesOK
  <2>14. CarriesOK(g, n, ex, k) BY <2>12, <2>13, CarriesStaysOK
  <2>15. "halting" \in AwaitsOf(g.job) BY <2>5 DEF AwaitsOf
  <2>16. HandlerOK(g, n, ex, k)
      BY <2>5, <2>14, <2>15 DEF HandlerOK, CarriesOK, HandsOut, HoldsCopy
  <2>17. QED BY <2>4, <2>11, <2>12, <2>16, StepIsGood
<1>3. QED BY <1>1, <1>2

\* Recovery: a run goes back to the queue under a grant of its own.
LEMMA RecoveredOK ==
    ASSUME NEW ex \in [Tasks -> Nat], NEW m, StateOK(m, ex)
    PROVE  LET n == reconcileRecoveredState(m)
               fx == [t \in Tasks |-> IF m.task[t].status = "running" THEN ex[t] + 1 ELSE ex[t]]
           IN  /\ StateOK(n, fx) /\ Grows(m, n) /\ NothingNew(m, n)
               /\ fx \in [Tasks -> Nat] /\ \A t \in Tasks : ex[t] <= fx[t]
<1> DEFINE n == reconcileRecoveredState(m)
           fx == [t \in Tasks |-> IF m.task[t].status = "running" THEN ex[t] + 1 ELSE ex[t]]
           F(t) == IF m.task[t].status = "running"
                   THEN [m.task[t] EXCEPT !.status = "queued", !.stale = FALSE] ELSE m.task[t]
           R == {<<t, "success">> : t \in InStatus(m, {"completed"})}
           q == [m EXCEPT !.task = [t \in Tasks |-> F(t)], !.receipts = @ \union R]
<1>1. fx \in [Tasks -> Nat] /\ \A t \in Tasks : ex[t] <= fx[t] OBVIOUS
<1>2. m \in States BY DEF StateOK
<1>3. CASE m.mission = "none"
  <2>1. n = m BY <1>3 DEF reconcileRecoveredState
  <2>2. QED BY <1>1, <2>1, StateStaysOK, SameState
<1>4. CASE m.mission # "none"
  <2>1. n = WithStatus(q, deriveMissionStatusFromTasks(q)) BY <1>4 DEF reconcileRecoveredState
  <2>2. ASSUME NEW t \in Tasks
        PROVE  /\ F(t) \in TaskRecords /\ F(t).attempts = m.task[t].attempts
               /\ F(t).ready = m.task[t].ready
               /\ m.task[t].status = "running" => F(t).status = "queued"
               /\ m.task[t].status # "running" => F(t).status = m.task[t].status
    <3>1. m.task[t] \in TaskRecords BY <1>2 DEF States
    <3>2. QED BY <3>1 DEF TaskRecords, Statuses
  <2> HIDE DEF F
  <2>3. ASSUME NEW r \in R PROVE r \in m.receipts
    <3>1. PICK t \in Tasks : r = <<t, "success">> /\ m.task[t].status = "completed"
        BY <2>3 DEF InStatus
    <3>2. QED BY <3>1 DEF StateOK, Succeeded
  <2> HIDE DEF R
  <2>4. m.receipts \union R = m.receipts BY <2>3
  <2>5. /\ q \in States /\ q.receipts = m.receipts /\ q.mission = m.mission
        /\ \A t \in Tasks : q.task[t] = F(t)
      BY <1>2, <2>2, <2>4 DEF States
  <2> HIDE DEF q
  <2>6. \A t : Succeeded(q, t) <=> Succeeded(m, t) BY <2>5 DEF Succeeded
  <2>7. ASSUME NEW t \in Tasks PROVE WithinBudget(q.task[t], t, fx)
    <3>1. WithinBudget(m.task[t], t, ex) /\ q.task[t] = F(t) BY <2>5 DEF StateOK
    <3>2. m.task[t].attempts \in Nat /\ ex[t] \in Nat /\ MaxAttempts \in Nat
        BY <1>2, TaskAssumption DEF States, TaskRecords
    <3>3. CASE m.task[t].status = "running"
      <4>1. fx[t] = ex[t] + 1 BY <3>3
      <4>2. QED BY <2>2, <3>1, <3>2, <3>3, <4>1 DEF WithinBudget
    <3>4. CASE m.task[t].status # "running"
      <4>1. fx[t] = ex[t] BY <3>4
      <4>2. QED BY <2>2, <3>1, <3>2, <3>4, <4>1 DEF WithinBudget
    <3>5. QED BY <3>3, <3>4
  <2> HIDE DEF fx
  <2>8. StateOK(q, fx)
    <3> SUFFICES ASSUME NEW t \in Tasks
                 PROVE  /\ RightlyReleased(q.task[t], t, q)
                        /\ q.task[t].status = "completed" => Succeeded(q, t)
        BY <2>5, <2>7 DEF StateOK
    <3>1. RightlyReleased(q.task[t], t, q) BY <2>2, <2>5, <2>6 DEF StateOK, RightlyReleased
    <3>2. q.task[t].status = "completed" => m.task[t].status = "completed" BY <2>2, <2>5
    <3>3. QED BY <2>6, <3>1, <3>2 DEF StateOK
  <2>9. deriveMissionStatusFromTasks(q) \in {"planned", "active", "blocked", "completed", "halted"}
        /\ (q.mission = "halted" => deriveMissionStatusFromTasks(q) = "halted")
      BY <2>5, DerivedStatus
  <2>10. /\ StateOK(n, fx) /\ n.receipts = q.receipts /\ NothingNew(q, n)
         /\ n.mission = deriveMissionStatusFromTasks(q)
      BY <1>1, <2>1, <2>8, <2>9, WithStatusOK
  <2> HIDE DEF n
  <2>11. Grows(m, n) /\ NothingNew(m, n) BY <2>5, <2>6, <2>9, <2>10 DEF Grows, NothingNew
  <2>12. QED BY <1>1, <2>10, <2>11 DEF n, fx
<1>5. QED BY <1>3, <1>4

\* What is written to the file is as good as memory.
LEMMA SerializeOK ==
    ASSUME NEW ex \in [Tasks -> Nat], NEW m, StateOK(m, ex)
    PROVE  LET n == serializeState(m)
           IN  StateOK(n, ex) /\ n.receipts = m.receipts /\ n.mission = m.mission
<1> DEFINE n == serializeState(m)
<1>1. m \in States BY DEF StateOK
<1>2. \A t \in Tasks : m.task[t] \in TaskRecords BY <1>1 DEF States
<1>3. \A t \in Tasks : /\ [m.task[t] EXCEPT !.stale = FALSE] \in TaskRecords
                       /\ [m.task[t] EXCEPT !.stale = FALSE].status = m.task[t].status
                       /\ [m.task[t] EXCEPT !.stale = FALSE].attempts = m.task[t].attempts
                       /\ [m.task[t] EXCEPT !.stale = FALSE].ready = m.task[t].ready
    BY <1>2 DEF TaskRecords
<1>4. /\ n \in States /\ n.receipts = m.receipts /\ n.mission = m.mission
      /\ \A t \in Tasks : n.task[t] = [m.task[t] EXCEPT !.stale = FALSE]
    BY <1>1, <1>3 DEF serializeState, States
<1> HIDE DEF n
<1>5. \A t \in Tasks : /\ n.task[t].status = m.task[t].status
                       /\ n.task[t].attempts = m.task[t].attempts
                       /\ n.task[t].ready = m.task[t].ready
    BY <1>3, <1>4
<1>6. \A t : Succeeded(n, t) <=> Succeeded(m, t) BY <1>4 DEF Succeeded
<1>7. StateOK(n, ex)
    BY <1>4, <1>5, <1>6 DEF StateOK, WithinBudget, RightlyReleased
<1>8. QED BY <1>4, <1>7 DEF n

\* A refusal blocks the task with a receipt of its own.
LEMMA BlockOK ==
    ASSUME NEW ex \in [Tasks -> Nat], NEW m, StateOK(m, ex), NEW c, CopyOK(c, m, ex)
    PROVE  LET n == blockTaskForGovernance(m, c)
           IN  StateOK(n, ex) /\ Grows(m, n) /\ NothingNew(m, n)
<1> DEFINE x == [c.was EXCEPT !.status = "blocked", !.gov = "blocked"]
           p == Put(m, c.id, x)
           n == [p EXCEPT !.receipts = @ \union {<<c.id, "blocked">>}]
<1>1. c.id \in Tasks /\ c.was \in TaskRecords /\ WithinBudget(c.was, c.id, ex)
      /\ RightlyReleased(c.was, c.id, m)
    BY DEF CopyOK, TaskCopies
<1>2. n = blockTaskForGovernance(m, c) BY DEF blockTaskForGovernance
<1>3. /\ x \in TaskRecords /\ x.attempts = c.was.attempts /\ x.ready = c.was.ready
      /\ x.status = "blocked"
    BY <1>1 DEF TaskRecords, Statuses
<1> HIDE DEF x
<1>4. WithinBudget(x, c.id, ex) /\ RightlyReleased(x, c.id, m)
    BY <1>1, <1>3 DEF WithinBudget, RightlyReleased
<1>5. StateOK(p, ex) /\ Grows(m, p) /\ NothingNew(m, p) BY <1>1, <1>3, <1>4, PutOK
<1> HIDE DEF p
<1>6. {<<c.id, "blocked">>} \in SUBSET (Tasks \X {"success", "blocked", "halted"})
      /\ \A t \in Tasks : <<t, "success">> \notin {<<c.id, "blocked">>}
    BY <1>1
<1>7. StateOK(n, ex) /\ Grows(p, n) /\ NothingNew(p, n) BY <1>5, <1>6, ReceiptOK
<1> HIDE DEF n
<1>8. QED BY <1>2, <1>5, <1>7 DEF Grows, NothingNew

\* A claim of a version that is queued, or under a grant of its own.
LEMMA ClaimVersion ==
    ASSUME NEW ex \in [Tasks -> Nat], NEW fx \in [Tasks -> Nat], NEW t \in Tasks,
           NEW x \in TaskRecords, WithinBudget(x, t, ex), NEW a \in Agents,
           \/ x.status = "queued" /\ fx[t] = ex[t]
           \/ fx[t] = ex[t] + 1
    PROVE  LET y == claimTaskForAgent(x, a)
           IN  /\ y \in TaskRecords /\ WithinBudget(y, t, fx)
               /\ y.ready = x.ready /\ y.status = "running" /\ y.gov = x.gov
               /\ y.attempts = x.attempts + 1
<1> DEFINE y == claimTaskForAgent(x, a)
<1>1. x.attempts \in Nat /\ ex[t] \in Nat /\ fx[t] \in Nat /\ MaxAttempts \in Nat
    BY TaskAssumption DEF TaskRecords
<1>2. x.attempts + 1 \in Nat BY <1>1
<1>3. /\ y \in TaskRecords /\ y.attempts = x.attempts + 1 /\ y.ready = x.ready
      /\ y.status = "running" /\ y.gov = x.gov
    BY <1>2 DEF claimTaskForAgent, TaskRecords, Statuses
<1> HIDE DEF y
<1>4. WithinBudget(y, t, fx) BY <1>1, <1>3 DEF WithinBudget
<1>5. QED BY <1>3, <1>4 DEF y

-----------------------------------------------------------------------------
(* Steps                                                                   *)

\* The action NoSuccessUnderKill is about.
SuccessFromUnkilled ==
    \A t \in Tasks : Succeeded(mem', t) /\ ~Succeeded(mem, t) =>
        \E s \in Slots : slot[s].pc = "completeAllowed" /\ slot[s].copy.id = t /\ ~slot[s].killed

\* One handler makes a step, the others wait, and what was answered is kept.
LEMMA HandlerStep ==
    ASSUME IndInv, NEW s \in Slots, NEW fx \in [Tasks -> Nat], \A t \in Tasks : extra[t] <= fx[t],
           NEW n, NEW h, StateOK(n, fx), HandlerOK(h, n, fx, kill), Grows(mem, n),
           mem' = n, slot' = [slot EXCEPT ![s] = h], extra' = fx,
           disk' = disk \/ disk' = serializeState(mem),
           UNCHANGED <<kill, acked, torn>>, events' \in Nat
    PROVE  IndInv'
<1>0. extra \in [Tasks -> Nat] BY DEF IndInv, ProcessOK
<1>1. disk' \in States \union {Torn} /\ DiskOK'
  <2>1. CASE disk' = disk
    <3>1. disk # Torn => StateOK(disk, fx) BY <1>0, StateStaysOK DEF IndInv, DiskOK
    <3>2. QED BY <2>1, <3>1 DEF IndInv, ProcessOK, DiskOK, Grows
  <2>2. CASE disk' = serializeState(mem)
    <3>1. StateOK(disk', extra) /\ disk'.receipts = mem.receipts BY <1>0, <2>2, SerializeOK DEF IndInv
    <3>2. StateOK(disk', fx) BY <1>0, <3>1, StateStaysOK
    <3>3. disk' \in States /\ disk' # Torn BY <3>2, TornAssumption DEF StateOK
    <3>4. QED BY <3>1, <3>2, <3>3 DEF DiskOK, Grows
  <2>3. QED BY <2>1, <2>2
<1>2. /\ slot' \in [Slots -> Handlers] /\ slot'[s] = h
      /\ \A r \in Slots : r # s => slot'[r] = slot[r]
    BY DEF IndInv, ProcessOK, HandlerOK
<1>3. ProcessOK' BY <1>1, <1>2 DEF IndInv, ProcessOK, StateOK
<1>4. ASSUME NEW r \in Slots PROVE HandlerOK(slot'[r], mem', extra', kill')
  <2>1. CASE r = s BY <1>2, <2>1
  <2>2. CASE r # s
    <3>1. HandlerOK(slot[r], mem, extra, kill) BY DEF IndInv
    <3>2. HandlerOK(slot[r], n, fx, kill) BY <1>0, <3>1, HandlerStaysOK
    <3>3. QED BY <1>2, <2>2, <3>2
  <2>3. QED BY <2>1, <2>2
<1>5. AcknowledgedIsKept'
  <2>1. CASE disk' = disk BY <2>1 DEF IndInv, AcknowledgedIsKept, Grows, Succeeded
  <2>2. CASE disk' = serializeState(mem)
    <3>1. disk'.receipts = mem.receipts /\ disk'.mission = mem.mission
        BY <1>0, <2>2, SerializeOK DEF IndInv
    <3>2. QED BY <3>1 DEF IndInv, AcknowledgedIsKept, Grows, Succeeded
  <2>3. QED BY <2>1, <2>2
<1>6. StateOK(mem, extra)' OBVIOUS
<1>7. QED BY <1>1, <1>3, <1>4, <1>5, <1>6 DEF IndInv

\* A good step of the handler in slot s.
LEMMA TakesGood ==
    ASSUME IndInv, NEW s \in Slots, NEW fx \in [Tasks -> Nat], \A t \in Tasks : extra[t] <= fx[t],
           NEW x, GoodStep(mem, x, fx, kill), Takes(s, x), extra' = fx,
           disk' = disk \/ disk' = serializeState(mem),
           UNCHANGED <<kill, acked, torn>>, events' \in Nat
    PROVE  IndInv' /\ SuccessFromUnkilled
<1>1. /\ StateOK(x.m, fx) /\ HandlerOK(x.h, x.m, fx, kill) /\ Grows(mem, x.m)
      /\ NothingNew(mem, x.m)
    BY DEF GoodStep
<1>2. mem' = x.m /\ slot' = [slot EXCEPT ![s] = x.h] BY DEF Takes
<1>3. IndInv' BY <1>1, <1>2, HandlerStep
<1>4. SuccessFromUnkilled BY <1>1, <1>2 DEF SuccessFromUnkilled, NothingNew
<1>5. QED BY <1>3, <1>4

\* The same when no grant is added and the file is left alone.
LEMMA PlainStep ==
    ASSUME IndInv, NEW s \in Slots, NEW x, GoodStep(mem, x, extra, kill), Takes(s, x),
           UNCHANGED <<disk, kill, acked, extra, torn>>, events' \in Nat
    PROVE  IndInv' /\ SuccessFromUnkilled
<1>1. extra \in [Tasks -> Nat] /\ \A t \in Tasks : extra[t] <= extra[t] BY DEF IndInv, ProcessOK
<1>2. QED BY <1>1, TakesGood

\* A handler that begins.
LEMMA FreshHandler ==
    ASSUME IndInv, NEW m, NEW ex,
           NEW job \in {"claim", "heartbeat", "complete", "retry", "advance", "close", "halt",
                        "reconcile", "tick"}
    PROVE  LET h == Handler(job)
           IN  /\ h \in Handlers /\ CarriesOK(h, m, ex, kill)
               /\ h.job = job /\ h.copy = NoCopy /\ h.todo = {} /\ ~h.own /\ h.done = {}
<1> DEFINE h == Handler(job)
<1>1. kill \in BOOLEAN BY DEF IndInv, ProcessOK
<1>2. /\ h \in Handlers /\ h.job = job /\ h.copy = NoCopy /\ h.todo = {} /\ ~h.own /\ h.done = {}
      /\ h.killed = kill
    BY <1>1 DEF Handler, Idle, Handlers
<1> HIDE DEF h
<1>3. CarriesOK(h, m, ex, kill) BY <1>2 DEF CarriesOK
<1>4. QED BY <1>2, <1>3 DEF h

\* What every request leaves alone.
LEMMA RequestFrame ==
    ASSUME IndInv, NEW s \in Slots, Request(s)
    PROVE  /\ UNCHANGED <<disk, kill, acked, torn>> /\ events' \in Nat
           /\ StateOK(mem, extra) /\ extra \in [Tasks -> Nat]
BY DEF Request, Event, IndInv, ProcessOK

\* The claim route.
LEMMA ClaimStep ==
    ASSUME IndInv, NEW s \in Slots, NEW t \in Tasks, Claim(s, t)
    PROVE  IndInv' /\ SuccessFromUnkilled
<1> DEFINE c == Copy(mem, t)
           y == claimTaskForAgent(c.was, Assigned[t])
           h == Handler("claim")
<1>1. /\ UNCHANGED <<disk, kill, acked, torn, extra>> /\ events' \in Nat
      /\ StateOK(mem, extra) /\ extra \in [Tasks -> Nat]
    BY RequestFrame DEF Claim
<1>2. Eligible(mem, t) BY DEF Claim
<1>3. /\ CopyOK(c, mem, extra) /\ c.id = t /\ c.was.status = "queued"
    BY <1>1, <1>2, CopyIsOK DEF Eligible
<1>4. \A d \in Deps(t) : Succeeded(mem, d) BY <1>1, <1>2, DependenciesSucceeded DEF Eligible
<1>5. /\ h \in Handlers /\ CarriesOK(h, mem, extra, kill)
      /\ h.job = "claim" /\ h.copy = NoCopy /\ h.todo = {} /\ ~h.own /\ h.done = {}
    BY FreshHandler
<1>6. c \in TaskCopies /\ c.was \in TaskRecords /\ WithinBudget(c.was, t, extra)
      /\ RightlyReleased(c.was, t, mem)
    BY <1>3 DEF CopyOK, TaskCopies
<1>7. Takes(s, IF c.was.gov = "approved" THEN Step(Put(mem, t, y), [At(h, "logged") EXCEPT !.copy = c])
               ELSE Step(mem, [At(h, "dispatch") EXCEPT !.copy = c]))
    BY DEF Claim
<1> HIDE DEF c, h
<1>8. CASE c.was.gov = "approved"
  <2> DEFINE g == [At(h, "logged") EXCEPT !.copy = c]
             n == Put(mem, t, y)
  <2>1. /\ y \in TaskRecords /\ WithinBudget(y, t, extra) /\ y.ready = c.was.ready
        /\ y.status = "running"
      BY <1>1, <1>3, <1>6, ClaimVersion, TaskAssumption
  <2>2. /\ g \in Handlers /\ g.job = "claim" /\ g.pc = "logged" /\ g.copy = c
        /\ g.todo = {} /\ ~g.own /\ g.done = {} /\ g.killed = h.killed
      BY <1>5, <1>6 DEF At, Handlers
  <2>3. Takes(s, Step(n, g)) BY <1>7, <1>8
  <2> HIDE DEF y, g
  <2>4. RightlyReleased(y, t, mem) BY <1>6, <2>1 DEF RightlyReleased
  <2>5. StateOK(n, extra) /\ Grows(mem, n) /\ NothingNew(mem, n) BY <1>1, <2>1, <2>4, PutOK
  <2> HIDE DEF n
  <2>6. CopyOK(c, n, extra) BY <1>1, <1>3, <2>5, CopyStaysOK
  <2>7. \A d \in Deps(t) : Succeeded(n, d) BY <1>4, <2>5 DEF Grows, Succeeded
  <2>8. HandlerOK(g, n, extra, kill)
      BY <1>3, <1>5, <2>2, <2>6, <2>7 DEF HandlerOK, CarriesOK, AwaitsOf, HandsOut, HoldsCopy
  <2>9. GoodStep(mem, Step(n, g), extra, kill) BY <2>5, <2>8, StepIsGood
  <2>10. QED BY <1>1, <2>3, <2>9, PlainStep
<1>9. CASE c.was.gov # "approved"
  <2> DEFINE g == [At(h, "dispatch") EXCEPT !.copy = c]
  <2>1. /\ g \in Handlers /\ g.job = "claim" /\ g.pc = "dispatch" /\ g.copy = c
        /\ g.todo = {} /\ ~g.own /\ g.done = {} /\ g.killed = h.killed
      BY <1>5, <1>6 DEF At, Handlers
  <2>2. Takes(s, Step(mem, g)) BY <1>7, <1>9
  <2> HIDE DEF g
  <2>3. CarriesOK(g, mem, extra, kill) BY <1>3, <1>5, <2>1 DEF CarriesOK
  <2>4. HandlerOK(g, mem, extra, kill) BY <1>3, <1>4, <2>1, <2>3, DispatchingOK
  <2>5. GoodStep(mem, Step(mem, g), extra, kill) BY <1>1, <2>4, SameState, StepIsGood
  <2>6. QED BY <1>1, <2>2, <2>5, PlainStep
<1>10. QED BY <1>8, <1>9

\* A heartbeat renews the lease and nothing else.
LEMMA HeartbeatVersion ==
    ASSUME NEW x \in TaskRecords, NEW a \in Agents
    PROVE  LET y == updateTaskHeartbeat(x, a)
           IN  /\ y \in TaskRecords /\ y.status = x.status /\ y.attempts = x.attempts
               /\ y.ready = x.ready
BY DEF updateTaskHeartbeat, TaskRecords

\* The heartbeat route.
LEMMA HeartbeatStep ==
    ASSUME IndInv, NEW s \in Slots, NEW t \in Tasks, NEW a \in Agents, Heartbeat(s, t, a)
    PROVE  IndInv' /\ SuccessFromUnkilled
<1> DEFINE y == updateTaskHeartbeat(mem.task[t], a)
           n == Put(mem, t, y)
           h == Handler("heartbeat")
<1>1. /\ UNCHANGED <<disk, kill, acked, torn, extra>> /\ events' \in Nat
      /\ StateOK(mem, extra) /\ extra \in [Tasks -> Nat]
    BY RequestFrame DEF Heartbeat
<1>2. Takes(s, Step(n, Saving(h))) BY DEF Heartbeat
<1>3. mem.task[t] \in TaskRecords BY <1>1 DEF StateOK, States
<1>4. /\ y \in TaskRecords /\ y.status = mem.task[t].status
      /\ y.attempts = mem.task[t].attempts /\ y.ready = mem.task[t].ready
    BY <1>3, HeartbeatVersion
<1> HIDE DEF y
<1>5. /\ WithinBudget(y, t, extra) /\ RightlyReleased(y, t, mem)
      /\ y.status = "completed" => Succeeded(mem, t)
    BY <1>1, <1>4 DEF StateOK, WithinBudget, RightlyReleased
<1>6. StateOK(n, extra) /\ Grows(mem, n) /\ NothingNew(mem, n) BY <1>1, <1>4, <1>5, PutOK
<1> HIDE DEF n
<1>7. CarriesOK(h, n, extra, kill) /\ h.job = "heartbeat" BY FreshHandler
<1> HIDE DEF h
<1>8. HandlerOK(Saving(h), n, extra, kill) BY <1>7, SavingOK
<1>9. GoodStep(mem, Step(n, Saving(h)), extra, kill) BY <1>6, <1>8, StepIsGood
<1>10. QED BY <1>1, <1>2, <1>9, PlainStep

\* The retry route: the one that grants another attempt.
LEMMA RetryStep ==
    ASSUME IndInv, NEW s \in Slots, NEW t \in Tasks, Retry(s, t)
    PROVE  IndInv' /\ SuccessFromUnkilled
<1> DEFINE y == queueTaskRetry(mem.task[t])
           n == Put(mem, t, y)
           h == Handler("retry")
<1>1. /\ UNCHANGED <<disk, kill, acked, torn, extra>> /\ events' \in Nat
      /\ StateOK(mem, extra) /\ extra \in [Tasks -> Nat]
    BY RequestFrame DEF Retry
<1>2. Takes(s, Step(n, Saving(h))) BY DEF Retry
<1>3. mem.task[t] \in TaskRecords /\ WithinBudget(mem.task[t], t, extra) BY <1>1 DEF StateOK, States
<1>4. /\ y \in TaskRecords /\ WithinBudget(y, t, extra)
      /\ y.ready = mem.task[t].ready /\ y.status # "completed"
    BY <1>1, <1>3, RetryVersion
<1> HIDE DEF y
<1>5. RightlyReleased(y, t, mem) BY <1>1, <1>4 DEF StateOK, RightlyReleased
<1>6. StateOK(n, extra) /\ Grows(mem, n) /\ NothingNew(mem, n) BY <1>1, <1>4, <1>5, PutOK
<1> HIDE DEF n
<1>7. CarriesOK(h, n, extra, kill) /\ h.job = "retry" BY FreshHandler
<1> HIDE DEF h
<1>8. HandlerOK(Saving(h), n, extra, kill) BY <1>7, SavingOK
<1>9. GoodStep(mem, Step(n, Saving(h)), extra, kill) BY <1>6, <1>8, StepIsGood
<1>10. QED BY <1>1, <1>2, <1>9, PlainStep

\* A completion that claims the task first does so under a grant of its own.
LEMMA CompleteStep ==
    ASSUME IndInv, NEW s \in Slots, NEW t \in Tasks, NEW a \in Agents, Complete(s, t, a)
    PROVE  IndInv' /\ SuccessFromUnkilled
<1> DEFINE running == mem.task[t].status = "running"
           y == IF running THEN updateTaskHeartbeat(mem.task[t], a)
                ELSE claimTaskForAgent(mem.task[t], a)
           n == Put(mem, t, y)
           h == Handler("complete")
           fx == [extra EXCEPT ![t] = IF running THEN @ ELSE @ + 1]
<1>1. /\ UNCHANGED <<disk, kill, acked, torn>> /\ events' \in Nat
      /\ StateOK(mem, extra) /\ extra \in [Tasks -> Nat]
    BY RequestFrame DEF Complete
<1>2. Takes(s, completeTaskWithGovernance(n, h, Copy(n, t))) /\ extra' = fx BY DEF Complete
<1>3. /\ fx \in [Tasks -> Nat] /\ fx[t] = IF running THEN extra[t] ELSE extra[t] + 1
      /\ \A u \in Tasks : extra[u] <= fx[u]
    BY <1>1
<1> HIDE DEF fx
<1>4. mem.task[t] \in TaskRecords /\ WithinBudget(mem.task[t], t, extra) BY <1>1 DEF StateOK, States
<1>5. /\ y \in TaskRecords /\ WithinBudget(y, t, fx) /\ y.ready = mem.task[t].ready
      /\ y.status = "running"
  <2>1. CASE running
    <3>1. y = updateTaskHeartbeat(mem.task[t], a) BY <2>1
    <3>2. /\ y \in TaskRecords /\ y.status = mem.task[t].status
          /\ y.attempts = mem.task[t].attempts /\ y.ready = mem.task[t].ready
        BY <1>4, <3>1, HeartbeatVersion
    <3>3. fx[t] = extra[t] BY <1>3, <2>1
    <3> HIDE DEF y
    <3>4. QED BY <1>4, <2>1, <3>2, <3>3 DEF WithinBudget
  <2>2. CASE ~running
    <3>1. y = claimTaskForAgent(mem.task[t], a) BY <2>2
    <3>2. fx[t] = extra[t] + 1 BY <1>3, <2>2
    <3> HIDE DEF y, running
    <3>3. QED BY <1>1, <1>3, <1>4, <3>1, <3>2, ClaimVersion
  <2>3. QED BY <2>1, <2>2
<1> HIDE DEF y
<1>6. StateOK(mem, fx) BY <1>1, <1>3, StateStaysOK
<1>7. RightlyReleased(y, t, mem) BY <1>1, <1>5 DEF StateOK, RightlyReleased
<1>8. StateOK(n, fx) /\ Grows(mem, n) /\ NothingNew(mem, n) BY <1>3, <1>5, <1>6, <1>7, PutOK
<1> HIDE DEF n
<1>9. CarriesOK(h, n, fx, kill) /\ h.job = "complete" BY FreshHandler
<1> HIDE DEF h
<1>10. CopyOK(Copy(n, t), n, fx) BY <1>3, <1>8, CopyIsOK
<1>11. GoodStep(n, completeTaskWithGovernance(n, h, Copy(n, t)), fx, kill)
    BY <1>8, <1>9, <1>10, CompleteStepOK DEF Working
<1>12. GoodStep(mem, completeTaskWithGovernance(n, h, Copy(n, t)), fx, kill)
    BY <1>8, <1>11, GoodStepFrom
<1>13. QED BY <1>1, <1>2, <1>3, <1>12, TakesGood

\* The first "execute" creates the tasks.
LEMMA SeededOK ==
    ASSUME NEW ex \in [Tasks -> Nat], NEW m \in States
    PROVE  LET n == Seeded(m)
           IN  StateOK(n, ex) /\ Grows(m, n) /\ NothingNew(m, n)
<1> DEFINE x == [Absent EXCEPT !.status = "queued"]
           n == Seeded(m)
<1>1. x \in TaskRecords /\ x.status = "queued" /\ x.attempts = 0 /\ x.ready = "unset"
    BY DEF Absent, TaskRecords, Statuses
<1>2. n = [m EXCEPT !.task = [t \in Tasks |-> x]] BY DEF Seeded
<1> HIDE DEF x
<1>3. /\ n \in States /\ n.receipts = m.receipts /\ n.mission = m.mission
      /\ \A t \in Tasks : n.task[t] = x
    BY <1>1, <1>2 DEF States
<1> HIDE DEF n
<1>4. \A t \in Tasks : WithinBudget(x, t, ex) BY <1>1, TaskAssumption DEF WithinBudget
<1>5. StateOK(n, ex) BY <1>1, <1>3, <1>4 DEF StateOK, RightlyReleased
<1>6. QED BY <1>3, <1>5 DEF Grows, NothingNew, Succeeded, n

\* A handler that awaits the ledger before its next dispatch.
LEMMA ReleasingOK ==
    ASSUME NEW ex, NEW k, NEW m, NEW h, CarriesOK(h, m, ex, k), h.job \in Working
    PROVE  HandlerOK(At(h, "releasing"), m, ex, k)
<1> DEFINE g == At(h, "releasing")
<1>1. h \in Handlers BY DEF CarriesOK
<1>2. /\ g \in Handlers /\ g.job = h.job /\ g.pc = "releasing" /\ g.copy = h.copy
      /\ g.todo = h.todo /\ g.own = h.own /\ g.done = h.done /\ g.killed = h.killed
    BY <1>1 DEF At, Handlers
<1> HIDE DEF g
<1>3. "releasing" \in AwaitsOf(h.job) BY DEF Working, AwaitsOf
<1>4. HandlerOK(g, m, ex, k)
    BY <1>2, <1>3 DEF HandlerOK, CarriesOK, HandsOut, HoldsCopy, Working
<1>5. QED BY <1>4 DEF g

\* The advance route, execute.
LEMMA ExecuteStep ==
    ASSUME IndInv, NEW s \in Slots, Execute(s)
    PROVE  IndInv' /\ SuccessFromUnkilled
<1> DEFINE h == Handler("advance")
           n == Seeded(mem)
<1>1. /\ UNCHANGED <<disk, kill, acked, torn, extra>> /\ events' \in Nat
      /\ StateOK(mem, extra) /\ extra \in [Tasks -> Nat]
    BY RequestFrame DEF Execute
<1>2. Takes(s, IF Created(mem) = {} THEN Step(n, At(h, "releasing"))
               ELSE dispatchNextEligibleTask(mem, h, Tasks, FALSE))
    BY DEF Execute
<1>3. h.job = "advance" /\ CarriesOK(h, mem, extra, kill) /\ CarriesOK(h, n, extra, kill)
    BY FreshHandler
<1> HIDE DEF h
<1>4. CASE Created(mem) = {}
  <2>1. StateOK(n, extra) /\ Grows(mem, n) /\ NothingNew(mem, n)
      BY <1>1, SeededOK DEF StateOK
  <2> HIDE DEF n
  <2>2. HandlerOK(At(h, "releasing"), n, extra, kill) BY <1>3, ReleasingOK DEF Working
  <2>3. GoodStep(mem, Step(n, At(h, "releasing")), extra, kill) BY <2>1, <2>2, StepIsGood
  <2>4. Takes(s, Step(n, At(h, "releasing"))) BY <1>2, <1>4
  <2>5. QED BY <1>1, <2>3, <2>4, PlainStep
<1>5. CASE Created(mem) # {}
  <2>1. GoodStep(mem, dispatchNextEligibleTask(mem, h, Tasks, FALSE), extra, kill)
      BY <1>1, <1>3, DispatchNextOK DEF Working
  <2>2. Takes(s, dispatchNextEligibleTask(mem, h, Tasks, FALSE)) BY <1>2, <1>5
  <2>3. QED BY <1>1, <2>1, <2>2, PlainStep
<1>6. QED BY <1>4, <1>5

\* The advance route, progress and complete.
LEMMA ProgressStep ==
    ASSUME IndInv, NEW s \in Slots, NEW job \in {"advance", "close"}, Progress(s, job)
    PROVE  IndInv' /\ SuccessFromUnkilled
<1> DEFINE h == Handler(job)
           R == InStatus(mem, {"running"})
           x == IF R # {} THEN completeTaskWithGovernance(mem, h, Copy(mem, Min(R)))
                ELSE IF job = "advance" THEN dispatchNextEligibleTask(mem, h, Tasks, FALSE)
                ELSE Return(mem, h)
<1>1. /\ UNCHANGED <<disk, kill, acked, torn, extra>> /\ events' \in Nat
      /\ StateOK(mem, extra) /\ extra \in [Tasks -> Nat]
    BY RequestFrame DEF Progress
<1>2. Takes(s, x) BY DEF Progress
<1>3. h.job = job /\ CarriesOK(h, mem, extra, kill) BY FreshHandler
<1>4. h.job \in Working BY <1>3 DEF Working
<1> HIDE DEF h
<1>5. GoodStep(mem, x, extra, kill)
  <2>1. CASE R # {}
    <3>1. R \subseteq Tasks /\ R \subseteq Nat BY DEF InStatus, Tasks
    <3>2. Min(R) \in Tasks BY <2>1, <3>1, LeastMember
    <3>3. CopyOK(Copy(mem, Min(R)), mem, extra) BY <1>1, <3>2, CopyIsOK
    <3>4. x = completeTaskWithGovernance(mem, h, Copy(mem, Min(R))) BY <2>1
    <3>5. QED BY <1>1, <1>3, <1>4, <3>3, <3>4, CompleteStepOK
  <2>2. CASE R = {} /\ job = "advance"
    <3>1. x = dispatchNextEligibleTask(mem, h, Tasks, FALSE) BY <2>2
    <3>2. QED BY <1>1, <1>3, <1>4, <3>1, DispatchNextOK
  <2>3. CASE R = {} /\ job # "advance"
    <3>1. x = Return(mem, h) BY <2>3
    <3>2. QED BY <1>1, <1>3, <1>4, <3>1, ReturnOK
  <2>4. QED BY <2>1, <2>2, <2>3
<1> HIDE DEF x
<1>6. QED BY <1>1, <1>2, <1>5, PlainStep

\* The advance route, halt.
LEMMA HaltStep ==
    ASSUME IndInv, NEW s \in Slots, Halt(s)
    PROVE  IndInv' /\ SuccessFromUnkilled
<1> DEFINE h == Handler("halt")
           S == {t \in Tasks : mem.task[t].status \in {"queued", "running"}}
<1>1. /\ UNCHANGED <<disk, kill, acked, torn, extra>> /\ events' \in Nat
      /\ StateOK(mem, extra) /\ extra \in [Tasks -> Nat]
    BY RequestFrame DEF Halt
<1>2. Takes(s, HaltNext(mem, h, Copies(mem, S))) BY DEF Halt
<1>3. h.job = "halt" /\ CarriesOK(h, mem, extra, kill) BY FreshHandler
<1>4. S \in SUBSET Tasks OBVIOUS
<1> HIDE DEF h, S
<1>5. /\ Copies(mem, S) \in SUBSET TaskCopies
      /\ \A c \in Copies(mem, S) : CopyOK(c, mem, extra)
    BY <1>1, <1>4, CopiesOK
<1>6. GoodStep(mem, HaltNext(mem, h, Copies(mem, S)), extra, kill)
    BY <1>1, <1>3, <1>5, HaltStepOK
<1>7. QED BY <1>1, <1>2, <1>6, PlainStep

\* The sweep over the stale runs of a state.
LEMMA StaleSweepOK ==
    ASSUME NEW ex \in [Tasks -> Nat], NEW k, NEW m, StateOK(m, ex), NEW h, CarriesOK(h, m, ex, k),
           h.job \in {"tick", "reconcile"}
    PROVE  GoodStep(m, reconcileStaleRunningTasks(m, h, StaleRuns(m)), ex, k)
<1> DEFINE S == {t \in Tasks : m.task[t].status = "running" /\ m.task[t].stale}
<1>1. S \in SUBSET Tasks OBVIOUS
<1>2. StaleRuns(m) = Copies(m, S) BY DEF StaleRuns
<1> HIDE DEF S
<1>3. /\ StaleRuns(m) \in SUBSET TaskCopies
      /\ \A c \in StaleRuns(m) : CopyOK(c, m, ex)
    BY <1>1, <1>2, CopiesOK
<1>4. QED BY <1>3, StaleStepOK

\* The reconcile route.
LEMMA ReconcileStep ==
    ASSUME IndInv, NEW s \in Slots, Reconcile(s)
    PROVE  IndInv' /\ SuccessFromUnkilled
<1> DEFINE h == Handler("reconcile")
           n == reconcileRecoveredState(mem)
           fx == [t \in Tasks |-> IF mem.task[t].status = "running" THEN extra[t] + 1 ELSE extra[t]]
           x1 == Step(n, At(h, "reconciled"))
           x2 == reconcileStaleRunningTasks(n, h, StaleRuns(n))
<1>1. /\ UNCHANGED <<disk, kill, acked, torn>> /\ events' \in Nat
      /\ StateOK(mem, extra) /\ extra \in [Tasks -> Nat]
    BY RequestFrame DEF Reconcile
<1>2. extra' = fx /\ (Takes(s, x1) \/ Takes(s, x2)) BY DEF Reconcile
<1>3. /\ StateOK(n, fx) /\ Grows(mem, n) /\ NothingNew(mem, n)
      /\ fx \in [Tasks -> Nat] /\ \A t \in Tasks : extra[t] <= fx[t]
    BY <1>1, RecoveredOK
<1>4. h \in Handlers /\ h.job = "reconcile" /\ h.copy = NoCopy /\ h.todo = {} /\ h.done = {}
      /\ CarriesOK(h, n, fx, kill)
    BY FreshHandler
<1> HIDE DEF n, fx, h
<1>5. GoodStep(mem, x1, fx, kill)
  <2> DEFINE g == At(h, "reconciled")
  <2>1. /\ g \in Handlers /\ g.job = "reconcile" /\ g.pc = "reconciled" /\ g.copy = NoCopy
        /\ g.todo = {} /\ g.done = {} /\ g.killed = h.killed
      BY <1>4 DEF At, Handlers
  <2>2. HandlerOK(g, n, fx, kill)
      BY <1>4, <2>1 DEF HandlerOK, CarriesOK, AwaitsOf, HoldsCopy, HandsOut
  <2>3. QED BY <1>3, <2>2, StepIsGood
<1>6. GoodStep(mem, x2, fx, kill)
  <2>1. GoodStep(n, x2, fx, kill) BY <1>3, <1>4, StaleSweepOK
  <2>2. QED BY <1>3, <2>1, GoodStepFrom
<1> HIDE DEF x1, x2
<1>7. QED BY <1>1, <1>2, <1>3, <1>5, <1>6, TakesGood

\* The autonomy tick begins.
LEMMA TickStep ==
    ASSUME IndInv, NEW s \in Slots, Tick(s)
    PROVE  IndInv' /\ SuccessFromUnkilled
<1> DEFINE h == Handler("tick")
<1>1. /\ UNCHANGED <<disk, kill, acked, torn, extra>> /\ events' \in Nat
      /\ StateOK(mem, extra) /\ extra \in [Tasks -> Nat]
    BY DEF Tick, bounds, IndInv, ProcessOK
<1>2. Takes(s, reconcileStaleRunningTasks(mem, h, StaleRuns(mem))) BY DEF Tick
<1>3. h.job = "tick" /\ CarriesOK(h, mem, extra, kill) BY FreshHandler
<1> HIDE DEF h
<1>4. GoodStep(mem, reconcileStaleRunningTasks(mem, h, StaleRuns(mem)), extra, kill)
    BY <1>1, <1>3, StaleSweepOK
<1>5. QED BY <1>1, <1>2, <1>4, PlainStep

\* What a handler knows when its await ends.
LEMMA ResumeFrame ==
    ASSUME IndInv, NEW s \in Slots
    PROVE  /\ StateOK(mem, extra) /\ extra \in [Tasks -> Nat] /\ events \in Nat
           /\ HandlerOK(slot[s], mem, extra, kill) /\ CarriesOK(slot[s], mem, extra, kill)
           /\ slot[s] \in Handlers
BY HandlerCarries DEF IndInv, ProcessOK

\* A good step at the end of an await.
LEMMA ResumesGood ==
    ASSUME IndInv, NEW s \in Slots, NEW x, GoodStep(mem, x, extra, kill), Resumes(s, x)
    PROVE  IndInv' /\ SuccessFromUnkilled
<1>1. /\ Takes(s, x) /\ UNCHANGED <<disk, kill, acked, extra, torn>> /\ events' \in Nat
    BY ResumeFrame DEF Resumes, bounds
<1>2. QED BY <1>1, PlainStep

\* The gate lets a handler go on: the kill switch is off.
LEMMA AllowedStep ==
    ASSUME IndInv, NEW s \in Slots, NEW from, NEW to, Allowed(s, from, to),
           \/ from = "dispatch" /\ to = "dispatchAllowed"
           \/ from = "complete" /\ to = "decide"
           \/ from = "decide" /\ to = "completeAllowed"
    PROVE  IndInv' /\ SuccessFromUnkilled
<1> DEFINE h == slot[s]
           g == [h EXCEPT !.pc = to]
<1>1. /\ StateOK(mem, extra) /\ extra \in [Tasks -> Nat] /\ events \in Nat
      /\ HandlerOK(h, mem, extra, kill) /\ h \in Handlers
    BY ResumeFrame
<1>2. /\ h.pc = from /\ ~kill /\ UNCHANGED <<mem, disk, kill, acked, extra, torn, events>>
    BY DEF Allowed, GateAllows, bounds
<1>3. slot' = [slot EXCEPT ![s] = g] BY DEF Allowed
<1>4. /\ g \in Handlers /\ g.job = h.job /\ g.pc = to /\ g.copy = h.copy
      /\ g.todo = h.todo /\ g.own = h.own /\ g.done = h.done /\ g.killed = h.killed
    BY <1>1 DEF Handlers
<1> HIDE DEF g, h
<1>5. to \in AwaitsOf(g.job)
  <2>1. from \in AwaitsOf(h.job) BY <1>1, <1>2 DEF HandlerOK
  <2>2. QED BY <1>4, <2>1 DEF AwaitsOf, HoldsCopy
<1>6. HandlerOK(g, mem, extra, kill)
    BY <1>1, <1>2, <1>4, <1>5 DEF HandlerOK, HandsOut, HoldsCopy
<1>7. GoodStep(mem, Step(mem, g), extra, kill) BY <1>1, <1>6, SameState, StepIsGood
<1>8. Takes(s, Step(mem, g)) BY <1>2, <1>3 DEF Takes, Step
<1>9. events' \in Nat BY <1>1, <1>2
<1>10. QED BY <1>2, <1>7, <1>8, <1>9, PlainStep

\* A dispatch that was allowed is written back.
LEMMA DispatchedStep ==
    ASSUME IndInv, NEW s \in Slots, Dispatched(s)
    PROVE  IndInv' /\ SuccessFromUnkilled
<1> DEFINE h == slot[s]
           c == h.copy
           t == c.id
           y0 == claimTaskForAgent(c.was, Assigned[t])
           y == [y0 EXCEPT !.gov = "approved"]
           n == Put(mem, t, y)
           x1 == completeTaskWithGovernance(n, h, Copy(n, t))
           g == [At(h, "logged") EXCEPT !.copy = Copy(n, t)]
<1>1. /\ StateOK(mem, extra) /\ extra \in [Tasks -> Nat]
      /\ HandlerOK(h, mem, extra, kill) /\ CarriesOK(h, mem, extra, kill) /\ h \in Handlers
    BY ResumeFrame
<1>2. h.pc = "dispatchAllowed" /\ Resumes(s, IF h.job = "sweep" THEN x1 ELSE Step(n, g))
    BY DEF Dispatched
<1>3. /\ CopyOK(c, mem, extra) /\ c.was.status = "queued"
      /\ h.job # "sweep" => \A d \in Deps(t) : Succeeded(mem, d)
    BY <1>1, <1>2 DEF HandlerOK, HoldsCopy, HandsOut
<1>4. h.job \in Working \union {"claim"} BY <1>1, <1>2 DEF HandlerOK, AwaitsOf, Working
<1> HIDE DEF h, c
<1>5. t \in Tasks /\ c.was \in TaskRecords /\ WithinBudget(c.was, t, extra)
      /\ RightlyReleased(c.was, t, mem)
    BY <1>3 DEF CopyOK, TaskCopies
<1> HIDE DEF t
<1>6. /\ y0 \in TaskRecords /\ WithinBudget(y0, t, extra)
      /\ y0.ready = c.was.ready /\ y0.status = "running"
    BY <1>1, <1>3, <1>5, ClaimVersion, TaskAssumption
<1> HIDE DEF y0
<1>7. /\ y \in TaskRecords /\ y.status = "running" /\ y.ready = c.was.ready
      /\ y.attempts = y0.attempts
    BY <1>6 DEF TaskRecords
<1> HIDE DEF y
<1>8. WithinBudget(y, t, extra) /\ RightlyReleased(y, t, mem)
    BY <1>5, <1>6, <1>7 DEF WithinBudget, RightlyReleased
<1>9. StateOK(n, extra) /\ Grows(mem, n) /\ NothingNew(mem, n)
    BY <1>1, <1>5, <1>7, <1>8, PutOK
<1> HIDE DEF n
<1>10. CarriesOK(h, n, extra, kill) BY <1>1, <1>9, CarriesStaysOK
<1>11. CopyOK(Copy(n, t), n, extra) /\ Copy(n, t).id = t BY <1>1, <1>5, <1>9, CopyIsOK
<1>12. CASE h.job = "sweep"
  <2>1. GoodStep(n, x1, extra, kill) BY <1>9, <1>10, <1>11, <1>12, CompleteStepOK DEF Working
  <2>2. GoodStep(mem, x1, extra, kill) BY <1>9, <2>1, GoodStepFrom
  <2>3. Resumes(s, x1) BY <1>2, <1>12
  <2> HIDE DEF x1
  <2>4. QED BY <2>2, <2>3, ResumesGood
<1>13. CASE h.job # "sweep"
  <2>1. Copy(n, t) \in TaskCopies BY <1>11 DEF CopyOK
  <2>2. /\ g \in Handlers /\ g.job = h.job /\ g.pc = "logged" /\ g.copy = Copy(n, t)
        /\ g.todo = h.todo /\ g.own = h.own /\ g.done = h.done /\ g.killed = h.killed
      BY <1>1, <2>1 DEF At, Handlers
  <2> HIDE DEF g
  <2>3. \A d \in Deps(t) : Succeeded(n, d) BY <1>3, <1>9, <1>13 DEF Grows, Succeeded, t
  <2>4. "logged" \in AwaitsOf(h.job) BY <1>4 DEF AwaitsOf, HoldsCopy, Working
  <2>5. HandlerOK(g, n, extra, kill)
      BY <1>10, <1>11, <2>2, <2>3, <2>4 DEF HandlerOK, CarriesOK, HandsOut, HoldsCopy
  <2>6. GoodStep(mem, Step(n, g), extra, kill) BY <1>9, <2>5, StepIsGood
  <2>7. Resumes(s, Step(n, g)) BY <1>2, <1>13
  <2>8. QED BY <2>6, <2>7, ResumesGood
<1>14. QED BY <1>12, <1>13

\* A refusal, at the dispatch or at the completion.
LEMMA RefusedStep ==
    ASSUME IndInv, NEW s \in Slots, DispatchRefused(s) \/ CompletionRefused(s)
    PROVE  IndInv' /\ SuccessFromUnkilled
<1> DEFINE h == slot[s]
           n == blockTaskForGovernance(mem, h.copy)
           g == [At(h, "logged") EXCEPT !.own = FALSE]
<1>1. /\ StateOK(mem, extra) /\ extra \in [Tasks -> Nat]
      /\ HandlerOK(h, mem, extra, kill) /\ CarriesOK(h, mem, extra, kill) /\ h \in Handlers
    BY ResumeFrame
<1>2. h.pc \in {"dispatch", "complete", "decide"} /\ Resumes(s, Step(n, g))
    BY DEF DispatchRefused, CompletionRefused
<1>3. CopyOK(h.copy, mem, extra) BY <1>1, <1>2 DEF HandlerOK, HoldsCopy
<1>4. /\ h.job \in Working \union {"claim"}
      /\ h.job = "claim" => h.pc = "dispatch"
    BY <1>1, <1>2 DEF HandlerOK, AwaitsOf, Working
<1>5. /\ g \in Handlers /\ g.job = h.job /\ g.pc = "logged" /\ g.copy = h.copy
      /\ g.todo = h.todo /\ g.own = FALSE /\ g.done = h.done /\ g.killed = h.killed
    BY <1>1 DEF At, Handlers
<1> HIDE DEF h, g
<1>6. StateOK(n, extra) /\ Grows(mem, n) /\ NothingNew(mem, n) BY <1>1, <1>3, BlockOK
<1> HIDE DEF n
<1>7. CarriesOK(h, n, extra, kill) /\ CopyOK(h.copy, n, extra)
    BY <1>1, <1>3, <1>6, CarriesStaysOK, CopyStaysOK
<1>8. "logged" \in AwaitsOf(h.job) BY <1>4 DEF AwaitsOf, HoldsCopy, Working
<1>9. h.job = "claim" => \A d \in Deps(h.copy.id) : Succeeded(n, d)
    BY <1>1, <1>4, <1>6 DEF HandlerOK, HandsOut, Grows, Succeeded
<1>10. HandlerOK(g, n, extra, kill)
    BY <1>5, <1>7, <1>8, <1>9 DEF HandlerOK, CarriesOK, HandsOut, HoldsCopy
<1>11. GoodStep(mem, Step(n, g), extra, kill) BY <1>6, <1>10, StepIsGood
<1>12. QED BY <1>2, <1>11, ResumesGood

\* The ledger has a dispatch or a refusal.
LEMMA AfterDispatchStep ==
    ASSUME IndInv, NEW s \in Slots, AfterDispatch(s)
    PROVE  IndInv' /\ SuccessFromUnkilled
<1> DEFINE h == slot[s]
           x == IF h.own THEN completeTaskWithGovernance(mem, h, h.copy) ELSE Return(mem, h)
<1>1. /\ StateOK(mem, extra) /\ extra \in [Tasks -> Nat]
      /\ HandlerOK(h, mem, extra, kill) /\ CarriesOK(h, mem, extra, kill) /\ h \in Handlers
    BY ResumeFrame
<1>2. h.pc = "logged" /\ Resumes(s, x) BY DEF AfterDispatch
<1>3. CopyOK(h.copy, mem, extra) BY <1>1, <1>2 DEF HandlerOK, HoldsCopy
<1>4. /\ h.job \in Working \union {"claim"} /\ (h.job = "claim" => ~h.own)
    BY <1>1, <1>2 DEF HandlerOK, AwaitsOf, Working
<1> HIDE DEF h
<1>5. GoodStep(mem, x, extra, kill)
  <2>1. CASE h.own BY <1>1, <1>3, <1>4, <2>1, CompleteStepOK
  <2>2. CASE ~h.own BY <1>1, <1>4, <2>2, ReturnOK
  <2>3. QED BY <2>1, <2>2
<1> HIDE DEF x
<1>6. QED BY <1>2, <1>5, ResumesGood

\* The only step that grants a success: its handler was let through with the
\* kill switch off.
LEMMA CompletedStep ==
    ASSUME IndInv, NEW s \in Slots, Completed(s)
    PROVE  IndInv' /\ SuccessFromUnkilled
<1> DEFINE h == slot[s]
           c == h.copy
           x == [c.was EXCEPT !.status = "completed", !.claimedBy = NoAgent, !.gov = "approved"]
           R == {<<c.id, "success">>}
           p == [mem EXCEPT !.receipts = @ \union R]
           q == Put(mem, c.id, x)
           n == [q EXCEPT !.receipts = @ \union {<<c.id, "success">>}]
           D == IF h.job = "complete" THEN {c.id} ELSE {}
           g == [At(h, "completed") EXCEPT !.own = FALSE, !.done = D]
<1>1. /\ StateOK(mem, extra) /\ extra \in [Tasks -> Nat] /\ events \in Nat
      /\ HandlerOK(h, mem, extra, kill) /\ CarriesOK(h, mem, extra, kill) /\ h \in Handlers
    BY ResumeFrame
<1>2. h.pc = "completeAllowed" /\ Resumes(s, Step(n, g)) BY DEF Completed
<1>3. CopyOK(c, mem, extra) /\ ~h.killed BY <1>1, <1>2 DEF HandlerOK, HoldsCopy
<1>4. h.job \in Working BY <1>1, <1>2 DEF HandlerOK, AwaitsOf, Working
<1>5. c.id \in Tasks /\ c.was \in TaskRecords /\ WithinBudget(c.was, c.id, extra)
      /\ RightlyReleased(c.was, c.id, mem)
    BY <1>3 DEF CopyOK, TaskCopies
<1>6. D \in SUBSET Tasks /\ \A t \in D : t = c.id BY <1>5
<1> HIDE DEF D
<1>7. /\ g \in Handlers /\ g.job = h.job /\ g.pc = "completed" /\ g.copy = h.copy
      /\ g.todo = h.todo /\ g.own = FALSE /\ g.done = D /\ g.killed = h.killed
    BY <1>1, <1>6 DEF At, Handlers
<1> HIDE DEF g
<1>8. /\ x \in TaskRecords /\ x.attempts = c.was.attempts /\ x.ready = c.was.ready
      /\ x.status = "completed"
    BY <1>5 DEF TaskRecords, Statuses
<1>9. mem \in States BY <1>1 DEF StateOK
<1>10. n = Put(p, c.id, x) BY <1>5, <1>9 DEF Put, States
<1> HIDE DEF x, h
<1>11. R \in SUBSET (Tasks \X {"success", "blocked", "halted"}) BY <1>5
<1> HIDE DEF R
<1>12. StateOK(p, extra) /\ Grows(mem, p) /\ p.receipts = mem.receipts \union R
    BY <1>1, <1>11, ReceiptOK
<1>13. Succeeded(p, c.id) /\ \A t \in Tasks : Succeeded(p, t) => t = c.id \/ Succeeded(mem, t)
    BY <1>12 DEF Succeeded, R
<1> HIDE DEF p, n
<1>14. RightlyReleased(x, c.id, p) /\ WithinBudget(x, c.id, extra)
    BY <1>5, <1>8, <1>12 DEF RightlyReleased, WithinBudget, Grows, Succeeded
<1>15. /\ StateOK(n, extra) /\ Grows(p, n) /\ NothingNew(p, n)
       /\ n.receipts = p.receipts
    BY <1>1, <1>5, <1>8, <1>10, <1>12, <1>13, <1>14, PutOK
<1>16. Grows(mem, n) /\ Succeeded(n, c.id) BY <1>12, <1>13, <1>15 DEF Grows, Succeeded
<1>17. CarriesOK(h, n, extra, kill) /\ CopyOK(c, n, extra)
    BY <1>1, <1>3, <1>16, CarriesStaysOK, CopyStaysOK
<1>18. "completed" \in AwaitsOf(h.job) BY <1>4 DEF AwaitsOf, HoldsCopy, Working
<1>19. HandlerOK(g, n, extra, kill)
    BY <1>4, <1>6, <1>7, <1>16, <1>17, <1>18 DEF HandlerOK, CarriesOK, HandsOut, HoldsCopy, Working
<1>20. /\ mem' = n /\ slot' = [slot EXCEPT ![s] = g]
       /\ UNCHANGED <<disk, kill, acked, extra, torn, events>>
    BY <1>2 DEF Resumes, Takes, Step, bounds
<1>21. IndInv'
  <2>1. \A t \in Tasks : extra[t] <= extra[t] BY <1>1
  <2>2. extra' = extra /\ events' \in Nat BY <1>1, <1>20
  <2>3. QED BY <1>1, <1>15, <1>16, <1>19, <1>20, <2>1, <2>2, HandlerStep
<1>22. SuccessFromUnkilled
    BY <1>2, <1>3, <1>13, <1>15, <1>20 DEF SuccessFromUnkilled, NothingNew, h
<1>23. QED BY <1>21, <1>22

\* The ledger has a completion.
LEMMA AfterCompletionStep ==
    ASSUME IndInv, NEW s \in Slots, AfterCompletion(s)
    PROVE  IndInv' /\ SuccessFromUnkilled
<1> DEFINE h == slot[s]
           n == syncMissionDerivedState(mem)
           newly == {t \in InStatus(n, {"queued"}) \ h.released : n.task[t].ready = "yes"}
           x == IF n.mission \notin {"active", "planned"} THEN Return(n, h)
                ELSE IF newly # {} THEN Step(n, At(h, "releasing"))
                ELSE dispatchNextEligibleTask(n, h, Tasks, FALSE)
<1>1. /\ StateOK(mem, extra) /\ extra \in [Tasks -> Nat]
      /\ HandlerOK(h, mem, extra, kill) /\ CarriesOK(h, mem, extra, kill) /\ h \in Handlers
    BY ResumeFrame
<1>2. h.pc = "completed" /\ Resumes(s, x) BY DEF AfterCompletion
<1>3. h.job \in Working BY <1>1, <1>2 DEF HandlerOK, AwaitsOf, Working
<1> HIDE DEF h, newly
<1>4. StateOK(n, extra) /\ Grows(mem, n) /\ NothingNew(mem, n) BY <1>1, SyncOK
<1> HIDE DEF n
<1>5. CarriesOK(h, n, extra, kill) BY <1>1, <1>4, CarriesStaysOK
<1>6. GoodStep(n, Return(n, h), extra, kill) BY <1>1, <1>3, <1>4, <1>5, ReturnOK
<1>7. GoodStep(n, Step(n, At(h, "releasing")), extra, kill)
    BY <1>3, <1>4, <1>5, ReleasingOK, SameState, StepIsGood
<1>8. GoodStep(n, dispatchNextEligibleTask(n, h, Tasks, FALSE), extra, kill)
    BY <1>1, <1>3, <1>4, <1>5, DispatchNextOK
<1>9. GoodStep(n, x, extra, kill) BY <1>6, <1>7, <1>8
<1> HIDE DEF x
<1>10. GoodStep(mem, x, extra, kill) BY <1>4, <1>9, GoodStepFrom
<1>11. QED BY <1>2, <1>10, ResumesGood

\* The ledger has the new or the released tasks.
LEMMA AfterReleaseStep ==
    ASSUME IndInv, NEW s \in Slots, AfterRelease(s)
    PROVE  IndInv' /\ SuccessFromUnkilled
<1> DEFINE h == slot[s]
<1>1. /\ StateOK(mem, extra) /\ extra \in [Tasks -> Nat]
      /\ HandlerOK(h, mem, extra, kill) /\ CarriesOK(h, mem, extra, kill) /\ h \in Handlers
    BY ResumeFrame
<1>2. h.pc = "releasing" /\ Resumes(s, dispatchNextEligibleTask(mem, h, Tasks, FALSE))
    BY DEF AfterRelease
<1>3. h.job \in Working BY <1>1, <1>2 DEF HandlerOK, AwaitsOf, Working, HoldsCopy
<1> HIDE DEF h
<1>4. GoodStep(mem, dispatchNextEligibleTask(mem, h, Tasks, FALSE), extra, kill)
    BY <1>1, <1>3, DispatchNextOK
<1>5. QED BY <1>2, <1>4, ResumesGood

\* The ledger has a retry or a cancellation.
LEMMA AfterLoopStep ==
    ASSUME IndInv, NEW s \in Slots, AfterLoopEvent(s)
    PROVE  IndInv' /\ SuccessFromUnkilled
<1> DEFINE h == slot[s]
<1>1. /\ StateOK(mem, extra) /\ extra \in [Tasks -> Nat]
      /\ HandlerOK(h, mem, extra, kill) /\ CarriesOK(h, mem, extra, kill) /\ h \in Handlers
    BY ResumeFrame
<1>2. \/ h.pc = "stale" /\ Resumes(s, reconcileStaleRunningTasks(mem, h, h.todo))
      \/ h.pc = "halting" /\ Resumes(s, HaltNext(mem, h, h.todo))
    BY DEF AfterLoopEvent
<1> HIDE DEF h
<1>3. h.todo \in SUBSET TaskCopies /\ \A c \in h.todo : CopyOK(c, mem, extra)
    BY <1>1 DEF HandlerOK, Handlers
<1>4. CASE h.pc = "stale" /\ Resumes(s, reconcileStaleRunningTasks(mem, h, h.todo))
  <2>1. h.job \in {"tick", "reconcile"} BY <1>1, <1>4 DEF HandlerOK, AwaitsOf, HoldsCopy
  <2>2. GoodStep(mem, reconcileStaleRunningTasks(mem, h, h.todo), extra, kill)
      BY <1>1, <1>3, <2>1, StaleStepOK
  <2>3. QED BY <1>4, <2>2, ResumesGood
<1>5. CASE h.pc = "halting" /\ Resumes(s, HaltNext(mem, h, h.todo))
  <2>1. h.job = "halt" BY <1>1, <1>5 DEF HandlerOK, AwaitsOf, HoldsCopy
  <2>2. GoodStep(mem, HaltNext(mem, h, h.todo), extra, kill)
      BY <1>1, <1>3, <2>1, HaltStepOK
  <2>3. QED BY <1>5, <2>2, ResumesGood
<1>6. QED BY <1>2, <1>4, <1>5

\* The write ends and the handler answers.
LEMMA PersistStep ==
    ASSUME IndInv, NEW s \in Slots, Persist(s) \/ PersistFails(s)
    PROVE  IndInv' /\ SuccessFromUnkilled
<1> DEFINE h == slot[s]
<1>1. /\ StateOK(mem, extra) /\ extra \in [Tasks -> Nat] /\ events \in Nat
      /\ HandlerOK(h, mem, extra, kill) /\ h \in Handlers
    BY ResumeFrame
<1>2. /\ h.pc = "persist" /\ UNCHANGED <<mem, kill, extra>> /\ events' \in Nat
      /\ acked' = [tasks |-> acked.tasks \union h.done, halt |-> acked.halt \/ h.job = "halt"]
      /\ slot' = [slot EXCEPT ![s] = Idle]
    BY <1>1 DEF Persist, PersistFails, Answers, Event, bounds
<1>3. \/ disk' = serializeState(mem) /\ torn' = torn
      \/ disk' \in {disk, Torn} /\ torn' = TRUE
    BY DEF Persist, PersistFails, bounds
<1>4. acked' \in [tasks : SUBSET Tasks, halt : BOOLEAN]
      /\ acked'.tasks = acked.tasks \union h.done /\ acked'.halt = (acked.halt \/ h.job = "halt")
    BY <1>1, <1>2 DEF IndInv, ProcessOK, Handlers
<1>5. /\ slot' \in [Slots -> Handlers] /\ \A r \in Slots : HandlerOK(slot'[r], mem, extra, kill)
    BY <1>2, IdleOK DEF IndInv, ProcessOK
<1>6. (\A t \in h.done : Succeeded(mem, t)) /\ (h.job = "halt" => mem.mission = "halted")
    BY <1>1, <1>2 DEF HandlerOK
<1> HIDE DEF h
<1>7. CASE disk' = serializeState(mem) /\ torn' = torn
  <2>1. /\ StateOK(disk', extra) /\ disk'.receipts = mem.receipts /\ disk'.mission = mem.mission
      BY <1>1, <1>7, SerializeOK
  <2>2. disk' \in States /\ disk' # Torn BY <2>1, TornAssumption DEF StateOK
  <2>3. ProcessOK' BY <1>2, <1>4, <1>5, <1>7, <2>2 DEF IndInv, ProcessOK
  <2>4. DiskOK' BY <1>2, <2>1, <2>2 DEF DiskOK
  <2>5. AcknowledgedIsKept'
      BY <1>2, <1>4, <1>6, <1>7, <2>1 DEF IndInv, AcknowledgedIsKept, Succeeded
  <2>6. StateOK(mem, extra)' BY <1>1, <1>2
  <2>7. IndInv' BY <1>2, <1>5, <2>3, <2>4, <2>5, <2>6 DEF IndInv
  <2>8. QED BY <1>2, <2>7 DEF SuccessFromUnkilled
<1>8. CASE disk' \in {disk, Torn} /\ torn' = TRUE
  <2>1. ProcessOK' BY <1>2, <1>4, <1>5, <1>8 DEF IndInv, ProcessOK
  <2>2. DiskOK' BY <1>2, <1>8 DEF IndInv, DiskOK
  <2>3. AcknowledgedIsKept' BY <1>8 DEF AcknowledgedIsKept
  <2>4. StateOK(mem, extra)' BY <1>1, <1>2
  <2>5. IndInv' BY <1>2, <1>5, <2>1, <2>2, <2>3, <2>4 DEF IndInv
  <2>6. QED BY <1>2, <2>5 DEF SuccessFromUnkilled
<1>9. QED BY <1>3, <1>7, <1>8

\* reconcileRecoveredState has been saved.
LEMMA ReconciledStep ==
    ASSUME IndInv, NEW s \in Slots, Reconciled(s)
    PROVE  IndInv' /\ SuccessFromUnkilled
<1> DEFINE h == slot[s]
           x == reconcileStaleRunningTasks(mem, h, StaleRuns(mem))
<1>1. /\ StateOK(mem, extra) /\ extra \in [Tasks -> Nat] /\ events \in Nat
      /\ HandlerOK(h, mem, extra, kill) /\ CarriesOK(h, mem, extra, kill) /\ h \in Handlers
    BY ResumeFrame
<1>2. /\ h.pc = "reconciled" /\ Takes(s, x) /\ disk' = serializeState(mem)
      /\ UNCHANGED <<kill, acked, extra, torn, events>>
    BY DEF Reconciled, bounds
<1>3. h.job = "reconcile" BY <1>1, <1>2 DEF HandlerOK, AwaitsOf, HoldsCopy
<1> HIDE DEF h
<1>4. GoodStep(mem, x, extra, kill) BY <1>1, <1>3, StaleSweepOK
<1> HIDE DEF x
<1>5. events' \in Nat /\ \A t \in Tasks : extra[t] <= extra[t] BY <1>1, <1>2
<1>6. QED BY <1>1, <1>2, <1>4, <1>5, TakesGood

\* The state of a mission nothing is known of.
LEMMA NothingOK ==
    ASSUME NEW ex \in [Tasks -> Nat]
    PROVE  StateOK(Nothing, ex) /\ Nothing.receipts = {} /\ StateOK(Planned, ex)
<1>1. Absent \in TaskRecords /\ Absent.status = "absent" /\ Absent.attempts = 0 /\ Absent.ready = "unset"
    BY DEF Absent, TaskRecords, Statuses
<1>2. /\ Planned \in States /\ Planned.receipts = {} /\ \A t \in Tasks : Planned.task[t] = Absent
    BY <1>1 DEF Planned, States
<1>3. /\ Nothing \in States /\ Nothing.receipts = {} /\ \A t \in Tasks : Nothing.task[t] = Absent
    BY <1>1 DEF Nothing, Planned, States
<1>4. \A t \in Tasks : WithinBudget(Absent, t, ex) BY <1>1, TaskAssumption DEF WithinBudget
<1>5. QED BY <1>1, <1>2, <1>3, <1>4 DEF StateOK, RightlyReleased

\* All handlers are gone after a crash.
LEMMA AllIdle ==
    ASSUME NEW m, NEW ex, NEW k, slot' = [r \in Slots |-> Idle]
    PROVE  slot' \in [Slots -> Handlers] /\ \A r \in Slots : HandlerOK(slot'[r], m, ex, k)
BY IdleOK

\* The restarted process reads the file.
LEMMA RestartStep ==
    ASSUME IndInv, Restart
    PROVE  IndInv' /\ SuccessFromUnkilled
<1> DEFINE n == reconcileRecoveredState(Loaded)
           fx == [t \in Tasks |-> IF Loaded.task[t].status = "running" THEN extra[t] + 1 ELSE extra[t]]
<1>1. /\ mem' = n /\ extra' = fx /\ events' \in Nat /\ UNCHANGED <<kill, acked, torn>>
      /\ slot' = [r \in Slots |-> Idle]
      /\ disk' = disk \/ disk' = n
    BY DEF Restart, Event, IndInv, ProcessOK
<1>2. disk = Torn => disk' = Torn
  <2> SUFFICES ASSUME disk = Torn PROVE disk' = Torn OBVIOUS
  <2>1. n = Nothing BY DEF Loaded, reconcileRecoveredState, Nothing, Planned
  <2>2. disk' \in {disk, n} \ {Nothing} BY DEF Restart
  <2>3. QED BY <2>1, <2>2
<1>3. extra \in [Tasks -> Nat] BY DEF IndInv, ProcessOK
<1>4. /\ StateOK(Loaded, extra) /\ Loaded.receipts \subseteq mem.receipts
      /\ disk # Torn => Loaded = disk
    BY <1>3, NothingOK DEF Loaded, IndInv, DiskOK
<1>5. /\ StateOK(n, fx) /\ Grows(Loaded, n) /\ NothingNew(Loaded, n)
      /\ fx \in [Tasks -> Nat] /\ \A t \in Tasks : extra[t] <= fx[t]
    BY <1>3, <1>4, RecoveredOK
<1>6. StateOK(Loaded, fx) BY <1>3, <1>4, <1>5, StateStaysOK
<1> HIDE DEF n, fx
<1>7. n \in States /\ n # Torn BY <1>5, TornAssumption DEF StateOK
<1>8. slot' \in [Slots -> Handlers] /\ \A r \in Slots : HandlerOK(slot'[r], n, fx, kill)
    BY <1>1, AllIdle
<1>9. ProcessOK' BY <1>1, <1>5, <1>7, <1>8 DEF IndInv, ProcessOK
<1>10. DiskOK'
  <2>1. CASE disk = Torn BY <1>1, <1>2, <2>1 DEF IndInv, DiskOK
  <2>2. CASE disk # Torn /\ disk' = disk
    <3>1. StateOK(disk, fx) /\ disk.receipts \subseteq n.receipts BY <1>4, <1>5, <1>6, <2>2 DEF Grows
    <3>2. QED BY <1>1, <2>2, <3>1 DEF IndInv, DiskOK
  <2>3. CASE disk' = n BY <1>1, <1>5, <1>7, <2>3 DEF DiskOK
  <2>4. QED BY <1>1, <2>1, <2>2, <2>3
<1>11. AcknowledgedIsKept'
  <2> SUFFICES ASSUME ~torn
               PROVE  /\ \A t \in acked.tasks : Succeeded(disk', t) /\ Succeeded(n, t)
                      /\ acked.halt => disk'.mission = "halted" /\ n.mission = "halted"
      BY <1>1 DEF AcknowledgedIsKept
  <2>1. Loaded = disk BY <1>4 DEF IndInv, DiskOK
  <2>2. QED BY <1>1, <1>5, <2>1 DEF IndInv, AcknowledgedIsKept, Grows, Succeeded
<1>12. StateOK(mem, extra)' BY <1>1, <1>5
<1>13. IndInv' BY <1>1, <1>8, <1>9, <1>10, <1>11, <1>12 DEF IndInv
<1>14. SuccessFromUnkilled BY <1>1, <1>4, <1>5 DEF SuccessFromUnkilled, NothingNew, Succeeded
<1>15. QED BY <1>13, <1>14

\* A crash that tears the file.
LEMMA CrashInWriteStep ==
    ASSUME IndInv, CrashInWrite
    PROVE  IndInv' /\ SuccessFromUnkilled
<1>1. /\ mem' = Nothing /\ disk' = Torn /\ torn' = TRUE /\ UNCHANGED <<kill, acked, extra>>
      /\ events' \in Nat /\ slot' = [r \in Slots |-> Idle]
    BY DEF CrashInWrite, Event, IndInv, ProcessOK
<1>2. extra \in [Tasks -> Nat] BY DEF IndInv, ProcessOK
<1>3. StateOK(Nothing, extra) /\ Nothing.receipts = {} BY <1>2, NothingOK
<1>4. slot' \in [Slots -> Handlers] /\ \A r \in Slots : HandlerOK(slot'[r], Nothing, extra, kill)
    BY <1>1, AllIdle
<1>5. ProcessOK' BY <1>1, <1>3, <1>4 DEF IndInv, ProcessOK, StateOK
<1>6. DiskOK' /\ AcknowledgedIsKept' BY <1>1 DEF DiskOK, AcknowledgedIsKept
<1>7. StateOK(mem, extra)' BY <1>1, <1>3
<1>8. IndInv' BY <1>1, <1>4, <1>5, <1>6, <1>7 DEF IndInv
<1>9. SuccessFromUnkilled BY <1>1, <1>3 DEF SuccessFromUnkilled, Succeeded
<1>10. QED BY <1>8, <1>9

\* A lease runs out.
LEMMA ExpireStep ==
    ASSUME IndInv, NEW t \in Tasks, Expire(t)
    PROVE  IndInv' /\ SuccessFromUnkilled
<1> DEFINE x == [mem.task[t] EXCEPT !.stale = TRUE]
           n == Put(mem, t, x)
<1>1. /\ StateOK(mem, extra) /\ extra \in [Tasks -> Nat] /\ mem \in States
      /\ mem.task[t] \in TaskRecords
    BY DEF IndInv, ProcessOK, States
<1>2. mem' = n BY <1>1 DEF Expire, Put, States
<1>3. UNCHANGED <<disk, slot, kill, acked, extra, torn, events>> BY DEF Expire, bounds
<1>4. /\ x \in TaskRecords /\ x.status = mem.task[t].status
      /\ x.attempts = mem.task[t].attempts /\ x.ready = mem.task[t].ready
    BY <1>1 DEF TaskRecords
<1> HIDE DEF x
<1>5. /\ WithinBudget(x, t, extra) /\ RightlyReleased(x, t, mem)
      /\ x.status = "completed" => Succeeded(mem, t)
    BY <1>1, <1>4 DEF StateOK, WithinBudget, RightlyReleased
<1>6. /\ StateOK(n, extra) /\ Grows(mem, n) /\ NothingNew(mem, n)
      /\ n.receipts = mem.receipts /\ n.mission = mem.mission
    BY <1>1, <1>4, <1>5, PutOK
<1> HIDE DEF n
<1>7. \A t1 \in Tasks : extra[t1] <= extra[t1] BY <1>1
<1>8. \A r \in Slots : HandlerOK(slot[r], n, extra, kill)
    BY <1>1, <1>6, <1>7, HandlerStaysOK DEF IndInv
<1>9. ProcessOK' BY <1>2, <1>3, <1>6 DEF IndInv, ProcessOK, StateOK
<1>10. DiskOK' BY <1>2, <1>3, <1>6 DEF IndInv, DiskOK
<1>11. AcknowledgedIsKept' BY <1>2, <1>3, <1>6 DEF IndInv, AcknowledgedIsKept, Succeeded
<1>12. StateOK(mem, extra)' BY <1>2, <1>3, <1>6
<1>13. IndInv' BY <1>2, <1>3, <1>8, <1>9, <1>10, <1>11, <1>12 DEF IndInv
<1>14. QED BY <1>2, <1>6, <1>13 DEF SuccessFromUnkilled, NothingNew

\* The operator's kill switch.
LEMMA KillSwitchStep ==
    ASSUME IndInv, KillSwitch
    PROVE  IndInv' /\ SuccessFromUnkilled
<1>1. /\ kill' = ~kill /\ UNCHANGED <<mem, disk, acked, extra, torn>> /\ events' \in Nat
      /\ slot' = [r \in Slots |-> [slot[r] EXCEPT !.killed = @ /\ ~kill]]
    BY DEF KillSwitch, Event, IndInv, ProcessOK
<1>2. kill \in BOOLEAN /\ kill' \in BOOLEAN BY <1>1 DEF IndInv, ProcessOK
<1>3. ASSUME NEW r \in Slots
      PROVE  slot'[r] \in Handlers /\ HandlerOK(slot'[r], mem, extra, kill')
  <2> DEFINE h == slot[r]
             g == slot'[r]
  <2>1. h \in Handlers /\ HandlerOK(h, mem, extra, kill) BY DEF IndInv, ProcessOK
  <2>2. g = [h EXCEPT !.killed = @ /\ ~kill] BY <1>1
  <2> HIDE DEF h, g
  <2>3. ~(h.killed /\ ~kill) BY <2>1 DEF HandlerOK
  <2>4. (h.killed /\ ~kill) = FALSE BY <2>3
  <2>5. g = [h EXCEPT !.killed = FALSE] BY <2>1, <2>2, <2>4
  <2>6. /\ g \in Handlers /\ g.job = h.job /\ g.pc = h.pc /\ g.copy = h.copy
        /\ g.todo = h.todo /\ g.own = h.own /\ g.done = h.done /\ g.killed = FALSE
      BY <2>1, <2>5 DEF Handlers
  <2>7. HandlerOK(g, mem, extra, kill') BY <2>1, <2>6 DEF HandlerOK, HandsOut
  <2>8. QED BY <2>6, <2>7 DEF g
<1>4. slot' \in [Slots -> Handlers] BY <1>1, <1>3
<1>5. ProcessOK' BY <1>1, <1>2, <1>4 DEF IndInv, ProcessOK
<1>6. DiskOK' /\ AcknowledgedIsKept' BY <1>1 DEF IndInv, DiskOK, AcknowledgedIsKept
<1>7. StateOK(mem, extra)' BY <1>1 DEF IndInv
<1>8. \A r \in Slots : HandlerOK(slot'[r], mem', extra', kill') BY <1>1, <1>3
<1>9. IndInv' BY <1>5, <1>6, <1>7, <1>8 DEF IndInv
<1>10. QED BY <1>1, <1>9 DEF SuccessFromUnkilled

-----------------------------------------------------------------------------
(* The account of starts: what each handler does to the count of a task.   *)

SameCounts(m, n) == \A t \in Tasks : n.task[t].attempts = m.task[t].attempts

\* Writing a version of a task over it changes no other count.
LEMMA PutCounts ==
    ASSUME NEW m \in States, NEW t \in Tasks, NEW x
    PROVE  \A u \in Tasks : Put(m, t, x).task[u].attempts = IF u = t THEN x.attempts ELSE m.task[u].attempts
BY DEF Put, States

\* Neither a new status of the mission nor a synchronisation touches a count.
LEMMA WithStatusCounts ==
    ASSUME NEW m \in States, NEW status
    PROVE  SameCounts(m, WithStatus(m, status))
BY DEF WithStatus, States, SameCounts

LEMMA SyncCounts ==
    ASSUME NEW m \in States
    PROVE  SameCounts(m, syncMissionDerivedState(m)) /\ SameCounts(m, m)
<1> DEFINE F(t) == IF m.task[t].status = "absent" THEN m.task[t]
                   ELSE [m.task[t] EXCEPT !.ready = IF taskDependencyState(m, t) THEN "yes" ELSE "no"]
           p == [m EXCEPT !.task = [t \in Tasks |-> F(t)]]
<1>1. ASSUME NEW t \in Tasks PROVE F(t) \in TaskRecords /\ F(t).attempts = m.task[t].attempts
  <2>1. m.task[t] \in TaskRecords BY DEF States
  <2>2. QED BY <2>1 DEF TaskRecords
<1> HIDE DEF F
<1>2. p \in States /\ SameCounts(m, p) BY <1>1 DEF States, SameCounts
<1> HIDE DEF p
<1>3. SameCounts(p, WithStatus(p, deriveMissionStatusFromTasks(m))) BY <1>2, WithStatusCounts
<1>4. syncMissionDerivedState(m) = WithStatus(p, deriveMissionStatusFromTasks(m))
    BY DEF syncMissionDerivedState, p, F
<1>5. QED BY <1>2, <1>3, <1>4 DEF SameCounts

\* Returning, dispatching and completing wait with a copy and write none.
LEMMA ReturnCounts ==
    ASSUME NEW m \in States, NEW h, h.job \in {"claim", "complete", "tick", "advance", "close", "sweep"}
    PROVE  SameCounts(m, Return(m, h).m)
<1>1. \A g, todo : SweepNext(m, g, todo).m \in {m, syncMissionDerivedState(m)} BY DEF SweepNext, Step
<1>2. Return(m, h).m \in {m, syncMissionDerivedState(m)} BY <1>1 DEF Return, Step
<1>3. QED BY <1>2, SyncCounts

LEMMA DispatchCounts ==
    ASSUME NEW m \in States, NEW h, NEW S, NEW own \in BOOLEAN,
           h.job \in {"claim", "complete", "tick", "advance", "close", "sweep"}
    PROVE  SameCounts(m, dispatchNextEligibleTask(m, h, S, own).m)
<1>1. dispatchNextEligibleTask(m, h, S, own).m \in {m, Return(m, h).m}
    BY DEF dispatchNextEligibleTask, Step
<1>2. QED BY <1>1, ReturnCounts, SyncCounts

LEMMA TickCounts ==
    ASSUME NEW m \in States, NEW h, h.job = "tick"
    PROVE  SameCounts(m, TickMission(m, h).m)
<1>1. TickMission(m, h).m \in {m, dispatchNextEligibleTask(m, h, Autonomous, TRUE).m}
    BY DEF TickMission, completeTaskWithGovernance, Step
<1>2. SameCounts(m, dispatchNextEligibleTask(m, h, Autonomous, TRUE).m) BY DispatchCounts
<1>3. SameCounts(m, m) BY SyncCounts
<1>4. QED BY <1>1, <1>2, <1>3

\* A loop writes back the first of its copies, or is over.
LEMMA LoopCounts ==
    ASSUME NEW m \in States, NEW h, NEW todo \in SUBSET TaskCopies, NEW n,
           \/ n = reconcileStaleRunningTasks(m, h, todo).m /\ h.job \in {"tick", "reconcile"}
           \/ n = HaltNext(m, h, todo).m
    PROVE  /\ todo = {} => SameCounts(m, n)
           /\ todo # {} => /\ First(todo) \in TaskCopies
                           /\ \A u \in Tasks : n.task[u].attempts =
                                 IF u = First(todo).id THEN First(todo).was.attempts
                                 ELSE m.task[u].attempts
<1>1. CASE todo = {} /\ n = reconcileStaleRunningTasks(m, h, todo).m /\ h.job \in {"tick", "reconcile"}
  <2>1. n \in {m, TickMission(m, h).m} /\ (n # m => h.job = "tick")
      BY <1>1 DEF reconcileStaleRunningTasks, Step
  <2>2. QED BY <1>1, <2>1, TickCounts, SyncCounts
<1>2. CASE todo = {} /\ n = HaltNext(m, h, todo).m
  <2>1. n = WithStatus(syncMissionDerivedState(m), "halted") BY <1>2 DEF HaltNext, Step
  <2>2. n.task = syncMissionDerivedState(m).task
      BY <2>1 DEF WithStatus, syncMissionDerivedState, States
  <2>3. QED BY <1>2, <2>2, SyncCounts DEF SameCounts
<1>3. CASE todo # {}
  <2> DEFINE c == First(todo)
             x == queueTaskRetry(c.was)
             y == [c.was EXCEPT !.status = "cancelled"]
  <2>1. c \in TaskCopies BY <1>3, FirstMember
  <2>2. c.id \in Tasks /\ c.was \in TaskRecords BY <2>1 DEF TaskCopies
  <2>3. x.attempts = c.was.attempts BY <2>2 DEF queueTaskRetry, TaskRecords
  <2>4. y.attempts = c.was.attempts BY <2>2 DEF TaskRecords
  <2>5. n.task = Put(m, c.id, x).task \/ n.task = Put(m, c.id, y).task
      BY <1>3 DEF reconcileStaleRunningTasks, HaltNext, Step, Put, States
  <2> HIDE DEF c, x, y
  <2>6. \A u \in Tasks : n.task[u].attempts = IF u = c.id THEN c.was.attempts ELSE m.task[u].attempts
      BY <2>2, <2>3, <2>4, <2>5, PutCounts
  <2>7. QED BY <1>3, <2>1, <2>6 DEF c
<1>4. QED BY <1>1, <1>2, <1>3

\* A refusal and a recovery count nothing either.
LEMMA BlockCounts ==
    ASSUME NEW m \in States, NEW c \in TaskCopies
    PROVE  \A u \in Tasks : blockTaskForGovernance(m, c).task[u].attempts =
                               IF u = c.id THEN c.was.attempts ELSE m.task[u].attempts
<1> DEFINE x == [c.was EXCEPT !.status = "blocked", !.gov = "blocked"]
<1>1. c.id \in Tasks /\ c.was \in TaskRecords BY DEF TaskCopies
<1>2. x.attempts = c.was.attempts BY <1>1 DEF TaskRecords
<1>3. blockTaskForGovernance(m, c).task = Put(m, c.id, x).task
    BY DEF blockTaskForGovernance, Put, States
<1> HIDE DEF x
<1>4. QED BY <1>1, <1>2, <1>3, PutCounts

LEMMA RecoveredCounts ==
    ASSUME NEW m \in States
    PROVE  SameCounts(m, reconcileRecoveredState(m)) /\ SameCounts(m, serializeState(m))
<1> DEFINE F(t) == IF m.task[t].status = "running"
                   THEN [m.task[t] EXCEPT !.status = "queued", !.stale = FALSE] ELSE m.task[t]
           q == [m EXCEPT !.task = [t \in Tasks |-> F(t)],
                          !.receipts = @ \union {<<t, "success">> : t \in InStatus(m, {"completed"})}]
<1>1. ASSUME NEW t \in Tasks
      PROVE  /\ F(t).attempts = m.task[t].attempts
             /\ [m.task[t] EXCEPT !.stale = FALSE].attempts = m.task[t].attempts
  <2>1. m.task[t] \in TaskRecords BY DEF States
  <2>2. QED BY <2>1 DEF TaskRecords
<1> HIDE DEF F
<1>2. q.task = [t \in Tasks |-> F(t)] BY DEF States
<1>3. reconcileRecoveredState(m) \in {m, WithStatus(q, deriveMissionStatusFromTasks(q))}
    BY DEF reconcileRecoveredState, q, F
<1>4. WithStatus(q, deriveMissionStatusFromTasks(q)).task = q.task BY DEF WithStatus, States
<1>5. SameCounts(m, reconcileRecoveredState(m)) BY <1>1, <1>2, <1>3, <1>4 DEF SameCounts
<1>6. SameCounts(m, serializeState(m)) BY <1>1 DEF SameCounts, serializeState, States
<1>7. QED BY <1>5, <1>6

\* What the steps know of memory and of the handler they move.
LEMMA CountFrame ==
    ASSUME IndInv, Counted
    PROVE  /\ mem \in States /\ runs \in [Tasks -> Nat] /\ forgotten \in [Tasks -> Int]
           /\ \A t \in Tasks : mem.task[t] \in TaskRecords /\ mem.task[t].attempts \in Nat
                               /\ runs[t] = mem.task[t].attempts + forgotten[t]
           /\ \A s \in Slots : /\ slot[s] \in Handlers /\ slot[s].pc \in AwaitsOf(slot[s].job)
                               /\ slot[s].todo \in SUBSET TaskCopies
                               /\ slot[s].pc \in HoldsCopy => slot[s].copy \in TaskCopies
<1>1. mem \in States BY DEF IndInv, ProcessOK
<1>2. \A t \in Tasks : mem.task[t] \in TaskRecords /\ mem.task[t].attempts \in Nat
    BY <1>1 DEF States, TaskRecords
<1>3. \A s \in Slots : HandlerOK(slot[s], mem, extra, kill) BY DEF IndInv
<1>4. QED BY <1>1, <1>2, <1>3 DEF Counted, CountsOK, HandlerOK, CopyOK, Handlers

\* A step that starts no task and writes no copy back.
LEMMA CountsStay ==
    ASSUME IndInv, Counted, SameCounts(mem, mem'), UNCHANGED count
    PROVE  Counted'
BY CountFrame DEF Counted, CountsOK, SameCounts, count

\* A step that writes the copy c back.
LEMMA CountsForgotten ==
    ASSUME IndInv, Counted, NEW c \in TaskCopies, WritesBack(c), UNCHANGED runs,
           \A u \in Tasks : mem'.task[u].attempts = IF u = c.id THEN c.was.attempts ELSE mem.task[u].attempts
    PROVE  Counted'
<1>1. c.id \in Tasks /\ c.was.attempts \in Nat BY DEF TaskCopies, TaskRecords
<1>2. /\ forgotten \in [Tasks -> Int]
      /\ \A t \in Tasks : mem.task[t].attempts \in Nat /\ runs[t] = mem.task[t].attempts + forgotten[t]
    BY CountFrame
<1>3. /\ forgotten' \in [Tasks -> Int]
      /\ \A u \in Tasks : forgotten'[u] = IF u = c.id
                             THEN forgotten[u] + (mem.task[u].attempts - c.was.attempts) ELSE forgotten[u]
    BY <1>1, <1>2 DEF WritesBack
<1>4. ASSUME NEW u \in Tasks PROVE runs'[u] = mem'.task[u].attempts + forgotten'[u]
  <2>1. forgotten[u] \in Int /\ mem.task[u].attempts \in Nat /\ runs[u] = mem.task[u].attempts + forgotten[u]
      BY <1>2
  <2>2. CASE u = c.id
    <3>1. /\ runs'[u] = runs[u] /\ mem'.task[u].attempts = c.was.attempts
          /\ forgotten'[u] = forgotten[u] + (mem.task[u].attempts - c.was.attempts)
        BY <1>3, <2>2
    <3>2. QED BY <1>1, <2>1, <3>1
  <2>3. CASE u # c.id BY <1>3, <2>1, <2>3
  <2>4. QED BY <2>2, <2>3
<1>5. QED BY <1>3, <1>4 DEF Counted, CountsOK

\* A step that starts task t from the count k.
LEMMA StartCounted ==
    ASSUME IndInv, Counted, NEW t \in Tasks, NEW k \in Nat, Runs(t), forgotten' \in [Tasks -> Int],
           \A u \in Tasks : forgotten'[u] = IF u = t THEN forgotten[u] + (mem.task[u].attempts - k)
                                            ELSE forgotten[u],
           \A u \in Tasks : mem'.task[u].attempts = IF u = t THEN k + 1 ELSE mem.task[u].attempts
    PROVE  Counted'
<1>1. /\ runs \in [Tasks -> Nat] /\ forgotten \in [Tasks -> Int]
      /\ \A u \in Tasks : mem.task[u].attempts \in Nat /\ runs[u] = mem.task[u].attempts + forgotten[u]
    BY CountFrame
<1>2. /\ runs' \in [Tasks -> Nat]
      /\ \A u \in Tasks : runs'[u] = IF u = t THEN runs[u] + 1 ELSE runs[u]
    BY <1>1 DEF Runs
<1>3. ASSUME NEW u \in Tasks PROVE runs'[u] = mem'.task[u].attempts + forgotten'[u]
  <2>1. /\ forgotten[u] \in Int /\ mem.task[u].attempts \in Nat /\ runs[u] = mem.task[u].attempts + forgotten[u]
        /\ runs[u] \in Nat
      BY <1>1
  <2>2. CASE u = t
    <3>1. /\ runs'[u] = runs[u] + 1 /\ mem'.task[u].attempts = k + 1
          /\ forgotten'[u] = forgotten[u] + (mem.task[u].attempts - k)
        BY <1>2, <2>2
    <3>2. QED BY <2>1, <3>1
  <2>3. CASE u # t
    <3>1. /\ runs'[u] = runs[u] /\ mem'.task[u].attempts = mem.task[u].attempts
          /\ forgotten'[u] = forgotten[u]
        BY <1>2, <2>3
    <3>2. QED BY <2>1, <3>1
  <2>4. QED BY <2>2, <2>3
<1>4. QED BY <1>2, <1>3 DEF Counted, CountsOK

\* A claim counts one more.
LEMMA ClaimCounts ==
    ASSUME NEW x \in TaskRecords, NEW a
    PROVE  /\ claimTaskForAgent(x, a).attempts = x.attempts + 1
           /\ [claimTaskForAgent(x, a) EXCEPT !.gov = "approved"].attempts = x.attempts + 1
BY DEF claimTaskForAgent, TaskRecords

LEMMA ClaimCounted == ASSUME IndInv, Counted, NEW s \in Slots, NEW t \in Tasks, Claim(s, t) PROVE Counted'
<1> DEFINE c == Copy(mem, t)
           y == claimTaskForAgent(c.was, Assigned[t])
<1>1. /\ mem \in States /\ mem.task[t] \in TaskRecords /\ mem.task[t].attempts \in Nat
      /\ forgotten \in [Tasks -> Int]
    BY CountFrame
<1>2. c.was = [mem.task[t] EXCEPT !.stale = FALSE] BY DEF Copy
<1>3. c.was \in TaskRecords /\ c.was.attempts = mem.task[t].attempts /\ c.was.gov = mem.task[t].gov
    BY <1>1, <1>2 DEF TaskRecords
<1>4. CASE mem.task[t].gov = "approved"
  <2>1. mem' = Put(mem, t, y) /\ Runs(t) /\ UNCHANGED forgotten
      BY <1>3, <1>4 DEF Claim, Takes, Step
  <2>2. y.attempts = mem.task[t].attempts + 1 BY <1>3, ClaimCounts
  <2> HIDE DEF y
  <2>3. \A u \in Tasks : mem'.task[u].attempts = IF u = t THEN mem.task[t].attempts + 1 ELSE mem.task[u].attempts
      BY <1>1, <2>1, <2>2, PutCounts
  <2>4. QED BY <1>1, <2>1, <2>3, StartCounted
<1>5. CASE mem.task[t].gov # "approved"
  <2>1. mem' = mem /\ UNCHANGED count BY <1>3, <1>5 DEF Claim, Takes, Step, count
  <2>2. QED BY <2>1, CountsStay DEF SameCounts
<1>6. QED BY <1>4, <1>5

LEMMA CompleteCounted ==
    ASSUME IndInv, Counted, NEW s \in Slots, NEW t \in Tasks, NEW a \in Agents, Complete(s, t, a)
    PROVE  Counted'
<1> DEFINE z == updateTaskHeartbeat(mem.task[t], a)
           y == claimTaskForAgent(mem.task[t], a)
<1>1. /\ mem \in States /\ mem.task[t] \in TaskRecords /\ mem.task[t].attempts \in Nat
      /\ forgotten \in [Tasks -> Int]
    BY CountFrame
<1>2. UNCHANGED forgotten BY DEF Complete
<1>3. CASE mem.task[t].status = "running"
  <2>1. mem' = Put(mem, t, z) /\ UNCHANGED runs
      BY <1>3 DEF Complete, Takes, completeTaskWithGovernance, Step
  <2>2. z.attempts = mem.task[t].attempts BY <1>1, HeartbeatVersion
  <2> HIDE DEF z
  <2>3. SameCounts(mem, mem') BY <1>1, <2>1, <2>2, PutCounts DEF SameCounts
  <2>4. QED BY <1>2, <2>1, <2>3, CountsStay DEF count
<1>4. CASE mem.task[t].status # "running"
  <2>1. mem' = Put(mem, t, y) /\ Runs(t)
      BY <1>4 DEF Complete, Takes, completeTaskWithGovernance, Step
  <2>2. y.attempts = mem.task[t].attempts + 1 BY <1>1, ClaimCounts
  <2> HIDE DEF y
  <2>3. \A u \in Tasks : mem'.task[u].attempts = IF u = t THEN mem.task[t].attempts + 1 ELSE mem.task[u].attempts
      BY <1>1, <2>1, <2>2, PutCounts
  <2>4. QED BY <1>1, <1>2, <2>1, <2>3, StartCounted
<1>5. QED BY <1>3, <1>4

LEMMA DispatchedCounted == ASSUME IndInv, Counted, NEW s \in Slots, Dispatched(s) PROVE Counted'
<1> DEFINE c == slot[s].copy
           t == c.id
           y == [claimTaskForAgent(c.was, Assigned[t]) EXCEPT !.gov = "approved"]
<1>1. slot[s].pc = "dispatchAllowed" BY DEF Dispatched
<1>2. mem \in States /\ forgotten \in [Tasks -> Int] /\ c \in TaskCopies
      /\ \A u \in Tasks : mem.task[u].attempts \in Nat
    BY <1>1, CountFrame DEF HoldsCopy
<1>3. t \in Tasks /\ c.was \in TaskRecords /\ c.was.attempts \in Nat BY <1>2 DEF TaskCopies, TaskRecords
<1>4. mem' = Put(mem, t, y) /\ Runs(t) /\ WritesBack(c)
    BY DEF Dispatched, Resumes, Takes, completeTaskWithGovernance, Step
<1>5. y.attempts = c.was.attempts + 1 BY <1>3, ClaimCounts
<1> HIDE DEF y
<1>6. \A u \in Tasks : mem'.task[u].attempts = IF u = t THEN c.was.attempts + 1 ELSE mem.task[u].attempts
    BY <1>2, <1>3, <1>4, <1>5, PutCounts
<1>7. /\ forgotten' \in [Tasks -> Int]
      /\ \A u \in Tasks : forgotten'[u] = IF u = t THEN forgotten[u] + (mem.task[u].attempts - c.was.attempts)
                                          ELSE forgotten[u]
    BY <1>2, <1>3, <1>4 DEF WritesBack
<1> HIDE DEF c, t
<1>8. QED BY <1>3, <1>4, <1>6, <1>7, StartCounted

LEMMA RefusedCounted ==
    ASSUME IndInv, Counted, NEW s \in Slots, DispatchRefused(s) \/ CompletionRefused(s)
    PROVE  Counted'
<1> DEFINE c == slot[s].copy
<1>1. /\ slot[s].pc \in {"dispatch", "complete", "decide"}
      /\ mem' = blockTaskForGovernance(mem, c) /\ WritesBack(c) /\ UNCHANGED runs
    BY DEF DispatchRefused, CompletionRefused, Resumes, Takes, Step
<1>2. mem \in States /\ c \in TaskCopies BY <1>1, CountFrame DEF HoldsCopy
<1> HIDE DEF c
<1>3. QED BY <1>1, <1>2, BlockCounts, CountsForgotten

LEMMA CompletedCounted == ASSUME IndInv, Counted, NEW s \in Slots, Completed(s) PROVE Counted'
<1> DEFINE c == slot[s].copy
           x == [c.was EXCEPT !.status = "completed", !.claimedBy = NoAgent, !.gov = "approved"]
<1>1. /\ slot[s].pc = "completeAllowed" /\ WritesBack(c) /\ UNCHANGED runs
      /\ mem' = [Put(mem, c.id, x) EXCEPT !.receipts = @ \union {<<c.id, "success">>}]
    BY DEF Completed, Resumes, Takes, Step
<1>2. mem \in States /\ c \in TaskCopies BY <1>1, CountFrame DEF HoldsCopy
<1>3. c.id \in Tasks /\ c.was \in TaskRecords BY <1>2 DEF TaskCopies
<1>4. x.attempts = c.was.attempts BY <1>3 DEF TaskRecords
<1>5. mem'.task = Put(mem, c.id, x).task BY <1>1, <1>2 DEF Put, States
<1> HIDE DEF x, c
<1>6. \A u \in Tasks : mem'.task[u].attempts = IF u = c.id THEN c.was.attempts ELSE mem.task[u].attempts
    BY <1>2, <1>3, <1>4, <1>5, PutCounts
<1>7. QED BY <1>1, <1>2, <1>6, CountsForgotten

\* The loops write their copies back one by one.
LEMMA AfterLoopCounted == ASSUME IndInv, Counted, NEW s \in Slots, AfterLoopEvent(s) PROVE Counted'
<1> DEFINE todo == slot[s].todo
<1>1. /\ mem \in States /\ todo \in SUBSET TaskCopies /\ slot[s].pc \in AwaitsOf(slot[s].job) BY CountFrame
<1>2. /\ \/ slot[s].pc = "stale" /\ mem' = reconcileStaleRunningTasks(mem, slot[s], todo).m
         \/ slot[s].pc = "halting" /\ mem' = HaltNext(mem, slot[s], todo).m
      /\ IF todo = {} THEN UNCHANGED forgotten ELSE WritesBack(First(todo))
      /\ UNCHANGED runs
    BY DEF AfterLoopEvent, Resumes, Takes
<1>3. slot[s].pc = "stale" => slot[s].job \in {"tick", "reconcile"}
    BY <1>1 DEF AwaitsOf, HoldsCopy
<1> HIDE DEF todo
<1>4. /\ todo = {} => SameCounts(mem, mem')
      /\ todo # {} => /\ First(todo) \in TaskCopies
                      /\ \A u \in Tasks : mem'.task[u].attempts =
                            IF u = First(todo).id THEN First(todo).was.attempts ELSE mem.task[u].attempts
    BY <1>1, <1>2, <1>3, LoopCounts
<1>5. CASE todo = {} BY <1>2, <1>4, <1>5, CountsStay DEF count
<1>6. CASE todo # {}
  <2> DEFINE c == First(todo)
  <2>1. /\ c \in TaskCopies /\ WritesBack(c) /\ UNCHANGED runs
        /\ \A u \in Tasks : mem'.task[u].attempts = IF u = c.id THEN c.was.attempts ELSE mem.task[u].attempts
      BY <1>2, <1>4, <1>6
  <2> HIDE DEF c
  <2>2. QED BY <2>1, CountsForgotten
<1>7. QED BY <1>5, <1>6

\* A loop that begins works on copies taken now: nothing is forgotten.
LEMMA FreshLoopCounts ==
    ASSUME NEW m \in States, NEW h, NEW S \in SUBSET Tasks, NEW n,
           \/ n = reconcileStaleRunningTasks(m, h, Copies(m, S)).m /\ h.job \in {"tick", "reconcile"}
           \/ n = HaltNext(m, h, Copies(m, S)).m
    PROVE  SameCounts(m, n)
<1> DEFINE todo == Copies(m, S)
<1>1. \A t \in Tasks : m.task[t] \in TaskRecords BY DEF States
<1>2. ASSUME NEW c \in todo
      PROVE  c \in TaskCopies /\ c.was.attempts = m.task[c.id].attempts
  <2>1. PICK t \in S : c = Copy(m, t) BY <1>2 DEF Copies
  <2>2. m.task[t] \in TaskRecords BY <1>1, <2>1
  <2>3. c.id = t /\ c.was = [m.task[t] EXCEPT !.stale = FALSE] BY <2>1 DEF Copy
  <2>4. c.was \in TaskRecords /\ c.was.attempts = m.task[t].attempts BY <2>2, <2>3 DEF TaskRecords
  <2>5. c = [id |-> t, was |-> c.was] BY <2>1 DEF Copy
  <2>6. QED BY <2>1, <2>3, <2>4, <2>5 DEF TaskCopies
<1> HIDE DEF todo
<1>3. todo \in SUBSET TaskCopies BY <1>2
<1>4. \/ n = reconcileStaleRunningTasks(m, h, todo).m /\ h.job \in {"tick", "reconcile"}
      \/ n = HaltNext(m, h, todo).m
    BY DEF todo
<1>5. /\ todo = {} => SameCounts(m, n)
      /\ todo # {} => \A u \in Tasks : n.task[u].attempts =
                         IF u = First(todo).id THEN First(todo).was.attempts ELSE m.task[u].attempts
    BY <1>3, <1>4, LoopCounts
<1>6. todo # {} => First(todo).was.attempts = m.task[First(todo).id].attempts BY <1>2, <1>3, FirstMember
<1>7. QED BY <1>5, <1>6 DEF SameCounts

\* The other steps of a handler in flight leave the counts alone.
LEMMA HandleCounted == ASSUME IndInv, Counted, NEW s \in Slots, Handle(s) PROVE Counted'
<1> DEFINE h == slot[s]
           jobs == {"claim", "complete", "tick", "advance", "close", "sweep"}
<1>1. mem \in States /\ h \in Handlers /\ h.pc \in AwaitsOf(h.job) BY CountFrame
<1>2. SameCounts(mem, mem) /\ SameCounts(mem, syncMissionDerivedState(mem)) BY <1>1, SyncCounts
<1>3. syncMissionDerivedState(mem) \in States BY SyncOK DEF IndInv, ProcessOK, StateOK
<1>4. h.pc \in {"logged", "completed", "releasing"} => h.job \in jobs
    BY <1>1 DEF AwaitsOf, HoldsCopy
<1>5. CASE assessTaskGovernance(s) \/ finalizeGovernedCompletion(s) \/ Persist(s) \/ PersistFails(s)
  <2>1. mem' = mem /\ UNCHANGED count
      BY <1>5 DEF assessTaskGovernance, finalizeGovernedCompletion, Allowed, Persist, PersistFails
  <2>2. QED BY <1>2, <2>1, CountsStay
<1>6. CASE AfterDispatch(s)
  <2>1. h.pc = "logged" /\ UNCHANGED count /\ mem' \in {mem, Return(mem, h).m}
      BY <1>6 DEF AfterDispatch, Resumes, Takes, completeTaskWithGovernance, Step
  <2>2. QED BY <1>1, <1>2, <1>4, <2>1, ReturnCounts, CountsStay
<1>7. CASE AfterCompletion(s)
  <2> DEFINE m == syncMissionDerivedState(mem)
  <2>1. /\ h.pc = "completed" /\ UNCHANGED count
        /\ mem' \in {m, Return(m, h).m, dispatchNextEligibleTask(m, h, Tasks, FALSE).m}
      BY <1>7 DEF AfterCompletion, Resumes, Takes, Step
  <2> HIDE DEF m, h
  <2>2. m \in States /\ SameCounts(mem, m) BY <1>2, <1>3 DEF m
  <2>3. h.job \in jobs BY <1>4, <2>1
  <2>4. SameCounts(m, m) /\ SameCounts(m, Return(m, h).m) BY <2>2, <2>3, ReturnCounts, SyncCounts
  <2>5. SameCounts(m, dispatchNextEligibleTask(m, h, Tasks, FALSE).m) BY <2>2, <2>3, DispatchCounts
  <2>6. SameCounts(m, mem') BY <2>1, <2>4, <2>5
  <2>7. SameCounts(mem, mem') BY <2>2, <2>6 DEF SameCounts
  <2>8. QED BY <2>1, <2>7, CountsStay
<1>8. CASE AfterRelease(s)
  <2>1. /\ h.pc = "releasing" /\ UNCHANGED count
        /\ mem' = dispatchNextEligibleTask(mem, h, Tasks, FALSE).m
      BY <1>8 DEF AfterRelease, Resumes, Takes
  <2>2. h.job \in jobs BY <1>4, <2>1
  <2> HIDE DEF h
  <2>3. SameCounts(mem, mem') BY <1>1, <2>1, <2>2, DispatchCounts
  <2>4. QED BY <2>1, <2>3, CountsStay
<1>9. CASE Reconciled(s)
  <2> DEFINE S == {t \in Tasks : mem.task[t].status = "running" /\ mem.task[t].stale}
  <2>1. /\ h.pc = "reconciled" /\ UNCHANGED count
        /\ mem' = reconcileStaleRunningTasks(mem, h, Copies(mem, S)).m
      BY <1>9 DEF Reconciled, Takes, StaleRuns
  <2>2. h.job \in {"tick", "reconcile"} BY <1>1, <2>1 DEF AwaitsOf, HoldsCopy
  <2>3. S \in SUBSET Tasks OBVIOUS
  <2> HIDE DEF S
  <2>4. QED BY <1>1, <2>1, <2>2, <2>3, FreshLoopCounts, CountsStay
<1>10. CASE Dispatched(s) \/ DispatchRefused(s) \/ Completed(s) \/ CompletionRefused(s) \/ AfterLoopEvent(s)
    BY <1>10, DispatchedCounted, RefusedCounted, CompletedCounted, AfterLoopCounted
<1>11. QED BY <1>5, <1>6, <1>7, <1>8, <1>9, <1>10 DEF Handle

\* A new mission creates its tasks over tasks that are absent, and not counted.
LEMMA ExecuteCounted == ASSUME IndInv, Counted, NEW s \in Slots, Execute(s) PROVE Counted'
<1> DEFINE h == Handler("advance")
<1>1. mem \in States /\ UNCHANGED count BY CountFrame DEF Execute
<1>2. h.job = "advance" BY DEF Handler, Idle
<1>3. CASE Created(mem) = {}
  <2>1. mem' = Seeded(mem) BY <1>3 DEF Execute, Takes, Step
  <2>2. ASSUME NEW t \in Tasks PROVE mem.task[t].attempts = 0 /\ Seeded(mem).task[t].attempts = 0
    <3>1. mem.task[t].status = "absent" BY <1>3 DEF Created
    <3>2. mem.task[t].attempts = 0 BY <3>1 DEF IndInv, StateOK, WithinBudget
    <3>3. Seeded(mem).task[t].attempts = 0 BY <1>1 DEF Seeded, Absent, States
    <3>4. QED BY <3>2, <3>3
  <2>3. SameCounts(mem, mem') BY <2>1, <2>2 DEF SameCounts
  <2>4. QED BY <1>1, <2>3, CountsStay
<1>4. CASE Created(mem) # {}
  <2>1. mem' = dispatchNextEligibleTask(mem, h, Tasks, FALSE).m BY <1>4 DEF Execute, Takes
  <2> HIDE DEF h
  <2>2. SameCounts(mem, mem') BY <1>1, <1>2, <2>1, DispatchCounts
  <2>3. QED BY <1>1, <2>2, CountsStay
<1>5. QED BY <1>3, <1>4

\* The routes that start nothing.
LEMMA RouteCounted ==
    ASSUME IndInv, Counted, NEW s \in Slots,
           \/ \E job \in {"advance", "close"} : Progress(s, job)
           \/ \E t \in Tasks : Retry(s, t)
           \/ \E t \in Tasks, a \in Agents : Heartbeat(s, t, a)
    PROVE  Counted'
<1>1. mem \in States /\ SameCounts(mem, mem) /\ \A t \in Tasks : mem.task[t] \in TaskRecords
    BY CountFrame, SyncCounts
<1>2. ASSUME NEW job \in {"advance", "close"}, Progress(s, job) PROVE Counted'
  <2> DEFINE h == Handler(job)
  <2>1. h.job = job BY DEF Handler, Idle
  <2>2. /\ UNCHANGED count
        /\ mem' \in {mem, dispatchNextEligibleTask(mem, h, Tasks, FALSE).m, Return(mem, h).m}
      BY <1>2 DEF Progress, Takes, completeTaskWithGovernance, Step
  <2> HIDE DEF h
  <2>3. SameCounts(mem, dispatchNextEligibleTask(mem, h, Tasks, FALSE).m)
      BY <1>1, <2>1, DispatchCounts
  <2>4. SameCounts(mem, Return(mem, h).m) BY <1>1, <2>1, ReturnCounts
  <2>5. SameCounts(mem, mem') BY <1>1, <2>2, <2>3, <2>4
  <2>6. QED BY <2>2, <2>5, CountsStay
<1>3. ASSUME NEW t \in Tasks, Retry(s, t) PROVE Counted'
  <2>1. mem' = Put(mem, t, queueTaskRetry(mem.task[t])) /\ UNCHANGED count
      BY <1>3 DEF Retry, Takes, Step
  <2>2. queueTaskRetry(mem.task[t]).attempts = mem.task[t].attempts
      BY <1>1 DEF queueTaskRetry, TaskRecords
  <2>3. SameCounts(mem, mem') BY <1>1, <2>1, <2>2, PutCounts DEF SameCounts
  <2>4. QED BY <2>1, <2>3, CountsStay
<1>4. ASSUME NEW t \in Tasks, NEW a \in Agents, Heartbeat(s, t, a) PROVE Counted'
  <2>1. mem' = Put(mem, t, updateTaskHeartbeat(mem.task[t], a)) /\ UNCHANGED count
      BY <1>4 DEF Heartbeat, Takes, Step
  <2>2. updateTaskHeartbeat(mem.task[t], a).attempts = mem.task[t].attempts BY <1>1, HeartbeatVersion
  <2>3. SameCounts(mem, mem') BY <1>1, <2>1, <2>2, PutCounts DEF SameCounts
  <2>4. QED BY <2>1, <2>3, CountsStay
<1>5. QED BY <1>2, <1>3, <1>4

\* The sweeps that begin: a halt, a reconciliation, a tick.
LEMMA SweepCounted ==
    ASSUME IndInv, Counted, NEW s \in Slots, Halt(s) \/ Reconcile(s) \/ Tick(s)
    PROVE  Counted'
<1>1. mem \in States BY CountFrame
<1>2. CASE Halt(s)
  <2> DEFINE S == {t \in Tasks : mem.task[t].status \in {"queued", "running"}}
  <2>1. mem' = HaltNext(mem, Handler("halt"), Copies(mem, S)).m /\ UNCHANGED count
      BY <1>2 DEF Halt, Takes
  <2>2. S \in SUBSET Tasks OBVIOUS
  <2> HIDE DEF S
  <2>3. QED BY <1>1, <2>1, <2>2, FreshLoopCounts, CountsStay
<1>3. CASE Tick(s)
  <2> DEFINE S == {t \in Tasks : mem.task[t].status = "running" /\ mem.task[t].stale}
             h == Handler("tick")
  <2>1. mem' = reconcileStaleRunningTasks(mem, h, Copies(mem, S)).m /\ UNCHANGED count
      BY <1>3 DEF Tick, Takes, StaleRuns
  <2>2. S \in SUBSET Tasks /\ h.job = "tick" BY DEF Handler, Idle
  <2> HIDE DEF S, h
  <2>3. QED BY <1>1, <2>1, <2>2, FreshLoopCounts, CountsStay
<1>4. CASE Reconcile(s)
  <2> DEFINE m == reconcileRecoveredState(mem)
             S == {t \in Tasks : m.task[t].status = "running" /\ m.task[t].stale}
             h == Handler("reconcile")
  <2>1. /\ mem' \in {m, reconcileStaleRunningTasks(m, h, Copies(m, S)).m} /\ UNCHANGED count
      BY <1>4 DEF Reconcile, Takes, StaleRuns, Step
  <2>2. S \in SUBSET Tasks /\ h.job = "reconcile" BY DEF Handler, Idle
  <2>3. m \in States
    <3>1. extra \in [Tasks -> Nat] /\ StateOK(mem, extra) BY DEF IndInv, ProcessOK
    <3>2. QED BY <3>1, RecoveredOK DEF StateOK
  <2>4. SameCounts(mem, m) BY <1>1, RecoveredCounts
  <2> HIDE DEF m, S, h
  <2>5. SameCounts(m, mem') BY <2>1, <2>2, <2>3, FreshLoopCounts, SyncCounts
  <2>6. SameCounts(mem, mem') BY <2>4, <2>5 DEF SameCounts
  <2>7. QED BY <2>1, <2>6, CountsStay
<1>5. QED BY <1>2, <1>3, <1>4

\* A crash takes the count back to the one of the file.
LEMMA CrashCounted == ASSUME IndInv, Counted, Restart \/ CrashInWrite PROVE Counted'
<1>1. /\ mem \in States /\ runs \in [Tasks -> Nat] /\ forgotten \in [Tasks -> Int]
      /\ \A t \in Tasks : mem.task[t].attempts \in Nat /\ runs[t] = mem.task[t].attempts + forgotten[t]
    BY CountFrame
<1>2. mem' \in States
  <2>1. IndInv' BY RestartStep, CrashInWriteStep
  <2>2. QED BY <2>1 DEF IndInv, ProcessOK
<1>3. \A t \in Tasks : mem'.task[t].attempts \in Nat BY <1>2 DEF States, TaskRecords
<1>4. /\ forgotten' = [t \in Tasks |-> forgotten[t] + (mem.task[t].attempts - mem'.task[t].attempts)]
      /\ runs' = runs
    BY DEF Restart, CrashInWrite, CountsAgain
<1>5. forgotten' \in [Tasks -> Int] BY <1>1, <1>3, <1>4
<1>6. ASSUME NEW t \in Tasks PROVE runs'[t] = mem'.task[t].attempts + forgotten'[t]
    BY <1>1, <1>3, <1>4
<1>7. QED BY <1>1, <1>4, <1>5, <1>6 DEF Counted, CountsOK

\* The account is kept by every step.
LEMMA CountedStep == ASSUME IndInv, Counted, [Next]_vars PROVE Counted'
<1>1. CASE UNCHANGED vars
  <2>1. UNCHANGED <<mem, count>> BY <1>1 DEF vars
  <2>2. QED BY <2>1, CountsStay DEF SameCounts
<1>2. ASSUME NEW s \in Slots,
             \/ Handle(s) \/ Tick(s) \/ Execute(s) \/ Halt(s) \/ Reconcile(s)
             \/ \E job \in {"advance", "close"} : Progress(s, job)
             \/ \E t \in Tasks : Claim(s, t) \/ Retry(s, t)
             \/ \E t \in Tasks, a \in Agents : Heartbeat(s, t, a) \/ Complete(s, t, a)
      PROVE  Counted'
  <2>1. CASE Handle(s) BY <2>1, HandleCounted
  <2>2. CASE Execute(s) BY <2>2, ExecuteCounted
  <2>3. CASE Tick(s) \/ Halt(s) \/ Reconcile(s) BY <2>3, SweepCounted
  <2>4. ASSUME NEW t \in Tasks, Claim(s, t) PROVE Counted' BY <2>4, ClaimCounted
  <2>5. ASSUME NEW t \in Tasks, NEW a \in Agents, Complete(s, t, a) PROVE Counted'
      BY <2>5, CompleteCounted
  <2>6. QED BY <1>2, <2>1, <2>2, <2>3, <2>4, <2>5, RouteCounted
<1>3. ASSUME NEW t \in Tasks, Expire(t) PROVE Counted'
  <2> DEFINE x == [mem.task[t] EXCEPT !.stale = TRUE]
  <2>1. mem \in States /\ \A u \in Tasks : mem.task[u] \in TaskRecords BY CountFrame
  <2>2. mem' = Put(mem, t, x) /\ UNCHANGED count BY <1>3, <2>1 DEF Expire, Put, States
  <2>3. x.attempts = mem.task[t].attempts BY <2>1 DEF TaskRecords
  <2> HIDE DEF x
  <2>4. SameCounts(mem, mem') BY <2>1, <2>2, <2>3, PutCounts DEF SameCounts
  <2>5. QED BY <2>2, <2>4, CountsStay
<1>4. CASE KillSwitch
  <2>1. mem' = mem /\ UNCHANGED count BY <1>4 DEF KillSwitch
  <2>2. QED BY <2>1, CountsStay DEF SameCounts
<1>5. CASE Restart \/ CrashInWrite BY <1>5, CrashCounted
<1>6. CASE Next
  <2>1. CASE \E s \in Slots :
                \/ Handle(s) \/ Tick(s) \/ Execute(s) \/ Halt(s) \/ Reconcile(s)
                \/ \E job \in {"advance", "close"} : Progress(s, job)
                \/ \E t \in Tasks : Claim(s, t) \/ Retry(s, t)
                \/ \E t \in Tasks, a \in Agents : Heartbeat(s, t, a) \/ Complete(s, t, a)
      BY <2>1, <1>2
  <2>2. CASE (\E t \in Tasks : Expire(t)) \/ Restart \/ CrashInWrite \/ KillSwitch
      BY <2>2, <1>3, <1>4, <1>5
  <2>3. QED BY <1>6, <2>1, <2>2 DEF Next
<1>7. QED BY <1>1, <1>6

-----------------------------------------------------------------------------
(* The theorems                                                            *)

\* A mission under way: the tasks are there and the first one runs.
LEMMA StartedOK == ASSUME NEW ex \in [Tasks -> Nat] PROVE StateOK(Started, ex)
<1> DEFINE p == Seeded(Planned)
           y0 == claimTaskForAgent(p.task[1], Assigned[1])
           y == [y0 EXCEPT !.gov = "approved"]
           q == Put(p, 1, y)
<1>1. 1 \in Tasks BY TaskAssumption DEF Tasks
<1>2. Planned \in States BY NothingOK DEF StateOK
<1>3. StateOK(p, ex) BY <1>2, SeededOK
<1>4. p.task[1].status = "queued" BY <1>1, <1>2 DEF Seeded, States, Absent
<1>5. Started = syncMissionDerivedState(q)
    BY <1>1, <1>3 DEF Started, Put, StateOK, States
<1> HIDE DEF p
<1>6. /\ p.task[1] \in TaskRecords /\ WithinBudget(p.task[1], 1, ex)
      /\ RightlyReleased(p.task[1], 1, p)
    BY <1>1, <1>3 DEF StateOK, States
<1>7. /\ y0 \in TaskRecords /\ WithinBudget(y0, 1, ex)
      /\ y0.ready = p.task[1].ready /\ y0.status = "running"
    BY <1>1, <1>4, <1>6, ClaimVersion, TaskAssumption
<1> HIDE DEF y0
<1>8. /\ y \in TaskRecords /\ y.status = "running" /\ y.ready = p.task[1].ready
      /\ y.attempts = y0.attempts
    BY <1>7 DEF TaskRecords
<1> HIDE DEF y
<1>9. WithinBudget(y, 1, ex) /\ RightlyReleased(y, 1, p)
    BY <1>6, <1>7, <1>8 DEF WithinBudget, RightlyReleased
<1>10. StateOK(q, ex) BY <1>1, <1>3, <1>8, <1>9, PutOK
<1> HIDE DEF q
<1>11. QED BY <1>5, <1>10, SyncOK

\* Every initial state satisfies the inductive invariant.
LEMMA InitIndInv == Init => IndInv
<1> SUFFICES ASSUME Init PROVE IndInv OBVIOUS
<1>1. extra \in [Tasks -> Nat] BY DEF Init
<1>2. mem = Planned \/ mem = Started BY DEF Init
<1>3. StateOK(mem, extra) BY <1>1, <1>2, NothingOK, StartedOK
<1>4. mem \in States /\ disk = mem /\ disk # Torn BY <1>3, TornAssumption DEF Init, StateOK
<1>5. slot \in [Slots -> Handlers] /\ \A s \in Slots : HandlerOK(slot[s], mem, extra, kill)
    BY IdleOK DEF Init
<1>6. ProcessOK BY <1>1, <1>4, <1>5 DEF Init, ProcessOK
<1>7. DiskOK BY <1>3, <1>4 DEF DiskOK
<1>8. AcknowledgedIsKept BY DEF Init, AcknowledgedIsKept
<1>9. QED BY <1>3, <1>5, <1>6, <1>7, <1>8 DEF IndInv

\* What a mission under way has started is counted too.
LEMMA InitCounted == Init => Counted
<1> SUFFICES ASSUME Init PROVE Counted OBVIOUS
<1>1. mem \in States BY InitIndInv DEF IndInv, ProcessOK
<1>2. \A t \in Tasks : mem.task[t].attempts \in Nat BY <1>1 DEF States, TaskRecords
<1>3. runs = [t \in Tasks |-> mem.task[t].attempts] /\ forgotten = [t \in Tasks |-> 0] BY DEF Init
<1>4. QED BY <1>2, <1>3 DEF Counted, CountsOK

\* Every step keeps the invariant and grants successes to unkilled handlers.
LEMMA NextStep == ASSUME IndInv, [Next]_vars PROVE IndInv' /\ SuccessFromUnkilled
<1> DEFINE Goal == IndInv' /\ SuccessFromUnkilled
<1>1. CASE UNCHANGED vars
  <2>1. UNCHANGED <<mem, disk, slot, kill, acked, extra, torn, events>> BY <1>1 DEF vars, bounds
  <2>2. ProcessOK' /\ DiskOK' /\ AcknowledgedIsKept'
      BY <2>1 DEF IndInv, ProcessOK, DiskOK, AcknowledgedIsKept
  <2>3. StateOK(mem, extra)' /\ \A s \in Slots : HandlerOK(slot'[s], mem', extra', kill')
      BY <2>1 DEF IndInv
  <2>4. IndInv' BY <2>2, <2>3 DEF IndInv
  <2>5. QED BY <2>1, <2>4 DEF SuccessFromUnkilled
<1>2. ASSUME NEW s \in Slots, Handle(s) PROVE Goal
  <2> HIDE DEF Goal
  <2>1. CASE assessTaskGovernance(s) BY <2>1, AllowedStep DEF assessTaskGovernance, Goal
  <2>2. CASE finalizeGovernedCompletion(s) BY <2>2, AllowedStep DEF finalizeGovernedCompletion, Goal
  <2>3. CASE Dispatched(s) BY <2>3, DispatchedStep DEF Goal
  <2>4. CASE DispatchRefused(s) \/ CompletionRefused(s) BY <2>4, RefusedStep DEF Goal
  <2>5. CASE AfterDispatch(s) BY <2>5, AfterDispatchStep DEF Goal
  <2>6. CASE Completed(s) BY <2>6, CompletedStep DEF Goal
  <2>7. CASE AfterCompletion(s) BY <2>7, AfterCompletionStep DEF Goal
  <2>8. CASE AfterRelease(s) BY <2>8, AfterReleaseStep DEF Goal
  <2>9. CASE AfterLoopEvent(s) BY <2>9, AfterLoopStep DEF Goal
  <2>10. CASE Persist(s) \/ PersistFails(s) BY <2>10, PersistStep DEF Goal
  <2>11. CASE Reconciled(s) BY <2>11, ReconciledStep DEF Goal
  <2>12. QED BY <1>2, <2>1, <2>2, <2>3, <2>4, <2>5, <2>6, <2>7, <2>8, <2>9, <2>10, <2>11 DEF Handle
<1>3. ASSUME NEW s \in Slots, Tick(s) \/ Execute(s) \/ Halt(s) \/ Reconcile(s) PROVE Goal
  <2>1. CASE Tick(s) BY <2>1, TickStep
  <2>2. CASE Execute(s) BY <2>2, ExecuteStep
  <2>3. CASE Halt(s) BY <2>3, HaltStep
  <2>4. CASE Reconcile(s) BY <2>4, ReconcileStep
  <2>5. QED BY <1>3, <2>1, <2>2, <2>3, <2>4
<1>4. ASSUME NEW s \in Slots, NEW job \in {"advance", "close"}, Progress(s, job) PROVE Goal
    BY <1>4, ProgressStep
<1>5. ASSUME NEW s \in Slots, NEW t \in Tasks, Claim(s, t) \/ Retry(s, t) PROVE Goal
    BY <1>5, ClaimStep, RetryStep
<1>6. ASSUME NEW s \in Slots, NEW t \in Tasks, NEW a \in Agents,
             Heartbeat(s, t, a) \/ Complete(s, t, a)
      PROVE  Goal
    BY <1>6, HeartbeatStep, CompleteStep
<1>7. ASSUME NEW t \in Tasks, Expire(t) PROVE Goal BY <1>7, ExpireStep
<1>8. CASE Restart \/ CrashInWrite \/ KillSwitch
  <2>1. CASE Restart BY <2>1, RestartStep
  <2>2. CASE CrashInWrite BY <2>2, CrashInWriteStep
  <2>3. CASE KillSwitch BY <2>3, KillSwitchStep
  <2>4. QED BY <1>8, <2>1, <2>2, <2>3
<1>9. CASE Next
  <2>1. ASSUME NEW s \in Slots, \E job \in {"advance", "close"} : Progress(s, job) PROVE Goal
      BY <2>1, <1>4
  <2>2. ASSUME NEW s \in Slots, \E t \in Tasks : Claim(s, t) \/ Retry(s, t) PROVE Goal
      BY <2>2, <1>5
  <2>3. ASSUME NEW s \in Slots,
               \E t \in Tasks, a \in Agents : Heartbeat(s, t, a) \/ Complete(s, t, a)
        PROVE  Goal
      BY <2>3, <1>6
  <2>4. CASE \E t \in Tasks : Expire(t) BY <2>4, <1>7
  <2>5. QED BY <1>9, <1>2, <1>3, <1>8, <2>1, <2>2, <2>3, <2>4 DEF Next
<1>10. QED BY <1>1, <1>9

\* The inductive invariant holds in every reachable state, however many
\* handlers interleave at their awaits and whenever the process crashes.
THEOREM Invariance == Spec => []IndInv
<1>1. IndInv /\ [Next]_vars => IndInv' BY NextStep
<1>2. QED BY <1>1, InitIndInv, PTL DEF Spec

\* Every start of a task is counted, until an older copy or a crash forgets it.
THEOREM StartsCounted == Spec => []Counted
<1>1. IndInv /\ Counted /\ [Next]_vars => Counted' BY CountedStep
<1>2. Init => Counted BY InitCounted
<1>3. QED BY <1>1, <1>2, Invariance, PTL DEF Spec

\* TypeOK: memory, file, handlers and the account of starts stay well formed.
THEOREM TypeCorrect == Spec => []TypeOK
<1>1. IndInv /\ Counted => TypeOK BY DEF IndInv, Counted, TypeOK
<1>2. QED BY <1>1, Invariance, StartsCounted, PTL

\* A task is never started more often than its budget, the starts granted
\* around queueTaskRetry and the forgotten ones allow; a queued one has a start
\* left.
THEOREM AttemptsBounded == Spec => []RetryBudget
<1>1. ASSUME IndInv, Counted, NEW t \in Tasks
      PROVE  /\ runs[t] <= MaxAttempts + extra[t] + forgotten[t]
             /\ mem.task[t].status = "queued" => runs[t] < MaxAttempts + extra[t] + forgotten[t]
  <2>1. /\ mem.task[t].attempts <= MaxAttempts + extra[t]
        /\ mem.task[t].status = "queued" => mem.task[t].attempts < MaxAttempts + extra[t]
      BY <1>1 DEF IndInv, StateOK, WithinBudget
  <2>2. runs[t] = mem.task[t].attempts + forgotten[t] BY <1>1 DEF Counted
  <2>3. mem.task[t].attempts \in Nat /\ extra[t] \in Nat /\ forgotten[t] \in Int
      BY <1>1 DEF IndInv, ProcessOK, Counted, CountsOK, States, TaskRecords
  <2>4. QED BY <2>1, <2>2, <2>3, TaskAssumption
<1>2. IndInv /\ Counted => RetryBudget BY <1>1 DEF RetryBudget
<1>3. QED BY <1>2, Invariance, StartsCounted, PTL

\* A completed task has its receipt, in memory and in the file.
THEOREM ReceiptsComplete == Spec => []CompletedHasReceipt
<1>1. IndInv => CompletedHasReceipt BY DEF IndInv, DiskOK, StateOK, CompletedHasReceipt
<1>2. QED BY <1>1, Invariance, PTL

\* A task is handed out only after every task it depends on has succeeded.
THEOREM DependenciesRespected == Spec => []DependenciesFirst
<1>1. IndInv => DependenciesFirst BY DEF IndInv, HandlerOK, DependenciesFirst
<1>2. QED BY <1>1, Invariance, PTL

\* While no write has failed, acknowledged completions and an acknowledged
\* halt survive every crash.
THEOREM AcknowledgedKept == Spec => []AcknowledgedIsKept
<1>1. IndInv => AcknowledgedIsKept BY DEF IndInv
<1>2. QED BY <1>1, Invariance, PTL

\* No step grants a success receipt to a handler that has run under the kill
\* switch all along.
THEOREM KillSwitchHolds == Spec => NoSuccessUnderKill
<1>1. IndInv /\ [Next]_vars => [SuccessFromUnkilled]_vars BY NextStep
<1>2. [][SuccessFromUnkilled]_vars => NoSuccessUnderKill
    BY PTL DEF NoSuccessUnderKill, SuccessFromUnkilled
<1>3. QED BY <1>1, <1>2, Invariance, PTL DEF Spec
=============================================================================
