--------------------------- MODULE TaskLifecycle ---------------------------
(***************************************************************************)
(* The tasks of one mission in services/agent-os/src/index.ts.  Route      *)
(* handlers and the autonomy timer run in one process and share its maps;  *)
(* between two awaits a handler is atomic, across an await it keeps the    *)
(* copy of the task it has read and later writes that copy back.  The      *)
(* state is written to one file in place, and read again after a crash.    *)
(*                                                                         *)
(* mem is the process's state: the tasks, the stored status of the mission, *)
(* its workspace and the receipts.  slot holds the handlers in flight:     *)
(* job, the await it is at (pc), the copy it works on, the copies its loop *)
(* has still to visit, and what it captured or did.                        *)
(*                                                                         *)
(* Abstractions.  The agents stay registered and are never offline.  The   *)
(* governance services may refuse for any reason (leases, routes, policy,  *)
(* kernel, witnesses, their cached health); they allow only what the       *)
(* execution gate allows, which looks at its kill switch.  A heartbeat is  *)
(* stale or not.  Tool actions and leases are left out.                    *)
(*                                                                         *)
(* Three history variables keep the account of the retry budget: runs, how *)
(* often a task was really started; extra, the attempts granted around     *)
(* queueTaskRetry; forgotten, the runs its stored count has lost, to an    *)
(* older copy written over it or to a crash.                               *)
(***************************************************************************)
EXTENDS Integers, FiniteSets, FiniteSetsExt

CONSTANTS
    NumTasks,      \* length of the mission's queue: 3 in the code
    Autonomous,    \* tasks the autonomy loop may run
    Agents, Assigned,
    MaxAttempts,   \* taskMaxAttempts
    InFlight,      \* bound on the handlers in flight at once, the tick included
    MaxEvents,     \* bound on requests, crashes, failing writes and changes of the
                   \* kill switch, taken together
    NoAgent, NoCopy, Torn

Tasks == 1..NumTasks
Slots == 1..InFlight

ASSUME TaskAssumption ==
    /\ NumTasks \in Nat \ {0} /\ InFlight \in Nat /\ MaxAttempts \in Nat \ {0}
    /\ Autonomous \subseteq Tasks /\ Assigned \in [Tasks -> Agents] /\ NoAgent \notin Agents

VARIABLES mem, disk, slot, kill, acked, extra, runs, forgotten, torn, events

count == <<runs, forgotten>>
bounds == <<torn, events>>
vars == <<mem, disk, slot, kill, acked, extra, count, bounds>>

\* seedMissionExecutionTasks: each task waits for the one before it.
Deps(t) == {t - 1} \intersect Tasks

Absent == [status |-> "absent", claimedBy |-> NoAgent, attempts |-> 0, stale |-> FALSE,
           gov |-> "none", ready |-> "unset"]

Planned == [task |-> [t \in Tasks |-> Absent], mission |-> "planned", workspace |-> "active", receipts |-> {}]

\* What a process starts with when the file cannot be parsed.
Nothing == [Planned EXCEPT !.mission = "none"]

Idle == [job |-> "none", pc |-> "idle", copy |-> NoCopy, todo |-> {}, own |-> FALSE,
         released |-> {}, done |-> {}, killed |-> FALSE]

-----------------------------------------------------------------------------
(* What the handlers compute.                                              *)

Copy(m, t) == [id |-> t, was |-> [m.task[t] EXCEPT !.stale = FALSE]]
Put(m, t, x) == [m EXCEPT !.task[t] = x]

\* The tasks in S, copied; a loop visits them in the order of their creation.
Copies(m, S) == {Copy(m, t) : t \in S}
First(todo) == CHOOSE c \in todo : \A d \in todo : c.id <= d.id
Rest(todo) == todo \ {First(todo)}

InStatus(m, S) == {t \in Tasks : m.task[t].status \in S}
Created(m) == {t \in Tasks : m.task[t].status # "absent"}

claimTaskForAgent(x, a) ==
    [x EXCEPT !.status = "running", !.claimedBy = a, !.stale = FALSE, !.attempts = @ + 1]

updateTaskHeartbeat(x, a) == [x EXCEPT !.claimedBy = a, !.stale = FALSE]

\* Mutant: the attempt after the last one is granted as well.
queueTaskRetry_OneMore(x) ==
    IF x.attempts > MaxAttempts
    THEN [x EXCEPT !.status = "blocked", !.stale = FALSE]
    ELSE [x EXCEPT !.status = "queued", !.claimedBy = NoAgent, !.stale = FALSE]

\* Whatever the status of the task; its governance stays.
queueTaskRetry(x) ==
    IF x.attempts >= MaxAttempts
    THEN [x EXCEPT !.status = "blocked", !.stale = FALSE]
    ELSE [x EXCEPT !.status = "queued", !.claimedBy = NoAgent, !.stale = FALSE]

\* updateTaskGovernance, then the copy with the refusal, and a receipt.
blockTaskForGovernance(m, c) ==
    [Put(m, c.id, [c.was EXCEPT !.status = "blocked", !.gov = "blocked"])
        EXCEPT !.receipts = @ \union {<<c.id, "blocked">>}]

\* Mutant: a dependency only has to be free of a refusal.
taskDependencyState_NotBlocked(m, t) ==
    \A d \in Deps(t) : m.task[d].status \notin {"blocked", "cancelled"}

taskDependencyState(m, t) == \A d \in Deps(t) : m.task[d].status = "completed"

\* The stored flag, or the dependencies themselves before the first sync.
Released(m, t) ==
    IF m.task[t].ready = "unset" THEN taskDependencyState(m, t) ELSE m.task[t].ready = "yes"

TasksStatus(m) ==
    CASE Created(m) = {} -> IF m.mission \in {"completed", "planned"} THEN m.mission ELSE "active"
      [] InStatus(m, {"blocked", "cancelled"}) # {} -> "blocked"
      [] Created(m) # {} /\ Created(m) = InStatus(m, {"completed"}) -> "completed"
      [] OTHER -> "active"

\* Mutant: the status follows the tasks alone.
deriveMissionStatusFromTasks_Tasks(m) == TasksStatus(m)

deriveMissionStatusFromTasks(m) == IF m.mission = "halted" THEN "halted" ELSE TasksStatus(m)

\* The status of the mission and the state of its workspace that goes with it.
WithStatus(m, status) ==
    [m EXCEPT !.mission = status,
              !.workspace = CASE status = "completed" -> "sealed"
                              [] status \in {"halted", "blocked"} -> "paused"
                              [] OTHER -> "active"]

syncMissionDerivedState(m) ==
    LET Flagged(t) ==
            IF m.task[t].status = "absent" THEN m.task[t]
            ELSE [m.task[t] EXCEPT !.ready = IF taskDependencyState(m, t) THEN "yes" ELSE "no"]
    IN  WithStatus([m EXCEPT !.task = [t \in Tasks |-> Flagged(t)]], deriveMissionStatusFromTasks(m))

\* evaluateTaskSelectionCandidate and explainTaskIneligibility.
Eligible(m, t) ==
    /\ m.task[t].status = "queued"
    /\ deriveMissionStatusFromTasks(m) \in {"active", "planned"}
    /\ m.workspace = "active"
    /\ m.task[t].gov # "blocked"
    /\ Released(m, t)

-----------------------------------------------------------------------------
\* seedMissionExecutionTasks
Seeded(m) == [m EXCEPT !.task = [t \in Tasks |-> [Absent EXCEPT !.status = "queued"]]]

\* What a first "execute" leaves: the tasks are there and the first one runs.
Started ==
    syncMissionDerivedState([Seeded(Planned) EXCEPT
        !.task[1] = [claimTaskForAgent(@, Assigned[1]) EXCEPT !.gov = "approved"]])

\* The mission is new, or under way.
Init ==
    /\ mem \in {Planned, Started} /\ disk = mem
    /\ slot = [s \in Slots |-> Idle]
    /\ kill = FALSE /\ acked = [tasks |-> {}, halt |-> FALSE] /\ extra = [t \in Tasks |-> 0]
    /\ runs = [t \in Tasks |-> mem.task[t].attempts] /\ forgotten = [t \in Tasks |-> 0]
    /\ torn = FALSE /\ events = 0

-----------------------------------------------------------------------------
(* What a handler does up to its next await: the new memory and the new    *)
(* slot.                                                                   *)

Step(m, h) == [m |-> m, h |-> h]
At(h, pc) == [h EXCEPT !.pc = pc]

\* It awaits its write, and keeps what it is going to answer.
Saving(h) == [Idle EXCEPT !.job = h.job, !.pc = "persist", !.done = h.done]

\* It awaits the assessment of the copy for its completion.
completeTaskWithGovernance(m, h, c) ==
    Step(m, [At(h, "complete") EXCEPT
               !.copy = c,
               !.released = {t \in InStatus(m, {"queued"}) : m.task[t].ready = "yes"}])

\* The completion sweep of a mission: the copies were taken when it began.
SweepNext(m, h, todo) ==
    IF todo = {} THEN Step(syncMissionDerivedState(m), Saving(h))
    ELSE Step(m, [At(h, "dispatch") EXCEPT !.copy = First(todo), !.todo = Rest(todo)])

\* What follows when its task has been dealt with.
Return(m, h) ==
    CASE h.job \in {"claim", "complete", "tick"} -> Step(m, Saving(h))
      [] h.job = "advance" -> Step(syncMissionDerivedState(m), Saving(h))
      [] h.job = "close" ->
            SweepNext(m, [h EXCEPT !.job = "sweep"], Copies(m, {t \in Tasks : m.task[t].status = "queued"}))
      [] h.job = "sweep" -> SweepNext(m, h, h.todo)

\* It awaits the assessment of the first eligible task of S; own: it is going
\* to complete the task itself.
dispatchNextEligibleTask(m, h, S, own) ==
    LET E == {t \in S : Eligible(m, t)} IN
    IF E = {} THEN Return(m, h)
    ELSE Step(m, [At(h, "dispatch") EXCEPT !.copy = Copy(m, Min(E)), !.own = own])

\* The second half of the autonomy tick.
TickMission(m, h) ==
    LET mine == InStatus(m, {"running"}) \intersect Autonomous IN
    CASE m.mission \notin {"active", "planned"} -> Step(m, Saving(h))
      [] m.mission \in {"active", "planned"} /\ mine # {} ->
            completeTaskWithGovernance(m, h, Copy(m, Min(mine)))
      [] m.mission \in {"active", "planned"} /\ InStatus(m, {"running"}) = {} ->
            dispatchNextEligibleTask(m, h, Autonomous, TRUE)
      [] OTHER -> Step(m, Saving(h))

\* Mutant: a task without attempts left is not looked at again.
StaleRuns_WithAttempts(m) ==
    Copies(m, {t \in Tasks : m.task[t].status = "running" /\ m.task[t].stale /\ m.task[t].attempts < MaxAttempts})

StaleRuns(m) == Copies(m, {t \in Tasks : m.task[t].status = "running" /\ m.task[t].stale})

\* Each copy is put back in the queue and the ledger awaited.  A tick goes on
\* with the mission, the route of a reconciliation answers.
reconcileStaleRunningTasks(m, h, todo) ==
    CASE todo # {} ->
            Step(Put(m, First(todo).id, queueTaskRetry(First(todo).was)),
                 [At(h, "stale") EXCEPT !.todo = Rest(todo)])
      [] todo = {} /\ h.job = "tick" -> TickMission(m, h)
      [] todo = {} /\ h.job = "reconcile" -> Step(m, Idle)

\* Each copy is cancelled and the ledger awaited.
HaltNext(m, h, todo) ==
    IF todo = {}
    THEN Step(WithStatus(syncMissionDerivedState(m), "halted"), Saving(h))
    ELSE LET c == First(todo) IN
         Step([Put(m, c.id, [c.was EXCEPT !.status = "cancelled"])
                  EXCEPT !.receipts = @ \union {<<c.id, "halted">>}],
              [At(h, "halting") EXCEPT !.todo = Rest(todo)])

\* reconcileRecoveredState: every running task is queued again, its claim and
\* its attempts as they were, and a completed task has a receipt.
reconcileRecoveredState(m) ==
    LET requeued == [m EXCEPT !.task = [t \in Tasks |->
                        IF m.task[t].status = "running"
                        THEN [m.task[t] EXCEPT !.status = "queued", !.stale = FALSE]
                        ELSE m.task[t]],
                              !.receipts = @ \union {<<t, "success">> : t \in InStatus(m, {"completed"})}]
    IN  IF m.mission = "none" THEN m
        ELSE WithStatus(requeued, deriveMissionStatusFromTasks(requeued))

\* It saves when a task, a receipt or the mission has changed; a lease that
\* was revoked makes it save too.
Touched(m) ==
    \/ InStatus(m, {"running"}) # {}
    \/ reconcileRecoveredState(m).receipts # m.receipts
    \/ reconcileRecoveredState(m).mission # m.mission

-----------------------------------------------------------------------------
(* Requests.                                                               *)

\* The slots only bound the handlers in flight: the first free one is taken.
Free(s) == slot[s] = Idle /\ \A r \in Slots : r < s => slot[r] # Idle
Handler(job) == [Idle EXCEPT !.job = job, !.killed = kill]

\* The handler in slot s makes the step x.
Takes(s, x) == mem' = x.m /\ slot' = [slot EXCEPT ![s] = x.h]

Runs(t) == runs' = [runs EXCEPT ![t] = @ + 1]

\* The copy c is written back, over whatever was counted since it was taken.
WritesBack(c) ==
    forgotten' = [forgotten EXCEPT ![c.id] = @ + (mem.task[c.id].attempts - c.was.attempts)]

Event == events < MaxEvents /\ events' = events + 1

Request(s) ==
    /\ Free(s) /\ Event
    /\ UNCHANGED <<disk, kill, acked, torn>>

\* POST /tasks/:id/claim, by the agent it is assigned to: any other is refused.
\* An approval the task carries is used again, without an await.
Claim(s, t) ==
    /\ Request(s) /\ Eligible(mem, t)
    /\ LET c == Copy(mem, t)
           claimed == claimTaskForAgent(c.was, Assigned[t])
       IN  Takes(s, IF c.was.gov = "approved"
                    THEN Step(Put(mem, t, claimed), [At(Handler("claim"), "logged") EXCEPT !.copy = c])
                    ELSE Step(mem, [At(Handler("claim"), "dispatch") EXCEPT !.copy = c]))
    /\ IF mem.task[t].gov = "approved" THEN Runs(t) ELSE UNCHANGED runs
    /\ UNCHANGED <<extra, forgotten>>

\* A task that is claimed answers to its owner only.
Owned(t, a) == mem.task[t].status # "absent" /\ mem.task[t].claimedBy \in {NoAgent, a}

\* POST /tasks/:id/heartbeat, in any status.
Heartbeat(s, t, a) ==
    /\ Request(s) /\ Owned(t, a)
    /\ Takes(s, Step(Put(mem, t, updateTaskHeartbeat(mem.task[t], a)), Saving(Handler("heartbeat"))))
    /\ UNCHANGED <<extra, count>>

\* POST /tasks/:id/complete: a task that is not running is claimed first,
\* whatever its status and its dependencies.
Complete(s, t, a) ==
    /\ Request(s) /\ Owned(t, a)
    /\ LET running == mem.task[t].status = "running"
           m == Put(mem, t, IF running THEN updateTaskHeartbeat(mem.task[t], a)
                            ELSE claimTaskForAgent(mem.task[t], a))
       IN  /\ Takes(s, completeTaskWithGovernance(m, Handler("complete"), Copy(m, t)))
           /\ extra' = [extra EXCEPT ![t] = IF running THEN @ ELSE @ + 1]
           /\ IF running THEN UNCHANGED runs ELSE Runs(t)
    /\ UNCHANGED forgotten

\* POST /tasks/:id/retry
Retry(s, t) ==
    /\ Request(s) /\ mem.task[t].status # "absent"
    /\ Takes(s, Step(Put(mem, t, queueTaskRetry(mem.task[t])), Saving(Handler("retry"))))
    /\ UNCHANGED <<extra, count>>

\* POST /missions/:id/advance, "execute".  The first one creates the tasks and
\* awaits the ledger.
Execute(s) ==
    /\ Request(s) /\ mem.mission # "none"
    /\ Takes(s, IF Created(mem) = {}
                THEN Step(Seeded(mem), At(Handler("advance"), "releasing"))
                ELSE dispatchNextEligibleTask(mem, Handler("advance"), Tasks, FALSE))
    /\ UNCHANGED <<extra, count>>

\* "progress" and "complete": the first running task is completed; with none,
\* "progress" dispatches and "complete" begins its sweep.
Progress(s, job) ==
    /\ Request(s) /\ mem.mission # "none"
    /\ Takes(s, IF InStatus(mem, {"running"}) # {}
                THEN completeTaskWithGovernance(mem, Handler(job), Copy(mem, Min(InStatus(mem, {"running"}))))
                ELSE IF job = "advance"
                THEN dispatchNextEligibleTask(mem, Handler(job), Tasks, FALSE)
                ELSE Return(mem, Handler(job)))
    /\ UNCHANGED <<extra, count>>

\* "halt"
Halt(s) ==
    /\ Request(s) /\ mem.mission # "none"
    /\ Takes(s, HaltNext(mem, Handler("halt"),
                         Copies(mem, {t \in Tasks : mem.task[t].status \in {"queued", "running"}})))
    /\ UNCHANGED <<extra, count>>

\* POST /reconcile
Reconcile(s) ==
    /\ Request(s)
    /\ LET m == reconcileRecoveredState(mem) IN
       \/ Takes(s, Step(m, At(Handler("reconcile"), "reconciled")))
       \/ ~Touched(mem) /\ Takes(s, reconcileStaleRunningTasks(m, Handler("reconcile"), StaleRuns(m)))
    /\ extra' = [t \in Tasks |-> IF mem.task[t].status = "running" THEN extra[t] + 1 ELSE extra[t]]
    /\ UNCHANGED count

\* The timer, or POST /autonomy/tick: one at a time.
Tick(s) ==
    /\ Free(s) /\ \A r \in Slots : slot[r].job # "tick"
    /\ Takes(s, reconcileStaleRunningTasks(mem, Handler("tick"), StaleRuns(mem)))
    /\ UNCHANGED <<disk, kill, acked, extra, count, bounds>>

-----------------------------------------------------------------------------
(* The awaits end.                                                         *)

Resumes(s, x) == Takes(s, x) /\ UNCHANGED <<disk, kill, acked, extra, bounds>>

\* Mutant: the gate looks at the policy only.
GateAllows_Policy == TRUE

\* appliesKillSwitch at the execution gate.
GateAllows == ~kill

Allowed(s, from, to) ==
    /\ slot[s].pc = from /\ GateAllows
    /\ slot' = [slot EXCEPT ![s].pc = to]
    /\ UNCHANGED <<mem, disk, kill, acked, extra, count, bounds>>

\* The services and, at /commit-point, the gate allow the step.
assessTaskGovernance(s) ==
    Allowed(s, "dispatch", "dispatchAllowed") \/ Allowed(s, "complete", "decide")

\* The witnesses and, at /decide, the gate allow the completion.
finalizeGovernedCompletion(s) == Allowed(s, "decide", "completeAllowed")

\* The copy is written back as running, under the fresh approval.
Dispatched(s) ==
    /\ slot[s].pc = "dispatchAllowed"
    /\ LET h == slot[s]
           t == h.copy.id
           m == Put(mem, t, [claimTaskForAgent(h.copy.was, Assigned[t]) EXCEPT !.gov = "approved"])
       IN  Resumes(s, IF h.job = "sweep" THEN completeTaskWithGovernance(m, h, Copy(m, t))
                      ELSE Step(m, [At(h, "logged") EXCEPT !.copy = Copy(m, t)]))
           /\ Runs(t) /\ WritesBack(h.copy)

DispatchRefused(s) ==
    /\ slot[s].pc = "dispatch"
    /\ Resumes(s, Step(blockTaskForGovernance(mem, slot[s].copy),
                       [At(slot[s], "logged") EXCEPT !.own = FALSE]))
    /\ WritesBack(slot[s].copy) /\ UNCHANGED runs

\* The ledger has the dispatch or the refusal.
AfterDispatch(s) ==
    /\ slot[s].pc = "logged"
    /\ Resumes(s, IF slot[s].own THEN completeTaskWithGovernance(mem, slot[s], slot[s].copy)
                  ELSE Return(mem, slot[s]))
    /\ UNCHANGED count

\* Mutant: the receipt waits until the ledger has the completion.
Completed_ReceiptLater(s) ==
    /\ slot[s].pc = "completeAllowed"
    /\ LET c == slot[s].copy
           x == [c.was EXCEPT !.status = "completed", !.claimedBy = NoAgent, !.gov = "approved"]
       IN  Resumes(s, Step(Put(mem, c.id, x),
                           [At(slot[s], "completed") EXCEPT !.own = FALSE,
                              !.done = IF slot[s].job = "complete" THEN {c.id} ELSE {}]))
    /\ WritesBack(slot[s].copy) /\ UNCHANGED runs

\* The copy is written back as completed, with its receipt.
Completed(s) ==
    /\ slot[s].pc = "completeAllowed"
    /\ LET c == slot[s].copy
           x == [c.was EXCEPT !.status = "completed", !.claimedBy = NoAgent, !.gov = "approved"]
       IN  Resumes(s, Step([Put(mem, c.id, x) EXCEPT !.receipts = @ \union {<<c.id, "success">>}],
                           [At(slot[s], "completed") EXCEPT !.own = FALSE,
                              !.done = IF slot[s].job = "complete" THEN {c.id} ELSE {}]))
    /\ WritesBack(slot[s].copy) /\ UNCHANGED runs

CompletionRefused(s) ==
    /\ slot[s].pc \in {"complete", "decide"}
    /\ Resumes(s, Step(blockTaskForGovernance(mem, slot[s].copy),
                       [At(slot[s], "logged") EXCEPT !.own = FALSE]))
    /\ WritesBack(slot[s].copy) /\ UNCHANGED runs

\* The ledger has the completion.  The events of the tasks it has released are
\* awaited before the next dispatch.
AfterCompletion(s) ==
    /\ slot[s].pc = "completed"
    /\ LET h == slot[s]
           m == syncMissionDerivedState(mem)
           newly == {t \in InStatus(m, {"queued"}) \ h.released : m.task[t].ready = "yes"}
       IN  Resumes(s, IF m.mission \notin {"active", "planned"} THEN Return(m, h)
                      ELSE IF newly # {} THEN Step(m, At(h, "releasing"))
                      ELSE dispatchNextEligibleTask(m, h, Tasks, FALSE))
    /\ UNCHANGED count

\* The ledger has the new tasks, or the released ones.
AfterRelease(s) ==
    /\ slot[s].pc = "releasing"
    /\ Resumes(s, dispatchNextEligibleTask(mem, slot[s], Tasks, FALSE))
    /\ UNCHANGED count

\* The ledger has the retry, or the cancellation.
AfterLoopEvent(s) ==
    /\ \/ slot[s].pc = "stale" /\ Resumes(s, reconcileStaleRunningTasks(mem, slot[s], slot[s].todo))
       \/ slot[s].pc = "halting" /\ Resumes(s, HaltNext(mem, slot[s], slot[s].todo))
    /\ IF slot[s].todo = {} THEN UNCHANGED forgotten ELSE WritesBack(First(slot[s].todo))
    /\ UNCHANGED runs

-----------------------------------------------------------------------------
(* The state file.  torn is a history variable: a write has failed.        *)

\* The handler answers once its write has ended.
Answers(s) ==
    /\ acked' = [tasks |-> acked.tasks \union slot[s].done,
                 halt  |-> acked.halt \/ slot[s].job = "halt"]
    /\ slot' = [slot EXCEPT ![s] = Idle]

\* serializeState.  How old a heartbeat is says nothing after a restart.
serializeState(m) == [m EXCEPT !.task = [t \in Tasks |-> [m.task[t] EXCEPT !.stale = FALSE]]]

\* schedulePersist: what memory holds when the write begins.
Persist(s) ==
    /\ slot[s].pc = "persist"
    /\ disk' = serializeState(mem) /\ Answers(s)
    /\ UNCHANGED <<mem, kill, extra, count, bounds>>

\* The write fails, the file is cut or as it was, and the handler answers.
PersistFails(s) ==
    /\ slot[s].pc = "persist" /\ Event
    /\ disk' \in {disk, Torn} /\ Answers(s)
    /\ torn' = TRUE /\ UNCHANGED <<mem, kill, extra, count>>

\* The recovery of POST /reconcile is saved, and the stale runs are swept.
Reconciled(s) ==
    /\ slot[s].pc = "reconciled"
    /\ disk' = serializeState(mem) /\ Takes(s, reconcileStaleRunningTasks(mem, slot[s], StaleRuns(mem)))
    /\ UNCHANGED <<kill, acked, extra, count, bounds>>

\* loadState: a file that cannot be parsed leaves nothing.
Loaded == IF disk = Torn THEN Nothing ELSE disk

\* The count in memory goes back to the one of the file.
CountsAgain ==
    /\ forgotten' = [t \in Tasks |-> forgotten[t] + (mem.task[t].attempts - mem'.task[t].attempts)]
    /\ UNCHANGED runs

\* A crash at any moment, then startup: nothing is served before it is over.
Restart ==
    /\ Event
    /\ mem' = reconcileRecoveredState(Loaded)
    /\ disk' \in IF disk # Torn /\ Touched(disk) THEN {mem'} ELSE {disk, mem'} \ {Nothing}
    /\ slot' = [s \in Slots |-> Idle]
    /\ extra' = [t \in Tasks |-> IF Loaded.task[t].status = "running" THEN extra[t] + 1 ELSE extra[t]]
    /\ CountsAgain /\ UNCHANGED <<kill, acked, torn>>

\* A crash in the middle of a write.
CrashInWrite ==
    /\ Event
    /\ \E s \in Slots : slot[s].pc \in {"persist", "reconciled"}
    /\ mem' = Nothing /\ disk' = Torn
    /\ slot' = [s \in Slots |-> Idle]
    /\ CountsAgain /\ torn' = TRUE /\ UNCHANGED <<kill, acked, extra>>

-----------------------------------------------------------------------------
(* The environment.                                                        *)

\* heartbeatTimeoutMs passes without a heartbeat.
Expire(t) ==
    /\ mem.task[t].status = "running" /\ ~mem.task[t].stale
    /\ mem' = [mem EXCEPT !.task[t].stale = TRUE]
    /\ UNCHANGED <<disk, slot, kill, acked, extra, count, bounds>>

\* POST /kill-switch at the execution gate; killed: on since the handler began.
KillSwitch ==
    /\ Event /\ kill' = ~kill
    /\ slot' = [s \in Slots |-> [slot[s] EXCEPT !.killed = @ /\ ~kill]]
    /\ UNCHANGED <<mem, disk, acked, extra, count, torn>>

Handle(s) ==
    \/ assessTaskGovernance(s) \/ finalizeGovernedCompletion(s) \/ Dispatched(s) \/ DispatchRefused(s) \/ AfterDispatch(s)
    \/ Completed(s) \/ CompletionRefused(s) \/ AfterCompletion(s) \/ AfterRelease(s)
    \/ AfterLoopEvent(s) \/ Persist(s) \/ PersistFails(s) \/ Reconciled(s)

Next ==
    \/ \E s \in Slots :
          \/ Handle(s) \/ Tick(s)
          \/ Execute(s) \/ Halt(s) \/ Reconcile(s)
          \/ \E job \in {"advance", "close"} : Progress(s, job)
          \/ \E t \in Tasks : Claim(s, t) \/ Retry(s, t)
          \/ \E t \in Tasks, a \in Agents : Heartbeat(s, t, a) \/ Complete(s, t, a)
    \/ \E t \in Tasks : Expire(t)
    \/ Restart \/ CrashInWrite \/ KillSwitch

Spec == Init /\ [][Next]_vars

\* The process does not stand still: services answer in the end, and the timer
\* goes on firing.  Which handler goes on is left open.
Fairness == WF_vars(\E s \in Slots : Handle(s) \/ Tick(s))

FairSpec == Spec /\ Fairness

-----------------------------------------------------------------------------
(* Properties.                                                             *)

Statuses == {"absent", "queued", "running", "blocked", "completed", "cancelled"}

TaskRecords ==
    [status : Statuses, claimedBy : Agents \union {NoAgent}, attempts : Nat, stale : BOOLEAN,
     gov : {"none", "approved", "blocked"}, ready : {"unset", "yes", "no"}]

States ==
    [task : [Tasks -> TaskRecords],
     mission : {"none", "planned", "active", "blocked", "completed", "halted"},
     workspace : {"active", "paused", "sealed"},
     receipts : SUBSET (Tasks \X {"success", "blocked", "halted"})]

\* A file that cannot be parsed holds no state.
ASSUME TornAssumption == Torn \notin States

TaskCopies == [id : Tasks, was : TaskRecords]

Handlers ==
    [job : {"none", "claim", "heartbeat", "complete", "retry", "advance", "close", "sweep", "halt",
            "reconcile", "tick"},
     pc : {"idle", "dispatch", "dispatchAllowed", "logged", "complete", "decide", "completeAllowed",
           "completed", "releasing", "stale", "halting", "reconciled", "persist"},
     copy : TaskCopies \union {NoCopy}, todo : SUBSET TaskCopies, own : BOOLEAN,
     released : SUBSET Tasks, done : SUBSET Tasks, killed : BOOLEAN]

\* The process, its file and what it has answered; and the account of runs.
ProcessOK ==
    /\ mem \in States /\ disk \in States \union {Torn}
    /\ slot \in [Slots -> Handlers]
    /\ kill \in BOOLEAN /\ acked \in [tasks : SUBSET Tasks, halt : BOOLEAN]
    /\ extra \in [Tasks -> Nat]
    /\ torn \in BOOLEAN /\ events \in Nat

CountsOK == runs \in [Tasks -> Nat] /\ forgotten \in [Tasks -> Int]

TypeOK == ProcessOK /\ CountsOK

\* The retry budget: a task is never started more often than taskMaxAttempts,
\* and in the queue it has a start left, but for the starts granted without
\* asking queueTaskRetry (a run that a recovery puts back in the queue, a
\* completion of a task that was not running) and the ones that were forgotten
\* (an older copy of the task was written over its count, or a crash lost it).
RetryBudget ==
    \A t \in Tasks :
        LET budget == MaxAttempts + extra[t] + forgotten[t]
        IN  /\ runs[t] <= budget
            /\ mem.task[t].status = "queued" => runs[t] < budget

Succeeded(m, t) == <<t, "success">> \in m.receipts

\* A completed task has its receipt, in memory and in the file, whatever
\* copies are written back meanwhile.
CompletedHasReceipt ==
    \A t \in Tasks :
        /\ mem.task[t].status = "completed" => Succeeded(mem, t)
        /\ disk # Torn /\ disk.task[t].status = "completed" => Succeeded(disk, t)

\* The handlers that hand a task out because it is its turn.
HandsOut(h) ==
    \/ h.pc \in {"dispatch", "dispatchAllowed"} /\ h.job # "sweep"
    \/ h.job = "claim" /\ h.pc = "logged"

\* Release conditions: a task is handed out by the dispatcher or the claim
\* route only when every task it depends on has been completed once, even if
\* the flag was stored long before.
DependenciesFirst ==
    \A s \in Slots : HandsOut(slot[s]) =>
        \A d \in Deps(slot[s].copy.id) : Succeeded(mem, d)

\* What was answered survives: while no write has failed, the receipt of an
\* acknowledged completion is in the file and in memory, and an acknowledged
\* halt of the mission is final.
AcknowledgedIsKept ==
    ~torn =>
        /\ \A t \in acked.tasks : Succeeded(disk, t) /\ Succeeded(mem, t)
        /\ acked.halt => disk.mission = "halted" /\ mem.mission = "halted"

\* The kill switch: no task gets its success receipt from a handler all of
\* which ran with the switch on.
NoSuccessUnderKill ==
    [][\A t \in Tasks : Succeeded(mem', t) /\ ~Succeeded(mem, t) =>
          \E s \in Slots : slot[s].pc = "completeAllowed" /\ slot[s].copy.id = t /\ ~slot[s].killed]_vars

-----------------------------------------------------------------------------
(* The inductive invariant behind the safety properties: what every state  *)
(* of the mission, every copy and every handler in flight satisfies.       *)

\* The attempts of a version x of task t, with the grants ex beyond the budget.
WithinBudget(x, t, ex) ==
    /\ x.attempts <= MaxAttempts + ex[t]
    /\ x.status = "queued" => x.attempts < MaxAttempts + ex[t]
    /\ x.status = "absent" => x.attempts = 0

\* A release flag that says yes was right when it was stored.
RightlyReleased(x, t, m) == x.ready = "yes" => \A d \in Deps(t) : Succeeded(m, d)

StateOK(m, ex) ==
    /\ m \in States
    /\ \A t \in Tasks :
          /\ WithinBudget(m.task[t], t, ex)
          /\ RightlyReleased(m.task[t], t, m)
          /\ m.task[t].status = "completed" => Succeeded(m, t)

CopyOK(c, m, ex) ==
    /\ c \in TaskCopies
    /\ WithinBudget(c.was, c.id, ex)
    /\ RightlyReleased(c.was, c.id, m)

\* The awaits at which a handler holds a copy, and those of each kind of job.
HoldsCopy == {"dispatch", "dispatchAllowed", "logged", "complete", "decide", "completeAllowed", "completed"}

AwaitsOf(job) ==
    CASE job \in {"advance", "close", "complete", "sweep"} -> HoldsCopy \union {"releasing", "persist"}
      [] job = "tick" -> HoldsCopy \union {"releasing", "persist", "stale"}
      [] job = "claim" -> {"dispatch", "dispatchAllowed", "logged", "persist"}
      [] job = "reconcile" -> {"reconciled", "stale"}
      [] job = "halt" -> {"halting", "persist"}
      [] job \in {"heartbeat", "retry"} -> {"persist"}
      [] OTHER -> {"idle"}

\* A handler h over the state m, with the kill switch at k.
HandlerOK(h, m, ex, k) ==
    /\ h \in Handlers /\ h.pc \in AwaitsOf(h.job)
    /\ h.copy # NoCopy => CopyOK(h.copy, m, ex)
    /\ h.pc \in HoldsCopy => CopyOK(h.copy, m, ex)
    /\ \A c \in h.todo : CopyOK(c, m, ex)
    /\ h.pc \in {"dispatch", "dispatchAllowed"} => h.copy.was.status = "queued"
    /\ h.job \in {"close", "sweep"} => \A c \in h.todo : c.was.status = "queued"
    /\ HandsOut(h) => \A d \in Deps(h.copy.id) : Succeeded(m, d)
    /\ h.job = "claim" => ~h.own
    /\ \A t \in h.done : Succeeded(m, t)
    /\ h.job = "halt" /\ h.pc = "persist" => m.mission = "halted"
    /\ h.killed => k
    /\ h.pc = "completeAllowed" => ~h.killed

\* What the file holds is behind memory, never ahead of it.
DiskOK ==
    /\ disk # Torn => StateOK(disk, extra) /\ disk.receipts \subseteq mem.receipts
    /\ ~torn => disk # Torn

IndInv ==
    /\ ProcessOK
    /\ StateOK(mem, extra)
    /\ DiskOK
    /\ \A s \in Slots : HandlerOK(slot[s], mem, extra, kill)
    /\ AcknowledgedIsKept

\* Every start is counted, until it is forgotten.
Counted == CountsOK /\ \A t \in Tasks : runs[t] = mem.task[t].attempts + forgotten[t]

-----------------------------------------------------------------------------
Abandoned(t) == mem.task[t].status = "running" /\ mem.task[t].stale

\* A run whose worker has gone silent is taken back in the end: no task stays
\* abandoned for ever.
StaleRunsTakenBack == \A t \in Tasks : []<>~Abandoned(t)
=============================================================================
