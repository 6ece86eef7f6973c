---------------------------- MODULE AdmissionPool ----------------------------
(***************************************************************************)
(* internal/admission/admission.go: the pool that runs the exporter's      *)
(* encodes and the importer's per-image applies.  A submitted task passes  *)
(* three gates in this order: a singleflight on its key, a semaphore of    *)
(* Workers tokens, and a semaphore of MemBudget tokens (absent when the    *)
(* budget is not positive).                                                *)
(*                                                                         *)
(* golang.org/x/sync is not part of the repository: errgroup, singleflight *)
(* and semaphore.Weighted are modelled from how the pool uses them.  The   *)
(* weighted semaphore is FIFO: a newcomer queues behind any waiter, only   *)
(* the head of the queue is granted, and a waiter whose context is done    *)
(* leaves the queue or gives back what it was just granted.                *)
(*                                                                         *)
(* An operator whose name ends in Faulty is no part of the model: it is    *)
(* the definition after it with a plausible mistake, kept to show which    *)
(* property notices that mistake.                                          *)
(***************************************************************************)
EXTENDS Integers, FiniteSets, Sequences, SequencesExt

CONSTANTS
  Tasks,       \* the calls to Submit, one goroutine each
  KeyOf,       \* [Tasks -> keys]: Submit's key
  Estimate,    \* [Tasks -> Int]: Submit's estimate, before it is clamped
  WorkersArg,  \* NewAdmissionPool's workers, before it is clamped
  MemBudget    \* NewAdmissionPool's memoryBudget

ASSUME TasksAssumption == IsFiniteSet(Tasks)
ASSUME EstimateAssumption == Estimate \in [Tasks -> Int]
ASSUME SizeAssumption == WorkersArg \in Int /\ MemBudget \in Int

VARIABLES
  pc,        \* [Tasks -> Location]: where each goroutine is
  flight,    \* the tasks whose singleflight call is in progress
  leader,    \* [Tasks -> Tasks]: whose call a goroutine runs or waits for
  cur,       \* [Gates -> Nat]: tokens taken from each semaphore
  queue,     \* [Gates -> Seq(Tasks)]: waiters of each semaphore
  outcome,   \* [Tasks -> Outcome]: what the goroutine's call returned
  cause,     \* why gctx is done: "none" while it is not
  err,       \* the error the errgroup recorded first
  phase      \* the caller: "submitting", in Wait, or back from it

vars == <<pc, flight, leader, cur, queue, outcome, cause, err, phase>>

Location == {"new", "go", "joined", "worker", "workerQ", "workerGot",
             "mem", "memQ", "memGot", "fn", "releaseMem", "releaseWorker",
             "leave", "return", "done"}
Outcome  == {"none", "ok", "err", "ctx"}
Gates    == {"worker", "mem"}

\* NewAdmissionPool: at least one worker, a memory gate only with a budget.
Workers == IF WorkersArg < 1 THEN 1 ELSE WorkersArg
HasMem  == MemBudget > 0

NeedFaulty == [t \in Tasks |-> IF Estimate[t] < 1 THEN 1 ELSE Estimate[t]]

\* Submit: the estimate is at least 1 and at most the budget.
Need == [t \in Tasks |->
           LET least == IF Estimate[t] < 1 THEN 1 ELSE Estimate[t]
           IN  IF HasMem /\ least > MemBudget THEN MemBudget ELSE least]

Size(g)      == IF g = "worker" THEN Workers ELSE MemBudget
Amount(g, t) == IF g = "worker" THEN 1 ELSE Need[t]
Queued(g)    == IF g = "worker" THEN "workerQ" ELSE "memQ"
Granted(g)   == IF g = "worker" THEN "workerGot" ELSE "memGot"

\* Where a goroutine goes when a gate's Acquire returns an error: it releases
\* what its deferred calls release.
Refused(g)   == IF g = "worker" THEN "leave" ELSE "releaseWorker"

Init ==
  /\ pc = [t \in Tasks |-> "new"]
  /\ flight = {}
  /\ leader = [t \in Tasks |-> t]
  /\ cur = [g \in Gates |-> 0]
  /\ queue = [g \in Gates |-> <<>>]
  /\ outcome = [t \in Tasks |-> "none"]
  /\ cause = "none"
  /\ err = "none"
  /\ phase = "submitting"

Cancelled == cause # "none"

\* Only the first cancellation of a context has a cause.
Cancel(why) == cause' = IF Cancelled THEN cause ELSE why
-----------------------------------------------------------------------------
(* The caller.                                                             *)

\* Submit never blocks: it starts the goroutine.
Submit(t) ==
  /\ phase = "submitting"
  /\ pc[t] = "new"
  /\ pc' = [pc EXCEPT ![t] = "go"]
  /\ UNCHANGED <<flight, leader, cur, queue, outcome, cause, err, phase>>

CallWait ==
  /\ phase = "submitting"
  /\ phase' = "waiting"
  /\ UNCHANGED <<pc, flight, leader, cur, queue, outcome, cause, err>>

\* errgroup's Wait cancels the derived context on its way out.
WaitReturns ==
  /\ phase = "waiting"
  /\ \A t \in Tasks : pc[t] \in {"new", "done"}
  /\ phase' = "returned"
  /\ Cancel("wait")
  /\ UNCHANGED <<pc, flight, leader, cur, queue, outcome, err>>

\* The caller's own context is cancelled; the derived one follows.
ParentCancels ==
  /\ ~Cancelled
  /\ Cancel("caller")
  /\ UNCHANGED <<pc, flight, leader, cur, queue, outcome, err, phase>>
-----------------------------------------------------------------------------
(* Singleflight.                                                           *)

LeadFaulty(t) ==
  /\ pc[t] = "go"
  /\ flight' = flight \cup {t}
  /\ pc' = [pc EXCEPT ![t] = "worker"]
  /\ UNCHANGED <<leader, cur, queue, outcome, cause, err, phase>>

\* sf.Do: the first caller of a key runs the call, the others wait for it.
Lead(t) ==
  /\ pc[t] = "go"
  /\ \A u \in flight : KeyOf[u] # KeyOf[t]
  /\ flight' = flight \cup {t}
  /\ pc' = [pc EXCEPT ![t] = "worker"]
  /\ UNCHANGED <<leader, cur, queue, outcome, cause, err, phase>>

Join(t) ==
  /\ pc[t] = "go"
  /\ \E u \in flight :
       /\ KeyOf[u] = KeyOf[t]
       /\ leader' = [leader EXCEPT ![t] = u]
  /\ pc' = [pc EXCEPT ![t] = "joined"]
  /\ UNCHANGED <<flight, cur, queue, outcome, cause, err, phase>>

\* The call is over: the key is forgotten and those who joined are released.
Leave(t) ==
  /\ pc[t] = "leave"
  /\ flight' = flight \ {t}
  /\ pc' = [pc EXCEPT ![t] = "return"]
  /\ UNCHANGED <<leader, cur, queue, outcome, cause, err, phase>>

ReleasedFaulty(t) ==
  /\ pc[t] = "joined"
  /\ leader[t] \notin flight
  /\ outcome' = [outcome EXCEPT ![t] = "ok"]
  /\ pc' = [pc EXCEPT ![t] = "return"]
  /\ UNCHANGED <<flight, leader, cur, queue, cause, err, phase>>

Released(t) ==
  /\ pc[t] = "joined"
  /\ leader[t] \notin flight
  /\ outcome' = [outcome EXCEPT ![t] = outcome[leader[t]]]
  /\ pc' = [pc EXCEPT ![t] = "return"]
  /\ UNCHANGED <<flight, leader, cur, queue, cause, err, phase>>
-----------------------------------------------------------------------------
(* The weighted semaphores.                                                *)

AtGate(g, t) == pc[t] = g /\ (g = "mem" => HasMem)

Fits(g, t) == cur[g] + Amount(g, t) <= Size(g)

Fail(g, t) ==
  /\ pc' = [pc EXCEPT ![t] = Refused(g)]
  /\ outcome' = [outcome EXCEPT ![t] = "ctx"]

\* Acquire on a context that is already done.
Refuse(g, t) ==
  /\ AtGate(g, t)
  /\ Cancelled
  /\ Fail(g, t)
  /\ UNCHANGED <<flight, leader, cur, queue, cause, err, phase>>

\* Acquire finds enough tokens and nobody waiting.
Take(g, t) ==
  /\ AtGate(g, t)
  /\ ~Cancelled
  /\ queue[g] = <<>>
  /\ Fits(g, t)
  /\ cur' = [cur EXCEPT ![g] = @ + Amount(g, t)]
  /\ pc' = [pc EXCEPT ![t] = IF g = "worker" THEN "mem" ELSE "fn"]
  /\ UNCHANGED <<flight, leader, queue, outcome, cause, err, phase>>

\* Otherwise it waits at the end of the queue.
Enqueue(g, t) ==
  /\ AtGate(g, t)
  /\ ~Cancelled
  /\ queue[g] # <<>> \/ ~Fits(g, t)
  /\ queue' = [queue EXCEPT ![g] = Append(@, t)]
  /\ pc' = [pc EXCEPT ![t] = Queued(g)]
  /\ UNCHANGED <<flight, leader, cur, outcome, cause, err, phase>>

\* notifyWaiters: the head of the queue gets its tokens once they fit.
Grant(g) ==
  /\ queue[g] # <<>>
  /\ LET t == Head(queue[g])
     IN  /\ Fits(g, t)
         /\ cur' = [cur EXCEPT ![g] = @ + Amount(g, t)]
         /\ pc' = [pc EXCEPT ![t] = Granted(g)]
  /\ queue' = [queue EXCEPT ![g] = Tail(@)]
  /\ UNCHANGED <<flight, leader, outcome, cause, err, phase>>

WakeFaulty(g, t) ==
  /\ pc[t] = Granted(g)
  /\ IF Cancelled
       THEN Fail(g, t) /\ UNCHANGED cur
       ELSE /\ pc' = [pc EXCEPT ![t] = IF g = "worker" THEN "mem" ELSE "fn"]
            /\ UNCHANGED <<cur, outcome>>
  /\ UNCHANGED <<flight, leader, queue, cause, err, phase>>

\* A granted waiter wakes; if its context is done it gives the tokens back.
Wake(g, t) ==
  /\ pc[t] = Granted(g)
  /\ IF Cancelled
       THEN /\ cur' = [cur EXCEPT ![g] = @ - Amount(g, t)]
            /\ Fail(g, t)
       ELSE /\ pc' = [pc EXCEPT ![t] = IF g = "worker" THEN "mem" ELSE "fn"]
            /\ UNCHANGED <<cur, outcome>>
  /\ UNCHANGED <<flight, leader, queue, cause, err, phase>>

\* A waiter whose context is done leaves the queue wherever it stands.
GiveUp(g, t) ==
  /\ Cancelled
  /\ \E i \in 1..Len(queue[g]) :
       /\ queue[g][i] = t
       /\ queue' = [queue EXCEPT ![g] = RemoveAt(@, i)]
  /\ Fail(g, t)
  /\ UNCHANGED <<flight, leader, cur, cause, err, phase>>

\* With no memory budget a worker runs its task straight away.
SkipMemGate(t) ==
  /\ pc[t] = "mem"
  /\ ~HasMem
  /\ pc' = [pc EXCEPT ![t] = "fn"]
  /\ UNCHANGED <<flight, leader, cur, queue, outcome, cause, err, phase>>

Pass(g, t) == IF g = "mem" /\ ~HasMem THEN SkipMemGate(t) ELSE Take(g, t)

Acquire(t) ==
  \/ \E g \in Gates : Refuse(g, t) \/ Pass(g, t) \/ Enqueue(g, t)
  \/ \E g \in Gates : Wake(g, t) \/ GiveUp(g, t)
-----------------------------------------------------------------------------
(* The task, its deferred releases and its return to the errgroup.         *)

\* fn returns, or panics: the recover turns a panic into an error.
Run(t) ==
  /\ pc[t] = "fn"
  /\ \E r \in {"ok", "err"} : outcome' = [outcome EXCEPT ![t] = r]
  /\ pc' = [pc EXCEPT ![t] = IF HasMem THEN "releaseMem" ELSE "releaseWorker"]
  /\ UNCHANGED <<flight, leader, cur, queue, cause, err, phase>>

Release(g, t) ==
  /\ pc[t] = IF g = "worker" THEN "releaseWorker" ELSE "releaseMem"
  /\ cur' = [cur EXCEPT ![g] = @ - Amount(g, t)]
  /\ pc' = [pc EXCEPT ![t] = IF g = "worker" THEN "leave" ELSE "releaseWorker"]
  /\ UNCHANGED <<flight, leader, queue, outcome, cause, err, phase>>

ReturnFaulty(t) ==
  /\ pc[t] = "return"
  /\ pc' = [pc EXCEPT ![t] = "done"]
  /\ IF outcome[t] # "ok"
       THEN err' = outcome[t] /\ Cancel("task")
       ELSE UNCHANGED <<err, cause>>
  /\ UNCHANGED <<flight, leader, cur, queue, outcome, phase>>

\* errgroup: the first error is kept and cancels the derived context.
Return(t) ==
  /\ pc[t] = "return"
  /\ pc' = [pc EXCEPT ![t] = "done"]
  /\ IF outcome[t] # "ok" /\ err = "none"
       THEN err' = outcome[t] /\ Cancel("task")
       ELSE UNCHANGED <<err, cause>>
  /\ UNCHANGED <<flight, leader, cur, queue, outcome, phase>>

Goroutine(t) ==
  \/ Lead(t) \/ Join(t) \/ Acquire(t) \/ Run(t)
  \/ \E g \in Gates : Release(g, t)
  \/ Leave(t) \/ Released(t) \/ Return(t)

Next ==
  \/ \E t \in Tasks : Submit(t) \/ Goroutine(t)
  \/ \E g \in Gates : Grant(g)
  \/ CallWait \/ WaitReturns \/ ParentCancels

\* Goroutines are scheduled, a task given to the pool returns, and the caller
\* that stopped submitting is in Wait.  Nobody has to submit or to cancel.
Fairness ==
  /\ \A t \in Tasks : WF_vars(Goroutine(t))
  /\ \A g \in Gates : WF_vars(Grant(g))
  /\ WF_vars(WaitReturns)

Spec == Init /\ [][Next]_vars /\ Fairness
-----------------------------------------------------------------------------
(* Properties.                                                             *)

TypeOK ==
  /\ pc \in [Tasks -> Location]
  /\ flight \in SUBSET Tasks
  /\ leader \in [Tasks -> Tasks]
  /\ cur \in [Gates -> Int]
  /\ \A g \in Gates : cur[g] >= 0
  /\ queue \in [Gates -> Seq(Tasks)]
  /\ outcome \in [Tasks -> Outcome]
  /\ cause \in {"none", "caller", "task", "wait"}
  /\ err \in Outcome \ {"ok"}
  /\ phase \in {"submitting", "waiting", "returned"}

At(locations) == {t \in Tasks : pc[t] \in locations}

\* One element for every unit of memory the tasks of S were admitted with.
Units(S) == UNION {{t} \X (1..Need[t]) : t \in S}

\* At most Workers tasks run at a time, whatever fails or is cancelled
\* meanwhile (workerSem).
WorkersBounded == Cardinality(At({"fn"})) <= Workers

\* The clamped estimates of the running tasks never exceed the memory budget
\* (memSem), including while refused and cancelled waiters give tokens back.
MemoryBounded == HasMem => Cardinality(Units(At({"fn"}))) <= MemBudget

\* Both limits hold at once, for tasks that take their two tokens one by one.
WithinBounds == WorkersBounded /\ MemoryBounded

\* Two tasks of one key are never between the gates at the same time: the
\* encoder relies on it when two pairs ship one digest to one spool file.
SameKeyExclusive ==
  \A t, u \in At({"workerGot", "mem", "memQ", "memGot", "fn", "releaseMem"}) :
    KeyOf[t] = KeyOf[u] => t = u

\* Once Wait has returned no goroutine holds a token, waits for one or keeps a
\* key: no path through the deferred releases leaks.
NothingLeftBehind ==
  phase = "returned" =>
    /\ \A g \in Gates : cur[g] = 0 /\ queue[g] = <<>>
    /\ flight = {}

\* Wait reports an error exactly when some submitted task ended with one.
FailureReported ==
  phase = "returned" =>
    (err = "none" <=> \A t \in Tasks : outcome[t] \in {"none", "ok"})

\* A cancellation error is reported only when the caller cancelled: the tasks
\* that a failure turned away never hide the failure itself.
RootCauseReported == err = "ctx" => cause = "caller"

\* What Wait tells its caller: whether something failed, and what it was.
OutcomeReported == FailureReported /\ RootCauseReported

\* The caller in Wait comes back: no order of gates, clamped estimates and
\* cancellations leaves goroutines waiting for each other.
WaitComesBack == phase = "waiting" ~> phase = "returned"

\* What a task looks like to the pool's caller.
Status == [t \in Tasks |-> IF pc[t] = "fn" THEN "running"
                           ELSE IF outcome[t] = "none" THEN "idle"
                           ELSE outcome[t]]

\* The pool implements the promise of GatedRun.
Promise == INSTANCE GatedRun WITH
  Budget <- MemBudget, status <- Status, stopped <- Cancelled
PromiseKept == Promise!Spec
=============================================================================
