---------------------------- MODULE HostWorkerPool ----------------------------
(***************************************************************************)
(* core/host_worker_pool.cpp: a bounded queue served by a fixed set of     *)
(* threads.  One step is one critical section of `mutex`, one notification *)
(* or the end of one task.  A thread in a condition variable is "asleep"   *)
(* (workers, work_available) or "waiting" (producers, queue_space); a      *)
(* notification wakes one sleeper or is lost, and a wait may end without   *)
(* one.  Every task is enqueued by a thread of its own.                    *)
(***************************************************************************)
EXTENDS Naturals, Sequences, FiniteSets, SequencesExt

CONSTANTS
    Tasks,
    Workers,        \* the threads of the pool
    QueueCapacity

ASSUME WorkersAssumption == IsFiniteSet(Workers) /\ Workers # {}
ASSUME QueueCapacityAssumption == QueueCapacity \in Nat \ {0}

VARIABLES
    queue,      \* Impl::queue
    active,     \* Impl::active
    pool,       \* the destructor: "serving", "stopping", "joining", "joined"
    producer,   \* producer[t]: where the enqueue of task t is
    worker,     \* worker[w]: where worker_loop is
    task        \* task[w]: the task a worker has taken, {} or {t}

vars == <<queue, active, pool, producer, worker, task>>

Stopping == pool # "serving"

Init ==
    /\ queue = << >>
    /\ active = 0
    /\ pool = "serving"
    /\ producer = [t \in Tasks |-> "outside"]
    /\ worker = [w \in Workers |-> "checking"]
    /\ task = [w \in Workers |-> {}]

Asleep == {w \in Workers : worker[w] = "asleep"}
Blocked == {t \in Tasks : producer[t] = "waiting"}

(* notify_one: some sleeper goes back to look, or nobody is there.         *)
NotifyOne(place, sleepers) ==
    IF sleepers = {} THEN {place}
                     ELSE {[place EXCEPT ![x] = "checking"] : x \in sleepers}

NotifyAll(place, sleepers) ==
    [x \in DOMAIN place |-> IF x \in sleepers THEN "checking" ELSE place[x]]

-----------------------------------------------------------------------------
(* enqueue                                                                 *)

EnqueueBegin(t) ==
    /\ producer[t] = "outside"
    /\ producer' = [producer EXCEPT ![t] = "checking"]
    /\ UNCHANGED <<queue, active, pool, worker, task>>

(* The caller's checkpoint throws at the top of the loop: cancelled or     *)
(* past its deadline.                                                      *)
CheckpointThrows(t) ==
    /\ producer[t] = "checking"
    /\ producer' = [producer EXCEPT ![t] = "threw"]
    /\ UNCHANGED <<queue, active, pool, worker, task>>

EnqueueRefused(t) ==
    /\ producer[t] = "checking"
    /\ Stopping
    /\ producer' = [producer EXCEPT ![t] = "threw"]
    /\ UNCHANGED <<queue, active, pool, worker, task>>

EnqueuePushes(t) ==
    /\ producer[t] = "checking"
    /\ ~ Stopping
    /\ Len(queue) < QueueCapacity
    /\ queue' = Append(queue, t)
    /\ producer' = [producer EXCEPT ![t] = "notifying"]
    /\ UNCHANGED <<active, pool, worker, task>>

EnqueueWaits(t) ==
    /\ producer[t] = "checking"
    /\ ~ Stopping
    /\ Len(queue) >= QueueCapacity
    /\ producer' = [producer EXCEPT ![t] = "waiting"]
    /\ UNCHANGED <<queue, active, pool, worker, task>>

(* wait_for returns after 10 ms, notified or not.                          *)
EnqueueWaitEnds(t) ==
    /\ producer[t] = "waiting"
    /\ producer' = [producer EXCEPT ![t] = "checking"]
    /\ UNCHANGED <<queue, active, pool, worker, task>>

(* Faulty variant: the push is not announced.                              *)
EnqueueReturnsSilently(t) ==
    /\ producer[t] = "notifying"
    /\ producer' = [producer EXCEPT ![t] = "returned"]
    /\ UNCHANGED <<queue, active, pool, worker, task>>

EnqueueNotifies(t) ==
    /\ producer[t] = "notifying"
    /\ worker' \in NotifyOne(worker, Asleep)
    /\ producer' = [producer EXCEPT ![t] = "returned"]
    /\ UNCHANGED <<queue, active, pool, task>>

-----------------------------------------------------------------------------
(* worker_loop                                                             *)

WorkerSleeps(w) ==
    /\ worker[w] = "checking"
    /\ ~ Stopping
    /\ queue = << >>
    /\ worker' = [worker EXCEPT ![w] = "asleep"]
    /\ UNCHANGED <<queue, active, pool, producer, task>>

SpuriousWakeup(w) ==
    /\ worker[w] = "asleep"
    /\ worker' = [worker EXCEPT ![w] = "checking"]
    /\ UNCHANGED <<queue, active, pool, producer, task>>

WorkerExits(w) ==
    /\ worker[w] = "checking"
    /\ Stopping
    /\ queue = << >>
    /\ worker' = [worker EXCEPT ![w] = "exited"]
    /\ UNCHANGED <<queue, active, pool, producer, task>>

(* Faulty variant: the newest task is taken.                               *)
WorkerTakesNewest(w) ==
    /\ worker[w] = "checking"
    /\ queue # << >>
    /\ task' = [task EXCEPT ![w] = {Last(queue)}]
    /\ queue' = Front(queue)
    /\ active' = active + 1
    /\ worker' = [worker EXCEPT ![w] = "taken"]
    /\ UNCHANGED <<pool, producer>>

(* The oldest task is moved out of the queue; queue_space is notified      *)
(* after the unlock.                                                       *)
WorkerTakes(w) ==
    /\ worker[w] = "checking"
    /\ queue # << >>
    /\ task' = [task EXCEPT ![w] = {Head(queue)}]
    /\ queue' = Tail(queue)
    /\ active' = active + 1
    /\ worker' = [worker EXCEPT ![w] = "taken"]
    /\ UNCHANGED <<pool, producer>>

WorkerNotifiesSpace(w) ==
    /\ worker[w] = "taken"
    /\ producer' \in NotifyOne(producer, Blocked)
    /\ worker' = [worker EXCEPT ![w] = "running"]
    /\ UNCHANGED <<queue, active, pool, task>>

TaskReturns(w) ==
    /\ worker[w] = "running"
    /\ worker' = [worker EXCEPT ![w] = "finishing"]
    /\ task' = [task EXCEPT ![w] = {}]
    /\ UNCHANGED <<queue, active, pool, producer>>

WorkerFinishes(w) ==
    /\ worker[w] = "finishing"
    /\ active' = active - 1
    /\ worker' = [worker EXCEPT ![w] = "checking"]
    /\ UNCHANGED <<queue, pool, producer, task>>

-----------------------------------------------------------------------------
(* The destructor                                                          *)

DestroyBegin ==
    /\ pool = "serving"
    /\ pool' = "stopping"
    /\ UNCHANGED <<queue, active, producer, worker, task>>

(* Faulty variant: only one worker learns that the pool stops.             *)
DestroyNotifiesOne ==
    /\ pool = "stopping"
    /\ worker' \in NotifyOne(worker, Asleep)
    /\ producer' = NotifyAll(producer, Blocked)
    /\ pool' = "joining"
    /\ UNCHANGED <<queue, active, task>>

DestroyNotifies ==
    /\ pool = "stopping"
    /\ worker' = NotifyAll(worker, Asleep)
    /\ producer' = NotifyAll(producer, Blocked)
    /\ pool' = "joining"
    /\ UNCHANGED <<queue, active, task>>

DestroyJoins ==
    /\ pool = "joining"
    /\ \A w \in Workers : worker[w] = "exited"
    /\ pool' = "joined"
    /\ UNCHANGED <<queue, active, producer, worker, task>>

-----------------------------------------------------------------------------
EnqueueStep(t) ==
    \/ EnqueueRefused(t)
    \/ EnqueuePushes(t)
    \/ EnqueueWaits(t)
    \/ EnqueueWaitEnds(t)
    \/ EnqueueNotifies(t)

WorkerStep(w) ==
    \/ WorkerSleeps(w)
    \/ WorkerExits(w)
    \/ WorkerTakes(w)
    \/ WorkerNotifiesSpace(w)
    \/ TaskReturns(w)
    \/ WorkerFinishes(w)

Next ==
    \/ \E t \in Tasks : EnqueueBegin(t) \/ CheckpointThrows(t) \/ EnqueueStep(t)
    \/ \E w \in Workers : SpuriousWakeup(w) \/ WorkerStep(w)
    \/ DestroyBegin
    \/ DestroyNotifies
    \/ DestroyJoins

Spec == Init /\ [][Next]_vars

(* The operating system runs every thread and 10 ms pass; tasks return     *)
(* (the ones the program submits are bounded by their request's deadline). *)
(* Nothing makes a caller enqueue, a checkpoint throw or a wait end early. *)
FairSpec ==
    /\ Spec
    /\ \A t \in Tasks : WF_vars(EnqueueStep(t))
    /\ \A w \in Workers : WF_vars(WorkerStep(w))
    /\ WF_vars(DestroyNotifies)
    /\ WF_vars(DestroyJoins)

-----------------------------------------------------------------------------
Busy     == {w \in Workers : worker[w] \in {"taken", "running"}}
Counted  == {w \in Workers : worker[w] \in {"taken", "running", "finishing"}}
Looking  == {w \in Workers : worker[w] = "checking"}
Announcing == {t \in Tasks : producer[t] = "notifying"}

(* Every variable has its type; `active` counts the workers that hold or   *)
(* have just run a task, so the decrement in worker_loop never meets zero  *)
(* (where the code would call std::terminate).                             *)
TypeOK ==
    /\ queue \in Seq(Tasks) /\ Len(queue) <= QueueCapacity
    /\ active = Cardinality(Counted)
    /\ pool \in {"serving", "stopping", "joining", "joined"}
    /\ producer \in [Tasks -> {"outside", "checking", "waiting", "notifying", "returned", "threw"}]
    /\ worker \in [Workers -> {"checking", "asleep", "taken", "running", "finishing", "exited"}]
    /\ task \in [Workers -> SUBSET Tasks]
    /\ \A w \in Workers : \/ w \in Busy /\ \E t \in Tasks : task[w] = {t}
                          \/ w \notin Busy /\ task[w] = {}

(* The pool is work conserving in spite of its lost notifications: while   *)
(* some worker sleeps in work_available, each queued task has a worker     *)
(* about to look at the queue or a notify_one of enqueue still to come.    *)
NoSleeperIsForgotten ==
    /\ TypeOK
    /\ Asleep # {} => Len(queue) <= Cardinality(Looking) + Cardinality(Announcing)

(* Every task is in one place at most, and only once its enqueue pushed it.*)
TasksAreApart ==
    /\ \A i, j \in 1 .. Len(queue) : queue[i] = queue[j] => i = j
    /\ \A w \in Workers : task[w] \cap Range(queue) = {}
    /\ \A v, w \in Workers : v # w => task[v] \cap task[w] = {}
    /\ \A t \in Tasks : t \in Range(queue) \cup UNION {task[w] : w \in Workers} =>
          producer[t] \in {"notifying", "returned"}

(* The inductive invariant; finitely many enqueues are about to notify.    *)
WorkerPoolInv == NoSleeperIsForgotten /\ IsFiniteSet(Announcing) /\ TasksAreApart

(* enqueue always comes back to its caller, queued or with an exception,   *)
(* however full the queue is and whenever the pool is destroyed; and the   *)
(* destructor's join returns, with no enqueued task left running or unrun. *)
CallsReturn ==
    /\ \A t \in Tasks : producer[t] = "checking" ~> producer[t] \in {"returned", "threw"}
    /\ pool = "stopping" ~>
         pool = "joined" /\ queue = << >> /\ \A w \in Workers : task[w] = {}

TaskQueueImage ==
    INSTANCE TaskQueue WITH
        Threads <- Cardinality(Workers),
        Capacity <- QueueCapacity,
        running <- UNION {task[w] : w \in Workers},
        finished <- {t \in Tasks : /\ producer[t] \in {"notifying", "returned"}
                                   /\ t \notin Range(queue)
                                   /\ \A w \in Workers : t \notin task[w]},
        open <- ~ Stopping

(* The pool implements the bounded FIFO executor of TaskQueue, fairness    *)
(* included: tasks start in the order they were enqueued, run once, and    *)
(* every accepted task runs to its end even if the pool stops meanwhile.   *)
ImplementsTaskQueue == TaskQueueImage!Spec
=============================================================================
