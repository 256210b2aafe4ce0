-------------------------- MODULE HostWorkerPoolProofs --------------------------
(***************************************************************************)
(* The worker pool, proved for any number of threads and tasks and any     *)
(* capacity: no sleeping worker is forgotten, and every step is a step of  *)
(* the abstract TaskQueue or leaves it unchanged.                          *)
(***************************************************************************)
EXTENDS HostWorkerPool, FiniteSetTheorems, FunctionTheorems, SequenceTheorems, TLAPS

WorkerPlaces   == {"checking", "asleep", "taken", "running", "finishing", "exited"}
ProducerPlaces == {"outside", "checking", "waiting", "notifying", "returned", "threw"}

-----------------------------------------------------------------------------
(* Threads change places.                                                  *)

(* One worker moves: the sets of workers change by that worker at most.    *)
LEMMA WorkerMoves ==
    ASSUME worker \in [Workers -> WorkerPlaces], NEW w \in Workers, NEW x \in WorkerPlaces,
           worker' = [worker EXCEPT ![w] = x]
    PROVE  /\ worker' \in [Workers -> WorkerPlaces]
           /\ Looking' = IF x = "checking" THEN Looking \cup {w} ELSE Looking \ {w}
           /\ Counted' = IF x \in {"taken", "running", "finishing"} THEN Counted \cup {w}
                         ELSE Counted \ {w}
           /\ Asleep' = IF x = "asleep" THEN Asleep \cup {w} ELSE Asleep \ {w}
           /\ Busy' = IF x \in {"taken", "running"} THEN Busy \cup {w} ELSE Busy \ {w}
BY DEF Looking, Counted, Asleep, Busy

(* One producer moves.                                                     *)
LEMMA ProducerMoves ==
    ASSUME producer \in [Tasks -> ProducerPlaces], NEW t \in Tasks, NEW x \in ProducerPlaces,
           producer' = [producer EXCEPT ![t] = x]
    PROVE  /\ producer' \in [Tasks -> ProducerPlaces]
           /\ Announcing' = IF x = "notifying" THEN Announcing \cup {t} ELSE Announcing \ {t}
BY DEF Announcing

(* The sets of workers are finite.                                         *)
LEMMA WorkerSetsFinite ==
    /\ IsFiniteSet(Looking) /\ Cardinality(Looking) \in Nat
    /\ IsFiniteSet(Counted) /\ Cardinality(Counted) \in Nat
<1>1. Looking \in SUBSET Workers /\ Counted \in SUBSET Workers
  BY DEF Looking, Counted
<1> QED BY <1>1, WorkersAssumption, FS_Subset, FS_CardinalityType

(* Append adds an element to what the queue holds; Tail takes its head     *)
(* away if it occurs once.                                                 *)
LEMMA AppendRange ==
    ASSUME NEW s \in Seq(Tasks), NEW t \in Tasks
    PROVE  Range(Append(s, t)) = Range(s) \cup {t}
<1>1. /\ Len(Append(s, t)) = Len(s) + 1 /\ Len(s) \in Nat
      /\ \A i \in 1 .. Len(s) : Append(s, t)[i] = s[i]
      /\ Append(s, t)[Len(s) + 1] = t /\ Append(s, t) \in Seq(Tasks)
  BY AppendProperties
<1>2. DOMAIN s = 1 .. Len(s) /\ DOMAIN Append(s, t) = 1 .. Len(s) + 1
  BY <1>1
<1>3. \A i \in 1 .. Len(s) + 1 : i = Len(s) + 1 \/ i \in 1 .. Len(s)
  BY <1>1
<1>4. ASSUME NEW i \in 1 .. Len(s) + 1 PROVE Append(s, t)[i] \in Range(s) \cup {t}
  <2>1. CASE i = Len(s) + 1
    BY <2>1, <1>1
  <2>2. CASE i \in 1 .. Len(s)
    BY <2>2, <1>1, <1>2 DEF Range
  <2> QED BY <2>1, <2>2, <1>3
<1>5. ASSUME NEW i \in 1 .. Len(s) PROVE s[i] \in Range(Append(s, t))
  <2>1. i \in 1 .. Len(s) + 1 /\ Append(s, t)[i] = s[i]
    BY <1>1
  <2> QED BY <2>1, <1>2 DEF Range
<1>6. t \in Range(Append(s, t))
  <2>1. Len(s) + 1 \in 1 .. Len(s) + 1
    BY <1>1
  <2> QED BY <2>1, <1>1, <1>2 DEF Range
<1>7. Range(Append(s, t)) \subseteq Range(s) \cup {t}
  BY <1>2, <1>4 DEF Range
<1>8. Range(s) \subseteq Range(Append(s, t))
  BY <1>2, <1>5 DEF Range
<1> QED BY <1>6, <1>7, <1>8

(* The tail of a queue without repetitions loses exactly its head.         *)
LEMMA TailRange ==
    ASSUME NEW s \in Seq(Tasks), s # << >>, \A i, j \in 1 .. Len(s) : s[i] = s[j] => i = j
    PROVE  /\ Head(s) \in Tasks /\ Head(s) \in Range(s) /\ Range(Tail(s)) = Range(s) \ {Head(s)}
           /\ Tail(s) \in Seq(Tasks) /\ Len(Tail(s)) = Len(s) - 1
           /\ \A i, j \in 1 .. Len(Tail(s)) : Tail(s)[i] = Tail(s)[j] => i = j
<1>1. /\ Len(s) \in Nat /\ Len(s) >= 1 /\ Head(s) = s[1] /\ Tail(s) \in Seq(Tasks)
      /\ Len(Tail(s)) = Len(s) - 1 /\ \A i \in 1 .. Len(Tail(s)) : Tail(s)[i] = s[i + 1]
  BY HeadTailProperties, EmptySeq
<1>2. DOMAIN s = 1 .. Len(s) /\ DOMAIN Tail(s) = 1 .. Len(s) - 1
  BY <1>1
<1>3. 1 \in 1 .. Len(s) /\ s[1] \in Tasks
  BY <1>1
<1>4. Head(s) \in Tasks /\ Head(s) \in Range(s)
  BY <1>1, <1>2, <1>3 DEF Range
<1>5. \A i \in 1 .. Len(s) - 1 : i + 1 \in 1 .. Len(s) /\ i + 1 # 1
  BY <1>1
<1>6. ASSUME NEW i \in 1 .. Len(s) - 1 PROVE Tail(s)[i] \in Range(s) \ {Head(s)}
  <2>1. Tail(s)[i] = s[i + 1] /\ i + 1 \in 1 .. Len(s) /\ i + 1 # 1
    BY <1>1, <1>5
  <2>2. s[i + 1] # s[1]
    BY <2>1, <1>3
  <2> QED BY <2>1, <2>2, <1>1, <1>2 DEF Range
<1>7. ASSUME NEW x \in Range(s), x # Head(s) PROVE x \in Range(Tail(s))
  <2>1. PICK i \in 1 .. Len(s) : x = s[i]
    BY <1>2 DEF Range
  <2>2. PICK k \in 1 .. Len(s) - 1 : k + 1 = i
    BY <2>1, <1>1, <1>7
  <2>3. Tail(s)[k] = x
    BY <2>1, <2>2, <1>1
  <2> QED BY <2>3, <1>2 DEF Range
<1>8. Range(Tail(s)) \subseteq Range(s) \ {Head(s)}
  BY <1>2, <1>6 DEF Range
<1>9. Range(Tail(s)) = Range(s) \ {Head(s)}
  BY <1>7, <1>8
<1>10. ASSUME NEW i \in 1 .. Len(Tail(s)), NEW j \in 1 .. Len(Tail(s)), Tail(s)[i] = Tail(s)[j]
       PROVE  i = j
  <2>1. i \in 1 .. Len(s) - 1 /\ j \in 1 .. Len(s) - 1
    BY <1>1
  <2>2. i + 1 \in 1 .. Len(s) /\ j + 1 \in 1 .. Len(s) /\ s[i + 1] = s[j + 1]
    BY <2>1, <1>1, <1>5, <1>10
  <2>3. i + 1 = j + 1
    BY <2>2
  <2> QED BY <2>1, <2>3
<1> QED BY <1>1, <1>4, <1>9, <1>10

-----------------------------------------------------------------------------
(* One lemma for each kind of step.                                        *)

(* A caller that has pushed nothing moves.                                 *)
LEMMA CallerMovesKeeps ==
    ASSUME WorkerPoolInv, NEW t \in Tasks, NEW x \in {"checking", "threw", "waiting"},
           producer[t] \in {"outside", "checking", "waiting"},
           producer' = [producer EXCEPT ![t] = x], UNCHANGED <<queue, active, pool, worker, task>>
    PROVE  WorkerPoolInv'
<1> USE DEF WorkerPoolInv
<1>1. producer \in [Tasks -> ProducerPlaces]
  BY DEF NoSleeperIsForgotten, TypeOK, ProducerPlaces
<1>2. producer' \in [Tasks -> ProducerPlaces] /\ Announcing' = Announcing \ {t}
  BY <1>1, ProducerMoves DEF ProducerPlaces
<1>3. Announcing' = Announcing
  BY <1>2 DEF Announcing
<1>4. Looking' = Looking /\ Asleep' = Asleep /\ Counted' = Counted /\ Busy' = Busy
  BY DEF Looking, Asleep, Counted, Busy
<1>5. TypeOK'
  BY <1>2, <1>4 DEF NoSleeperIsForgotten, TypeOK, ProducerPlaces
<1>6. NoSleeperIsForgotten'
  BY <1>3, <1>4, <1>5 DEF NoSleeperIsForgotten
<1>7. TasksAreApart'
  <2>1. Range(queue)' = Range(queue)
    BY DEF Range
  <2> QED BY <1>1, <2>1 DEF TasksAreApart
<1> QED BY <1>3, <1>6, <1>7

(* enqueue pushes: one task more, and one notification to come.            *)
LEMMA PushKeeps ==
    ASSUME WorkerPoolInv, NEW t \in Tasks, EnqueuePushes(t)
    PROVE  WorkerPoolInv'
<1> USE DEF WorkerPoolInv
<1>1. /\ producer \in [Tasks -> ProducerPlaces] /\ queue \in Seq(Tasks) /\ QueueCapacity \in Nat
      /\ producer[t] = "checking" /\ Len(queue) < QueueCapacity /\ queue' = Append(queue, t)
      /\ producer' = [producer EXCEPT ![t] = "notifying"] /\ UNCHANGED <<active, pool, worker, task>>
  BY QueueCapacityAssumption DEF NoSleeperIsForgotten, TypeOK, ProducerPlaces, EnqueuePushes
<1>2. producer' \in [Tasks -> ProducerPlaces] /\ Announcing' = Announcing \cup {t}
  BY <1>1, ProducerMoves DEF ProducerPlaces
<1>3. t \notin Announcing
  BY <1>1 DEF Announcing
<1>4. IsFiniteSet(Announcing') /\ Cardinality(Announcing') = Cardinality(Announcing) + 1
      /\ Cardinality(Announcing) \in Nat
  BY <1>2, <1>3, FS_AddElement, FS_CardinalityType
<1>5. /\ queue' \in Seq(Tasks) /\ Len(queue') = Len(queue) + 1 /\ Len(queue) \in Nat
      /\ \A i \in 1 .. Len(queue) : queue'[i] = queue[i]
      /\ queue'[Len(queue) + 1] = t
  BY <1>1, AppendProperties
<1>6. Looking' = Looking /\ Asleep' = Asleep /\ Counted' = Counted /\ Busy' = Busy
  BY <1>1 DEF Looking, Asleep, Counted, Busy
<1>7. TypeOK'
  <2>1. Len(queue') <= QueueCapacity
    BY <1>1, <1>5
  <2> QED BY <1>1, <1>2, <1>5, <1>6, <2>1 DEF NoSleeperIsForgotten, TypeOK, ProducerPlaces
<1>8. NoSleeperIsForgotten'
  <2>1. Cardinality(Looking) \in Nat
    BY WorkerSetsFinite
  <2> QED BY <1>4, <1>5, <1>6, <1>7, <2>1 DEF NoSleeperIsForgotten
<1>9. TasksAreApart'
  <2>1. Range(queue') = Range(queue) \cup {t}
    BY <1>1, AppendRange
  <2>2. t \notin Range(queue) /\ \A w \in Workers : t \notin task[w]
    BY <1>1 DEF TasksAreApart
  <2>3. ASSUME NEW i \in 1 .. Len(queue'), NEW j \in 1 .. Len(queue'), queue'[i] = queue'[j]
        PROVE  i = j
    <3>1. \A k \in 1 .. Len(queue) : queue[k] # t
      BY <1>1, <2>2 DEF Range
    <3>2. (i \in 1 .. Len(queue) \/ i = Len(queue) + 1) /\ (j \in 1 .. Len(queue) \/ j = Len(queue) + 1)
      BY <1>5
    <3>3. CASE i \in 1 .. Len(queue) /\ j \in 1 .. Len(queue)
      BY <2>3, <3>3, <1>5 DEF TasksAreApart
    <3> QED BY <2>3, <3>1, <3>2, <3>3, <1>5
  <2>4. \A w \in Workers : task'[w] \cap Range(queue') = {}
    BY <1>1, <2>1, <2>2 DEF TasksAreApart
  <2>5. \A v, w \in Workers : v # w => task'[v] \cap task'[w] = {}
    BY <1>1 DEF TasksAreApart
  <2>6. \A k \in Tasks : k \in Range(queue') \cup UNION {task'[w] : w \in Workers} =>
           producer'[k] \in {"notifying", "returned"}
    BY <1>1, <2>1 DEF TasksAreApart
  <2>7. TasksAreApart' <=>
          /\ \A i, j \in 1 .. Len(queue') : queue'[i] = queue'[j] => i = j
          /\ \A w \in Workers : task'[w] \cap Range(queue') = {}
          /\ \A v, w \in Workers : v # w => task'[v] \cap task'[w] = {}
          /\ \A k \in Tasks : k \in Range(queue') \cup UNION {task'[w] : w \in Workers} =>
                producer'[k] \in {"notifying", "returned"}
    BY DEF TasksAreApart, Range
  <2> QED BY <2>3, <2>4, <2>5, <2>6, <2>7
<1> QED BY <1>4, <1>8, <1>9

(* Tasks stay where they are when neither the queue nor a worker's hands   *)
(* change and no push is taken back.                                       *)
LEMMA ApartStays ==
    ASSUME TasksAreApart, UNCHANGED <<queue, task>>,
           \A t \in Tasks : producer[t] \in {"notifying", "returned"} =>
                               producer'[t] \in {"notifying", "returned"}
    PROVE  TasksAreApart'
<1>1. Range(queue)' = Range(queue)
  BY DEF Range
<1> QED BY <1>1 DEF TasksAreApart

(* enqueue notifies: a sleeper looks at the queue instead, if there is one.*)
LEMMA NotifyKeeps ==
    ASSUME WorkerPoolInv, NEW t \in Tasks, EnqueueNotifies(t)
    PROVE  WorkerPoolInv'
<1> USE DEF WorkerPoolInv
<1>1. /\ producer \in [Tasks -> ProducerPlaces] /\ worker \in [Workers -> WorkerPlaces]
      /\ producer[t] = "notifying" /\ worker' \in NotifyOne(worker, Asleep)
      /\ producer' = [producer EXCEPT ![t] = "returned"] /\ UNCHANGED <<queue, active, pool, task>>
  BY DEF NoSleeperIsForgotten, TypeOK, ProducerPlaces, WorkerPlaces, EnqueueNotifies
<1>2. producer' \in [Tasks -> ProducerPlaces] /\ Announcing' = Announcing \ {t}
  BY <1>1, ProducerMoves DEF ProducerPlaces
<1>3. t \in Announcing
  BY <1>1 DEF Announcing
<1>4. IsFiniteSet(Announcing') /\ Cardinality(Announcing') = Cardinality(Announcing) - 1
      /\ Cardinality(Announcing) \in Nat /\ Cardinality(Announcing') \in Nat
  BY <1>2, <1>3, FS_RemoveElement, FS_CardinalityType
<1>5. TasksAreApart'
  BY <1>1, ApartStays
<1>6. CASE Asleep = {}
  <2>1. worker' = worker
    BY <1>1, <1>6 DEF NotifyOne
  <2>2. Looking' = Looking /\ Asleep' = Asleep /\ Counted' = Counted /\ Busy' = Busy
    BY <2>1 DEF Looking, Asleep, Counted, Busy
  <2>3. NoSleeperIsForgotten'
    BY <1>1, <1>2, <1>6, <2>1, <2>2 DEF NoSleeperIsForgotten, TypeOK, ProducerPlaces
  <2> QED BY <1>4, <1>5, <2>3
<1>7. CASE Asleep # {}
  <2>1. PICK w \in Asleep : worker' = [worker EXCEPT ![w] = "checking"]
    BY <1>1, <1>7 DEF NotifyOne
  <2>2. w \in Workers /\ worker[w] = "asleep" /\ "checking" \in WorkerPlaces
    BY DEF Asleep, WorkerPlaces
  <2>3. /\ worker' \in [Workers -> WorkerPlaces] /\ Looking' = Looking \cup {w}
        /\ Counted' = Counted \ {w} /\ Busy' = Busy \ {w}
    BY <1>1, <2>1, <2>2, WorkerMoves
  <2>4. w \notin Looking /\ w \notin Counted /\ w \notin Busy
    BY <2>2 DEF Looking, Counted, Busy
  <2>5. Counted' = Counted /\ Busy' = Busy
    BY <2>3, <2>4
  <2>6. Cardinality(Looking') = Cardinality(Looking) + 1 /\ Cardinality(Looking) \in Nat
    BY <2>3, <2>4, WorkerSetsFinite, FS_AddElement
  <2>7. TypeOK'
    BY <1>1, <1>2, <2>3, <2>5 DEF NoSleeperIsForgotten, TypeOK, ProducerPlaces, WorkerPlaces
  <2>8. Len(queue) <= Cardinality(Looking) + Cardinality(Announcing) /\ Len(queue) \in Nat
    BY <1>7 DEF NoSleeperIsForgotten, TypeOK
  <2>9. Len(queue') <= Cardinality(Looking') + Cardinality(Announcing')
    BY <1>1, <1>4, <2>6, <2>8
  <2> QED BY <1>4, <1>5, <2>7, <2>9 DEF NoSleeperIsForgotten
<1> QED BY <1>6, <1>7

(* A worker without a task goes to sleep or exits, on an empty queue, or   *)
(* wakes up.                                                               *)
LEMMA IdleWorkerKeeps ==
    ASSUME WorkerPoolInv, NEW w \in Workers, NEW x \in {"checking", "asleep", "exited"},
           worker[w] \in {"checking", "asleep"}, x = "checking" \/ queue = << >>,
           worker' = [worker EXCEPT ![w] = x], UNCHANGED <<queue, active, pool, producer, task>>
    PROVE  WorkerPoolInv'
<1> USE DEF WorkerPoolInv
<1>1. worker \in [Workers -> WorkerPlaces] /\ x \in WorkerPlaces
  BY DEF NoSleeperIsForgotten, TypeOK, WorkerPlaces
<1>2. /\ worker' \in [Workers -> WorkerPlaces]
      /\ Looking' = IF x = "checking" THEN Looking \cup {w} ELSE Looking \ {w}
      /\ Counted' = Counted \ {w} /\ Busy' = Busy \ {w}
      /\ Asleep' = IF x = "asleep" THEN Asleep \cup {w} ELSE Asleep \ {w}
  BY <1>1, WorkerMoves
<1>3. Counted' = Counted /\ Busy' = Busy
  <2>1. w \notin Counted /\ w \notin Busy
    BY DEF Counted, Busy
  <2> QED BY <1>2, <2>1
<1>4. TypeOK'
  BY <1>2, <1>3 DEF NoSleeperIsForgotten, TypeOK, WorkerPlaces
<1>5. Announcing' = Announcing /\ Cardinality(Announcing) \in Nat
  BY FS_CardinalityType DEF Announcing
<1>6. IsFiniteSet(Looking') /\ Cardinality(Looking') \in Nat /\ Cardinality(Looking) \in Nat
      /\ IsFiniteSet(Looking)
  BY <1>2, WorkerSetsFinite, FS_AddElement, FS_RemoveElement, FS_CardinalityType
<1>7. NoSleeperIsForgotten'
  <2>1. CASE queue = << >>
    <3>1. Len(queue') = 0
      BY <2>1
    <3>2. Len(queue') <= Cardinality(Looking') + Cardinality(Announcing')
      BY <3>1, <1>5, <1>6
    <3> QED BY <1>4, <3>2 DEF NoSleeperIsForgotten
  <2>2. CASE x = "checking"
    <3>1. Cardinality(Looking') >= Cardinality(Looking)
      BY <2>2, <1>2, <1>6, FS_AddElement
    <3>2. Asleep' # {} => Asleep # {}
      BY <2>2, <1>2
    <3>3. Len(queue) \in Nat /\ queue' = queue
      BY DEF NoSleeperIsForgotten, TypeOK
    <3> QED BY <1>4, <1>5, <1>6, <3>1, <3>2, <3>3 DEF NoSleeperIsForgotten
  <2> QED BY <2>1, <2>2
<1>8. TasksAreApart'
  BY ApartStays
<1> QED BY <1>5, <1>7, <1>8

(* A worker takes the oldest task: one task less and one worker less to    *)
(* look for it.                                                            *)
LEMMA TakeKeeps ==
    ASSUME WorkerPoolInv, NEW w \in Workers, WorkerTakes(w)
    PROVE  WorkerPoolInv'
<1> USE DEF WorkerPoolInv
<1>1. /\ worker \in [Workers -> WorkerPlaces] /\ "taken" \in WorkerPlaces /\ queue \in Seq(Tasks)
      /\ worker[w] = "checking" /\ queue # << >> /\ task' = [task EXCEPT ![w] = {Head(queue)}]
      /\ queue' = Tail(queue) /\ active' = active + 1 /\ worker' = [worker EXCEPT ![w] = "taken"]
      /\ UNCHANGED <<pool, producer>> /\ task \in [Workers -> SUBSET Tasks]
  BY DEF NoSleeperIsForgotten, TypeOK, WorkerPlaces, WorkerTakes
<1>2. /\ Head(queue) \in Tasks /\ Head(queue) \in Range(queue)
      /\ Range(Tail(queue)) = Range(queue) \ {Head(queue)}
      /\ Tail(queue) \in Seq(Tasks) /\ Len(Tail(queue)) = Len(queue) - 1
      /\ \A i, j \in 1 .. Len(Tail(queue)) : Tail(queue)[i] = Tail(queue)[j] => i = j
  BY <1>1, TailRange DEF TasksAreApart
<1>3. /\ worker' \in [Workers -> WorkerPlaces] /\ Looking' = Looking \ {w}
      /\ Counted' = Counted \cup {w} /\ Busy' = Busy \cup {w} /\ Asleep' = Asleep \ {w}
  BY <1>1, WorkerMoves
<1>4. w \in Looking /\ w \notin Counted /\ w \notin Busy /\ w \notin Asleep
  BY <1>1 DEF Looking, Counted, Busy, Asleep
<1>5. /\ Cardinality(Counted') = Cardinality(Counted) + 1
      /\ Cardinality(Looking') = Cardinality(Looking) - 1
      /\ Cardinality(Looking) \in Nat /\ Cardinality(Counted) \in Nat
  BY <1>3, <1>4, WorkerSetsFinite, FS_AddElement, FS_RemoveElement
<1>6. Announcing' = Announcing /\ Cardinality(Announcing) \in Nat
  BY <1>1, FS_CardinalityType DEF Announcing
<1>7. Len(queue) \in Nat /\ Len(queue) <= QueueCapacity /\ QueueCapacity \in Nat
  BY <1>1, QueueCapacityAssumption DEF NoSleeperIsForgotten, TypeOK
<1>8. TypeOK'
  <2>1. active' = Cardinality(Counted')
    BY <1>1, <1>5 DEF NoSleeperIsForgotten, TypeOK
  <2>2. queue' \in Seq(Tasks) /\ Len(queue') <= QueueCapacity
    BY <1>1, <1>2, <1>7
  <2>3. ASSUME NEW v \in Workers
        PROVE  \/ v \in Busy' /\ \E t \in Tasks : task'[v] = {t}
               \/ v \notin Busy' /\ task'[v] = {}
    <3>1. CASE v = w
      BY <3>1, <1>1, <1>2, <1>3
    <3>2. CASE v # w
      BY <3>2, <1>1, <1>3 DEF NoSleeperIsForgotten, TypeOK
    <3> QED BY <3>1, <3>2
  <2>4. task' \in [Workers -> SUBSET Tasks]
    BY <1>1, <1>2
  <2> QED BY <1>1, <1>3, <2>1, <2>2, <2>3, <2>4 DEF NoSleeperIsForgotten, TypeOK, WorkerPlaces
<1>9. NoSleeperIsForgotten'
  <2>1. Asleep' = Asleep
    BY <1>3, <1>4
  <2>2. Len(queue') = Len(queue) - 1
    BY <1>1, <1>2
  <2>3. Asleep # {} => Len(queue) <= Cardinality(Looking) + Cardinality(Announcing)
    BY DEF NoSleeperIsForgotten
  <2>4. Asleep # {} => Len(queue') <= Cardinality(Looking') + Cardinality(Announcing)
    BY <1>5, <1>6, <1>7, <2>2, <2>3
  <2> QED BY <1>6, <1>8, <2>1, <2>4 DEF NoSleeperIsForgotten
<1>10. TasksAreApart'
  <2>1. Range(queue') = Range(queue) \ {Head(queue)}
    BY <1>1, <1>2
  <2>2. \A v \in Workers : task'[v] = IF v = w THEN {Head(queue)} ELSE task[v]
    BY <1>1
  <2>3. \A v \in Workers : task[v] \cap Range(queue) = {}
    BY DEF TasksAreApart
  <2>4. \A i, j \in 1 .. Len(queue') : queue'[i] = queue'[j] => i = j
    BY <1>1, <1>2
  <2>5. \A v \in Workers : task'[v] \cap Range(queue') = {}
    BY <2>1, <2>2, <2>3
  <2>6. \A u, v \in Workers : u # v => task'[u] \cap task'[v] = {}
    BY <1>2, <2>2, <2>3 DEF TasksAreApart
  <2>7. \A t \in Tasks : t \in Range(queue') \cup UNION {task'[v] : v \in Workers} =>
           producer'[t] \in {"notifying", "returned"}
    <3>1. \A t \in Tasks : t \in Range(queue') \cup UNION {task'[v] : v \in Workers} =>
             t \in Range(queue) \cup UNION {task[v] : v \in Workers}
      BY <1>2, <2>1, <2>2
    <3> QED BY <1>1, <3>1 DEF TasksAreApart
  <2>8. TasksAreApart' <=>
          /\ \A i, j \in 1 .. Len(queue') : queue'[i] = queue'[j] => i = j
          /\ \A v \in Workers : task'[v] \cap Range(queue') = {}
          /\ \A u, v \in Workers : u # v => task'[u] \cap task'[v] = {}
          /\ \A t \in Tasks : t \in Range(queue') \cup UNION {task'[v] : v \in Workers} =>
                producer'[t] \in {"notifying", "returned"}
    BY DEF TasksAreApart, Range
  <2> QED BY <2>4, <2>5, <2>6, <2>7, <2>8
<1> QED BY <1>6, <1>9, <1>10

(* After the unlock the worker tells a blocked producer, if there is one.  *)
LEMMA SpaceKeeps ==
    ASSUME WorkerPoolInv, NEW w \in Workers, WorkerNotifiesSpace(w)
    PROVE  WorkerPoolInv'
<1> USE DEF WorkerPoolInv
<1>1. /\ worker \in [Workers -> WorkerPlaces] /\ "running" \in WorkerPlaces
      /\ producer \in [Tasks -> ProducerPlaces]
      /\ worker[w] = "taken" /\ worker' = [worker EXCEPT ![w] = "running"]
      /\ producer' \in NotifyOne(producer, Blocked) /\ UNCHANGED <<queue, active, pool, task>>
  BY DEF NoSleeperIsForgotten, TypeOK, WorkerPlaces, ProducerPlaces, WorkerNotifiesSpace
<1>2. /\ producer' \in [Tasks -> ProducerPlaces]
      /\ \A t \in Tasks : producer'[t] = producer[t]
                          \/ (producer[t] = "waiting" /\ producer'[t] = "checking")
  <2>1. CASE Blocked = {}
    BY <1>1, <2>1 DEF NotifyOne
  <2>2. CASE Blocked # {}
    <3>1. PICK t \in Blocked : producer' = [producer EXCEPT ![t] = "checking"]
      BY <1>1, <2>2 DEF NotifyOne
    <3> QED BY <1>1, <3>1 DEF Blocked, ProducerPlaces
  <2> QED BY <2>1, <2>2
<1>3. Announcing' = Announcing
  BY <1>2 DEF Announcing
<1>4. /\ worker' \in [Workers -> WorkerPlaces] /\ Looking' = Looking \ {w}
      /\ Counted' = Counted \cup {w} /\ Busy' = Busy \cup {w} /\ Asleep' = Asleep \ {w}
  BY <1>1, WorkerMoves
<1>5. Looking' = Looking /\ Counted' = Counted /\ Busy' = Busy /\ Asleep' = Asleep
  <2>1. w \notin Looking /\ w \in Counted /\ w \in Busy /\ w \notin Asleep
    BY <1>1 DEF Looking, Counted, Busy, Asleep
  <2> QED BY <1>4, <2>1
<1>6. NoSleeperIsForgotten'
  BY <1>1, <1>2, <1>3, <1>4, <1>5
     DEF NoSleeperIsForgotten, TypeOK, WorkerPlaces, ProducerPlaces
<1>7. TasksAreApart'
  BY <1>1, <1>2, ApartStays
<1> QED BY <1>3, <1>6, <1>7

(* The task returns; the worker still counts as active.                    *)
LEMMA ReturnKeeps ==
    ASSUME WorkerPoolInv, NEW w \in Workers, TaskReturns(w)
    PROVE  WorkerPoolInv'
<1> USE DEF WorkerPoolInv
<1>1. /\ worker \in [Workers -> WorkerPlaces] /\ "finishing" \in WorkerPlaces
      /\ worker[w] = "running" /\ worker' = [worker EXCEPT ![w] = "finishing"]
      /\ task' = [task EXCEPT ![w] = {}] /\ UNCHANGED <<queue, active, pool, producer>>
      /\ task \in [Workers -> SUBSET Tasks]
  BY DEF NoSleeperIsForgotten, TypeOK, WorkerPlaces, TaskReturns
<1>2. /\ worker' \in [Workers -> WorkerPlaces] /\ Looking' = Looking \ {w}
      /\ Counted' = Counted \cup {w} /\ Busy' = Busy \ {w} /\ Asleep' = Asleep \ {w}
  BY <1>1, WorkerMoves
<1>3. Looking' = Looking /\ Counted' = Counted /\ Asleep' = Asleep
  <2>1. w \notin Looking /\ w \in Counted /\ w \notin Asleep
    BY <1>1 DEF Looking, Counted, Asleep
  <2> QED BY <1>2, <2>1
<1>4. Announcing' = Announcing
  BY <1>1 DEF Announcing
<1>5. \A v \in Workers : task'[v] = IF v = w THEN {} ELSE task[v]
  BY <1>1
<1>6. TypeOK'
  BY <1>1, <1>2, <1>3, <1>5 DEF NoSleeperIsForgotten, TypeOK, WorkerPlaces
<1>7. NoSleeperIsForgotten'
  BY <1>1, <1>3, <1>4, <1>6 DEF NoSleeperIsForgotten
<1>8. TasksAreApart'
  <2>1. Range(queue)' = Range(queue)
    BY <1>1 DEF Range
  <2> QED BY <1>1, <1>5, <2>1 DEF TasksAreApart
<1> QED BY <1>4, <1>7, <1>8

(* The decrement of `active` never meets zero.                             *)
LEMMA FinishKeeps ==
    ASSUME WorkerPoolInv, NEW w \in Workers, WorkerFinishes(w)
    PROVE  WorkerPoolInv'
<1> USE DEF WorkerPoolInv
<1>1. /\ worker \in [Workers -> WorkerPlaces] /\ "checking" \in WorkerPlaces
      /\ worker[w] = "finishing" /\ worker' = [worker EXCEPT ![w] = "checking"]
      /\ active' = active - 1 /\ UNCHANGED <<queue, pool, producer, task>>
  BY DEF NoSleeperIsForgotten, TypeOK, WorkerPlaces, WorkerFinishes
<1>2. /\ worker' \in [Workers -> WorkerPlaces] /\ Looking' = Looking \cup {w}
      /\ Counted' = Counted \ {w} /\ Busy' = Busy \ {w} /\ Asleep' = Asleep \ {w}
  BY <1>1, WorkerMoves
<1>3. w \notin Looking /\ w \in Counted /\ w \notin Busy /\ w \notin Asleep
  BY <1>1 DEF Looking, Counted, Busy, Asleep
<1>4. Busy' = Busy /\ Asleep' = Asleep
  BY <1>2, <1>3
<1>5. /\ Cardinality(Counted') = Cardinality(Counted) - 1
      /\ Cardinality(Looking') = Cardinality(Looking) + 1
      /\ Cardinality(Looking) \in Nat /\ Cardinality(Counted) \in Nat
  BY <1>2, <1>3, WorkerSetsFinite, FS_AddElement, FS_RemoveElement
<1>6. Announcing' = Announcing /\ Cardinality(Announcing) \in Nat
  BY <1>1, FS_CardinalityType DEF Announcing
<1>7. TypeOK'
  <2>1. active' = Cardinality(Counted')
    BY <1>1, <1>5 DEF NoSleeperIsForgotten, TypeOK
  <2> QED BY <1>1, <1>2, <1>4, <2>1 DEF NoSleeperIsForgotten, TypeOK, WorkerPlaces
<1>8. NoSleeperIsForgotten'
  <2>1. Len(queue) \in Nat /\ queue' = queue
    BY <1>1 DEF NoSleeperIsForgotten, TypeOK
  <2> QED BY <1>4, <1>5, <1>6, <1>7, <2>1 DEF NoSleeperIsForgotten
<1>9. TasksAreApart'
  BY <1>1, ApartStays
<1> QED BY <1>6, <1>8, <1>9

(* The destructor marks the pool, wakes everybody and joins.               *)
LEMMA DestroyKeeps ==
    ASSUME WorkerPoolInv, DestroyBegin \/ DestroyNotifies \/ DestroyJoins
    PROVE  WorkerPoolInv'
<1> USE DEF WorkerPoolInv
<1>1. CASE DestroyBegin \/ DestroyJoins
  <2>1. /\ pool' \in {"stopping", "joined"} /\ UNCHANGED <<queue, active, producer, worker, task>>
    BY <1>1 DEF DestroyBegin, DestroyJoins
  <2>2. /\ Looking' = Looking /\ Asleep' = Asleep /\ Counted' = Counted /\ Busy' = Busy
        /\ Announcing' = Announcing
    BY <2>1 DEF Looking, Asleep, Counted, Busy, Announcing
  <2>3. NoSleeperIsForgotten'
    BY <2>1, <2>2 DEF NoSleeperIsForgotten, TypeOK
  <2>4. TasksAreApart'
    BY <2>1, ApartStays
  <2> QED BY <2>2, <2>3, <2>4
<1>2. CASE DestroyNotifies
  <2>1. /\ worker \in [Workers -> WorkerPlaces] /\ producer \in [Tasks -> ProducerPlaces]
        /\ worker' = NotifyAll(worker, Asleep) /\ producer' = NotifyAll(producer, Blocked)
        /\ pool' = "joining" /\ UNCHANGED <<queue, active, task>>
    BY <1>2 DEF NoSleeperIsForgotten, TypeOK, WorkerPlaces, ProducerPlaces, DestroyNotifies
  <2>2. /\ worker' \in [Workers -> WorkerPlaces]
        /\ \A w \in Workers : worker'[w] = IF worker[w] = "asleep" THEN "checking" ELSE worker[w]
    BY <2>1 DEF NotifyAll, Asleep, WorkerPlaces
  <2>3. /\ producer' \in [Tasks -> ProducerPlaces]
        /\ \A t \in Tasks : producer'[t] = IF producer[t] = "waiting" THEN "checking" ELSE producer[t]
    BY <2>1 DEF NotifyAll, Blocked, ProducerPlaces
  <2>4. Asleep' = {} /\ Counted' = Counted /\ Busy' = Busy
    BY <2>2 DEF Asleep, Counted, Busy
  <2>5. Announcing' = Announcing
    BY <2>3 DEF Announcing
  <2>6. NoSleeperIsForgotten'
    BY <2>1, <2>2, <2>3, <2>4 DEF NoSleeperIsForgotten, TypeOK, WorkerPlaces, ProducerPlaces
  <2>7. TasksAreApart'
    BY <2>1, <2>3, ApartStays
  <2> QED BY <2>5, <2>6, <2>7
<1> QED BY <1>1, <1>2

-----------------------------------------------------------------------------
(* The invariant and the refinement.                                       *)

(* No step forgets a sleeper or puts a task in two places.                 *)
THEOREM WorkerPoolInvariant == Spec => []WorkerPoolInv
<1>1. Init => WorkerPoolInv
  <2> SUFFICES ASSUME Init PROVE WorkerPoolInv
    OBVIOUS
  <2>1. Counted = {} /\ Asleep = {} /\ Busy = {} /\ Announcing = {}
    BY DEF Init, Counted, Asleep, Busy, Announcing
  <2>2. Cardinality({}) = 0 /\ IsFiniteSet({})
    BY FS_EmptySet
  <2>3. queue \in Seq(Tasks) /\ Len(queue) = 0 /\ Range(queue) = {}
    BY DEF Init, Range
  <2>4. TypeOK
    BY <2>1, <2>2, <2>3, QueueCapacityAssumption DEF Init, TypeOK
  <2>5. TasksAreApart
    BY <2>3 DEF Init, TasksAreApart
  <2> QED BY <2>1, <2>2, <2>4, <2>5 DEF WorkerPoolInv, NoSleeperIsForgotten
<1>2. WorkerPoolInv /\ [Next]_vars => WorkerPoolInv'
  <2> SUFFICES ASSUME WorkerPoolInv, [Next]_vars PROVE WorkerPoolInv'
    OBVIOUS
  <2>1. CASE UNCHANGED vars
    <3>1. UNCHANGED <<queue, active, pool, producer, worker, task>>
      BY <2>1 DEF vars
    <3>2. /\ Looking' = Looking /\ Asleep' = Asleep /\ Counted' = Counted /\ Busy' = Busy
          /\ Announcing' = Announcing
      BY <3>1 DEF Looking, Asleep, Counted, Busy, Announcing
    <3>3. NoSleeperIsForgotten'
      BY <3>1, <3>2 DEF WorkerPoolInv, NoSleeperIsForgotten, TypeOK
    <3>4. TasksAreApart'
      BY <3>1, ApartStays DEF WorkerPoolInv
    <3> QED BY <3>2, <3>3, <3>4 DEF WorkerPoolInv
  <2>2. ASSUME NEW t \in Tasks, EnqueueBegin(t) \/ CheckpointThrows(t) \/ EnqueueStep(t)
        PROVE  WorkerPoolInv'
    <3>1. CASE EnqueueBegin(t)
      BY <3>1, CallerMovesKeeps DEF EnqueueBegin
    <3>2. CASE CheckpointThrows(t) \/ EnqueueRefused(t)
      BY <3>2, CallerMovesKeeps DEF CheckpointThrows, EnqueueRefused
    <3>3. CASE EnqueuePushes(t)
      BY <3>3, PushKeeps
    <3>4. CASE EnqueueWaits(t)
      BY <3>4, CallerMovesKeeps DEF EnqueueWaits
    <3>5. CASE EnqueueWaitEnds(t)
      BY <3>5, CallerMovesKeeps DEF EnqueueWaitEnds
    <3>6. CASE EnqueueNotifies(t)
      BY <3>6, NotifyKeeps
    <3> QED BY <2>2, <3>1, <3>2, <3>3, <3>4, <3>5, <3>6 DEF EnqueueStep
  <2>3. ASSUME NEW w \in Workers, SpuriousWakeup(w) \/ WorkerStep(w)
        PROVE  WorkerPoolInv'
    <3>1. CASE SpuriousWakeup(w)
      BY <3>1, IdleWorkerKeeps DEF SpuriousWakeup
    <3>2. CASE WorkerSleeps(w)
      BY <3>2, IdleWorkerKeeps DEF WorkerSleeps
    <3>3. CASE WorkerExits(w)
      BY <3>3, IdleWorkerKeeps DEF WorkerExits
    <3>4. CASE WorkerTakes(w)
      BY <3>4, TakeKeeps
    <3>5. CASE WorkerNotifiesSpace(w)
      BY <3>5, SpaceKeeps
    <3>6. CASE TaskReturns(w)
      BY <3>6, ReturnKeeps
    <3>7. CASE WorkerFinishes(w)
      BY <3>7, FinishKeeps
    <3> QED BY <2>3, <3>1, <3>2, <3>3, <3>4, <3>5, <3>6, <3>7 DEF WorkerStep
  <2>4. CASE DestroyBegin \/ DestroyNotifies \/ DestroyJoins
    BY <2>4, DestroyKeeps
  <2> QED BY <2>1, <2>2, <2>3, <2>4 DEF Next
<1> QED BY <1>1, <1>2, PTL DEF Spec

(* A queued task always has a worker or a notification coming its way      *)
(* while somebody sleeps, for any number of workers, producers and places. *)
THEOREM NobodyForgotten == Spec => []NoSleeperIsForgotten
BY WorkerPoolInvariant, PTL DEF WorkerPoolInv

-----------------------------------------------------------------------------
(* The refinement of TaskQueue.                                            *)

RunningTasks == UNION {task[w] : w \in Workers}
FinishedTasks == {t \in Tasks : /\ producer[t] \in {"notifying", "returned"}
                                /\ t \notin Range(queue)
                                /\ \A w \in Workers : t \notin task[w]}
Open == ~ Stopping

(* A worker without a task leaves room among the running tasks.            *)
LEMMA RoomForOneMore ==
    ASSUME TypeOK, NEW w \in Workers, task[w] = {}
    PROVE  Cardinality(RunningTasks) < Cardinality(Workers)
<1> DEFINE Holder(t) == CHOOSE v \in Workers : t \in task[v]
           f == [t \in RunningTasks |-> Holder(t)]
<1>1. ASSUME NEW t \in RunningTasks PROVE Holder(t) \in Workers \ {w} /\ t \in task[Holder(t)]
  <2>1. \E v \in Workers : t \in task[v]
    BY DEF RunningTasks
  <2>2. Holder(t) \in Workers /\ t \in task[Holder(t)]
    BY <2>1
  <2> QED BY <2>2
<1>2. ASSUME NEW t \in RunningTasks, NEW u \in RunningTasks, Holder(t) = Holder(u) PROVE t = u
  <2>1. PICK v \in Workers : v = Holder(t)
    BY <1>1
  <2>2. t \in task[v] /\ u \in task[v]
    BY <2>1, <1>1, <1>2
  <2> QED BY <2>2 DEF TypeOK
<1> HIDE DEF Holder
<1>3. f \in Injection(RunningTasks, Workers \ {w})
  BY <1>1, <1>2 DEF Injection, IsInjective
<1>4. /\ IsFiniteSet(Workers \ {w}) /\ Cardinality(Workers \ {w}) = Cardinality(Workers) - 1
      /\ Cardinality(Workers) \in Nat
  BY WorkersAssumption, FS_RemoveElement, FS_CardinalityType
<1>5. /\ IsFiniteSet(RunningTasks) /\ Cardinality(RunningTasks) <= Cardinality(Workers \ {w})
  <2> HIDE DEF f
  <2> QED BY <1>3, <1>4, FS_Injection
<1>6. Cardinality(RunningTasks) \in Nat
  BY <1>5, FS_CardinalityType
<1> QED BY <1>4, <1>5, <1>6

(* Both modules count with the same operator.                              *)
LEMMA SameCardinality ==
    ASSUME NEW S PROVE TaskQueueImage!Cardinality(S) = Cardinality(S)
BY DEF TaskQueueImage!Cardinality, Cardinality, TaskQueueImage!IsFiniteSet, IsFiniteSet

(* EnqueuePushes accepts the task.                                         *)
LEMMA PushAccepts ==
    ASSUME WorkerPoolInv, NEW t \in Tasks, EnqueuePushes(t)
    PROVE  TaskQueueImage!Accept(t)
<1>1. /\ producer[t] = "checking" /\ ~ Stopping /\ Len(queue) < QueueCapacity
      /\ queue' = Append(queue, t) /\ queue \in Seq(Tasks) /\ producer \in [Tasks -> ProducerPlaces]
      /\ producer' = [producer EXCEPT ![t] = "notifying"] /\ UNCHANGED <<pool, task>>
  BY DEF EnqueuePushes, WorkerPoolInv, NoSleeperIsForgotten, TypeOK, ProducerPlaces
<1>2. Range(queue') = Range(queue) \cup {t}
  BY <1>1, AppendRange
<1>3. t \notin Range(queue) \cup RunningTasks \cup FinishedTasks
  BY <1>1 DEF WorkerPoolInv, TasksAreApart, RunningTasks, FinishedTasks
<1>4. RunningTasks' = RunningTasks /\ Open' = Open
  BY <1>1 DEF RunningTasks, Open, Stopping
<1>5. FinishedTasks' = FinishedTasks
  <2>1. FinishedTasks' = {k \in Tasks : /\ producer'[k] \in {"notifying", "returned"}
                                        /\ k \notin Range(queue')
                                        /\ \A w \in Workers : k \notin task'[w]}
    BY DEF FinishedTasks, Range
  <2>2. \A k \in Tasks : k # t => producer'[k] = producer[k]
    BY <1>1
  <2> QED BY <1>1, <1>2, <1>3, <2>1, <2>2 DEF FinishedTasks
<1> QED BY <1>1, <1>3, <1>4, <1>5
        DEF TaskQueueImage!Accept, TaskQueueImage!Accepted, TaskQueueImage!Range, RunningTasks,
            FinishedTasks, Open, Range

(* WorkerTakes starts the oldest task.                                     *)
LEMMA TakeStarts ==
    ASSUME WorkerPoolInv, NEW w \in Workers, WorkerTakes(w)
    PROVE  TaskQueueImage!Start
<1>1. /\ queue # << >> /\ queue' = Tail(queue) /\ task' = [task EXCEPT ![w] = {Head(queue)}]
      /\ UNCHANGED <<pool, producer>> /\ task \in [Workers -> SUBSET Tasks] /\ queue \in Seq(Tasks)
      /\ worker[w] = "checking" /\ TypeOK
  BY DEF WorkerTakes, WorkerPoolInv, NoSleeperIsForgotten, TypeOK
<1>2. task[w] = {}
  BY <1>1 DEF TypeOK, Busy
<1>3. Cardinality(RunningTasks) < Cardinality(Workers)
  BY <1>1, <1>2, RoomForOneMore
<1>4. Head(queue) \in Range(queue) /\ Range(Tail(queue)) = Range(queue) \ {Head(queue)}
  BY <1>1, TailRange DEF WorkerPoolInv, TasksAreApart
<1>5. \A v \in Workers : task'[v] = IF v = w THEN {Head(queue)} ELSE task[v]
  BY <1>1
<1>6. RunningTasks' = RunningTasks \cup {Head(queue)} /\ Open' = Open
  <2>1. RunningTasks' = UNION {task'[v] : v \in Workers}
    BY DEF RunningTasks
  <2>2. \A x \in RunningTasks' : x \in RunningTasks \cup {Head(queue)}
    BY <1>5, <2>1 DEF RunningTasks
  <2>3. \A x \in RunningTasks : x \in RunningTasks'
    BY <1>2, <1>5, <2>1 DEF RunningTasks
  <2>4. Head(queue) \in RunningTasks'
    BY <1>5, <2>1
  <2> QED BY <1>1, <2>2, <2>3, <2>4 DEF Open, Stopping
<1>7. FinishedTasks' = FinishedTasks
  <2>1. FinishedTasks' = {k \in Tasks : /\ producer'[k] \in {"notifying", "returned"}
                                        /\ k \notin Range(queue')
                                        /\ \A v \in Workers : k \notin task'[v]}
    BY DEF FinishedTasks, Range
  <2>2. \A k \in Tasks : (k \notin Range(queue') /\ \A v \in Workers : k \notin task'[v]) <=>
                         (k \notin Range(queue) /\ \A v \in Workers : k \notin task[v])
    BY <1>1, <1>2, <1>4, <1>5
  <2> QED BY <1>1, <2>1, <2>2 DEF FinishedTasks
<1> QED BY <1>1, <1>3, <1>6, <1>7, SameCardinality
        DEF TaskQueueImage!Start, TaskQueueImage!Range, RunningTasks, FinishedTasks, Open, Range

(* TaskReturns finishes the task that the worker holds.                    *)
LEMMA ReturnFinishes ==
    ASSUME WorkerPoolInv, NEW w \in Workers, TaskReturns(w)
    PROVE  \E t \in Tasks : TaskQueueImage!Finish(t)
<1>1. /\ worker[w] = "running" /\ task' = [task EXCEPT ![w] = {}]
      /\ UNCHANGED <<queue, pool, producer>> /\ task \in [Workers -> SUBSET Tasks] /\ TypeOK
  BY DEF TaskReturns, WorkerPoolInv, NoSleeperIsForgotten, TypeOK
<1>2. PICK t \in Tasks : task[w] = {t}
  BY <1>1 DEF TypeOK, Busy
<1>3. \A v \in Workers : task'[v] = IF v = w THEN {} ELSE task[v]
  BY <1>1
<1>4. /\ t \notin Range(queue) /\ producer[t] \in {"notifying", "returned"}
      /\ \A v \in Workers : v # w => t \notin task[v]
  BY <1>2 DEF WorkerPoolInv, TasksAreApart
<1>5. t \in RunningTasks
  BY <1>2 DEF RunningTasks
<1>6. RunningTasks' = RunningTasks \ {t} /\ Open' = Open
  <2>1. RunningTasks' = UNION {task'[v] : v \in Workers}
    BY DEF RunningTasks
  <2>2. \A x \in RunningTasks' : x \in RunningTasks /\ x # t
    BY <1>3, <1>4, <2>1 DEF RunningTasks
  <2>3. \A x \in RunningTasks : x # t => x \in RunningTasks'
    BY <1>2, <1>3, <2>1 DEF RunningTasks
  <2> QED BY <1>1, <2>2, <2>3 DEF Open, Stopping
<1>7. FinishedTasks' = FinishedTasks \cup {t}
  <2>1. FinishedTasks' = {k \in Tasks : /\ producer'[k] \in {"notifying", "returned"}
                                        /\ k \notin Range(queue)
                                        /\ \A v \in Workers : k \notin task'[v]}
    BY <1>1 DEF FinishedTasks, Range
  <2>2. \A k \in Tasks : k # t => ((\A v \in Workers : k \notin task'[v]) <=>
                                   (\A v \in Workers : k \notin task[v]))
    BY <1>2, <1>3
  <2>3. \A v \in Workers : t \notin task'[v]
    BY <1>3, <1>4
  <2> QED BY <1>1, <1>4, <2>1, <2>2, <2>3 DEF FinishedTasks
<1>8. TaskQueueImage!Finish(t)
  BY <1>1, <1>5, <1>6, <1>7
     DEF TaskQueueImage!Finish, TaskQueueImage!Range, RunningTasks, FinishedTasks, Open, Range
<1> QED BY <1>8

(* Every other step leaves the queue as callers know it.                   *)
LEMMA OthersStutter ==
    ASSUME UNCHANGED <<queue, task>>, Stopping' = Stopping,
           \A t \in Tasks : producer'[t] \in {"notifying", "returned"} <=>
                            producer[t] \in {"notifying", "returned"}
    PROVE  UNCHANGED TaskQueueImage!vars
<1>1. RunningTasks' = RunningTasks /\ Open' = Open
  BY DEF RunningTasks, Open
<1>2. FinishedTasks' = FinishedTasks
  BY DEF FinishedTasks, Range
<1> QED BY <1>1, <1>2 DEF TaskQueueImage!vars, TaskQueueImage!Range, RunningTasks, FinishedTasks, Open, Range

(* Each critical section, notification and return of a task is one step of *)
(* the abstract executor or none: tasks start in the order they were       *)
(* accepted, each at most once and never more at a time than there are     *)
(* threads, and nothing is accepted once the pool stops.                   *)
THEOREM ImplementsTaskQueueSafety == Spec => TaskQueueImage!Safety
<1>1. Init => TaskQueueImage!Init
  <2> SUFFICES ASSUME Init PROVE TaskQueueImage!Init
    OBVIOUS
  <2>1. RunningTasks = {} /\ FinishedTasks = {} /\ Open = TRUE /\ queue = << >>
    BY DEF Init, RunningTasks, FinishedTasks, Open, Stopping
  <2> QED BY <2>1
          DEF TaskQueueImage!Init, TaskQueueImage!Range, RunningTasks, FinishedTasks, Open, Range
<1>2. WorkerPoolInv /\ [Next]_vars => [TaskQueueImage!Next]_TaskQueueImage!vars
  <2> SUFFICES ASSUME WorkerPoolInv, [Next]_vars
               PROVE  TaskQueueImage!Next \/ UNCHANGED TaskQueueImage!vars
    OBVIOUS
  <2> USE DEF TaskQueueImage!Next
  <2>1. producer \in [Tasks -> ProducerPlaces] /\ worker \in [Workers -> WorkerPlaces]
    BY DEF WorkerPoolInv, NoSleeperIsForgotten, TypeOK, ProducerPlaces, WorkerPlaces
  <2>2. CASE UNCHANGED vars
    BY <2>2, OthersStutter DEF vars, Stopping
  <2>3. ASSUME NEW t \in Tasks, EnqueueBegin(t) \/ CheckpointThrows(t) \/ EnqueueStep(t)
        PROVE  TaskQueueImage!Next \/ UNCHANGED TaskQueueImage!vars
    <3>1. CASE EnqueuePushes(t)
      <4>1. TaskQueueImage!Accept(t)
        BY <3>1, PushAccepts
      <4> QED BY <4>1
    <3>2. CASE EnqueueBegin(t) \/ CheckpointThrows(t) \/ EnqueueRefused(t) \/ EnqueueWaits(t)
               \/ EnqueueWaitEnds(t) \/ EnqueueNotifies(t)
      <4>1. UNCHANGED <<queue, task, pool>>
        BY <3>2 DEF EnqueueBegin, CheckpointThrows, EnqueueRefused, EnqueueWaits, EnqueueWaitEnds,
                    EnqueueNotifies
      <4>2. \A k \in Tasks : producer'[k] \in {"notifying", "returned"} <=>
                             producer[k] \in {"notifying", "returned"}
        BY <3>2, <2>1 DEF EnqueueBegin, CheckpointThrows, EnqueueRefused, EnqueueWaits,
                          EnqueueWaitEnds, EnqueueNotifies
      <4> QED BY <4>1, <4>2, OthersStutter DEF Stopping
    <3> QED BY <2>3, <3>1, <3>2 DEF EnqueueStep
  <2>4. ASSUME NEW w \in Workers, SpuriousWakeup(w) \/ WorkerStep(w)
        PROVE  TaskQueueImage!Next \/ UNCHANGED TaskQueueImage!vars
    <3>1. CASE WorkerTakes(w)
      <4>1. TaskQueueImage!Start
        BY <3>1, TakeStarts
      <4> QED BY <4>1
    <3>2. CASE TaskReturns(w)
      <4>1. \E t \in Tasks : TaskQueueImage!Finish(t)
        BY <3>2, ReturnFinishes
      <4> QED BY <4>1
    <3>3. CASE WorkerNotifiesSpace(w)
      <4>1. \A k \in Tasks : producer'[k] = producer[k]
                             \/ (producer[k] = "waiting" /\ producer'[k] = "checking")
        <5>1. CASE Blocked = {}
          BY <3>3, <5>1 DEF NotifyOne, WorkerNotifiesSpace
        <5>2. CASE Blocked # {}
          <6>1. PICK k \in Blocked : producer' = [producer EXCEPT ![k] = "checking"]
            BY <3>3, <5>2 DEF NotifyOne, WorkerNotifiesSpace
          <6> QED BY <2>1, <6>1 DEF Blocked
        <5> QED BY <5>1, <5>2
      <4>2. UNCHANGED <<queue, task, pool>>
        BY <3>3 DEF WorkerNotifiesSpace
      <4> QED BY <4>1, <4>2, OthersStutter DEF Stopping
    <3>4. CASE SpuriousWakeup(w) \/ WorkerSleeps(w) \/ WorkerExits(w) \/ WorkerFinishes(w)
      <4>1. UNCHANGED <<queue, task, pool, producer>>
        BY <3>4 DEF SpuriousWakeup, WorkerSleeps, WorkerExits, WorkerFinishes
      <4> QED BY <4>1, OthersStutter DEF Stopping
    <3> QED BY <2>4, <3>1, <3>2, <3>3, <3>4 DEF WorkerStep
  <2>5. CASE DestroyBegin
    <3>1. RunningTasks' = RunningTasks /\ FinishedTasks' = FinishedTasks /\ queue' = queue
      BY <2>5 DEF DestroyBegin, RunningTasks, FinishedTasks, Range
    <3>2. Open /\ Open' = FALSE
      BY <2>5 DEF DestroyBegin, Open, Stopping
    <3>3. TaskQueueImage!Close
      BY <3>1, <3>2 DEF TaskQueueImage!Close, TaskQueueImage!Range, RunningTasks, FinishedTasks,
                        Open, Range
    <3> QED BY <3>3
  <2>6. CASE DestroyNotifies
    <3>1. \A k \in Tasks : producer'[k] = IF producer[k] = "waiting" THEN "checking" ELSE producer[k]
      BY <2>6, <2>1 DEF DestroyNotifies, NotifyAll, Blocked
    <3>2. UNCHANGED <<queue, task>> /\ Stopping' = Stopping
      BY <2>6 DEF DestroyNotifies, Stopping
    <3> QED BY <3>1, <3>2, OthersStutter
  <2>7. CASE DestroyJoins
    <3>1. UNCHANGED <<queue, task, producer>> /\ Stopping' = Stopping
      BY <2>7 DEF DestroyJoins, Stopping
    <3> QED BY <3>1, OthersStutter
  <2> QED BY <2>2, <2>3, <2>4, <2>5, <2>6, <2>7 DEF Next
<1> QED BY <1>1, <1>2, WorkerPoolInvariant, PTL DEF Spec, TaskQueueImage!Safety
=============================================================================
