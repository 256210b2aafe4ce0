------------------------------ MODULE MediaCache ------------------------------
(***************************************************************************)
(* Media preparation of the Qwen3.6 frontend: Processor::process together  *)
(* with MediaPreprocessCache (frontend/processor.cpp, media_cache.cpp).    *)
(* Each request has its own thread in process(); decoding runs as tasks of *)
(* the shared worker pool, which is used as TaskQueue specifies it.        *)
(*                                                                         *)
(* A part of a request is <<r, i>>; the flight it starts and the payload   *)
(* that flight builds are named by the part.  Payloads are shared_ptrs: a  *)
(* payload occupies its bytes of the live account exactly while something  *)
(* refers to it (Referenced), so the account is a state function here.     *)
(***************************************************************************)
EXTENDS Naturals, Sequences, FiniteSets, FiniteSetsExt, SequencesExt, Totals

CONSTANTS
    Keys,           \* media contents (digest and modality)
    Bytes,          \* Bytes[k]: size of the prepared payload
    Broken,         \* keys whose bytes do not decode
    Setups,         \* the loads considered, see setup
    CapacityBytes,  \* media_cache_bytes: retained payloads
    MaxRequestBytes,\* bytes of the largest prompt the processor accepts
    Threads,
    QueueCapacity

ASSUME BytesAssumption ==
    /\ Bytes \in [Keys -> Nat \ {0}]
    /\ CapacityBytes \in Nat /\ MaxRequestBytes \in Nat \ {0}
    /\ \A s \in Setups : s.live_bytes \in Nat /\ MaxRequestBytes <= s.live_bytes
ASSUME PoolAssumption == Threads \in Nat \ {0} /\ QueueCapacity \in Nat \ {0}
ASSUME PartsAssumption ==
    \A s \in Setups :
      /\ IsFiniteSet(DOMAIN s.parts)
      /\ \A r \in DOMAIN s.parts :
           s.parts[r] \in Seq(Keys) \ {<< >>} /\ s.signals[r] \subseteq {"cancelled", "expired"}

VARIABLES
    setup,      \* what is given: live_bytes, and the parts and signals of the requests
    stage,      \* stage[r]: where process() is
    index,      \* index[r]: the part its loop is at
    signal,     \* signal[r]: "none", or why its control now throws
    error,      \* error[r]: preparation_error; set exactly when stop_preparation is
    pending,    \* pending[r]: pending_items, records [hit, flight]
    output,     \* output[r]: output.media_payloads
    total,      \* total[r]: stats.raw_patches, in bytes
    claimed,    \* claimed[r]: bytes claimed from the ConcurrentMediaBudget
    flight,     \* flight[p]: "none", "open", "ok" or the error it ended with
    inflight,   \* parts whose flight is in State::inflight
    lru,        \* retained payloads, most recently used first
    queue,      \* tasks waiting for a worker
    task,       \* task[p]: where the task of a part is
    built       \* parts whose payload has been allocated and not freed by its builder

vars == <<stage, index, signal, error, pending, output, total, claimed,
          flight, inflight, lru, queue, task, built>>
requestVars == <<stage, index, signal, error, pending, output, total>>
cacheVars == <<flight, inflight, lru>>
poolVars == <<queue, task, built, claimed>>

Requests == DOMAIN setup.parts
Parts == setup.parts            \* Parts[r]: the media of request r, a sequence of keys
Signals == setup.signals        \* Signals[r]: how r may be stopped: "cancelled", "expired"
LiveBytes == setup.live_bytes   \* media_live_bytes: all payloads

MediaParts == UNION {{r} \X DOMAIN Parts[r] : r \in Requests}
KeyOf(p) == Parts[p[1]][p[2]]
BytesOf(p) == Bytes[KeyOf(p)]
BytesIn(S) == Total([p \in S |-> BytesOf(p)])

Preparing == {"begin", "enqueue", "unlist", "await", "waiting"}
InProcess == Preparing \union {"gate", "encoding"}
(* Stages of a task that still uses the frame of its process().            *)
UsesFrame == {"queued", "decoding", "allocating", "evicting", "packing", "inserting"}
Running == {p \in MediaParts : task[p] \in (UsesFrame \ {"queued"}) \union {"publishing", "erasing"}}

Init ==
    /\ setup \in Setups
    /\ stage = [r \in Requests |-> "new"]
    /\ index = [r \in Requests |-> 1]
    /\ signal = [r \in Requests |-> "none"]
    /\ error = [r \in Requests |-> "none"]
    /\ pending = [r \in Requests |-> << >>]
    /\ output = [r \in Requests |-> << >>]
    /\ total = [r \in Requests |-> 0]
    /\ claimed = [r \in Requests |-> 0]
    /\ flight = [p \in MediaParts |-> "none"]
    /\ inflight = {}
    /\ lru = << >>
    /\ queue = << >>
    /\ task = [p \in MediaParts |-> "none"]
    /\ built = {}

-----------------------------------------------------------------------------
(* The live account                                                        *)

HeldBy(r) ==
    {pending[r][i].flight : i \in DOMAIN pending[r]} \union Range(output[r])

Referenced(p) ==
    \/ task[p] \in {"packing", "inserting", "publishing", "erasing"}
    \/ p \in Range(lru)
    \/ \E r \in Requests : p \in HeldBy(r)

LivePayloads == {p \in built : Referenced(p)}

(* Faulty variant: the last byte of the account is never used.             *)
FitsLoosely(p) == BytesIn(LivePayloads) + BytesOf(p) < LiveBytes

Fits(p) == BytesIn(LivePayloads) + BytesOf(p) <= LiveBytes

(* evict_one_locked, and the loop before an insertion.                     *)
EvictOne(entries) == IF entries = << >> THEN entries ELSE Front(entries)

Retain(entries, p) ==
    LET kept == CHOOSE n \in 0..Len(entries) :
                  /\ BytesIn(Range(SubSeq(entries, 1, n))) + BytesOf(p) <= CapacityBytes
                  /\ \A m \in (n + 1)..Len(entries) :
                       BytesIn(Range(SubSeq(entries, 1, m))) + BytesOf(p) > CapacityBytes
    IN  IF BytesOf(p) > CapacityBytes THEN entries
                                      ELSE <<p>> \o SubSeq(entries, 1, kept)

-----------------------------------------------------------------------------
(* The request gate                                                        *)

GateMaximum == Max({1, LiveBytes \div MaxRequestBytes})

GateActive == Cardinality({r \in Requests : stage[r] \in Preparing})

Arrive(r) ==
    /\ stage[r] = "new"
    /\ stage' = [stage EXCEPT ![r] = "gate"]
    /\ UNCHANGED <<index, signal, error, pending, output, total, cacheVars, poolVars>>

(* acquire_request                                                         *)
AcquirePermit(r) ==
    /\ stage[r] = "gate"
    /\ signal[r] = "none"
    /\ GateActive < GateMaximum
    /\ stage' = [stage EXCEPT ![r] = "begin"]
    /\ UNCHANGED <<index, signal, error, pending, output, total, cacheVars, poolVars>>

GateThrows(r) ==
    /\ stage[r] = "gate"
    /\ signal[r] # "none"
    /\ stage' = [stage EXCEPT ![r] = "failed"]
    /\ error' = [error EXCEPT ![r] = signal[r]]
    /\ UNCHANGED <<index, signal, pending, output, total, cacheVars, poolVars>>

-----------------------------------------------------------------------------
(* The first loop of process(): begin_prepare for every part               *)

PartOf(r) == <<r, index[r]>>

(* After a part has been begun; the second loop starts at the first item.  *)
NextPart(r) ==
    IF index[r] = Len(Parts[r])
      THEN /\ stage' = [stage EXCEPT ![r] = "await"]
           /\ index' = [index EXCEPT ![r] = 1]
      ELSE /\ stage' = [stage EXCEPT ![r] = "begin"]
           /\ index' = [index EXCEPT ![r] = @ + 1]

Pend(r, hit, p) ==
    pending' = [pending EXCEPT ![r] = Append(@, [hit |-> hit, flight |-> p])]

BeginHit(r) ==
    /\ stage[r] = "begin"
    /\ signal[r] = "none"
    /\ \E i \in DOMAIN lru :
         /\ KeyOf(lru[i]) = KeyOf(PartOf(r))
         /\ lru' = <<lru[i]>> \o RemoveAt(lru, i)
         /\ Pend(r, TRUE, lru[i])
    /\ NextPart(r)
    /\ UNCHANGED <<signal, error, output, total, flight, inflight, poolVars>>

NotReady(r) == \A p \in Range(lru) : KeyOf(p) # KeyOf(PartOf(r))

BeginWaiter(r) ==
    /\ stage[r] = "begin"
    /\ signal[r] = "none"
    /\ NotReady(r)
    /\ \E p \in inflight :
         /\ KeyOf(p) = KeyOf(PartOf(r))
         /\ Pend(r, FALSE, p)
    /\ NextPart(r)
    /\ UNCHANGED <<signal, error, output, total, cacheVars, poolVars>>

(* Faulty variant: the flights under way are not consulted.                *)
BeginProducerAlways(r) ==
    /\ stage[r] = "begin"
    /\ signal[r] = "none"
    /\ NotReady(r)
    /\ flight' = [flight EXCEPT ![PartOf(r)] = "open"]
    /\ inflight' = inflight \union {PartOf(r)}
    /\ stage' = [stage EXCEPT ![r] = "enqueue"]
    /\ UNCHANGED <<index, signal, error, pending, output, total, lru, poolVars>>

BeginProducer(r) ==
    /\ stage[r] = "begin"
    /\ signal[r] = "none"
    /\ NotReady(r)
    /\ \A p \in inflight : KeyOf(p) # KeyOf(PartOf(r))
    /\ flight' = [flight EXCEPT ![PartOf(r)] = "open"]
    /\ inflight' = inflight \union {PartOf(r)}
    /\ stage' = [stage EXCEPT ![r] = "enqueue"]
    /\ UNCHANGED <<index, signal, error, pending, output, total, lru, poolVars>>

(* preparation_error is set, stop_preparation raised, and the second loop  *)
(* entered with the items begun so far.                                    *)
StopBeginning(r, why) ==
    /\ error' = [error EXCEPT ![r] = why]
    /\ stage' = [stage EXCEPT ![r] = "await"]
    /\ index' = [index EXCEPT ![r] = 1]

BeginThrows(r) ==
    /\ stage[r] = "begin"
    /\ signal[r] # "none"
    /\ StopBeginning(r, signal[r])
    /\ UNCHANGED <<signal, pending, output, total, cacheVars, poolVars>>

SubmitPushes(r) ==
    /\ stage[r] = "enqueue"
    /\ signal[r] # "expired"
    /\ Len(queue) < QueueCapacity
    /\ queue' = Append(queue, PartOf(r))
    /\ task' = [task EXCEPT ![PartOf(r)] = "queued"]
    /\ Pend(r, FALSE, PartOf(r))
    /\ NextPart(r)
    /\ UNCHANGED <<signal, error, output, total, built, claimed, cacheVars>>

(* The checkpoint of submit is the worker's control, which knows the       *)
(* deadline but not the client's cancellation.  The flight ends with the   *)
(* error first and leaves the table in a later critical section.           *)
SubmitThrows(r) ==
    /\ stage[r] = "enqueue"
    /\ signal[r] = "expired"
    /\ flight' = [flight EXCEPT ![PartOf(r)] = "expired"]
    /\ stage' = [stage EXCEPT ![r] = "unlist"]
    /\ UNCHANGED <<index, signal, error, pending, output, total, inflight, lru, poolVars>>

SubmitUnlists(r) ==
    /\ stage[r] = "unlist"
    /\ inflight' = inflight \ {PartOf(r)}
    /\ StopBeginning(r, "expired")
    /\ UNCHANGED <<signal, pending, output, total, flight, lru, poolVars>>

-----------------------------------------------------------------------------
(* The second loop of process(): await for every pending item.  Once       *)
(* preparation_error is set the items are awaited without a control.       *)

Item(r) == pending[r][index[r]]
AtItem(r, where) == stage[r] = where /\ index[r] <= Len(pending[r])

Advance(r) ==
    /\ stage' = [stage EXCEPT ![r] = "await"]
    /\ index' = [index EXCEPT ![r] = @ + 1]

(* What process() does with an item it got: the totals grow before they    *)
(* are compared.                                                           *)
Collect(r, p) ==
    /\ Advance(r)
    /\ \/ /\ error[r] # "none"
          /\ UNCHANGED <<error, output, total>>
       \/ /\ error[r] = "none"
          /\ total' = [total EXCEPT ![r] = @ + BytesOf(p)]
          /\ total[r] + BytesOf(p) > MaxRequestBytes
          /\ error' = [error EXCEPT ![r] = "budget"]
          /\ UNCHANGED output
       \/ /\ error[r] = "none"
          /\ total' = [total EXCEPT ![r] = @ + BytesOf(p)]
          /\ total[r] + BytesOf(p) <= MaxRequestBytes
          /\ output' = [output EXCEPT ![r] = Append(@, p)]
          /\ UNCHANGED error

AwaitHit(r) ==
    /\ AtItem(r, "await")
    /\ error[r] # "none" \/ signal[r] = "none"
    /\ Item(r).hit
    /\ Collect(r, Item(r).flight)
    /\ UNCHANGED <<signal, pending, cacheVars, poolVars>>

AwaitEnters(r) ==
    /\ AtItem(r, "await")
    /\ error[r] # "none" \/ signal[r] = "none"
    /\ ~ Item(r).hit
    /\ stage' = [stage EXCEPT ![r] = "waiting"]
    /\ UNCHANGED <<index, signal, error, pending, output, total, cacheVars, poolVars>>

AwaitReturns(r) ==
    /\ AtItem(r, "waiting")
    /\ flight[Item(r).flight] = "ok"
    /\ Collect(r, Item(r).flight)
    /\ UNCHANGED <<signal, pending, cacheVars, poolVars>>

(* Faulty variant: an item that failed is skipped.                         *)
AwaitSkips(r) ==
    /\ AtItem(r, "waiting")
    /\ flight[Item(r).flight] \notin {"open", "ok"}
    /\ Advance(r)
    /\ UNCHANGED <<signal, error, pending, output, total, cacheVars, poolVars>>

(* The flight ended with an error, which becomes the request's own.        *)
AwaitRethrows(r) ==
    /\ AtItem(r, "waiting")
    /\ flight[Item(r).flight] \notin {"open", "ok"}
    /\ Advance(r)
    /\ error' = [error EXCEPT ![r] = IF @ = "none" THEN flight[Item(r).flight] ELSE @]
    /\ UNCHANGED <<signal, pending, output, total, cacheVars, poolVars>>

(* Faulty variant: the request leaves without waiting for its task.        *)
AwaitThrowsAndLeaves(r) ==
    /\ AtItem(r, "await") \/ (AtItem(r, "waiting") /\ flight[Item(r).flight] = "open")
    /\ error[r] = "none"
    /\ signal[r] # "none"
    /\ error' = [error EXCEPT ![r] = signal[r]]
    /\ Advance(r)
    /\ UNCHANGED <<signal, pending, output, total, cacheVars, poolVars>>

(* The control throws: the same item is awaited again without it.          *)
AwaitThrows(r) ==
    /\ AtItem(r, "await") \/ (AtItem(r, "waiting") /\ flight[Item(r).flight] = "open")
    /\ error[r] = "none"
    /\ signal[r] # "none"
    /\ error' = [error EXCEPT ![r] = signal[r]]
    /\ stage' = [stage EXCEPT ![r] = "await"]
    /\ UNCHANGED <<index, signal, pending, output, total, cacheVars, poolVars>>

(* All items awaited: the permit is returned; pending_items live until     *)
(* process() returns.                                                      *)
LeaveFailed(r) ==
    /\ stage[r] = "await"
    /\ index[r] > Len(pending[r])
    /\ error[r] # "none"
    /\ stage' = [stage EXCEPT ![r] = "failed"]
    /\ pending' = [pending EXCEPT ![r] = << >>]
    /\ output' = [output EXCEPT ![r] = << >>]
    /\ UNCHANGED <<index, signal, error, total, cacheVars, poolVars>>

ReturnPermit(r) ==
    /\ stage[r] = "await"
    /\ index[r] > Len(pending[r])
    /\ error[r] = "none"
    /\ stage' = [stage EXCEPT ![r] = "encoding"]
    /\ UNCHANGED <<index, signal, error, pending, output, total, cacheVars, poolVars>>

(* Placeholders are expanded and the chat tokenized under the control.     *)
ProcessReturns(r) ==
    /\ stage[r] = "encoding"
    /\ signal[r] = "none"
    /\ stage' = [stage EXCEPT ![r] = "prompt"]
    /\ pending' = [pending EXCEPT ![r] = << >>]
    /\ UNCHANGED <<index, signal, error, output, total, cacheVars, poolVars>>

EncodingThrows(r) ==
    /\ stage[r] = "encoding"
    /\ signal[r] # "none"
    /\ stage' = [stage EXCEPT ![r] = "failed"]
    /\ error' = [error EXCEPT ![r] = signal[r]]
    /\ pending' = [pending EXCEPT ![r] = << >>]
    /\ output' = [output EXCEPT ![r] = << >>]
    /\ UNCHANGED <<index, signal, total, cacheVars, poolVars>>

(* The executor is done with the prompt and drops its payloads.            *)
ReleasePrompt(r) ==
    /\ stage[r] = "prompt"
    /\ stage' = [stage EXCEPT ![r] = "released"]
    /\ output' = [output EXCEPT ![r] = << >>]
    /\ UNCHANGED <<index, signal, error, pending, total, cacheVars, poolVars>>

(* The deadline passes or the client goes away.                            *)
Raise(r) ==
    /\ stage[r] \in InProcess
    /\ signal[r] = "none"
    /\ \E s \in Signals[r] : signal' = [signal EXCEPT ![r] = s]
    /\ UNCHANGED <<stage, index, error, pending, output, total, cacheVars, poolVars>>

-----------------------------------------------------------------------------
(* The task of a part                                                      *)

(* The worker's control: the deadline, or stop_preparation.                *)
WorkerStop(r) ==
    IF error[r] # "none" THEN "cancelled"
                         ELSE IF signal[r] = "expired" THEN "expired" ELSE "none"

SetTask(p, where) == task' = [task EXCEPT ![p] = where]

(* The builder ends with an error; nothing has been allocated, or it has   *)
(* been freed on the way out.                                              *)
TaskThrows(p, why) ==
    /\ flight' = [flight EXCEPT ![p] = why]
    /\ built' = built \ {p}
    /\ SetTask(p, "erasing")

(* TaskQueue!Start: the oldest task gets an idle thread.                   *)
TaskStarts ==
    /\ queue # << >>
    /\ Cardinality(Running) < Threads
    /\ SetTask(Head(queue), "decoding")
    /\ queue' = Tail(queue)
    /\ UNCHANGED <<requestVars, cacheVars, built, claimed>>

Stoppable == {"decoding", "allocating", "packing"}

TaskStopped(p) ==
    /\ task[p] \in Stoppable
    /\ WorkerStop(p[1]) # "none"
    /\ TaskThrows(p, WorkerStop(p[1]))
    /\ UNCHANGED <<requestVars, inflight, lru, queue, claimed>>

(* The last check, after the builder returned: the flight keeps a payload  *)
(* although it ends with an error.                                         *)
TaskStoppedLate(p) ==
    /\ task[p] = "packing"
    /\ WorkerStop(p[1]) # "none"
    /\ flight' = [flight EXCEPT ![p] = WorkerStop(p[1])]
    /\ SetTask(p, "erasing")
    /\ UNCHANGED <<requestVars, inflight, lru, queue, built, claimed>>

(* prepare_image, prepare_video: decode, then claim before allocating.     *)
TaskClaims(p) ==
    /\ task[p] = "decoding"
    /\ KeyOf(p) \notin Broken
    /\ claimed' = [claimed EXCEPT ![p[1]] = @ + BytesOf(p)]
    /\ IF claimed[p[1]] + BytesOf(p) > MaxRequestBytes
         THEN TaskThrows(p, "budget")
         ELSE SetTask(p, "allocating") /\ UNCHANGED <<flight, built>>
    /\ UNCHANGED <<requestVars, inflight, lru, queue>>

TaskCannotDecode(p) ==
    /\ task[p] = "decoding"
    /\ KeyOf(p) \in Broken
    /\ TaskThrows(p, "broken")
    /\ UNCHANGED <<requestVars, inflight, lru, queue, claimed>>

(* allocate_payload                                                        *)
TaskReserves(p) ==
    /\ task[p] = "allocating"
    /\ WorkerStop(p[1]) = "none"
    /\ Fits(p)
    /\ built' = built \union {p}
    /\ SetTask(p, "packing")
    /\ UNCHANGED <<requestVars, cacheVars, queue, claimed>>

TaskFindsNoRoom(p) ==
    /\ task[p] = "allocating"
    /\ WorkerStop(p[1]) = "none"
    /\ ~ Fits(p)
    /\ SetTask(p, "evicting")
    /\ UNCHANGED <<requestVars, cacheVars, queue, built, claimed>>

(* One entry is evicted, or the task waits for at most 10 ms.              *)
TaskEvicts(p) ==
    /\ task[p] = "evicting"
    /\ lru' = EvictOne(lru)
    /\ SetTask(p, "allocating")
    /\ UNCHANGED <<requestVars, flight, inflight, queue, built, claimed>>

TaskPacks(p) ==
    /\ task[p] = "packing"
    /\ WorkerStop(p[1]) = "none"
    /\ SetTask(p, "inserting")
    /\ UNCHANGED <<requestVars, cacheVars, queue, built, claimed>>

TaskInserts(p) ==
    /\ task[p] = "inserting"
    /\ lru' = Retain(lru, p)
    /\ SetTask(p, "publishing")
    /\ UNCHANGED <<requestVars, flight, inflight, queue, built, claimed>>

TaskPublishes(p) ==
    /\ task[p] = "publishing"
    /\ flight' = [flight EXCEPT ![p] = "ok"]
    /\ SetTask(p, "erasing")
    /\ UNCHANGED <<requestVars, inflight, lru, queue, built, claimed>>

(* inflight.erase(key): whatever flight the key now has is removed.        *)
TaskErases(p) ==
    /\ task[p] = "erasing"
    /\ inflight' = {q \in inflight : KeyOf(q) # KeyOf(p)}
    /\ SetTask(p, "ended")
    /\ UNCHANGED <<requestVars, flight, lru, queue, built, claimed>>

-----------------------------------------------------------------------------
RequestStep(r) ==
    \/ AcquirePermit(r) \/ GateThrows(r)
    \/ BeginHit(r) \/ BeginWaiter(r) \/ BeginProducer(r) \/ BeginThrows(r)
    \/ SubmitPushes(r) \/ SubmitThrows(r) \/ SubmitUnlists(r)
    \/ AwaitHit(r) \/ AwaitEnters(r) \/ AwaitReturns(r) \/ AwaitRethrows(r) \/ AwaitThrows(r)
    \/ LeaveFailed(r) \/ ReturnPermit(r) \/ ProcessReturns(r) \/ EncodingThrows(r)

TaskStep(p) ==
    \/ TaskStopped(p) \/ TaskStoppedLate(p)
    \/ TaskClaims(p) \/ TaskCannotDecode(p)
    \/ TaskReserves(p) \/ TaskFindsNoRoom(p) \/ TaskEvicts(p)
    \/ TaskPacks(p) \/ TaskInserts(p) \/ TaskPublishes(p) \/ TaskErases(p)

(* All requests are over and every task has returned.                      *)
Finished ==
    /\ \A r \in Requests : stage[r] \in {"released", "failed"}
    /\ \A p \in MediaParts : task[p] \in {"none", "ended"}
    /\ UNCHANGED vars

Next ==
    /\ \/ \E r \in Requests : Arrive(r) \/ RequestStep(r) \/ ReleasePrompt(r) \/ Raise(r)
       \/ TaskStarts
       \/ \E p \in MediaParts : TaskStep(p)
       \/ Finished
    /\ UNCHANGED setup

Spec == Init /\ [][Next]_<<setup, vars>>

(* Every request and every part of every load.                             *)
AllRequests == UNION {DOMAIN s.parts : s \in Setups}
AllParts == UNION {UNION {{r} \X DOMAIN s.parts[r] : r \in DOMAIN s.parts} : s \in Setups}

(* Every thread runs, and the executor releases every prompt in the end    *)
(* (RequestLifecycle).  Only the gate and the pool's queue are contended:  *)
(* finitely many requests pass through them.  A deadline that nothing else *)
(* can forestall passes; a client need not cancel.                         *)
FairSpec ==
    /\ Spec
    /\ WF_vars(\E r \in Requests : RequestStep(r) \/ ReleasePrompt(r))
    /\ \A p \in AllParts : WF_vars(p \in MediaParts /\ TaskStep(p))
    /\ WF_vars(TaskStarts)
    /\ \A r \in AllRequests : WF_vars(r \in Requests /\ Signals[r] = {"expired"} /\ Raise(r))

-----------------------------------------------------------------------------
Errors == {"cancelled", "expired", "budget", "broken"}

(* Every variable has its type.                                            *)
TypeOK ==
    /\ setup \in Setups
    /\ stage \in [Requests -> InProcess \union {"new", "failed", "prompt", "released"}]
    /\ index \in [Requests -> Nat \ {0}]
    /\ signal \in [Requests -> {"none", "cancelled", "expired"}]
    /\ error \in [Requests -> Errors \union {"none"}]
    /\ pending \in [Requests -> Seq([hit : BOOLEAN, flight : MediaParts])]
    /\ output \in [Requests -> Seq(MediaParts)]
    /\ total \in [Requests -> Nat] /\ claimed \in [Requests -> Nat]
    /\ flight \in [MediaParts -> Errors \union {"none", "open", "ok"}]
    /\ task \in [MediaParts -> UsesFrame \union {"none", "publishing", "erasing", "ended"}]
    /\ inflight \subseteq MediaParts /\ built \subseteq MediaParts
    /\ lru \in Seq(MediaParts) /\ queue \in Seq(MediaParts)

(* The queue and the threads of the pool, the retained payloads and the    *)
(* live payloads keep their limits, and no loop leaves its parts.          *)
WithinLimits ==
    /\ Len(queue) <= QueueCapacity /\ Cardinality(Running) <= Threads
    /\ BytesIn(Range(lru)) <= CapacityBytes
    /\ BytesIn(LivePayloads) <= LiveBytes
    /\ \A r \in Requests : index[r] <= Len(Parts[r]) + 1

(* Single flight: at any time one part at most builds a given key, no key  *)
(* is built while its payload is retained, the map holds exactly the       *)
(* flights that have not been erased, and no key is retained twice.        *)
SingleFlight ==
    /\ \A p, q \in MediaParts :
         KeyOf(p) = KeyOf(q) /\ flight[p] = "open" /\ flight[q] = "open" => p = q
    /\ \A p, q \in Range(lru) : KeyOf(p) = KeyOf(q) => p = q
    /\ \A p \in MediaParts :
         task[p] \in UsesFrame =>
           p \in inflight /\ \A q \in Range(lru) : KeyOf(p) # KeyOf(q)
    /\ inflight = {p \in MediaParts : \/ flight[p] = "open"
                                      \/ task[p] = "erasing"
                                      \/ stage[p[1]] = "unlist" /\ PartOf(p[1]) = p}

(* The tasks of a request use its stack frame (policy, request_budget,     *)
(* worker_control, stop_preparation, the media bytes): process() is not    *)
(* left, on any error path, while one of them is queued or building.       *)
FrameOutlivesTasks ==
    \A p \in MediaParts : task[p] \in UsesFrame => stage[p[1]] \in Preparing

(* Bytes held by a request itself, which it will not release before its    *)
(* own tasks are done.                                                     *)
OwnBytes(r) ==
    BytesIn({p \in LivePayloads :
           p \in HeldBy(r) \/ (p[1] = r /\ task[p] \in UsesFrame)})

(* Whether all parts of a request together are within the limit.  One that *)
(* is not is refused when its items are collected, but the claims of its   *)
(* tasks do not count the parts it found in the cache or in flight.        *)
FitsLimit(r) == Total([i \in DOMAIN Parts[r] |-> Bytes[Parts[r][i]]]) <= MaxRequestBytes

(* No task of a request within the limit waits for bytes that only this    *)
(* request can return.                                                     *)
NoWaitForOwnBytes ==
    \A p \in MediaParts :
      task[p] \in {"allocating", "evicting"} /\ FitsLimit(p[1]) =>
        OwnBytes(p[1]) + BytesOf(p) <= LiveBytes

(* The cache, its map of flights and the account of live bytes agree in    *)
(* every interleaving of begin, insert, publish, erase and eviction.       *)
CacheStateAgrees == TypeOK /\ WithinLimits /\ SingleFlight /\ NoWaitForOwnBytes

(* A prompt that process() returned holds, in order, one successfully      *)
(* built payload of each of its parts, within the limit for one request.   *)
PromptIsComplete ==
    \A r \in Requests : stage[r] = "prompt" =>
      /\ Len(output[r]) = Len(Parts[r])
      /\ \A i \in DOMAIN output[r] :
           KeyOf(output[r][i]) = Parts[r][i] /\ output[r][i] \in built
      /\ Total([i \in DOMAIN output[r] |-> BytesOf(output[r][i])]) <= MaxRequestBytes

-----------------------------------------------------------------------------
(* The inductive invariant                                                 *)

(* A payload that nobody frees any more while something refers to it.      *)
Settled(p) == p \in built /\ task[p] \in {"publishing", "erasing", "ended"}

(* How the two loops of process() advance.                                 *)
LoopOf(r) ==
    /\ stage[r] \in {"new", "gate"} => index[r] = 1 /\ pending[r] = << >>
    /\ stage[r] \in {"begin", "enqueue", "unlist"} =>
         Len(pending[r]) = index[r] - 1 /\ index[r] <= Len(Parts[r])
    /\ stage[r] \in {"await", "waiting"} => index[r] <= Len(pending[r]) + 1
    /\ stage[r] \in {"new", "gate", "begin", "enqueue", "unlist"} =>
         output[r] = << >> /\ error[r] = "none" /\ total[r] = 0
    /\ stage[r] \in {"await", "waiting"} /\ error[r] = "none" =>
         Len(pending[r]) = Len(Parts[r]) /\ Len(output[r]) = index[r] - 1
    /\ stage[r] \in {"encoding", "prompt"} =>
         error[r] = "none" /\ Len(output[r]) = Len(Parts[r])
    /\ index[r] <= Len(Parts[r]) + 1

(* What a request holds: one item per part it began, the payloads it       *)
(* collected from them, and their bytes.                                   *)
HoldingsOf(r) ==
    /\ Len(pending[r]) <= Len(Parts[r])
    /\ \A i \in DOMAIN pending[r] :
         /\ KeyOf(pending[r][i].flight) = Parts[r][i]
         /\ pending[r][i].hit => Settled(pending[r][i].flight)
         /\ flight[pending[r][i].flight] # "none"
    /\ \A i \in DOMAIN output[r] :
         /\ i <= Len(Parts[r]) /\ KeyOf(output[r][i]) = Parts[r][i] /\ Settled(output[r][i])
         /\ stage[r] \in InProcess => i <= Len(pending[r]) /\ output[r][i] = pending[r][i].flight
    /\ error[r] = "none" /\ stage[r] # "released" =>
         /\ total[r] = Total([i \in DOMAIN output[r] |-> BytesOf(output[r][i])])
         /\ total[r] <= MaxRequestBytes

(* How far the flight and the task of a part are.                          *)
FlightOf(p) ==
    /\ task[p] \in UsesFrame \union {"publishing"} => flight[p] = "open"
    /\ task[p] \in {"erasing", "ended"} => flight[p] \notin {"none", "open"}
    /\ task[p] = "none" /\ flight[p] = "open" => stage[p[1]] = "enqueue" /\ PartOf(p[1]) = p
    /\ flight[p] = "ok" => Settled(p)
    /\ p \in built => task[p] \in {"packing", "inserting", "publishing", "erasing", "ended"}
    /\ task[p] \in {"packing", "inserting", "publishing"} => p \in built
    /\ stage[p[1]] \in {"new", "gate", "begin"} /\ p[2] >= index[p[1]] => flight[p] = "none"
    /\ stage[p[1]] \in {"enqueue", "unlist"} /\ p[2] > index[p[1]] => flight[p] = "none"
    /\ stage[p[1]] = "enqueue" /\ PartOf(p[1]) = p => flight[p] = "open" /\ task[p] = "none"
    /\ stage[p[1]] = "unlist" /\ PartOf(p[1]) = p => flight[p] = "expired" /\ task[p] = "none"

(* A task that uses the frame is one of the items its request has still to *)
(* await.                                                                  *)
AwaitedOf(p) ==
    task[p] \in UsesFrame =>
      /\ stage[p[1]] \in Preparing
      /\ \E i \in DOMAIN pending[p[1]] :
           /\ ~ pending[p[1]][i].hit /\ pending[p[1]][i].flight = p
           /\ stage[p[1]] \in {"await", "waiting"} => index[p[1]] <= i

(* The map of flights has one entry per key, for exactly the flights that  *)
(* have not been erased; a key is retained once, and not before its        *)
(* payload has been inserted.                                              *)
MapInv ==
    /\ inflight = {p \in MediaParts : \/ flight[p] = "open"
                                      \/ task[p] = "erasing"
                                      \/ stage[p[1]] = "unlist" /\ PartOf(p[1]) = p}
    /\ \A p, q \in inflight : KeyOf(p) = KeyOf(q) => p = q
    /\ \A i \in DOMAIN lru : Settled(lru[i])
    /\ \A i, j \in DOMAIN lru : KeyOf(lru[i]) = KeyOf(lru[j]) => i = j
    /\ \A p \in inflight, i \in DOMAIN lru :
         KeyOf(p) = KeyOf(lru[i]) => task[p] \in {"publishing", "erasing"}

QueueInv ==
    /\ \A i \in DOMAIN queue : task[queue[i]] = "queued"
    /\ \A i, j \in DOMAIN queue : queue[i] = queue[j] => i = j

CacheInv ==
    /\ TypeOK /\ WithinLimits /\ MapInv /\ QueueInv
    /\ \A r \in Requests : LoopOf(r) /\ HoldingsOf(r)
    /\ \A p \in MediaParts : FlightOf(p) /\ AwaitedOf(p)

(* The gate keeps partial builds of requests within the limit from         *)
(* deadlocking the account: every preparation ends, with no deadline       *)
(* needed to break a cycle.  A request beyond the limit whose cached parts *)
(* leave no room for the others ends by its deadline.  No request arrives  *)
(* twice, so it is enough that in the end none is in process().            *)
PreparationEnds == <>[](\A r \in Requests : stage[r] \notin InProcess)
=============================================================================
