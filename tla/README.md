# TLA+ models of GInfer's serving core

GInfer is a C++/CUDA inference server for a handful of fixed model targets. Requests enter through
an HTTP server or the CLI, are tokenized and prepared (media is decoded on a worker pool), and are
handed to one engine whose single worker thread admits them to a few request lanes, prefills their
prompts in chunks and decodes all active lanes together in rounds. The tokens of each round are
decoded to text, filtered for tool calls and streamed back as API events. This directory holds TLA+
models of that path, the TLC configurations that check them, and machine-checked proofs about them.
Paths below are relative to the repository root (`src/` in the repository's own layout is
`src/src/` in `PROJECT.json`).

## 1. Inventory: parts, state, operations, interactions

| Part | State | Operations | Modelled in |
|---|---|---|---|
| Concurrent executor, request life (`src/runtime/engine/concurrent_executor.h`) | `outstanding_`, `pending_`, `slots_`, `stopping_`, `failed_` under `queue_mutex_`; per request `done`, `events`, `consumer_released`, `capacity_released` under its own mutex, and an atomic `cancelled` | `submit`, `Submission::wait`, `~Submission`, completion, `fail_all`, destruction | `RequestLifecycle` |
| Concurrent executor, scheduler (same file) | lanes, cached lane plans and their versions, staged prefill lane, admission protection, alternation flag | `worker_loop`, `try_admit_one`, `admit_planned_request`, `run_prefill_step`, `run_decode_round`, expiry, cancellation | `AdmissionScheduler` |
| Admission policy (`src/runtime/engine/admission_policy.cpp`) | none (pure) | protection, donors, persistent and temporal backfill, drain | `AdmissionPolicy` |
| Request planning (`src/targets/qwen3_6/impl/runtime/request_plan_impl.h`) | none | page entitlement, effective output, reuse path and base, checkpoint action, projected work | operators of `AdmissionScheduler` and `SequenceLane` |
| Paged KV pools and bundles (`src/core/paged_kv_cache.cpp`, bundle helpers of `program_impl.h`) | free list, entitlement and mapping totals, rows in use, block tables on the device; page lists of each allocation | reserve, resize, bind, materialize, trim, cancel growth, unbind, release | `PagedKVPool` |
| Qwen3.6 program (`program_impl.h`, `text_context_impl.h`, `mtp`, `dflash`) | per lane: `SequenceState` (frontiers, ledger, rewrite checkpoint, retained), `RequestControl`, recurrent state, Text/MTP/draft KV, hidden vectors | start, advance and resolve prefill, decode rounds without speculation, with MTP and with DFlash, abort, evict | `SequenceLane` |
| Generation service (`src/serve/generation_service.cpp`) | `RequestCapacity::active`, the lifetime held by each handler | acquire, prepare, submit, run, release, abandon | `GenerationService` (on `RequestLifecycle`) |
| Output sessions (`frontend/frontend.cpp` of Qwen3.6 and Muse) | `DecoderState`: channel, held text, UTF-8 remainder, counts | preview, commit, end at stop or limit | `OutputDecoder`, `AtemDecoder` on `ChannelDecoder`, `TextScan` |
| Tool calls (`src/serve/tool_call_parser.cpp`) | `ToolCallStreamFilter`: pending text, region | feed, finish, parse | `ToolCallStream` |
| Event streams (`src/serve/responses_schema.cpp`, `responses_http.cpp`, `http_server.cpp`) | items, indices, sequence numbers, open blocks; the connection | deltas, finish, terminal event, failure, disconnection | `StreamedGeneration`, `ResponsesStream`, `MessagesStream` |
| Response store (`src/serve/response_store.cpp`) | LRU list, records with shared contexts, byte total | continue, put, get, erase | `ResponseStore` |
| Host worker pool (`src/core/host_worker_pool.cpp`) | bounded queue, `active`, `stopping`, two condition variables | `enqueue`, `worker_loop`, destructor | `HostWorkerPool`, `TaskQueue` |
| Media cache and processor (`frontend/media_cache.cpp`, `processor.cpp`) | request gate, in-flight map, LRU payloads, live and retained bytes | `process`: claim, hit, join, build, wait, insert, evict | `MediaCache` |
| Request memory, KV capacity | one transient region; start-up arithmetic | | not yet (section 8) |
| Chat Completions stream, JSON, logs, options, tokenizer, chat template, media decoding, artifact loading, arenas, CUDA graphs, operators, Muse program, apps, benches, evaluation | | | not modelled (section 7) |

Interactions: HTTP handler threads take a lifetime from the service, prepare media together with
other handlers (gate, single flight, pool), call `submit` and `wait`, and share with the worker
thread the queue (one mutex, one condition variable) and each request (one mutex, one condition
variable, one atomic). Everything behind the executor - program, pools, lanes, protection - belongs
to the worker thread alone. The worker asks the program for plans and for room
(`plan_request_for_lane`, `can_admit_lane`), the policy for decisions, and the program holds its
pages through allocations in one or two pools. There is no callback into the client: output travels
through `Request::events` and is encoded on the handler's thread, which may find the connection
stalled or gone at any write. A completed response is stored before the client is told of it.

What is hard about it: the two-sided return of a request's capacity, and a second capacity in front
of it; output published and completion flagged in different critical sections; a unit that throws
while requests are queued, staged and active; cancellation and deadlines that fall between any two
steps; plans that outlive the lane they describe; backfill against a reservation made earlier; pages
shared by active and retained sequences; two pools that must change together although a step may
throw between them; five device states that must agree after a partly accepted speculative round
and after a restored checkpoint; single flight with a builder that fails or is cancelled; payloads
that wait for each other's bytes; tasks that refer to the stack frame of a request that is leaving;
lost wake-ups; text whose markers are cut anywhere by tokens, rounds and deltas; a stream whose end
must agree with what has already been sent. `PROJECT.json` lists these hazards at their lines with
the properties that would catch each of them going wrong.

## 2. Modules

### Executor

**RequestLifecycle.** One action per critical section or atomic store. `client[r]` is the program
point of the client's thread; `completing`, `marking` and `returning` are the program points of the
worker inside a completion (`done` is set, `mark_completed` runs and `outstanding_` is decremented
in three separate critical sections). The worker's choice of a request is left open, which makes
every property hold for any scheduling policy. A completed lane counts as vacated when its
completion begins; `slots_` is private to the worker, so nobody can see the difference. The
destructor runs only after every client has left, because each handle keeps the executor alive
(`src/runtime/engine/engine.cpp`).

**RequestService** is what all of this amounts to for a caller: a request is refused or accepted
against a bounded capacity, completes once, and its capacity comes back once. `RequestLifecycle`
implements it with `status` mapped to `Status(r)` and `held` to `Holders`
(`ImplementsRequestService`).

**GenerationService** EXTENDS `RequestLifecycle` and puts the HTTP handlers on top: `handler[r]` and
`client[r]` are two program counters of one thread, so each client step of `RequestLifecycle` is
taken where `prepare`, `run` or a destructor takes it (`SubmitStep`, `RunStep`, `AbandonStep`).
`ingress` is the service's own count; a handler keeps its unit until the response is released,
however prepare, submit or run ended. `PreparedRequest`s that die before `run` abandon their
submission.

**AdmissionPolicy.** The functions of `admission_policy.cpp` as operators on resource vectors and
on the map from request ids to snapshots. The code's sorted loop over incumbents becomes an order
(`FinishesBy`) and the first sufficient prefix of it.

**AdmissionScheduler.** The worker thread with `pc` for its place in `worker_loop` and in
`try_admit_one`; clients submit and cancel between any two of its steps. Requests carry a shape
(prompt and output tokens, rewrite checkpoint) chosen by the client. Ids are given in the order of
arrival and never again, so the queue is the set of ids that wait and its head is the least of them.
Tokens are not modelled:
`Continues` and `Rewrites` say which prompts extend an earlier sequence as a whole or up to a
rewrite checkpoint. The model keeps the page entitlement of every lane in both pools, the retained
sequence of a free lane, the cached plans, the protection with its donors, credit and phase, and
the remaining service work of each active request. The entitlement in the backend's pool depends on
the speculative backend (`BackendTokens`): MTP needs pages for the drafts behind the last licensed
token, DFlash those of the text, or none at all when its model has no full-attention layers
(`BackendPages = 0`, as for Qwen3.6 27B). A speculative round commits between one and
`DraftWindow + 1` tokens per row. A stop condition may end a request at any token, a unit may
throw, a deadline may pass wherever the code reads the clock. A plan whose version is out of date is
recomputed before use and is therefore represented as no plan.

### Target

**PagedKVPool.** Free pages, page lists, entitlements, bound rows and block tables of one or two
pools. The free list is a set because the code keeps it sorted; `take_pages`' preference (continue
the last page, else the first run, else the lowest pages) is kept. Reserve, resize and bind walk
through the pools one at a time (`op`), and may throw where the code may: the constructor of a
handle, the copy of a block-table row. The text row is bound outside the `try` block and stays
bound when its copy fails; the lane is then `faulted` until it is cleared. Any legal sequence of
operations is allowed, a superset of what the program does.

**SequenceLane.** What the program believes about each lane (`sequence`, `request`) next to what the
device holds (`device`). Numbers are replaced by their provenance: an entry `<<token, position>>` is
one column of the transformer, and the recurrent state, a KV prefix or a hidden vector is the
sequence of entries it was computed from. A column computed from states that disagree, or of a
rejected draft, is `Garbage`. Each action is one call from the executor (`StartPrefillLane`,
`AdvancePrefillLane`, `ResolvePrefillLane`, `DecodeBatch`, `ResolvePendingBatch`, `AbortLane`,
`EvictRetainedLane`, and `RoundFails`) and writes all device state the call writes, in its order.
Which drafts are accepted, and what is sampled, is nondeterministic. `fault` records that one of
the program's internal checks threw. `Throw` clears the lanes of the call; the checks that a decode
call makes before its `try` block leave them as they are, a difference nobody can see because
`fault` is proved never to be set.

### Frontend and media

**HostWorkerPool / TaskQueue.** One step per critical section, notification or end of a task, for
every producer, worker and the destructor. A notification wakes one sleeper or is lost; waits may
end without one; `enqueue` polls its caller's checkpoint every 10 ms. `TaskQueue` is the contract of
the header: a bounded FIFO that runs every accepted task once.

**MediaCache.** `Processor::process` of each request together with the cache: the request gate, the
loop that claims, looks up, joins or starts flights, the loop that waits, and the tasks on the pool,
which is used as `TaskQueue` specifies it. Payloads are `shared_ptr`s, so the live byte account is
the state function `Referenced`: a payload occupies bytes exactly while a flight, a task, the LRU, a
pending item or a prompt refers to it. `total` is the running total that `process` compares with the
limit of one request; it grows before the comparison, as in the code. A request may be cancelled or
expire at any time and notices where the code polls.

**ChannelDecoder, OutputDecoder, AtemDecoder** (on **TextScan**, the string helpers). The output
sessions of the Qwen3.6 and the Muse frontend: `preview` decides over a copy of the state how many
tokens of a round are accepted, `commit` adopts it. Text is a sequence of symbols chosen so that
code points, markers, headers and stop strings span tokens. Next to each session stands a reference
definition of what the whole output decodes to.

### Streams and store

**ToolCallStream.** Parser and stream filter. Markers are three symbols, elements one.

**StreamedGeneration** is one request from `run` to the socket: deltas, the filter, the outcome, and
a connection that stalls, resumes or breaks. Which channel may follow which depends on the frontend
(`MayThink`): a Qwen session leaves its reasoning at `</think>` for good, a Muse session opens
messages to itself and to the user in any order. **ResponsesStream** and **MessagesStream** EXTEND it
with the encoders of the two APIs; each write may fail at any event of a batch.

**ResponseStore.** Handlers that start or continue a conversation, store before answering, and
retrieve and delete. A context is the sequence of responses whose turns it chains; nodes that
several contexts share are counted once. A record keeps its place in the list (`PlaceOf`, the
iterator of the code). `uses` and `removed` are history.

`MC*` modules hold the constants of the runs. `MCDecoders` and `MCStreams` put the two variants of a
component under one specification whose initial state chooses between them (`frontend`, `api`), in
`StreamedGeneration` it also chooses the frontend. `MCMuseStreams` lets one Muse generation drive
both encoders at once. In
`MediaCache` and `SequenceLane` the initial state chooses a load or a program (`setup`, `options`)
that then never changes.

**Totals** defines the total of a function from a finite set to the naturals by counting units, so
that totals of pages and bytes can be reasoned about without recursion; TLC evaluates the same
definition. **CommonLemmas** proves what the other proofs need of totals, greatest elements and
sequences. `RequestProofs` holds the proofs about `RequestLifecycle` and `GenerationService`;
`AdmissionSchedulerProofs`, `SequenceLaneProofs`, `PagedKVPoolProofs`, `HostWorkerPoolProofs`,
`MediaCacheProofs` and `ResponseStoreProofs` hold those about the module each is named after
(section 5).

Operators commented as faulty variants are deliberate mistakes (a dropped check, a lost decrement)
that `PROJECT.json` substitutes for the real definition to show that each property can fail.

## 3. Runs

| Run | Instance | Distinct states | Properties |
|---|---|---|---|
| `requests` | 3 handlers, 1 lane, 2 outstanding, fair | 610,615 | `CapacityAccounting`, `ExactlyOneOwner`, `NoOutputLost`, `IngressCoversExecutor`, `LateOverloadNeedsLingerer`, `AcceptedRequestCompletes`, `EveryRequestIsAnswered`, `ImplementsRequestService` |
| `scheduler` | 4 requests of a conversation, 3 lanes, 5+5 pages, MTP with draft window 1, a deadline and a cancellation, fair worker | 576,508 | `AdmissionNeverFaults`, `HeadKeepsItsReservation`, `FrontierIsEarliest`, `SchedulerStateAgrees`, `PoolsNeverOvercommitted`, `ServiceWorkSuffices`, `EveryRequestEnds` |
| `fifo_doc` | 3 requests, 2 lanes, 3 pages | - | `AdmittedInFifoOrder` (violated, section 6) |
| `pool` | 2 lanes (symmetric), two pools, device tables | 452,182 | `PagesAreAccounted`, `TablesMatchMapping`, `BundleAllOrNothing`, `ValidatedBundleApplies` |
| `worker_pool` | 4 tasks, 2 workers, queue of 2, fair | 187,946 | `NoSleeperIsForgotten`, `CallsReturn`, `ImplementsTaskQueue` |
| `media` | two requests that share an image, three that compete for the bytes of one, or one beyond the limit whose first image is shared; 2 threads, queue of 1, fair | 252,111 | `CacheStateAgrees`, `FrameOutlivesTasks`, `PromptIsComplete`, `PreparationEnds` |
| `response_store` | 5 responses (3 alike), 2 records, 6 bytes | 314,734 | `StoreWithinLimits`, `AnsweredIsStored`, `EvictsByNeedAndRecency` |
| `decoders` | Muse with 7 tokens, Qwen with 5, rounds of several tokens | 158,074 | `SessionDecodesOutput`, `SessionCountsReasoning` |
| `lane` | one lane: no speculation with media, MTP with 2 drafts, DFlash with two widths | 148,254 | `CallsNeverFault`, `ContinuationMatchesLedger`, `BackendMatchesLedger`, `CheckpointMatchesLedger` |
| `lane_shared_ingress` | two lanes with DFlash | - | `BackendMatchesLedger` (violated, section 6) |
| `streams` | up to 5 deltas of a Qwen or 4 of a Muse session to either API | 2,189,238 | `FilterIsFaithful`, `EndTellsWhatWasStreamed`, `OneTerminalAndInOrder`, `ThinkingFirstKeepsOrder` |
| `muse_streams` | up to 3 deltas of a Muse session to both APIs | - | `SomeStreamKeepsItsOrder` (violated, section 6) |

What they show:

* `requests`: in every interleaving of handlers and worker, with a failing unit and shutdown, the
  executor's count is exact, a request is in one place, the client that returns has all the output,
  an accepted request completes and every handler answers. The ingress count covers the executor's,
  so the executor refuses a request that the service admitted only because of a request whose
  handler has left and whose work has not (`LateOverloadNeedsLingerer`).
* `scheduler`: the admission path never reaches one of its `logic_error`s, backfill never
  takes the room promised to the head, the frontier is the earliest one, projected work is never
  less than what is left, and every request ends. `SchedulerStateAgrees` joins the type invariant,
  the single staged prefill and the agreement of cached plans with their lanes.
* `pool`: `PagesAreAccounted` joins the partition of pages, the totals and the backing of every
  entitlement; the others say that a bound row names the pages of its lane, that a bundle exists in
  all pools or in none, and that a validated step cannot fail half-way.
* `worker_pool`: no worker sleeps while it is needed unless a notification is on its way; every
  `enqueue` and the destructor return; the pool implements `TaskQueue` with its fairness.
* `media`: one builder per key, both byte limits, nobody waits for bytes that only it can free, no
  task outlives the frame it refers to, a successful `process` has every payload, and every
  preparation ends.
* `response_store`: both limits with shared nodes counted once; eviction takes the least recently
  used, and no more than is needed; a response whose answer arrived is stored unless it was evicted
  or deleted.
* `decoders`: what has been streamed is a prefix of what the whole output decodes to, all of it at
  the end, which comes at the first token that completes a stop string; reasoning tokens are counted
  exactly. `streams`: nothing that may become a call is streamed and nothing else is held; the
  terminal event is the only one, and it agrees with the deltas in either order of the channels.
  Where thinking comes first, items and blocks live once and in order (`ThinkingFirstKeepsOrder`);
  in the other order they do not, which `muse_streams` shows.
* `lane`: after chunks, partly accepted rounds, bridges, restored checkpoints, aborts and failing
  rounds, the state a lane continues from, its draft state and its checkpoint are those of the
  ledger the next prompt is compared with, and no internal check fires. The run has one lane and
  media at the end of prompts. There are two cases outside, in which the code departs from the
  ledger: `lane_shared_ingress`, and plain text behind media, the instance `MCLaneMedia.cfg` of
  `MCSequenceLane` that is no run of its own (section 6).

Why the bounds suffice. `requests`: two outstanding requests and a third that is refused exercise
the limit; one lane makes queue and lane non-empty together when a unit throws (the proofs cover
every larger instance). `scheduler`: three lanes are needed for a donor, another incumbent and a
backfill at once, and the shapes (one, two and four of five pages) make a blocked head with one or
two donors, persistent and temporal backfill, and the drain phase reachable. They contain a request
that decodes while another one is admitted, a prompt of several steps split at a checkpoint and one
larger than the pool, so reuse at the frontier, at a checkpoint, exact hits, eviction and rejection
happen; a prompt longer than the context, which leaves the queue in the same way, is left to the
proofs. `pool`: one
pool can be full while the other has room, and runs and fragments both occur; stale contents of
block-table rows that no row in use can read are hidden by the view `ReadableState`. `worker_pool`:
two tasks in the queue, so that their order matters, and at the same time two producers that wait
for room; two sleeping workers. `media`: the three loads make sharing
(with a repeated part and a request stopped anywhere), contention (one request too large, one that
does not decode) and a request that holds cached bytes beyond its own limit (section 6) happen.
`response_store`: three small records break the record limit and not
the byte limit, with the long turn the byte limit binds first, and a chain that contains it can be
too large by itself. `decoders`: the longest marker, header and stop string fit twice into the
budgets. `lane`: the capacity allows a prompt, several rounds, a continuation and a rewritten
ending. `streams`: a marker in two pieces, text before and after a call, and white space between;
the Muse session has room for thought after text and for text after that.

Runs with a natural end have a stuttering step for it (`Quiescent`, `Terminated`, `Finished`);
`worker_pool`, `response_store`, `decoders` and `streams` stop when the pool is joined, every handler
is through, or the output is over, and do not check deadlock.

## 4. Fairness

* `RequestLifecycle`: the worker is a thread that is never blocked while it has work
  (`WF(WorkerStep)`), a completion under way proceeds (`WF` of `CompleteSetDone`: publishing the
  last text is a bounded loop), an active request ends (`SF(FinishActive)`: its `GenerationBudget`
  is finite and each round commits at least one token, which `AdmissionScheduler` models in detail),
  and a client that entered `submit` or `wait` returns and waits for or drops its `Submission`
  (`WF(ClientStep)`). Clients need not submit or cancel.
* `GenerationService` keeps these and adds the handlers' steps. `AdmissionScheduler`:
  `WF(WorkerStep)` only; units may throw but never have to.
* `HostWorkerPool`: one condition per thread. Nothing makes a caller enqueue, a checkpoint throw, or
  a wait end without notification. `TaskQueue` promises that a waiting task starts and a running one
  ends.
* `MediaCache`: requests that can step do, tasks on a worker proceed, a free worker takes a task, and
  prompts are released in the end (the executor's part, `AcceptedRequestCompletes`). The deadline of
  a request that has one and cannot be cancelled passes in the end: time does. Only the load
  `Oversized` has such a request; the others end without it.

Where a set of threads shares one condition (`\E r : ...`), every thread takes finitely many steps
before it ends or blocks, so the weaker-looking union already forces each of them through; it keeps
the liveness tableau small. For the same reason "everyone who enters leaves" is stated as
`<>[](nobody is inside)`: only finitely many requests exist in an instance.

## 5. Proofs

`RequestProofs` proves, for every finite set of requests and all limits allowed by
`LifecycleAssumption` (positive `MaxConcurrency`, `MaxOutstanding` above it), that `Spec` implies
the first three invariants of the run `requests` and three more: `TypeOK` (`TypeCorrect`),
`CapacityHeldUntilBothLeave` (`CapacityLifetime`) and `NoWaiterOutlivesWorker`
(`NoWaiterLeftBehind`). The properties are not inductive by themselves: that `outstanding_` counts
the holders needs to know, at each decrement, that the request is still counted, and that depends on
which side has already left. `LifecycleInv` therefore adds

* `ConsumerSide`: `consumer_released` holds exactly in the client states after `release_consumer`,
  a request is only done if it was enqueued, and whoever stands before the decrement has set
  `capacity_released`;
* `WorkerSide`: requests being marked or returned are done, `failed_` is raised exactly in the
  worker's last two states, and then the queue and the lanes are empty.

`LifecycleInvariant` proves it action by action; the cardinality of `Holders` is handled by
lemmas about adding and removing one element (from `FiniteSetTheorems`). The other theorems
follow from it; `NoOutputLost` has its own short induction on top, because the last events are
published before `done` is set.

It also proves the refinement (`LifecycleImplementsService`): under `LifecycleInv`
every step of a thread maps to one step of the abstract service or leaves its image unchanged.
The lemma `ImageStep` reduces this to the one request whose client, `done` flag or holding changed.

Its second part is about `GenerationService`. The handlers take each client step of the executor or none, so
`ServiceSpec` implies `Spec` of `RequestLifecycle` (`ServiceUsesExecutor`) and everything above
carries over. `ServiceInv` adds `HandlerSide`, which says where the client of a handler can be and
that an answered handler's request holds a place in the executor only if it was cancelled. From it
follow `IngressCoversExecutor` and `LateOverloadNeedsLingerer`. The second one is a counting
argument: were nobody lingering, the holders would be among the handlers inside, of which the one
about to submit holds nothing.

`AdmissionSchedulerProofs`. For every number of requests and lanes, all page counts, windows, chunk
sizes, prompts and relations between prompts allowed by `SchedulerAssumption` (no speculation, MTP or
DFlash; the runs use the first two), `Spec` implies the six
safety properties of the run `scheduler`. They hold as parts or consequences of one
inductive invariant, `IInv`, because each needs the others at some step:

* `OneStagedPrefill`, `PlansMatchLanes`, `NoEarlyPlans`, `ControlState`: which lanes, plans and
  staged prefill may exist at each place of the worker (`pc`). A plan that is used describes its lane
  as it is now.
* `LaneProgress` bounds what a lane has mapped and computed by what its request was promised; with it
  `ServiceWorkSuffices` survives every chunk and every round, so the policy never counts a request as
  finished before it is. The lemma `Settle` is the common end of boundary, prefill and decode steps.
* `PoolsNeverOvercommitted` needs that an admission is preceded by evictions that suffice: what the
  evictions in lane order leave is exactly the room the plan was checked against. `RoomMeansLane`
  adds that room beside the active requests implies a lane after eviction, so a head that is blocked
  has incumbents to wait for and the policy always finds a frontier.
* `ChoiceStands` keeps what was found when the request was chosen (its plan fits, its backfill is
  safe) true while clients submit and cancel until the worker acts on it.
* `HeadProtected` is the reservation: whoever became active since the head was protected is a
  backfill of its epoch, and the head fits beside the `Keepers`, those that are neither donors nor
  temporal borrowers of the epoch. A persistent backfill joins the keepers only if the head still
  fits with it; a temporal one never does. From it follow `HeadKeepsItsReservation`, and
  `AdmissionNeverFaults` when the head's turn comes. `NoEarlierFrontier` shows that the prefix of
  incumbents the code takes is the first sufficient one (`FrontierIsEarliest`).

`SequenceLaneProofs`. For every set of lanes, every backend, capacity, draft and target window
(`WideWindow` at least `DraftWindow`), chunk size, and all prompts that fit the capacity with their
output (`OptionsAssumption`), `Spec` implies `CallsNeverFault`. The checks of an operation are about
one lane, but hold because of what other operations left there, so `LanesInv` says for each phase of
a request (`Staged`, `Begun`, `Decoding`, `OrdinaryRound`, `SpeculativeRound`, `Kept`, `Cleared`) how
frontiers, ledger, pending round and bundle relate. The entitlement is the least obvious part: a bound
lane is entitled to exactly its execution frontier and the tokens it may still produce, and to the
backend's share of that (`BundleCovers`); every chunk, round and partly kept round moves both by the
same amount, which is why the last rounds' drafts never ask for more than was reserved.
`Committed` is what the three ways to commit tokens have in common before the bundle is trimmed.

Its second part is about what the device state was computed from. `ContentInv` says of each lane
(`Holds`) that the recurrent state has exactly the columns of the valid prefix and the KV at least
those (`Resident`), that a checkpoint has exactly those of its frontier (`CheckpointHolds`), and what
each phase has beyond that: a staged prefill knows the positions of its suffix and has captured the
checkpoint it has passed (`StagedHolds`), a speculative round has, behind the frontier, the anchor
and the licensed tokens in the order in which a partial commit appends them to the ledger
(`RoundHolds`), and a lane that will decode ends at the position its length and `rope_delta` give
(`LastPosition`). None of this is visible in the properties, but a commit that keeps some tokens of
a round, or a prompt that starts at the frontier or at the checkpoint, is right only because of it.
One case is excluded, the start described in section 6 whose media all lie in the reused prefix
(`BlindStart`): there the code itself departs from the ledger. So the theorems say: in every
behaviour without a step `BlindStart`, `ContinuationMatchesLedger` holds (`LaneContinuation`), the
part of `CheckpointMatchesLedger` that all backends share holds (`TextCheckpoint`), and without
DFlash all of it (`LaneCheckpoint`, which adds that the MTP cache keeps pace with the Text KV between
two chunks). `LanesWithMediaLast` shows that no such step exists if prompts with media end with
media, as in the run, or have none.

Its third part is about the state of the speculative backend. For MTP, `MtpInv` (`MtpHolds`) says
that every valid row comes from its column and the token behind it, that no bridge is left over
between two chunks, and that the rows of a pending round are those its verdict will make valid
(`RoundRows`). The row before a reused prefix's end is the one that needs care: it was computed for
another successor and is rewritten before the suffix's first chunk, or at an exact hit when the first
token is sampled. For DFlash, `DraftInv` (`DraftHolds`) says that the context has exactly the columns
below `dflash_context_frontier`, that its copy has those of the checkpoint, and that the features of
the last round begin with the columns that the context still lacks (`DraftWaits`). The context is
cyclic, so an append anywhere but at its end would lose columns; the proof has to show that none
happens. One step of the code does not keep this: the chunk of section 6 whose features reach the
context of another lane (`StrayFeed`). So `LaneBackend` proves `BackendMatchesLedger` without DFlash,
`LaneDraft` proves `BackendMatchesLedger` and all of `CheckpointMatchesLedger` with every backend and
any number of lanes in behaviours without a step `StrayFeed`, and `OneLaneDraft` that a single lane,
as in the run, has no such step.

`PagedKVPoolProofs`. For all finite sets of lanes, one or two pools, and positive page counts and
capacities (`PoolAssumption`; `NoRowAssumption` keeps the row number for "unbound" apart from the
rows). `PoolInv` is proved as five sides that different operations disturb: pages (each page free
or mapped once), promises (totals are sums, an entitlement covers what is mapped), rows and tables,
relations across pools, and the progress of the operation under way. The last one is what makes the
rest inductive: between two pools of a bundle it knows which pools already changed and that the
validation made before the first still holds for the second. The sums are handled by the lemmas
on totals (a changed value changes the total by the difference).

`HostWorkerPoolProofs`. For all finite non-empty sets of workers and positive queue sizes.
`WorkerPoolInv` adds to `NoSleeperIsForgotten` that tasks are in one place at most. The counting
argument behind it: a worker falls asleep only on an empty queue, and a push adds its own
notification to `Announcing`, which turns a sleeper into a looking worker. `ImplementsTaskQueueSafety`
shows that every step is a step of `TaskQueue` or invisible; its fairness is left to the run.

`MediaCacheProofs`. For all sets of loads whose requests are finite in number and have at least one
part, positive sizes, and an account that holds at least one request of the maximal size, which
`media_cache.cpp:190` checks (`BytesAssumption`, `PartsAssumption`, `PoolAssumption`).
`CacheInv` consists of the map of flights (`MapInv`: one entry per key, exactly the flights not yet
erased), the queue, and per request or part `LoopOf` (how far `process` has come), `HoldingsOf`
(what pending items and prompt refer to), `FlightOf` (a flight's outcome and its task's progress)
and `AwaitedOf` (a task that uses the frame is one of the items still to be awaited). The byte
limits need that an eviction is enough for the payload it makes room for, and that the LRU keeps a
prefix within its capacity. `CacheAgrees` also proves `NoWaitForOwnBytes`: a request within the
limit never waits for bytes that only it can return.

`ResponseStoreProofs`. For all sets of responses and sizes, and positive limits
(`LimitsAssumption`, `BytesAssumption`); no finiteness of the set of responses is needed. `StoreInv`
adds that records and handlers agree (a record belongs to a response that was put) and that the list
is ordered by last use. `EvictionByNeed`, an action property, follows: what `put` keeps is a prefix
of the list, so its victims are the least recently used, and the prefix with one record more is
beyond a limit because the loop keeps the longest one that fits. The new record alone fits because
of the check of its standalone size.

No property of the constants beyond the named assumptions is used; TLC evaluates them in the runs.
The inductive invariants `LifecycleInv`, `ServiceInv`, `IInv`, `LanesInv`, `ContentInv`, `MtpInv`,
`DraftInv`, `PoolInv`, `WorkerPoolInv`, `CacheInv` and `StoreInv` were model-checked on the instances
of the runs before they were proved, `DraftInv` also for the two lanes of `MCLaneShared.cfg` without
stray feeds.

Only model-checked: all liveness properties and the fairness half of `ImplementsTaskQueue` (out of
the prover's reach); what the recursive decoders, the parser and their reference definitions
compute (induction over data); and the properties of the streams, which rest on them.

## 6. Findings

**FIFO order (run `fifo_doc`).** `docs/serving.md`, lines 653-654: "A later request waits in FIFO order
when the remaining shared pages cannot satisfy its complete entitlement". The executor admits later
requests ahead of a blocked head as backfill (`try_admit_one`). The run exhibits it in a few steps:
a request that needs the whole pool waits, and a one-page request behind it is admitted first.
`HeadKeepsItsReservation` and `EveryRequestEnds` show what the code guarantees instead: the head
keeps its place and its room, and is never starved.

**Draft context of another lane (run `lane_shared_ingress`).** `docs/serving.md`, lines 666-668:
"Both checkpoint kinds include the recurrent, hidden, and selected speculative-backend continuation
state required to recompute a rewritten suffix". `start_prefill_lane` writes the lane of a DFlash
prefill to row 0 of one ingress frame (`program_impl.h:616`); a decode round or a terminal append
between two chunks writes its own lanes there, so the next chunk's features reach another lane's
draft context. With two lanes `BackendMatchesLedger` is violated, and a checkpoint captured after
that has the wrong copy of the context. Drafts are verified by the target, so only their acceptance
suffers. `LaneDraft` (section 5) shows that nothing else makes the context depart from the ledger.

**Thought after an answer (run `muse_streams`).** A Muse session may open a
message to itself after one to the user. `docs/serving.md`, lines 380-381, puts the deltas of an
item before its "matching `*.done`" events, and line 385 says that "concatenated deltas equal the
terminal Item". `ResponsesEventStream` has one reasoning item, which content closes
(`responses_schema.cpp:1137`): a later thought adds deltas behind the item's
`response.output_item.done`, which lacks them (`ItemsLiveOnce`); if the answer came first, the item
is announced behind the message that the terminal output lists after it. The terminal object itself
has all the text (`EndTellsWhatWasStreamed`). In the Messages stream a thought after text opens its
block inside the open text block (`http_server.cpp:660`), where `anthropic_schema.h:42` says
"thinking blocks precede the text block, tool_use blocks follow" (`BlocksFollowEachOther`).
The run streams one generation to both APIs and asks that one of the two keeps its order: thought,
text and thought again breaks both.

Further disagreements between text and code that were met while modelling; the models follow the
code:

* `docs/serving.md:630` speaks of "one preparation permit" for media; `media_cache.cpp:178` grants
  as many as requests of the maximal size fit into the live bytes (`MediaCache`, setup `Shared`).
* `docs/cli.md:138` allows Muse draft windows up to fifteen; the Muse session's `preview` throws at
  the third delta of a round that alternates between channels (`frontend.cpp:419`), which long rounds
  make possible.
  `AtemDecoder` ends such a session as an error.
* `docs/serving.md:382` lists three terminal events; `responses_schema.cpp:1262` has
  `response.cancelled` as well.
* `docs/serving.md:194`: the gate "prevents concurrent partial builds from deadlocking the memory
  account", and line 198: "A media preprocessing resource rejection returns HTTP 400". A request
  beyond the limit is normally rejected by the claims of its tasks (`ConcurrentMediaBudget`), but
  parts found in the cache make no claim (`processor.cpp:267`). If the first parts are hits, the
  request can hold the bytes that its own later task waits for in `allocate_payload`: then only its
  deadline or a cancellation ends it. The load `Oversized` of `media` is this case; without the
  deadline `PreparationEnds` fails for it. `NoWaitForOwnBytes`, proved, shows that requests within
  the limit cannot get there.
* `docs/serving.md:659`: a prefix hit "requires matching token types, three-axis MRoPE positions",
  and line 661: "Media wholly inside a matched prefix skips Vision execution". The identity that is
  compared records the prompt's positions, but a suffix without media of its own is prefilled by a
  `TextContext` whose `rope_delta_` starts at 0 and is set by multimodal chunks only
  (`text_context_impl.h:1056`): behind a reused prefix with media its positions lack the media's
  offset. `ChunkColumns` models this, and `tlc -config MCLaneMedia.cfg MCSequenceLane` violates
  `ContinuationMatchesLedger` with a prompt of media and its continuation in plain text.
  `LaneContinuation` (section 5) shows that every other suffix is right.
* Muse output that ends inside a header publishes the header's text as content.

## 7. Not modelled, and why

Most of the repository's lines are CUDA operators, their launchers and their dispatch tables:
numerical code without protocol state, which TLC cannot execute and for which a model would say
nothing. The share of the implementation that these models stand for is therefore small by line
count; it is the part with control, sharing and failure. Also left out:

* Muse Glimmer's program: the structure of the Qwen3.6 one on kernels of its own, a single pool, and
  no recurrent state; its output session is modelled.
* Arenas, layouts, cyclic caches, CUDA graph capture: static address arithmetic and driver calls.
* JSON schemas, HTTP parsing, logs, options, tokenizer, chat template, media decoding: one input
  into one output. The Chat Completions stream keeps no state besides the filter.
* Artifact loading: sequential input and output before the engine exists.
* Request memory: a bump allocator reset for each staged prefill, of which `SchedulerStateAgrees`
  allows one. KV capacity: start-up arithmetic.
* Vision items add splits to a prefill and to its projected work; `SequenceLane` has media positions
  but not the splits.
* Statistics and timings are never read back by the control flow. A failing host allocation inside a
  completion (`std::bad_alloc` while an output is appended after the request left the queue) is
  outside the models, and so is a restart: nothing is persisted.

## 8. Plan

1. `AdmissionScheduler`'s `entitled` as the abstraction of `PagedKVPool`, composed with it.
2. `KvCapacity` as operators checked against a reference definition; vision splits in `SequenceLane`
   and in the projected work; the lane of the Muse program.
