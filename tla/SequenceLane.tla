----------------------------- MODULE SequenceLane -----------------------------
(***************************************************************************)
(* The lanes of the Qwen3.6 program (runtime/program_impl.h): what each    *)
(* lane's SequenceState and RequestControl say about the device state they *)
(* describe.  A request is planned and prefilled in chunks, decoded one    *)
(* token at a time or speculatively (MTP, DFlash), resolved, and its lane  *)
(* is retained, so that a later prompt may continue from the frontier or   *)
(* from a rewrite checkpoint.                                              *)
(*                                                                         *)
(* Numbers of the model are replaced by what they were computed from.  An  *)
(* entry <<token, position>> stands for one column of the transformer; a   *)
(* recurrent state, a KV prefix and a hidden vector are each the sequence  *)
(* of entries behind it.  A column computed from a recurrent state and a   *)
(* KV prefix that disagree, and a column of a rejected draft, is Garbage.  *)
(*                                                                         *)
(* External: the executor that calls these operations, one at a time from  *)
(* its worker thread: at most one prefill is staged, every active lane     *)
(* takes part in a decode round, and every round is resolved before the    *)
(* next call (AdmissionScheduler).                                         *)
(***************************************************************************)
EXTENDS Integers, Sequences, FiniteSets, FiniteSetsExt, SequencesExt

CONSTANTS
    Lanes,          \* a set of integers, 0..max_concurrency - 1
    Tokens,         \* tokens the model may sample
    Media,          \* the token that stands for a media item
    PrefillChunk,
    Setups          \* the programs considered, see options

ASSUME OptionsAssumption ==
    /\ Lanes \subseteq Nat /\ Lanes # {}
    /\ PrefillChunk \in Nat \ {0}
    /\ \A o \in Setups :
         /\ o.backend \in {"None", "Mtp", "DFlash"}
         /\ o.capacity \in Nat
         /\ o.draft_window \in Nat \ {0}
         /\ o.wide_window \in Nat /\ o.wide_window >= o.draft_window
         /\ \A p \in o.prompts : /\ p.tokens \in Seq(Tokens \union {Media})
                                 /\ Len(p.tokens) \in 1..o.capacity
                                 /\ p.checkpoint \in 0..Len(p.tokens)
                                 /\ p.kind \in {"turn", "replay"}
                                 /\ p.output \in 1..(o.capacity - Len(p.tokens) + 1)

VARIABLES
    options,    \* how the program was started, and the prompts it is given
    sequence,   \* sequence[l]: SequenceState
    request,    \* request[l]: RequestControl
    device,     \* device[l]: what the lane's device state was computed from
    ingress,    \* lane in row 0 of the DFlash ingress frame
    fault       \* an operation found its state inconsistent and threw

vars == <<options, sequence, request, device, ingress, fault>>

Backend     == options.backend          \* speculative_backend
Capacity    == options.capacity         \* in tokens
DraftWindow == options.draft_window     \* draft_window
WideWindow  == options.wide_window      \* dflash_target_window
Prompts     == options.prompts          \* [tokens, checkpoint, kind, output]; checkpoint 0: none

-----------------------------------------------------------------------------
(* Entries                                                                 *)

Garbage == <<"?", 0>>
Upto(q, n) == [i \in 1..n |-> IF i <= Len(q) THEN q[i] ELSE Garbage]
Scrap(n) == [i \in 1..n |-> Garbage]
(* A state that is to have been computed from n columns.                   *)
Context(q, n) == IF Len(q) = n THEN q ELSE Scrap(n)

(* Positions of a prepared prompt: a media item spans fewer positions than *)
(* columns, which is what rope_delta makes up for.                         *)
PromptPosition(tokens, i) == i - 1 - Cardinality({j \in 1..(i - 1) : tokens[j] = Media})
RopeDelta(tokens) == -Cardinality({j \in DOMAIN tokens : tokens[j] = Media})

(* What the token ledger and the prefix identity say of the first n columns. *)
Identity(s, n) == [i \in 1..n |-> <<s.ledger[i], s.positions[i]>>]

(* Columns at n + 1, ...: sound if the recurrent state and the KV agree.   *)
Columns(d, n, entries) ==
    IF Len(d.linear) = n /\ Upto(d.kv, n) = d.linear THEN entries ELSE Scrap(Len(entries))

(* Rows of the MTP cache: row i comes from column i and token i + 1.       *)
MtpRows(columns, next) == [i \in 1..Len(columns) |-> <<columns[i], next[i]>>]
Shifted(columns) == [i \in 1..(Len(columns) - 1) |-> columns[i + 1][1]]
MtpWrite(mtp, n, hidden, next) ==
    LET before == SubSeq(hidden, 1, n)
        sound == \/ n = 0
                 \/ Upto(mtp, n) = MtpRows(before, Shifted(SubSeq(hidden, 1, n + 1)))
    IN  Upto(mtp, n) \o (IF sound THEN MtpRows(SubSeq(hidden, n + 1, Len(hidden)), next)
                                  ELSE Scrap(Len(hidden) - n))

(* dflash_append_context.  The local cache is cyclic: appending anywhere   *)
(* but at its end has lost columns.                                        *)
DraftAppend(draft, start, columns) ==
    IF start = 0 \/ Len(draft) = start THEN SubSeq(draft, 1, start) \o columns
                                       ELSE Scrap(start + Len(columns))

-----------------------------------------------------------------------------
(* State                                                                   *)

NoKV == [text |-> 0, textMapped |-> 0, backend |-> 0, backendMapped |-> 0, bound |-> FALSE]
NoCheckpoint == [valid |-> FALSE, kind |-> "turn", frontier |-> 0]
NoPending == [kind |-> "none", base_E |-> 0, base_S |-> 0, prompt_tokens |-> 0,
              tokens |-> << >>, next |-> 0]
NoPrefill == [prompt |-> << >>, base |-> 0, cursor |-> 0, capture |-> 0, kind |-> "turn",
              extent |-> 0, bridge |-> "none", restored |-> FALSE, vision |-> FALSE]

ClearedSequence ==
    [kv |-> NoKV, execution_frontier |-> 0, ledger_frontier |-> 0, ledger |-> << >>,
     positions |-> << >>, rope_delta |-> 0, text_kv_valid |-> 0, mtp_kv_valid |-> 0,
     dflash_context_frontier |-> 0, mtp_draft_count |-> 0, tail_hidden_valid |-> FALSE,
     retained |-> FALSE, rewrite_checkpoint |-> NoCheckpoint]
ClearedRequest ==
    [lifecycle |-> "Empty", pending |-> NoPending, prefill |-> NoPrefill, remaining |-> 0]

Init ==
    /\ options \in Setups
    /\ sequence = [l \in Lanes |-> ClearedSequence]
    /\ request = [l \in Lanes |-> ClearedRequest]
    /\ device = [l \in Lanes |-> [linear |-> << >>, kv |-> << >>, tail |-> << >>,
                                  mtp |-> << >>, draft |-> << >>, round |-> << >>,
                                  linearCheckpoint |-> << >>, hiddenCheckpoint |-> << >>,
                                  draftCheckpoint |-> << >>]]
    /\ ingress = Min(Lanes)
    /\ fault = FALSE

(* clear_lane; the device buffers keep what they hold.                     *)
ClearLanes(lanes) ==
    /\ sequence' = [l \in Lanes |-> IF l \in lanes
                                      THEN [ClearedSequence EXCEPT !.rope_delta =
                                              sequence[l].rope_delta]
                                      ELSE sequence[l]]
    /\ request' = [l \in Lanes |-> IF l \in lanes THEN ClearedRequest ELSE request[l]]

(* A consistency check throws: the lanes of the call are cleared (the      *)
(* checks of a decode call that come before its try block leave them as    *)
(* they are; `fault` is set in either case, and proved never to be).       *)
Throw(lanes) ==
    /\ ClearLanes(lanes)
    /\ fault' = TRUE
    /\ UNCHANGED <<device, ingress>>

Quiet == \A l \in Lanes : request[l].lifecycle # "Pending"
Free(l) == request[l].lifecycle \in {"Empty", "Complete"}

-----------------------------------------------------------------------------
(* The KV bundle, in tokens                                                *)

HasBackend == Backend # "None"
BackendValid(s) == CASE Backend = "Mtp" -> s.mtp_kv_valid
                     [] Backend = "DFlash" -> s.dflash_context_frontier
                     [] OTHER -> 0

Trim(kv, main, backend) ==
    [kv EXCEPT !.textMapped = Min({@, main}), !.backendMapped = Min({@, backend})]
Materialize(kv, main, backend) ==
    [kv EXCEPT !.textMapped = Max({@, main}), !.backendMapped = Max({@, backend})]
Backed(kv) == kv.textMapped <= kv.text /\ kv.backendMapped <= kv.backend
TrimFits(s) == /\ s.text_kv_valid <= Capacity
               /\ BackendValid(s) <= s.text_kv_valid
ReleaseGrowth(kv) ==
    [kv EXCEPT !.text = kv.textMapped, !.backend = kv.backendMapped, !.bound = FALSE]

Reserved(p) == Len(p.tokens) + p.output - 1
(* Faulty variant: no room for the drafts proposed past the last token.    *)
BackendReservedTight(p) == IF HasBackend THEN Reserved(p) ELSE 0

BackendReserved(p) ==
    CASE Backend = "Mtp" -> Min({Capacity, Reserved(p) + DraftWindow - 1})
      [] Backend = "DFlash" -> Reserved(p)
      [] OTHER -> 0

-----------------------------------------------------------------------------
(* plan_request_for_lane                                                   *)

PrefixMatches(p, s, n) ==
    /\ n <= Len(p.tokens)
    /\ n <= Len(s.ledger)
    /\ \A i \in 1..n : /\ p.tokens[i] = s.ledger[i]
                       /\ PromptPosition(p.tokens, i) = s.positions[i]

AppendCandidate(p, s) ==
    /\ s.retained
    /\ s.execution_frontier # 0
    /\ Backend = "DFlash" => s.dflash_context_frontier = s.execution_frontier
    /\ PrefixMatches(p, s, s.execution_frontier)

RestoreCandidate(p, s) ==
    /\ s.retained
    /\ s.rewrite_checkpoint.valid
    /\ s.rewrite_checkpoint.frontier # 0
    /\ PrefixMatches(p, s, s.rewrite_checkpoint.frontier)

BackendReady(s, base) ==
    /\ Backend = "Mtp" => s.mtp_kv_valid >= base - 1
    /\ Backend = "DFlash" => s.dflash_context_frontier >= base

(* An append the MTP cache is not ready for becomes a full reset, not a    *)
(* restore.                                                                *)
ReusePath(p, s, allowed) ==
    LET append == allowed /\ AppendCandidate(p, s)
        restore == allowed /\ ~append /\ RestoreCandidate(p, s)
    IN  CASE append /\ (Backend = "Mtp" => s.tail_hidden_valid)
                    /\ BackendReady(s, s.execution_frontier)
               -> [path |-> "append", base |-> s.execution_frontier]
          [] restore /\ BackendReady(s, s.rewrite_checkpoint.frontier)
               -> [path |-> "restore", base |-> s.rewrite_checkpoint.frontier]
          [] OTHER -> [path |-> "reset", base |-> 0]

CheckpointAction(p, s, plan) ==
    CASE p.checkpoint = 0 -> "drop"
      [] /\ p.checkpoint # 0
         /\ plan.path # "reset"
         /\ s.rewrite_checkpoint.valid
         /\ s.rewrite_checkpoint.frontier = p.checkpoint
         /\ PrefixMatches(p, s, p.checkpoint) -> "keep"
      [] OTHER -> IF p.checkpoint > plan.base THEN "capture" ELSE "defer"

(* Faulty variant: the row before the suffix is left as it was.            *)
BridgeModeNever(p, plan) ==
    IF Backend # "Mtp" \/ plan.base < Len(p.tokens) THEN "none" ELSE "after exact hit"

BridgeMode(p, plan) ==
    IF Backend # "Mtp" \/ plan.path = "reset" THEN "none"
    ELSE IF plan.base < Len(p.tokens) THEN "before suffix" ELSE "after exact hit"

InitialExtent(p) ==
    IF Backend # "Mtp" THEN 0
    ELSE Min({DraftWindow, Max({p.output - 2, 0}), Max({Capacity - Len(p.tokens) - 1, 0})})

-----------------------------------------------------------------------------
(* start_prefill_lane                                                      *)

(* What the lane is checked for before its state is reused.                *)
Reusable(s, plan) ==
    plan.path = "reset" \/ /\ s.kv.text # 0
                           /\ ~s.kv.bound
                           /\ s.text_kv_valid >= plan.base
                           /\ BackendReady(s, plan.base)
                           /\ (plan.path = "append" /\ Backend = "DFlash") =>
                                 s.dflash_context_frontier = plan.base

(* The frontiers as the reuse path leaves them.                            *)
StartFrontiers(s, plan) ==
    [s EXCEPT !.text_kv_valid = plan.base,
              !.mtp_kv_valid = IF Backend = "Mtp" THEN Max({plan.base - 1, 0}) ELSE 0,
              !.dflash_context_frontier = IF Backend = "DFlash" THEN plan.base ELSE @]

StartBundle(s, p, plan) ==
    LET kept == IF plan.path = "reset" THEN NoKV ELSE Trim(s.kv, plan.base, BackendValid(s))
        ends == Len(p.tokens) + Max({InitialExtent(p) - 1, 0})
    IN  Materialize([kept EXCEPT !.text = Reserved(p), !.backend = BackendReserved(p),
                                 !.bound = TRUE],
                    Len(p.tokens),
                    CASE Backend = "Mtp" -> Min({Capacity, ends})
                      [] Backend = "DFlash" -> Len(p.tokens)
                      [] OTHER -> 0)

(* Faulty variant: the checkpoint to be replaced stays valid.              *)
StartCheckpointStale(s, p, plan) ==
    IF CheckpointAction(p, s, plan) = "drop" THEN NoCheckpoint ELSE s.rewrite_checkpoint

StartCheckpoint(s, p, plan) ==
    CASE CheckpointAction(p, s, plan) \in {"drop", "capture"} -> NoCheckpoint
      [] CheckpointAction(p, s, plan) = "keep" -> [s.rewrite_checkpoint EXCEPT !.kind = p.kind]
      [] OTHER -> s.rewrite_checkpoint

StartSequence(s, p, plan) ==
    LET f == StartFrontiers(s, plan)
    IN  [f EXCEPT !.kv = StartBundle(f, p, plan),
                  !.retained = FALSE,
                  !.rope_delta = RopeDelta(p.tokens),
                  !.rewrite_checkpoint = StartCheckpoint(s, p, plan),
                  !.mtp_draft_count = 0,
                  !.tail_hidden_valid = /\ plan.base = Len(p.tokens)
                                        /\ plan.path = "restore" \/ s.tail_hidden_valid,
                  !.ledger = p.tokens,
                  !.positions = [i \in DOMAIN p.tokens |-> PromptPosition(p.tokens, i)]]

(* Faulty variant: a restore does not copy the recurrent state back.       *)
StartDeviceUnrestored(d, p, plan) ==
    CASE plan.path = "reset" -> [d EXCEPT !.linear = << >>]
      [] plan.path = "append" -> d
      [] plan.path = "restore" ->
           [d EXCEPT !.draft = IF Backend = "DFlash" THEN d.draftCheckpoint ELSE @,
                     !.tail = IF plan.base = Len(p.tokens) THEN d.hiddenCheckpoint ELSE @]

StartDevice(d, p, plan) ==
    CASE plan.path = "reset" -> [d EXCEPT !.linear = << >>]
      [] plan.path = "append" -> d
      [] plan.path = "restore" ->
           [d EXCEPT !.linear = d.linearCheckpoint,
                     !.draft = IF Backend = "DFlash" THEN d.draftCheckpoint ELSE @,
                     !.tail = IF plan.base = Len(p.tokens) THEN d.hiddenCheckpoint ELSE @]

StartPrefill(s, p, plan) ==
    [prompt |-> p.tokens, base |-> plan.base, cursor |-> plan.base,
     capture |-> IF CheckpointAction(p, s, plan) = "capture" THEN p.checkpoint ELSE 0,
     kind |-> p.kind, extent |-> InitialExtent(p), bridge |-> BridgeMode(p, plan),
     restored |-> plan.path = "restore",
     vision |-> \E i \in (plan.base + 1)..Len(p.tokens) : p.tokens[i] = Media]

-----------------------------------------------------------------------------
(* advance_prefill                                                         *)

(* A chunk ends at the checkpoint that is to be captured.                  *)
ChunkEnd(st) ==
    LET nominal == Min({st.cursor + PrefillChunk, Len(st.prompt)})
    IN  IF st.cursor < st.capture /\ st.capture < nominal THEN st.capture ELSE nominal

(* TextContext starts at rope_delta 0, which only a multimodal chunk sets. *)
ChunkColumns(d, st) ==
    Columns(d, st.cursor,
            [j \in 1..(ChunkEnd(st) - st.cursor) |->
               LET i == st.cursor + j
               IN  <<st.prompt[i], IF st.vision THEN PromptPosition(st.prompt, i) ELSE i - 1>>])

Samples(st) == ChunkEnd(st) = Len(st.prompt)

BridgeMtp(d, st) ==
    IF st.bridge = "before suffix"
      THEN [d EXCEPT !.mtp = MtpWrite(@, st.base - 1,
                                      Context(IF st.restored THEN d.hiddenCheckpoint ELSE d.tail,
                                              st.base),
                                      <<st.prompt[st.base + 1]>>)]
      ELSE d

(* The drafts proposed after the last column leave rows of their own.      *)
MtpPrompt(mtp, n, hidden, next, st, token) ==
    LET written == MtpWrite(mtp, n, hidden, IF Samples(st) THEN Append(next, token) ELSE next)
    IN  written \o Scrap(IF Samples(st) THEN Max({st.extent - 1, 0}) ELSE 0)

ChunkDevice(d, st, token) ==
    LET columns == ChunkColumns(d, st)
        context == Context(d.linear, st.cursor) \o columns
        captured == ChunkEnd(st) = st.capture
        next == SubSeq(st.prompt, st.cursor + 2, Min({ChunkEnd(st) + 1, Len(st.prompt)}))
    IN  [d EXCEPT !.linear = context,
                  !.kv = Upto(@, st.cursor) \o columns,
                  !.tail = IF Samples(st) THEN context ELSE @,
                  !.mtp = IF Backend = "Mtp"
                            THEN MtpPrompt(@, st.cursor, context, next, st, token) ELSE @,
                  !.linearCheckpoint = IF captured THEN context ELSE @,
                  !.hiddenCheckpoint = IF captured THEN context ELSE @]

(* The whole prompt is resident: sample from the tail hidden.              *)
ExactHitDevice(d, st, token) ==
    IF Backend = "Mtp"
      THEN [d EXCEPT !.mtp = MtpPrompt(@, Len(st.prompt) - 1, Context(d.tail, Len(st.prompt)),
                                       << >>, st, token)]
      ELSE d

(* The feature sink appends a chunk's columns to the lane in row 0 of the  *)
(* ingress frame, and copies that lane's cache at the checkpoint.          *)
FeedDraft(devices, row, st, columns) ==
    LET draft == DraftAppend(devices[row].draft, st.cursor, columns)
    IN  [devices EXCEPT ![row].draft = draft,
                        ![row].draftCheckpoint =
                           IF ChunkEnd(st) = st.capture THEN draft ELSE @]

PrefilledSequence(s, st) ==
    LET n == ChunkEnd(st)
    IN  [s EXCEPT !.text_kv_valid = n,
                  !.mtp_kv_valid = IF Backend = "Mtp" THEN n ELSE @,
                  !.dflash_context_frontier = IF Backend = "DFlash" THEN n ELSE @]

FinishedSequence(s, st, token) ==
    LET n == Len(st.prompt)
    IN  [PrefilledSequence(s, st) EXCEPT
           !.ledger = Append(@, token),
           !.positions = Append(@, n + s.rope_delta),
           !.mtp_draft_count = st.extent,
           !.tail_hidden_valid = TRUE,
           !.rewrite_checkpoint = IF st.capture # 0
                                    THEN [valid |-> TRUE, kind |-> st.kind, frontier |-> st.capture]
                                    ELSE @]

StagedRequest(st, token, remaining) ==
    IF Samples(st)
      THEN [lifecycle |-> "Pending", prefill |-> NoPrefill, remaining |-> remaining,
            pending |-> [NoPending EXCEPT !.kind = "begin", !.prompt_tokens = Len(st.prompt),
                                          !.tokens = <<token>>]]
      ELSE [lifecycle |-> "Prefilling", pending |-> NoPending, remaining |-> remaining,
            prefill |-> [st EXCEPT !.cursor = ChunkEnd(st), !.bridge = "none"]]

(* One step of a staged prefill, from the state the caller brings it to.   *)
AdvancePrefill(l, s, st, d, row, remaining) ==
    LET exact == st.cursor = Len(st.prompt)
    IN  IF (exact => s.tail_hidden_valid) /\ Backed(s.kv)
          THEN \E token \in Tokens :
                 LET devices == [device EXCEPT ![l] =
                                   IF exact THEN ExactHitDevice(d, st, token)
                                            ELSE ChunkDevice(BridgeMtp(d, st), st, token)]
                 IN  /\ device' = IF Backend = "DFlash" /\ ~exact
                                    THEN FeedDraft(devices, row, st, ChunkColumns(d, st))
                                    ELSE devices
                     /\ sequence' = [sequence EXCEPT ![l] =
                                       IF Samples(st) THEN FinishedSequence(s, st, token)
                                                      ELSE PrefilledSequence(s, st)]
                     /\ request' = [request EXCEPT ![l] = StagedRequest(st, token, remaining)]
                     /\ ingress' = row
                     /\ UNCHANGED fault
          ELSE Throw({l})

StartPrefillLane(l) ==
    /\ Quiet
    /\ Free(l)
    /\ \A i \in Lanes : request[i].lifecycle # "Prefilling"
    /\ \E p \in Prompts, allowed \in BOOLEAN :
         LET s == sequence[l]
             plan == ReusePath(p, s, allowed)
         IN  IF Reusable(s, plan)
               THEN AdvancePrefill(l, StartSequence(s, p, plan), StartPrefill(s, p, plan),
                                   StartDevice(device[l], p, plan), l, p.output)
               ELSE Throw({l})

AdvancePrefillLane(l) ==
    /\ Quiet
    /\ request[l].lifecycle = "Prefilling"
    /\ AdvancePrefill(l, sequence[l], request[l].prefill, device[l], ingress,
                      request[l].remaining)
-----------------------------------------------------------------------------
(* decode_batch: a round over every active lane                            *)

Active == {l \in Lanes : request[l].lifecycle = "Active"}

DecodeReady(l) ==
    LET s == sequence[l]
    IN  /\ request[l].remaining > 0
        /\ s.kv.bound
        /\ s.execution_frontier < Capacity
        /\ s.ledger_frontier = s.execution_frontier + 1
        /\ Len(s.ledger) = s.ledger_frontier
        /\ Len(s.positions) = s.ledger_frontier
        /\ Backend = "Mtp" => /\ s.mtp_kv_valid = s.execution_frontier
                              /\ s.mtp_draft_count <= DraftWindow
        /\ Backend = "DFlash" =>
             /\ s.text_kv_valid = s.execution_frontier
             /\ s.dflash_context_frontier \in
                  (s.execution_frontier - WideWindow - 1)..s.execution_frontier

(* How many drafts a lane may have verified.  With DFlash they are the     *)
(* draft model's, or a copy from the context of any length (what the copy  *)
(* index finds is left open), in a wide round if that is needed or chosen. *)
Drafts(l, window) ==
    LET room == Min({request[l].remaining - 1, Capacity - sequence[l].execution_frontier - 1})
    IN  CASE Backend = "None" -> {0}
          [] Backend = "Mtp" -> {Min({sequence[l].mtp_draft_count, DraftWindow, room})}
          [] Backend = "DFlash" ->
               {Min({n, room}) : n \in {DraftWindow} \union 1..window}

Windows ==
    IF /\ Backend = "DFlash"
       /\ WideWindow > DraftWindow
       /\ \E l \in Active : sequence[l].execution_frontier
                              - sequence[l].dflash_context_frontier > DraftWindow + 1
      THEN {WideWindow}
      ELSE IF Backend = "DFlash" THEN {DraftWindow, WideWindow} ELSE {DraftWindow}

(* A round: the drafts verified, the tokens licensed (the accepted drafts  *)
(* and one more), and the drafts proposed for the next round.              *)
Rounds(l, window) ==
    UNION {[extent : {n},
            tokens : UNION {[1..k -> Tokens] : k \in 1..(n + 1)},
            next : IF Backend = "Mtp" THEN 0..DraftWindow ELSE {0}] : n \in Drafts(l, window)}

RoundBundle(s, round) ==
    LET e == s.execution_frontier
    IN  Materialize(s.kv, e + round.extent + 1,
                    CASE Backend = "Mtp" -> Min({Capacity, e + round.extent + DraftWindow})
                      [] Backend = "DFlash" -> e
                      [] OTHER -> 0)

(* The anchor, the accepted drafts, and the rejected ones.                 *)
RoundColumns(s, d, round) ==
    LET e == s.execution_frontier
        sound == <<Last(s.ledger)>> \o Front(round.tokens)
    IN  Columns(d, e, [j \in 1..Len(sound) |-> <<sound[j], e + j - 1 + s.rope_delta>>]
                        \o Scrap(round.extent + 1 - Len(sound)))

RoundDevice(s, d, round) ==
    LET e == s.execution_frontier
        columns == RoundColumns(s, d, round)
        context == Context(d.linear, e) \o SubSeq(columns, 1, Len(round.tokens))
        behind == e - s.dflash_context_frontier
    IN  [d EXCEPT !.kv = Upto(@, e) \o columns,
                  !.tail = context,
                  !.linear = IF Backend = "None" THEN context ELSE @,
                  !.round = IF Backend = "None" THEN @ ELSE columns,
                  !.mtp = IF Backend = "Mtp"
                            THEN MtpWrite(@, e, context, round.tokens)
                                   \o Scrap(Min({Capacity, e + round.extent + DraftWindow})
                                              - e - Len(round.tokens))
                            ELSE @,
                  !.draft = IF Backend = "DFlash" /\ behind > 0
                              THEN DraftAppend(@, s.dflash_context_frontier, Upto(d.round, behind))
                              ELSE @]

(* An ordinary round extends the ledger at once, a speculative one when it *)
(* is resolved.                                                            *)
RoundSequence(s, round) ==
    LET t == [s EXCEPT !.kv = RoundBundle(s, round)]
        e == s.execution_frontier
    IN  CASE Backend = "None" ->
               [t EXCEPT !.text_kv_valid = e + 1,
                         !.tail_hidden_valid = TRUE,
                         !.ledger = @ \o round.tokens,
                         !.positions = Append(@, Len(@) + s.rope_delta)]
          [] Backend = "Mtp" -> t
          [] Backend = "DFlash" -> [t EXCEPT !.dflash_context_frontier = e]

RoundPending(s, round) ==
    [kind |-> IF Backend = "None" THEN "ordinary" ELSE "speculative",
     base_E |-> s.execution_frontier, base_S |-> s.ledger_frontier, prompt_tokens |-> 0,
     tokens |-> round.tokens, next |-> round.next]

DecodeBatch ==
    /\ Quiet
    /\ Active # {}
    /\ IF \A l \in Active : DecodeReady(l)
         THEN \E window \in Windows :
              \E rounds \in [Active -> UNION {Rounds(l, window) : l \in Active}] :
                /\ \A l \in Active : rounds[l] \in Rounds(l, window)
                /\ IF \A l \in Active : Backed(RoundBundle(sequence[l], rounds[l]))
                     THEN /\ sequence' = [l \in Lanes |->
                               IF l \in Active THEN RoundSequence(sequence[l], rounds[l])
                                               ELSE sequence[l]]
                          /\ device' = [l \in Lanes |->
                               IF l \in Active
                                 THEN RoundDevice(sequence[l], device[l], rounds[l])
                                 ELSE device[l]]
                          /\ request' = [l \in Lanes |->
                               IF l \in Active
                                 THEN [request[l] EXCEPT
                                         !.lifecycle = "Pending",
                                         !.pending = RoundPending(sequence[l], rounds[l])]
                                 ELSE request[l]]
                          /\ ingress' = IF Backend = "DFlash" THEN Min(Active) ELSE ingress
                          /\ UNCHANGED fault
                     ELSE Throw(Active)
         ELSE Throw(Active)

-----------------------------------------------------------------------------
(* resolve_prefill_lane, resolve_pending_batch                             *)

PendingOf(kinds) == {l \in Lanes : request[l].pending.kind \in kinds}

(* What the executor decides about a lane's round: how many of its tokens  *)
(* are kept, whether they end the request, or that it was cancelled.  A    *)
(* spent budget ends it.                                                   *)
Verdicts(l) ==
    LET produced == Len(request[l].pending.tokens)
    IN  [kept : 1..produced, terminal : {TRUE}, cancelled : {FALSE}]
        \union [kept : IF produced < request[l].remaining THEN {produced} ELSE {},
                terminal : {FALSE}, cancelled : {FALSE}]

Cancelled == [kept |-> 0, terminal |-> FALSE, cancelled |-> TRUE]

Resolvable(l) ==
    LET s == sequence[l]
        pending == request[l].pending
    IN  IF pending.kind = "speculative"
          THEN /\ s.execution_frontier = pending.base_E
               /\ s.ledger_frontier = pending.base_S
               /\ Len(s.ledger) = pending.base_S
               /\ Len(s.positions) = pending.base_S
               /\ s.text_kv_valid = pending.base_E
               /\ Backend = "Mtp" => s.mtp_kv_valid = pending.base_E
               /\ Backend = "DFlash" => s.dflash_context_frontier = pending.base_E
          ELSE Len(s.ledger) = 1 + (IF pending.kind = "begin" THEN pending.prompt_tokens
                                                              ELSE pending.base_E + 1)

(* The frontiers that the kept tokens establish.                           *)
CommittedFrontiers(s, pending, verdict) ==
    IF pending.kind = "begin"
      THEN [s EXCEPT !.execution_frontier = pending.prompt_tokens,
                     !.ledger_frontier = pending.prompt_tokens + 1]
      ELSE [s EXCEPT !.execution_frontier = pending.base_E + verdict.kept,
                     !.ledger_frontier = pending.base_S + verdict.kept]

CommittedSpeculation(s, pending, verdict) ==
    [s EXCEPT !.ledger = @ \o SubSeq(pending.tokens, 1, verdict.kept),
              !.positions = @ \o [i \in 1..verdict.kept |-> Len(@) + i - 1 + s.rope_delta],
              !.text_kv_valid = s.execution_frontier,
              !.tail_hidden_valid = TRUE,
              !.mtp_kv_valid = IF Backend = "Mtp" THEN s.execution_frontier ELSE @,
              !.mtp_draft_count = IF Backend = "Mtp" /\ ~verdict.terminal
                                    THEN pending.next ELSE @,
              !.dflash_context_frontier =
                 IF Backend = "DFlash" /\ verdict.terminal THEN s.execution_frontier ELSE @]

RetainedSequence(s) ==
    [s EXCEPT !.mtp_draft_count = 0, !.kv = ReleaseGrowth(@), !.retained = TRUE]

ResolvedSequence(s, pending, verdict) ==
    LET moved == CommittedFrontiers(s, pending, verdict)
        extended == IF pending.kind = "speculative"
                      THEN CommittedSpeculation(moved, pending, verdict) ELSE moved
        appended == IF Backend = "DFlash" /\ verdict.terminal /\ pending.kind = "speculative"
                      THEN Materialize(extended.kv, extended.execution_frontier,
                                       extended.execution_frontier)
                      ELSE extended.kv
        trimmed == [extended EXCEPT !.kv =
                      Trim(appended, extended.text_kv_valid, BackendValid(extended))]
    IN  IF verdict.terminal THEN RetainedSequence(trimmed) ELSE trimmed

(* gdn_replay_fold, the hidden correction of a partly kept round, and the  *)
(* last append to the draft context.                                       *)
ResolvedDevice(d, pending, verdict) ==
    IF pending.kind # "speculative" THEN d
    ELSE LET kept == SubSeq(d.round, 1, verdict.kept)
         IN  [d EXCEPT !.linear = @ \o kept,
                       !.tail = IF verdict.terminal /\ verdict.kept < Len(pending.tokens)
                                  THEN Context(d.linear, pending.base_E) \o kept ELSE @,
                       !.draft = IF Backend = "DFlash" /\ verdict.terminal
                                   THEN DraftAppend(@, pending.base_E, kept) ELSE @]

Resolve(lanes, verdicts) ==
    LET kept == {l \in lanes : ~verdicts[l].cancelled}
        ended == {l \in kept : verdicts[l].terminal /\ request[l].pending.kind = "speculative"}
        after == [l \in kept |-> ResolvedSequence(sequence[l], request[l].pending, verdicts[l])]
    IN  IF /\ \A l \in lanes : Resolvable(l)
           /\ \A l \in kept : TrimFits(after[l]) /\ Backed(after[l].kv)
          THEN /\ sequence' = [l \in Lanes |->
                    CASE l \in kept -> after[l]
                      [] l \in lanes \ kept -> [ClearedSequence EXCEPT !.rope_delta =
                                                  sequence[l].rope_delta]
                      [] OTHER -> sequence[l]]
               /\ device' = [l \in Lanes |->
                    IF l \in kept
                      THEN ResolvedDevice(device[l], request[l].pending, verdicts[l])
                      ELSE device[l]]
               /\ request' = [l \in Lanes |->
                    CASE l \in kept ->
                           [request[l] EXCEPT
                              !.lifecycle = IF verdicts[l].terminal THEN "Complete" ELSE "Active",
                              !.pending = NoPending,
                              !.remaining = IF verdicts[l].terminal THEN 0
                                            ELSE @ - verdicts[l].kept]
                      [] l \in lanes \ kept -> ClearedRequest
                      [] OTHER -> request[l]]
               /\ ingress' = IF Backend = "DFlash" /\ ended # {} THEN Min(ended) ELSE ingress
               /\ UNCHANGED fault
          ELSE Throw(lanes)

ResolvePrefillLane(l) ==
    /\ request[l].pending.kind = "begin"
    /\ \E verdict \in Verdicts(l) : Resolve({l}, [i \in {l} |-> verdict])

ResolvePendingBatch ==
    LET lanes == PendingOf({"ordinary", "speculative"})
    IN  /\ lanes # {}
        /\ \E verdicts \in [lanes -> UNION {Verdicts(l) : l \in lanes} \union {Cancelled}] :
             /\ \A l \in lanes : verdicts[l] \in Verdicts(l) \union {Cancelled}
             /\ Resolve(lanes, verdicts)

-----------------------------------------------------------------------------
(* abort_lane (a cancelled or failed request), evict_retained_lane, and    *)
(* the device failing in a round, which clears every lane of the batch.    *)

AbortLane(l) ==
    /\ request[l].lifecycle \in {"Prefilling", "Active", "Pending"}
    /\ ClearLanes({l})
    /\ UNCHANGED <<device, ingress, fault>>

EvictRetainedLane(l) ==
    /\ sequence[l].retained
    /\ ClearLanes({l})
    /\ UNCHANGED <<device, ingress, fault>>

RoundFails ==
    /\ PendingOf({"ordinary", "speculative"}) # {}
    /\ ClearLanes(PendingOf({"ordinary", "speculative"}))
    /\ UNCHANGED <<device, ingress, fault>>

Next ==
    /\ \/ \E l \in Lanes : \/ StartPrefillLane(l)
                           \/ AdvancePrefillLane(l)
                           \/ ResolvePrefillLane(l)
                           \/ AbortLane(l)
                           \/ EvictRetainedLane(l)
       \/ DecodeBatch
       \/ ResolvePendingBatch
       \/ RoundFails
    /\ UNCHANGED options

Spec == Init /\ [][Next]_vars

-----------------------------------------------------------------------------
(* Properties                                                              *)

Lifecycles == {"Empty", "Prefilling", "Active", "Pending", "Complete"}

(* Each lane's records have their shape, a staged prefill exists exactly   *)
(* while the lane prefills, and exactly a complete lane is retained.       *)
TypeOK ==
    /\ fault \in BOOLEAN
    /\ ingress \in Lanes
    /\ \A l \in Lanes :
         /\ request[l].lifecycle \in Lifecycles
         /\ request[l].lifecycle = "Prefilling" <=> request[l].prefill.prompt # << >>
         /\ request[l].lifecycle = "Pending" <=> request[l].pending.kind # "none"
         /\ request[l].lifecycle = "Complete" <=> sequence[l].retained
         /\ sequence[l].execution_frontier \in 0..Capacity
         /\ sequence[l].mtp_draft_count \in 0..DraftWindow
         /\ Len(sequence[l].ledger) = Len(sequence[l].positions)

(* No operation finds its lane inconsistent or its KV entitlement too      *)
(* small, whatever legal sequence of calls led there: the checks that      *)
(* throw std::logic_error throughout program_impl.h never fire.            *)
CallsNeverFault == TypeOK /\ ~fault

(* How far the lane's recurrent state has got.                             *)
Computed(l) ==
    CASE request[l].lifecycle = "Prefilling" -> request[l].prefill.cursor
      [] request[l].pending.kind \in {"begin", "ordinary"} -> Len(sequence[l].ledger) - 1
      [] OTHER -> sequence[l].execution_frontier

(* The recurrent state, the Text KV below text_kv_valid and the tail       *)
(* hidden a lane would continue from are those of the tokens and positions *)
(* its ledger records: through chunked prefill, partly kept speculative    *)
(* rounds, reuse at the frontier and restored checkpoints, every token is  *)
(* sampled from its own prefix.                                            *)
ContinuationMatchesLedger ==
    \A l \in Lanes : request[l].lifecycle # "Empty" =>
      LET n == Computed(l)
      IN  /\ device[l].linear = Identity(sequence[l], n)
          /\ sequence[l].text_kv_valid = n
          /\ Upto(device[l].kv, n) = Identity(sequence[l], n)
          /\ request[l].lifecycle \in {"Active", "Complete"} =>
               device[l].tail = Identity(sequence[l], n)

(* The speculative backend's state is that of the same ledger: the MTP     *)
(* rows below mtp_kv_valid, each with the token that followed it, or the   *)
(* DFlash context and the features waiting to be appended to it.           *)
BackendMatchesLedger ==
    \A l \in Lanes : request[l].lifecycle # "Empty" =>
      LET s == sequence[l]
          d == device[l]
          n == s.dflash_context_frontier
          waiting == s.execution_frontier - n
      IN  /\ Backend = "Mtp" =>
               Upto(d.mtp, s.mtp_kv_valid) = MtpRows(Identity(s, s.mtp_kv_valid),
                                                     Tail(SubSeq(s.ledger, 1, s.mtp_kv_valid + 1)))
          /\ Backend = "DFlash" => /\ d.draft = Identity(s, n)
                                   /\ (request[l].lifecycle = "Active" /\ waiting > 0) =>
                                        n + waiting = s.text_kv_valid
                                          /\ d.draft \o Upto(d.round, waiting)
                                               = Identity(s, s.execution_frontier)

(* A checkpoint a later request may restore holds the recurrent state, the *)
(* hidden and the draft context of the ledger's prefix at its frontier,    *)
(* with the KV behind it still resident, although the lane has gone on,    *)
(* been appended to or been restored since it was captured.                *)
CheckpointMatchesLedger ==
    \A l \in Lanes :
      LET s == sequence[l]
          prefix == Identity(s, s.rewrite_checkpoint.frontier)
      IN  s.rewrite_checkpoint.valid =>
            /\ s.rewrite_checkpoint.frontier <= s.text_kv_valid
            /\ device[l].linearCheckpoint = prefix
            /\ device[l].hiddenCheckpoint = prefix
            /\ Backend = "Mtp" => s.mtp_kv_valid >= s.rewrite_checkpoint.frontier - 1
            /\ Backend = "DFlash" => device[l].draftCheckpoint = prefix
=============================================================================
