-------------------------- MODULE SequenceLaneProofs --------------------------
(***************************************************************************)
(* The lanes of the Qwen3.6 program, for any number of lanes, any backend, *)
(* capacity, windows, chunk size and prompts: no internal check fires, and *)
(* the state a lane continues from is that of its ledger.                  *)
(***************************************************************************)
EXTENDS SequenceLane, CommonLemmas

-----------------------------------------------------------------------------
(* The records of a lane.                                                  *)

Token == Tokens \union {Media}
CheckpointKinds == {"turn", "replay"}
Bridges == {"none", "before suffix", "after exact hit"}

BundleRecords ==
    [text : Nat, textMapped : Nat, backend : Nat, backendMapped : Nat, bound : BOOLEAN]
CheckpointRecords == [valid : BOOLEAN, kind : CheckpointKinds, frontier : Nat]
SequenceRecords ==
    [kv : BundleRecords, execution_frontier : Nat, ledger_frontier : Nat, ledger : Seq(Token),
     positions : Seq(Int), rope_delta : Int, text_kv_valid : Nat, mtp_kv_valid : Nat,
     dflash_context_frontier : Nat, mtp_draft_count : Nat, tail_hidden_valid : BOOLEAN,
     retained : BOOLEAN, rewrite_checkpoint : CheckpointRecords]
PendingRecords ==
    [kind : {"none", "begin", "ordinary", "speculative"}, base_E : Nat, base_S : Nat,
     prompt_tokens : Nat, tokens : Seq(Tokens), next : Nat]
PrefillRecords ==
    [prompt : Seq(Token), base : Nat, cursor : Nat, capture : Nat, kind : CheckpointKinds,
     extent : Nat, bridge : Bridges,
     restored : BOOLEAN, vision : BOOLEAN]
RequestRecords ==
    [lifecycle : Lifecycles, pending : PendingRecords, prefill : PrefillRecords, remaining : Nat]

-----------------------------------------------------------------------------
(* The invariant of one lane, o being the program's options.               *)

(* The entitlement in the backend's pool that goes with one of the text    *)
(* pool (BackendReserved).                                                 *)
BackendShare(o, reserved) ==
    CASE o.backend = "Mtp" -> Min({o.capacity, reserved + o.draft_window - 1})
      [] o.backend = "DFlash" -> reserved
      [] OTHER -> 0

(* A bound lane is entitled to what its request may still need, and its    *)
(* valid text is mapped.                                                   *)
BundleCovers(o, s, reserved) ==
    /\ s.kv.bound
    /\ s.kv.text = reserved /\ reserved <= o.capacity
    /\ s.kv.backend = BackendShare(o, reserved)
    /\ s.kv.textMapped <= s.kv.text /\ s.kv.backendMapped <= s.kv.backend
    /\ s.text_kv_valid <= s.kv.textMapped

(* A staged prefill between two chunks, and before its first one.          *)
Staged(o, s, st, remaining) ==
    /\ s.ledger = st.prompt /\ Len(s.positions) = Len(st.prompt) /\ Len(st.prompt) > 0
    /\ st.cursor = s.text_kv_valid /\ st.cursor <= Len(st.prompt)
    /\ st.capture <= Len(st.prompt) /\ st.extent <= o.draft_window
    /\ remaining > 0
    /\ BundleCovers(o, s, Len(st.prompt) + remaining - 1)
    /\ Len(st.prompt) <= s.kv.textMapped
    /\ st.cursor = Len(st.prompt) => s.tail_hidden_valid
    /\ ~ s.retained

(* The frontiers of a lane whose tokens are all committed.                 *)
Settled(o, s) ==
    /\ s.execution_frontier > 0
    /\ s.text_kv_valid = s.execution_frontier
    /\ s.ledger_frontier = s.execution_frontier + 1
    /\ Len(s.ledger) = s.ledger_frontier
    /\ o.backend = "Mtp" => s.mtp_kv_valid = s.execution_frontier
    /\ o.backend = "DFlash" => s.dflash_context_frontier <= s.execution_frontier
    /\ s.tail_hidden_valid

Cleared(s) ==
    /\ ~ s.retained /\ ~ s.rewrite_checkpoint.valid
    /\ s.kv = NoKV

Kept(o, s) ==
    /\ Settled(o, s)
    /\ s.kv.text = s.kv.textMapped /\ ~ s.kv.bound
    /\ s.kv.text = s.execution_frontier
    /\ o.backend = "DFlash" => s.dflash_context_frontier = s.execution_frontier

Decoding(o, s, remaining) ==
    /\ Settled(o, s)
    /\ remaining > 0
    /\ BundleCovers(o, s, s.execution_frontier + remaining)
    /\ o.backend = "DFlash" =>
          s.execution_frontier <= s.dflash_context_frontier + o.wide_window + 1

(* The first token is sampled and waits for its verdict.                   *)
Begun(o, s, pending, remaining) ==
    LET n == pending.prompt_tokens
    IN  /\ n > 0 /\ n <= o.capacity
        /\ Len(s.ledger) = n + 1 /\ s.text_kv_valid = n
        /\ o.backend = "Mtp" => s.mtp_kv_valid = n
        /\ o.backend = "DFlash" => s.dflash_context_frontier = n
        /\ s.tail_hidden_valid
        /\ Len(pending.tokens) = 1
        /\ remaining > 0
        /\ BundleCovers(o, s, n + remaining - 1)

OrdinaryRound(o, s, pending, remaining) ==
    /\ o.backend = "None"
    /\ pending.base_E = s.execution_frontier /\ pending.base_S = s.ledger_frontier
    /\ s.ledger_frontier = s.execution_frontier + 1
    /\ Len(s.ledger) = s.ledger_frontier + 1
    /\ s.text_kv_valid = s.execution_frontier + 1
    /\ s.tail_hidden_valid
    /\ Len(pending.tokens) = 1
    /\ remaining > 0
    /\ BundleCovers(o, s, s.execution_frontier + remaining)

(* A speculative round: at most window + 1 tokens, within the budget, all  *)
(* of them mapped.                                                         *)
SpeculativeRound(o, s, pending, remaining) ==
    /\ o.backend # "None"
    /\ Decoding(o, s, remaining)
    /\ pending.base_E = s.execution_frontier /\ pending.base_S = s.ledger_frontier
    /\ Len(pending.tokens) \in 1..remaining
    /\ Len(pending.tokens) <= o.wide_window + 1
    /\ s.execution_frontier + Len(pending.tokens) <= s.kv.textMapped
    /\ o.backend = "DFlash" => s.dflash_context_frontier = s.execution_frontier
    /\ pending.next <= o.draft_window

LaneOK(o, s, q) ==
    /\ s \in SequenceRecords /\ q \in RequestRecords
    /\ s.execution_frontier <= o.capacity /\ s.mtp_draft_count <= o.draft_window
    /\ Len(s.ledger) = Len(s.positions)
    /\ q.lifecycle = "Prefilling" <=> q.prefill.prompt # << >>
    /\ q.lifecycle = "Pending" <=> q.pending.kind # "none"
    /\ q.lifecycle = "Complete" <=> s.retained
    /\ s.rewrite_checkpoint.valid => s.rewrite_checkpoint.frontier <= s.text_kv_valid
    /\ q.lifecycle = "Empty" => Cleared(s)
    /\ q.lifecycle = "Complete" => Kept(o, s)
    /\ q.lifecycle = "Active" => Decoding(o, s, q.remaining)
    /\ q.lifecycle = "Prefilling" => Staged(o, s, q.prefill, q.remaining)
    /\ q.lifecycle = "Prefilling" => q.prefill.cursor < Len(q.prefill.prompt)
    /\ q.pending.kind = "begin" => Begun(o, s, q.pending, q.remaining)
    /\ q.pending.kind = "ordinary" => OrdinaryRound(o, s, q.pending, q.remaining)
    /\ q.pending.kind = "speculative" => SpeculativeRound(o, s, q.pending, q.remaining)

LanesInv ==
    /\ options \in Setups
    /\ fault = FALSE
    /\ ingress \in Lanes
    /\ sequence \in [Lanes -> SequenceRecords]
    /\ request \in [Lanes -> RequestRecords]
    /\ \A l \in Lanes : LaneOK(options, sequence[l], request[l])

-----------------------------------------------------------------------------
(* Options, prompts, plans.                                                *)

(* What OptionsAssumption says of the running program.                     *)
LEMMA OptionsFacts ==
  ASSUME options \in Setups
  PROVE  /\ Backend \in {"None", "Mtp", "DFlash"} /\ Capacity \in Nat
         /\ DraftWindow \in Nat \ {0} /\ WideWindow \in Nat /\ WideWindow >= DraftWindow
         /\ \A p \in Prompts :
              /\ p.tokens \in Seq(Token) /\ Len(p.tokens) \in 1..Capacity
              /\ p.checkpoint \in 0..Len(p.tokens) /\ p.kind \in CheckpointKinds
              /\ p.output \in Nat \ {0} /\ Len(p.tokens) + p.output - 1 <= Capacity
BY OptionsAssumption
   DEF Backend, Capacity, DraftWindow, WideWindow, Prompts, Token, CheckpointKinds

(* Positions are integers.                                                 *)
LEMMA PositionType ==
  ASSUME NEW tokens, NEW n \in Nat
  PROVE  /\ Cardinality({j \in 1..n : tokens[j] = Media}) \in Nat
         /\ \A i \in 1..n : PromptPosition(tokens, i) \in Int
<1>1. \A k \in Int : Cardinality({j \in 1..k : tokens[j] = Media}) \in Nat
  <2> TAKE k \in Int
  <2>1. IsFiniteSet(1..k)
    BY FS_Interval
  <2>2. IsFiniteSet({j \in 1..k : tokens[j] = Media})
    BY <2>1, FS_Subset
  <2> QED BY <2>2, FS_CardinalityType
<1>2. ASSUME NEW i \in 1..n
      PROVE  PromptPosition(tokens, i) \in Int
  <2>1. i - 1 \in Int
    OBVIOUS
  <2>2. Cardinality({j \in 1..(i - 1) : tokens[j] = Media}) \in Nat
    BY <1>1, <2>1, Zenon
  <2> QED BY <2>1, <2>2 DEF PromptPosition
<1>3. n \in Int
  OBVIOUS
<1> QED BY <1>1, <1>2, <1>3, Zenon

(* The lesser of two naturals.                                             *)
LEMMA LesserNat ==
  ASSUME NEW a \in Nat, NEW b \in Nat
  PROVE  /\ Min({a, b}) \in Nat /\ Min({a, b}) <= a /\ Min({a, b}) <= b
         /\ \A c \in Int : c <= a /\ c <= b => c <= Min({a, b})
BY MinOfTwo

(* Their greater one.                                                      *)
LEMMA GreaterNat ==
  ASSUME NEW a \in Nat, NEW b \in Nat
  PROVE  /\ Max({a, b}) \in Nat /\ Max({a, b}) >= a /\ Max({a, b}) >= b
         /\ \A c \in Int : c >= a /\ c >= b => c >= Max({a, b})
BY MaxOfTwo

(* So is the offset a prompt's media leave.                                *)
LEMMA RopeDeltaType ==
  ASSUME NEW tokens \in Seq(Token)
  PROVE  RopeDelta(tokens) \in Int
<1>1. DOMAIN tokens = 1..Len(tokens) /\ Len(tokens) \in Nat
  OBVIOUS
<1>2. Cardinality({j \in DOMAIN tokens : tokens[j] = Media}) \in Nat
  BY <1>1, PositionType
<1> QED BY <1>2 DEF RopeDelta

(* The plans for a free lane: a reset, or a continuation of what a kept    *)
(* lane really holds, which passes the checks of start_prefill_lane.       *)
LEMMA PlanFacts ==
  ASSUME options \in Setups, NEW s, NEW q, LaneOK(options, s, q),
         q.lifecycle \in {"Empty", "Complete"},
         NEW p \in Prompts, NEW allowed \in BOOLEAN, NEW plan, plan = ReusePath(p, s, allowed)
  PROVE  /\ plan = [path |-> plan.path, base |-> plan.base]
         /\ plan.path \in {"reset", "append", "restore"}
         /\ plan.base \in 0..Len(p.tokens)
         /\ plan.path = "reset" => plan.base = 0
         /\ plan.path # "reset" => /\ q.lifecycle = "Complete"
                                   /\ plan.base > 0 /\ plan.base <= s.text_kv_valid
                                   /\ PrefixMatches(p, s, plan.base)
         /\ plan.path = "append" => plan.base = s.execution_frontier
         /\ plan.path = "restore" => /\ s.rewrite_checkpoint.valid
                                     /\ plan.base = s.rewrite_checkpoint.frontier
         /\ Reusable(s, plan)
<1> USE OptionsFacts
<1>0. s \in SequenceRecords /\ (s.retained <=> q.lifecycle = "Complete")
  BY DEF LaneOK
<1>1. ASSUME AppendCandidate(p, s), Backend = "Mtp" => s.tail_hidden_valid,
             BackendReady(s, s.execution_frontier),
             plan = [path |-> "append", base |-> s.execution_frontier]
      PROVE  /\ q.lifecycle = "Complete" /\ plan.base > 0 /\ plan.base <= s.text_kv_valid
             /\ PrefixMatches(p, s, plan.base) /\ plan.base \in 0..Len(p.tokens)
             /\ Reusable(s, plan)
  <2>1. Kept(options, s)
    BY <1>0, <1>1 DEF AppendCandidate, LaneOK
  <2> QED BY <1>0, <1>1, <2>1
          DEF AppendCandidate, PrefixMatches, Reusable, Kept, Settled, SequenceRecords,
              BundleRecords, Backend
<1>2. ASSUME RestoreCandidate(p, s), BackendReady(s, s.rewrite_checkpoint.frontier),
             plan = [path |-> "restore", base |-> s.rewrite_checkpoint.frontier]
      PROVE  /\ q.lifecycle = "Complete" /\ plan.base > 0 /\ plan.base <= s.text_kv_valid
             /\ PrefixMatches(p, s, plan.base) /\ plan.base \in 0..Len(p.tokens)
             /\ Reusable(s, plan)
  <2>1. Kept(options, s)
    BY <1>0, <1>2 DEF RestoreCandidate, LaneOK
  <2>2. s.rewrite_checkpoint.frontier <= s.text_kv_valid
    BY <1>2 DEF RestoreCandidate, LaneOK
  <2> QED BY <1>0, <1>2, <2>1, <2>2
          DEF RestoreCandidate, PrefixMatches, Reusable, Kept, Settled, SequenceRecords,
              BundleRecords, CheckpointRecords
<1>3. CASE allowed /\ AppendCandidate(p, s) /\ (Backend = "Mtp" => s.tail_hidden_valid)
           /\ BackendReady(s, s.execution_frontier)
  <2>1. plan = [path |-> "append", base |-> s.execution_frontier]
    BY <1>3 DEF ReusePath
  <2>2. plan.path = "append" /\ plan.base = s.execution_frontier
    BY <2>1
  <2>3. /\ q.lifecycle = "Complete" /\ plan.base > 0 /\ plan.base <= s.text_kv_valid
        /\ PrefixMatches(p, s, plan.base) /\ plan.base \in 0..Len(p.tokens)
        /\ Reusable(s, plan)
    BY <1>1, <1>3, <2>1
  <2> QED BY <2>1, <2>2, <2>3
<1>4. CASE /\ ~ (allowed /\ AppendCandidate(p, s) /\ (Backend = "Mtp" => s.tail_hidden_valid)
                 /\ BackendReady(s, s.execution_frontier))
           /\ allowed /\ ~ AppendCandidate(p, s) /\ RestoreCandidate(p, s)
           /\ BackendReady(s, s.rewrite_checkpoint.frontier)
  <2>1. plan = [path |-> "restore", base |-> s.rewrite_checkpoint.frontier]
    BY <1>4 DEF ReusePath
  <2>2. s.rewrite_checkpoint.valid
    BY <1>4 DEF RestoreCandidate
  <2>3. plan.path = "restore" /\ plan.base = s.rewrite_checkpoint.frontier
    BY <2>1
  <2>4. /\ q.lifecycle = "Complete" /\ plan.base > 0 /\ plan.base <= s.text_kv_valid
        /\ PrefixMatches(p, s, plan.base) /\ plan.base \in 0..Len(p.tokens)
        /\ Reusable(s, plan)
    BY <1>2, <1>4, <2>1
  <2> QED BY <2>1, <2>2, <2>3, <2>4
<1>5. CASE /\ ~ (allowed /\ AppendCandidate(p, s) /\ (Backend = "Mtp" => s.tail_hidden_valid)
                 /\ BackendReady(s, s.execution_frontier))
           /\ ~ (allowed /\ ~ AppendCandidate(p, s) /\ RestoreCandidate(p, s)
                 /\ BackendReady(s, s.rewrite_checkpoint.frontier))
  <2>1. plan = [path |-> "reset", base |-> 0]
    BY <1>5 DEF ReusePath
  <2> QED BY <2>1 DEF Reusable
<1> QED BY <1>3, <1>4, <1>5

-----------------------------------------------------------------------------
(* start_prefill_lane                                                      *)

(* How many tokens are drafted behind a prompt.                            *)
LEMMA InitialExtentBounds ==
  ASSUME options \in Setups, NEW p \in Prompts
  PROVE  /\ InitialExtent(p) \in Nat /\ InitialExtent(p) <= DraftWindow
         /\ InitialExtent(p) # 0 => InitialExtent(p) + 2 <= p.output
<1>o. /\ Backend \in {"None", "Mtp", "DFlash"} /\ Capacity \in Nat /\ DraftWindow \in Nat \ {0}
      /\ p.tokens \in Seq(Token) /\ Len(p.tokens) \in 1..Capacity
      /\ p.output \in Nat \ {0} /\ Len(p.tokens) + p.output - 1 <= Capacity
  BY OptionsFacts
<1> USE <1>o
<1> DEFINE a == DraftWindow
           b == Max({p.output - 2, 0})
           c == Max({Capacity - Len(p.tokens) - 1, 0})
<1>0. p.output - 2 \in Int /\ Capacity - Len(p.tokens) - 1 \in Int /\ a \in Nat
  OBVIOUS
<1>1. b \in Nat /\ (b # 0 => b = p.output - 2)
  BY <1>0, MaxOfTwo
<1>2. c \in Nat
  <2> DEFINE room == Capacity - Len(p.tokens) - 1
  <2>1. room \in Int
    BY <1>0
  <2> HIDE DEF room
  <2>2. Max({room, 0}) \in Nat
    BY <2>1, MaxOfTwo
  <2> QED BY <2>2 DEF room
<1>3. /\ Min({a, b, c}) \in {a, b, c}
      /\ Min({a, b, c}) <= a /\ Min({a, b, c}) <= b
  <2> HIDE DEF a, b, c
  <2>1. a \in Int /\ b \in Int /\ c \in Int
    BY <1>0, <1>1, <1>2
  <2> QED BY <2>1, MinOfThree, Zenon
<1>4. InitialExtent(p) = IF Backend # "Mtp" THEN 0 ELSE Min({a, b, c})
  BY DEF InitialExtent
<1> HIDE DEF a, b, c
<1>5. a \in Nat /\ a <= DraftWindow
  BY DEF a
<1> QED BY <1>1, <1>2, <1>3, <1>4, <1>5

(* What trimming and growing a bundle changes.                             *)
LEMMA TrimFields ==
  ASSUME NEW kv \in BundleRecords, NEW a \in Nat, NEW b \in Nat, NEW t, t = Trim(kv, a, b)
  PROVE  /\ t \in BundleRecords
         /\ t.text = kv.text /\ t.backend = kv.backend /\ t.bound = kv.bound
         /\ t.textMapped <= a /\ t.textMapped <= kv.textMapped
         /\ t.textMapped \in {a, kv.textMapped}
         /\ t.backendMapped <= b /\ t.backendMapped <= kv.backendMapped
         /\ t.backendMapped \in {b, kv.backendMapped}
<1>1. kv.textMapped \in Nat /\ kv.backendMapped \in Nat
  BY DEF BundleRecords
<1>2. Min({kv.textMapped, a}) = IF kv.textMapped <= a THEN kv.textMapped ELSE a
  BY <1>1, MinOfTwo
<1>3. Min({kv.backendMapped, b}) = IF kv.backendMapped <= b THEN kv.backendMapped ELSE b
  BY <1>1, MinOfTwo
<1> DEFINE x == Min({kv.textMapped, a})
           y == Min({kv.backendMapped, b})
<1>4. x \in Nat /\ y \in Nat
  BY <1>1, <1>2, <1>3
<1>5. t = [kv EXCEPT !.textMapped = x, !.backendMapped = y]
  BY DEF Trim
<1>6. /\ x = IF kv.textMapped <= a THEN kv.textMapped ELSE a
      /\ y = IF kv.backendMapped <= b THEN kv.backendMapped ELSE b
  BY <1>2, <1>3
<1> HIDE DEF x, y
<1>7. /\ t \in BundleRecords /\ t.textMapped = x /\ t.backendMapped = y
      /\ t.text = kv.text /\ t.backend = kv.backend /\ t.bound = kv.bound
  BY <1>4, <1>5 DEF BundleRecords
<1> QED BY <1>1, <1>6, <1>7

(* Materializing maps at least what is asked, and no less than before.     *)
LEMMA MaterializeFields ==
  ASSUME NEW kv \in BundleRecords, NEW a \in Nat, NEW b \in Nat, NEW t, t = Materialize(kv, a, b)
  PROVE  /\ t \in BundleRecords
         /\ t.text = kv.text /\ t.backend = kv.backend /\ t.bound = kv.bound
         /\ t.textMapped >= a /\ t.textMapped >= kv.textMapped
         /\ t.textMapped \in {a, kv.textMapped}
         /\ t.backendMapped >= b /\ t.backendMapped >= kv.backendMapped
         /\ t.backendMapped \in {b, kv.backendMapped}
<1>1. kv.textMapped \in Nat /\ kv.backendMapped \in Nat
  BY DEF BundleRecords
<1>2. Max({kv.textMapped, a}) = IF kv.textMapped >= a THEN kv.textMapped ELSE a
  BY <1>1, MaxOfTwo
<1>3. Max({kv.backendMapped, b}) = IF kv.backendMapped >= b THEN kv.backendMapped ELSE b
  BY <1>1, MaxOfTwo
<1> DEFINE x == Max({kv.textMapped, a})
           y == Max({kv.backendMapped, b})
<1>4. x \in Nat /\ y \in Nat
  BY <1>1, <1>2, <1>3
<1>5. t = [kv EXCEPT !.textMapped = x, !.backendMapped = y]
  BY DEF Materialize
<1>6. /\ x = IF kv.textMapped >= a THEN kv.textMapped ELSE a
      /\ y = IF kv.backendMapped >= b THEN kv.backendMapped ELSE b
  BY <1>2, <1>3
<1> HIDE DEF x, y
<1>7. /\ t \in BundleRecords /\ t.textMapped = x /\ t.backendMapped = y
      /\ t.text = kv.text /\ t.backend = kv.backend /\ t.bound = kv.bound
  BY <1>4, <1>5 DEF BundleRecords
<1> QED BY <1>1, <1>6, <1>7

(* The bundle a prompt starts with is entitled to the whole request, and   *)
(* its prompt is mapped.                                                   *)
LEMMA StartBundleCovers ==
  ASSUME options \in Setups, NEW s \in SequenceRecords, NEW p \in Prompts, NEW plan,
         plan.base \in 0..Len(p.tokens)
  PROVE  LET kv == StartBundle(StartFrontiers(s, plan), p, plan)
             reserved == Len(p.tokens) + p.output - 1
         IN  /\ kv \in BundleRecords /\ kv.bound
             /\ kv.text = reserved /\ kv.backend = BackendShare(options, reserved)
             /\ kv.textMapped <= kv.text /\ kv.backendMapped <= kv.backend
             /\ Len(p.tokens) <= kv.textMapped
<1>o. /\ Backend \in {"None", "Mtp", "DFlash"} /\ Capacity \in Nat /\ DraftWindow \in Nat \ {0}
      /\ p.tokens \in Seq(Token) /\ Len(p.tokens) \in 1..Capacity
      /\ p.output \in Nat \ {0} /\ Len(p.tokens) + p.output - 1 <= Capacity
  BY OptionsFacts
<1> USE <1>o
<1> DEFINE f == StartFrontiers(s, plan)
           n == Len(p.tokens)
           reserved == n + p.output - 1
           kept == IF plan.path = "reset" THEN NoKV ELSE Trim(f.kv, plan.base, BackendValid(f))
           booked == [kept EXCEPT !.text = Reserved(p), !.backend = BackendReserved(p),
                                  !.bound = TRUE]
           ends == n + Max({InitialExtent(p) - 1, 0})
           rows == CASE Backend = "Mtp" -> Min({Capacity, ends})
                     [] Backend = "DFlash" -> n
                     [] OTHER -> 0
<1>1. n \in Nat \ {0} /\ n <= reserved /\ reserved <= Capacity /\ reserved \in Nat
  OBVIOUS
<1>2. f.kv = s.kv /\ s.kv \in BundleRecords
  BY DEF StartFrontiers, SequenceRecords
<1>3. BackendValid(f) \in Nat /\ BackendValid(f) <= n /\ (Backend = "None" => BackendValid(f) = 0)
  <2>1. CASE Backend = "Mtp"
    <3>1. f.mtp_kv_valid = Max({plan.base - 1, 0})
      BY <2>1 DEF StartFrontiers, SequenceRecords
    <3>2. BackendValid(f) = Max({plan.base - 1, 0})
      BY <2>1, <3>1 DEF BackendValid
    <3> QED BY <2>1, <3>2, MaxOfTwo
  <2>2. CASE Backend = "DFlash"
    <3>1. f.dflash_context_frontier = plan.base
      BY <2>2 DEF StartFrontiers, SequenceRecords
    <3> QED BY <2>2, <3>1 DEF BackendValid
  <2>3. CASE Backend = "None"
    BY <2>3 DEF BackendValid
  <2> QED BY <2>1, <2>2, <2>3
<1>4. /\ kept \in BundleRecords /\ kept.textMapped <= n /\ kept.backendMapped <= n
      /\ Backend = "None" => kept.backendMapped = 0
  <2>1. CASE plan.path = "reset"
    BY <2>1 DEF NoKV, BundleRecords
  <2>2. CASE plan.path # "reset"
    <3> DEFINE b == BackendValid(f)
    <3>1. kept = Trim(s.kv, plan.base, b)
      BY <2>2, <1>2
    <3>2. plan.base \in Nat /\ b \in Nat /\ b <= n /\ (Backend = "None" => b = 0)
      BY <1>3
    <3> HIDE DEF f, kept, b
    <3>3. /\ kept \in BundleRecords
          /\ kept.textMapped <= plan.base /\ kept.backendMapped <= b
      BY <1>2, <3>1, <3>2, TrimFields, Zenon
    <3>4. s.kv.textMapped \in Nat /\ s.kv.backendMapped \in Nat
      BY <1>2 DEF BundleRecords
    <3> QED BY <3>2, <3>3, <3>4 DEF BundleRecords
  <2> QED BY <2>1, <2>2
<1>5. Reserved(p) = reserved
  BY DEF Reserved
<1>6. /\ BackendReserved(p) = BackendShare(options, reserved) /\ BackendReserved(p) \in Nat
      /\ Backend = "Mtp" => /\ BackendReserved(p) = Min({Capacity, reserved + DraftWindow - 1})
                            /\ n <= BackendReserved(p)
      /\ Backend = "DFlash" => BackendReserved(p) = reserved
      /\ Backend = "None" => BackendReserved(p) = 0
  <2>1. reserved + DraftWindow - 1 \in Nat /\ n <= reserved + DraftWindow - 1
    BY <1>1
  <2>2. /\ Min({Capacity, reserved + DraftWindow - 1}) \in Nat
        /\ n <= Min({Capacity, reserved + DraftWindow - 1})
    <3> DEFINE m == reserved + DraftWindow - 1
    <3>1. m \in Nat /\ n <= m /\ n <= Capacity /\ n \in Int
      BY <1>1, <2>1
    <3> HIDE DEF m, n
    <3>2. Min({Capacity, m}) \in Nat /\ n <= Min({Capacity, m})
      BY <3>1, LesserNat
    <3> QED BY <3>2 DEF m
  <2> HIDE DEF reserved, n
  <2> QED BY <1>1, <1>5, <2>2
          DEF BackendReserved, BackendShare, Backend, Capacity, DraftWindow
<1>7. rows \in Nat /\ rows <= BackendReserved(p)
  <2>1. CASE Backend = "Mtp"
    <3>1. InitialExtent(p) \in Nat /\ InitialExtent(p) <= DraftWindow
      BY InitialExtentBounds
    <3>2. ends \in Nat /\ ends <= reserved + DraftWindow - 1
      <4> DEFINE e == InitialExtent(p) - 1
      <4>1. e \in Int /\ e <= DraftWindow - 1
        BY <3>1
      <4> HIDE DEF e
      <4>2. Max({e, 0}) \in Nat /\ Max({e, 0}) <= DraftWindow - 1
        BY <4>1, MaxOfTwo
      <4> QED BY <1>1, <4>2 DEF e
    <3>3. rows = Min({Capacity, ends})
      BY <2>1
    <3> HIDE DEF ends, rows
    <3> DEFINE m == reserved + DraftWindow - 1
    <3>4. m \in Nat /\ ends <= m /\ BackendReserved(p) = Min({Capacity, m})
      BY <1>1, <1>6, <2>1, <3>2
    <3> HIDE DEF m
    <3>5. Min({Capacity, ends}) \in Nat /\ Min({Capacity, ends}) <= ends
          /\ Min({Capacity, ends}) <= Capacity
      BY <3>2, LesserNat
    <3>6. Min({Capacity, ends}) <= Min({Capacity, m})
      <4> DEFINE c == Min({Capacity, ends})
      <4>1. c \in Int /\ c <= Capacity /\ c <= m
        BY <3>2, <3>4, <3>5
      <4> HIDE DEF c
      <4>2. c <= Min({Capacity, m})
        BY <3>4, <4>1, LesserNat
      <4> QED BY <4>2 DEF c
    <3> QED BY <3>3, <3>4, <3>5, <3>6
  <2>2. CASE Backend = "DFlash"
    BY <1>1, <1>6, <2>2
  <2>3. CASE Backend = "None"
    BY <1>6, <2>3
  <2> QED BY <2>1, <2>2, <2>3
<1>8. /\ booked \in BundleRecords /\ booked.text = reserved /\ booked.bound
      /\ booked.backend = BackendReserved(p)
      /\ booked.textMapped = kept.textMapped /\ booked.backendMapped = kept.backendMapped
  <2> HIDE DEF kept, reserved
  <2> QED BY <1>1, <1>4, <1>5, <1>6 DEF BundleRecords
<1>9. StartBundle(f, p, plan) = Materialize(booked, n, rows)
  BY DEF StartBundle
<1> HIDE DEF f, kept, booked, ends, rows, reserved
<1>10. n \in Nat /\ booked.textMapped \in Nat /\ booked.backendMapped \in Nat
       /\ booked.textMapped <= n /\ booked.backendMapped <= BackendReserved(p)
  BY <1>1, <1>4, <1>6, <1>8 DEF BundleRecords
<1> DEFINE kv == Materialize(booked, n, rows)
<1> HIDE DEF n
<1>a. kv = Materialize(booked, n, rows)
  OBVIOUS
<1> HIDE DEF kv
<1>11. /\ kv \in BundleRecords
       /\ kv.text = booked.text /\ kv.backend = booked.backend /\ kv.bound = booked.bound
       /\ kv.textMapped \in {n, booked.textMapped} /\ kv.textMapped >= n
       /\ kv.backendMapped \in {rows, booked.backendMapped}
  <2>1. booked \in BundleRecords /\ n \in Nat /\ rows \in Nat
    BY <1>7, <1>8, <1>10
  <2>2. kv.text = booked.text /\ kv.backend = booked.backend /\ kv.bound = booked.bound
    BY <2>1, <1>a DEF Materialize, BundleRecords
  <2>3. /\ kv \in BundleRecords
        /\ kv.textMapped \in {n, booked.textMapped} /\ kv.textMapped >= n
        /\ kv.backendMapped \in {rows, booked.backendMapped}
    BY <2>1, <1>a, MaterializeFields
  <2> QED BY <2>2, <2>3
<1>12. /\ kv \in BundleRecords /\ kv.bound
       /\ kv.text = reserved /\ kv.backend = BackendShare(options, reserved)
       /\ kv.textMapped <= kv.text /\ kv.backendMapped <= kv.backend
       /\ n <= kv.textMapped
  BY <1>1, <1>6, <1>7, <1>8, <1>10, <1>11
<1> QED BY <1>9, <1>12 DEF f, reserved, kv, n

(* A checkpoint that survives the start lies in the reused prefix; one     *)
(* that is to be captured lies behind it and replaces the other.           *)
LEMMA StartCheckpointFacts ==
  ASSUME options \in Setups, NEW s, NEW q, LaneOK(options, s, q),
         q.lifecycle \in {"Empty", "Complete"},
         NEW p \in Prompts, NEW allowed \in BOOLEAN, NEW plan, plan = ReusePath(p, s, allowed)
  PROVE  /\ StartCheckpoint(s, p, plan) \in CheckpointRecords
         /\ StartCheckpoint(s, p, plan).valid =>
              /\ s.rewrite_checkpoint.valid /\ plan.path # "reset"
              /\ StartCheckpoint(s, p, plan).frontier = s.rewrite_checkpoint.frontier
              /\ s.rewrite_checkpoint.frontier <= plan.base
         /\ CheckpointAction(p, s, plan) = "capture" =>
              p.checkpoint > plan.base /\ ~ StartCheckpoint(s, p, plan).valid
<1> DEFINE action == CheckpointAction(p, s, plan)
           c == StartCheckpoint(s, p, plan)
<1>1. /\ s \in SequenceRecords /\ s.rewrite_checkpoint \in CheckpointRecords
      /\ p.kind \in CheckpointKinds /\ p.checkpoint \in Nat
  BY OptionsFacts DEF LaneOK, SequenceRecords
<1>2. /\ plan.base \in Nat
      /\ plan.path \in {"reset", "append", "restore"}
      /\ plan.path = "reset" => plan.base = 0
      /\ plan.path = "append" => plan.base = s.execution_frontier
      /\ plan.path = "restore" => plan.base = s.rewrite_checkpoint.frontier
      /\ plan.path # "reset" => q.lifecycle = "Complete"
  BY PlanFacts, OptionsFacts
<1>3. ASSUME plan.path # "reset", s.rewrite_checkpoint.valid
      PROVE  s.rewrite_checkpoint.frontier <= plan.base
  <2>1. s.rewrite_checkpoint.frontier <= s.execution_frontier
    BY <1>2, <1>3 DEF LaneOK, Kept, Settled
  <2> QED BY <1>1, <1>2, <1>3, <2>1 DEF CheckpointRecords, SequenceRecords
<1>4. CASE action = "keep"
  <2>1. c = [s.rewrite_checkpoint EXCEPT !.kind = p.kind]
    BY <1>4 DEF StartCheckpoint
  <2>2. plan.path # "reset" /\ s.rewrite_checkpoint.valid
    BY <1>4 DEF CheckpointAction
  <2>3. c \in CheckpointRecords /\ c.frontier = s.rewrite_checkpoint.frontier
    BY <1>1, <2>1 DEF CheckpointRecords
  <2> QED BY <1>3, <1>4, <2>2, <2>3
<1>5. CASE action \in {"drop", "capture"}
  <2>1. c = NoCheckpoint
    BY <1>5 DEF StartCheckpoint
  <2>2. c \in CheckpointRecords /\ ~ c.valid
    BY <2>1 DEF NoCheckpoint, CheckpointRecords, CheckpointKinds
  <2>3. action = "capture" => p.checkpoint > plan.base
    BY DEF CheckpointAction
  <2> QED BY <2>2, <2>3
<1>6. CASE action \notin {"drop", "capture", "keep"}
  <2>1. c = s.rewrite_checkpoint
    BY <1>6 DEF StartCheckpoint
  <2>2. p.checkpoint # 0 /\ ~ (p.checkpoint > plan.base)
    BY <1>6 DEF CheckpointAction
  <2>3. plan.path # "reset"
    BY <1>1, <1>2, <2>2
  <2> QED BY <1>1, <1>3, <1>6, <2>1, <2>3
<1> QED BY <1>4, <1>5, <1>6

(* The fields of the sequence a prompt starts with.                        *)
LEMMA StartFields ==
  ASSUME options \in Setups, NEW s, NEW q, LaneOK(options, s, q),
         q.lifecycle \in {"Empty", "Complete"},
         NEW p \in Prompts, NEW allowed \in BOOLEAN, NEW plan, plan = ReusePath(p, s, allowed),
         NEW t, t = StartSequence(s, p, plan)
  PROVE  /\ t \in SequenceRecords
         /\ t.kv = StartBundle(StartFrontiers(s, plan), p, plan)
         /\ t.execution_frontier = s.execution_frontier
         /\ t.ledger = p.tokens /\ Len(t.positions) = Len(p.tokens)
         /\ \A i \in 1..Len(p.tokens) : t.positions[i] = PromptPosition(p.tokens, i)
         /\ t.rope_delta = RopeDelta(p.tokens)
         /\ t.text_kv_valid = plan.base
         /\ t.mtp_draft_count = 0
         /\ ~ t.retained
         /\ t.rewrite_checkpoint = StartCheckpoint(s, p, plan)
         /\ t.tail_hidden_valid <=> /\ plan.base = Len(p.tokens)
                                    /\ plan.path = "restore" \/ s.tail_hidden_valid
<1>1. /\ s \in SequenceRecords
      /\ p.tokens \in Seq(Token) /\ Len(p.tokens) \in Nat
      /\ DOMAIN p.tokens = 1..Len(p.tokens)
  BY OptionsFacts DEF LaneOK
<1>2. plan.base \in 0..Len(p.tokens) /\ plan.base \in Nat
  BY PlanFacts, <1>1
<1>3. StartCheckpoint(s, p, plan) \in CheckpointRecords
  BY StartCheckpointFacts
<1> DEFINE positions == [i \in DOMAIN p.tokens |-> PromptPosition(p.tokens, i)]
           f == StartFrontiers(s, plan)
           kv == StartBundle(f, p, plan)
           tail == plan.base = Len(p.tokens) /\ (plan.path = "restore" \/ s.tail_hidden_valid)
           mtp == IF Backend = "Mtp" THEN Max({plan.base - 1, 0}) ELSE 0
           draft == IF Backend = "DFlash" THEN plan.base ELSE s.dflash_context_frontier
<1>4. positions \in Seq(Int) /\ Len(positions) = Len(p.tokens)
      /\ \A i \in 1..Len(p.tokens) : positions[i] = PromptPosition(p.tokens, i)
  <2>1. \A i \in 1..Len(p.tokens) : PromptPosition(p.tokens, i) \in Int
    BY <1>1, PositionType
  <2> QED BY <1>1, <2>1
<1>5. kv \in BundleRecords
  BY <1>1, <1>2, StartBundleCovers
<1>6. mtp \in Nat /\ draft \in Nat
  <2>1. plan.base - 1 \in Int
    BY <1>2
  <2>2. Max({plan.base - 1, 0}) \in Nat
    BY <1>2, <2>1, MaxOfTwo
  <2> QED BY <1>1, <1>2, <2>2 DEF SequenceRecords
<1>7. RopeDelta(p.tokens) \in Int
  BY <1>1, RopeDeltaType
<1>8. /\ t = [f EXCEPT !.kv = kv, !.retained = FALSE, !.rope_delta = RopeDelta(p.tokens),
                       !.rewrite_checkpoint = StartCheckpoint(s, p, plan),
                       !.mtp_draft_count = 0, !.tail_hidden_valid = tail,
                       !.ledger = p.tokens, !.positions = positions]
      /\ f = [s EXCEPT !.text_kv_valid = plan.base, !.mtp_kv_valid = mtp,
                       !.dflash_context_frontier = draft]
  BY <1>1 DEF StartSequence, StartFrontiers, SequenceRecords
<1>9. tail \in BOOLEAN
  OBVIOUS
<1> HIDE DEF positions, f, kv, tail, mtp, draft
<1>10. /\ f \in SequenceRecords /\ f.text_kv_valid = plan.base
       /\ f.execution_frontier = s.execution_frontier
  BY <1>1, <1>2, <1>6, <1>8 DEF SequenceRecords
<1>a. t = [kv |-> kv, execution_frontier |-> f.execution_frontier,
           ledger_frontier |-> f.ledger_frontier, ledger |-> p.tokens, positions |-> positions,
           rope_delta |-> RopeDelta(p.tokens), text_kv_valid |-> f.text_kv_valid,
           mtp_kv_valid |-> f.mtp_kv_valid, dflash_context_frontier |-> f.dflash_context_frontier,
           mtp_draft_count |-> 0, tail_hidden_valid |-> tail, retained |-> FALSE,
           rewrite_checkpoint |-> StartCheckpoint(s, p, plan)]
  BY <1>8, <1>10 DEF SequenceRecords
<1>b. t \in SequenceRecords
  BY <1>1, <1>3, <1>4, <1>5, <1>7, <1>9, <1>10, <1>a DEF SequenceRecords
<1>11. /\ t.kv = kv /\ t.execution_frontier = f.execution_frontier
       /\ t.ledger = p.tokens /\ t.positions = positions /\ t.rope_delta = RopeDelta(p.tokens)
       /\ t.text_kv_valid = f.text_kv_valid /\ t.mtp_draft_count = 0 /\ t.retained = FALSE
       /\ t.rewrite_checkpoint = StartCheckpoint(s, p, plan)
       /\ t.tail_hidden_valid = tail
  BY <1>a
<1> QED BY <1>4, <1>10, <1>11, <1>b DEF kv, f, tail

(* A staged prefill as start_prefill_lane fills it in.                     *)
LEMMA PrefillRecord ==
  ASSUME NEW tokens \in Seq(Token), NEW base \in Nat, NEW capture \in Nat,
         NEW kind \in CheckpointKinds, NEW extent \in Nat,
         NEW bridge \in Bridges,
         NEW restored \in BOOLEAN, NEW vision \in BOOLEAN
  PROVE  [prompt |-> tokens, base |-> base, cursor |-> base, capture |-> capture,
          kind |-> kind, extent |-> extent, bridge |-> bridge, restored |-> restored,
          vision |-> vision] \in PrefillRecords
BY DEF PrefillRecords

(* The staged prefill a prompt starts with.                                *)
LEMMA StartStaged ==
  ASSUME options \in Setups, NEW s, NEW q, LaneOK(options, s, q),
         q.lifecycle \in {"Empty", "Complete"},
         NEW p \in Prompts, NEW allowed \in BOOLEAN, NEW plan, plan = ReusePath(p, s, allowed),
         NEW t, t = StartSequence(s, p, plan), NEW st, st = StartPrefill(s, p, plan)
  PROVE  /\ t \in SequenceRecords /\ st \in PrefillRecords
         /\ t.execution_frontier <= options.capacity /\ t.mtp_draft_count <= options.draft_window
         /\ t.rewrite_checkpoint.valid => t.rewrite_checkpoint.frontier <= t.text_kv_valid
         /\ Staged(options, t, st, p.output)
<1>1. /\ s \in SequenceRecords /\ s.execution_frontier <= options.capacity
      /\ p.tokens \in Seq(Token) /\ Len(p.tokens) \in Nat \ {0}
      /\ p.kind \in CheckpointKinds /\ p.checkpoint \in 0..Len(p.tokens)
      /\ p.output \in Nat \ {0} /\ Len(p.tokens) + p.output - 1 <= options.capacity
      /\ options.draft_window \in Nat
  BY OptionsFacts DEF LaneOK, Capacity, DraftWindow
<1>2. /\ plan.base \in 0..Len(p.tokens) /\ plan.path \in {"reset", "append", "restore"}
      /\ plan.path = "reset" => plan.base = 0
      /\ plan.path # "reset" => q.lifecycle = "Complete"
  BY PlanFacts
<1>3. /\ t \in SequenceRecords
      /\ t.kv = StartBundle(StartFrontiers(s, plan), p, plan)
      /\ t.execution_frontier = s.execution_frontier
      /\ t.ledger = p.tokens /\ Len(t.positions) = Len(p.tokens)
      /\ t.text_kv_valid = plan.base
      /\ t.mtp_draft_count = 0
      /\ ~ t.retained
      /\ t.rewrite_checkpoint = StartCheckpoint(s, p, plan)
      /\ t.tail_hidden_valid <=> /\ plan.base = Len(p.tokens)
                                 /\ plan.path = "restore" \/ s.tail_hidden_valid
  BY StartFields
<1>4. InitialExtent(p) \in Nat /\ InitialExtent(p) <= options.draft_window
  BY InitialExtentBounds DEF DraftWindow
<1> DEFINE capture == IF CheckpointAction(p, s, plan) = "capture" THEN p.checkpoint ELSE 0
           vision == \E i \in (plan.base + 1)..Len(p.tokens) : p.tokens[i] = Media
           restored == plan.path = "restore"
<1>5. capture \in 0..Len(p.tokens)
  BY <1>1
<1>6. BridgeMode(p, plan) \in Bridges
  BY DEF BridgeMode, Bridges
<1>7. st = [prompt |-> p.tokens, base |-> plan.base, cursor |-> plan.base, capture |-> capture,
            kind |-> p.kind, extent |-> InitialExtent(p), bridge |-> BridgeMode(p, plan),
            restored |-> restored, vision |-> vision]
  BY DEF StartPrefill
<1>8. vision \in BOOLEAN /\ restored \in BOOLEAN
  OBVIOUS
<1> HIDE DEF capture, vision, restored
<1>9. st \in PrefillRecords
  <2>1. plan.base \in Nat /\ capture \in Nat
    BY <1>1, <1>2, <1>5
  <2> DEFINE tokens == p.tokens
             kind == p.kind
             base == plan.base
             extent == InitialExtent(p)
             bridge == BridgeMode(p, plan)
  <2>2. st = [prompt |-> tokens, base |-> base, cursor |-> base, capture |-> capture,
              kind |-> kind, extent |-> extent, bridge |-> bridge, restored |-> restored,
              vision |-> vision]
    BY <1>7
  <2>3. /\ tokens \in Seq(Token) /\ kind \in CheckpointKinds /\ base \in Nat /\ capture \in Nat
        /\ extent \in Nat /\ bridge \in Bridges
        /\ vision \in BOOLEAN /\ restored \in BOOLEAN
    BY <1>1, <1>4, <1>6, <1>8, <2>1
  <2> HIDE DEF tokens, kind, base, extent, bridge
  <2>4. [prompt |-> tokens, base |-> base, cursor |-> base, capture |-> capture,
        kind |-> kind, extent |-> extent, bridge |-> bridge, restored |-> restored,
        vision |-> vision] \in PrefillRecords
    BY <2>3, PrefillRecord, Zenon
  <2> QED BY <2>2, <2>4, Zenon
<1>10. /\ t.kv.bound
       /\ t.kv.text = Len(p.tokens) + p.output - 1
       /\ t.kv.backend = BackendShare(options, Len(p.tokens) + p.output - 1)
       /\ t.kv.textMapped <= t.kv.text /\ t.kv.backendMapped <= t.kv.backend
       /\ Len(p.tokens) <= t.kv.textMapped /\ t.kv \in BundleRecords
  BY <1>1, <1>2, <1>3, StartBundleCovers
<1>11. plan.base = Len(p.tokens) => t.tail_hidden_valid
  <2>1. plan.path # "reset" => s.tail_hidden_valid
    BY <1>2 DEF LaneOK, Kept, Settled
  <2> QED BY <1>1, <1>2, <1>3, <2>1
<1>12. t.rewrite_checkpoint.valid => t.rewrite_checkpoint.frontier <= plan.base
  BY <1>3, StartCheckpointFacts
<1>13. BundleCovers(options, t, Len(p.tokens) + p.output - 1)
  BY <1>1, <1>2, <1>3, <1>10 DEF BundleCovers, BundleRecords
<1>14. /\ st.prompt = p.tokens /\ st.cursor = plan.base /\ st.capture = capture
       /\ st.extent = InitialExtent(p)
  BY <1>7
<1>15. Staged(options, t, st, p.output)
  BY <1>1, <1>2, <1>3, <1>4, <1>5, <1>10, <1>11, <1>13, <1>14 DEF Staged
<1> QED BY <1>1, <1>3, <1>9, <1>12, <1>15

-----------------------------------------------------------------------------
(* advance_prefill                                                         *)

(* A chunk is not empty unless the prompt is resident, and does not pass   *)
(* the checkpoint to be captured.                                          *)
LEMMA ChunkEndBounds ==
  ASSUME NEW st \in PrefillRecords, st.cursor <= Len(st.prompt), st.capture <= Len(st.prompt)
  PROVE  /\ ChunkEnd(st) \in st.cursor..Len(st.prompt)
         /\ st.cursor < Len(st.prompt) => st.cursor < ChunkEnd(st)
         /\ st.cursor < st.capture => ChunkEnd(st) <= st.capture
<1>1. /\ st.cursor \in Nat /\ st.capture \in Nat /\ Len(st.prompt) \in Nat
      /\ PrefillChunk \in Nat \ {0}
  <2>1. PrefillChunk \in Nat \ {0}
    BY OptionsAssumption
  <2>2. st.cursor \in Nat /\ st.capture \in Nat /\ st.prompt \in Seq(Token)
    BY DEF PrefillRecords
  <2> QED BY <2>1, <2>2
<1> DEFINE nominal == Min({st.cursor + PrefillChunk, Len(st.prompt)})
<1>2. nominal = IF st.cursor + PrefillChunk <= Len(st.prompt) THEN st.cursor + PrefillChunk
                                                              ELSE Len(st.prompt)
  <2>1. st.cursor + PrefillChunk \in Int /\ Len(st.prompt) \in Int
    BY <1>1
  <2> QED BY <2>1, MinOfTwo
<1>3. ChunkEnd(st) = IF st.cursor < st.capture /\ st.capture < nominal THEN st.capture ELSE nominal
  BY DEF ChunkEnd
<1> HIDE DEF nominal
<1> QED BY <1>1, <1>2, <1>3

(* A step of a staged prefill leaves the lane prefilling, or with its      *)
(* first token pending.                                                    *)
LEMMA AdvanceKeeps ==
  ASSUME options \in Setups, NEW s \in SequenceRecords, NEW st \in PrefillRecords,
         NEW remaining \in Nat, NEW token \in Tokens,
         s.execution_frontier <= options.capacity, s.mtp_draft_count <= options.draft_window,
         s.rewrite_checkpoint.valid => s.rewrite_checkpoint.frontier <= s.text_kv_valid,
         Staged(options, s, st, remaining)
  PROVE  LaneOK(options,
                IF Samples(st) THEN FinishedSequence(s, st, token) ELSE PrefilledSequence(s, st),
                StagedRequest(st, token, remaining))
<1> DEFINE n == ChunkEnd(st)
           f == PrefilledSequence(s, st)
           c == IF st.capture # 0
                  THEN [valid |-> TRUE, kind |-> st.kind, frontier |-> st.capture]
                  ELSE s.rewrite_checkpoint
           g == FinishedSequence(s, st, token)
           q == StagedRequest(st, token, remaining)
           k == Len(st.prompt)
<1>1. /\ options.backend \in {"None", "Mtp", "DFlash"} /\ Backend = options.backend
      /\ options.capacity \in Nat /\ options.draft_window \in Nat
  BY OptionsFacts DEF Backend, Capacity, DraftWindow
<1>2. /\ s.ledger = st.prompt /\ Len(s.positions) = k /\ k > 0 /\ k \in Nat
      /\ st.cursor = s.text_kv_valid /\ st.cursor <= k
      /\ st.capture <= k /\ st.extent <= options.draft_window
      /\ remaining > 0 /\ BundleCovers(options, s, k + remaining - 1)
      /\ k <= s.kv.textMapped /\ ~ s.retained
      /\ s.ledger \in Seq(Token) /\ s.positions \in Seq(Int) /\ s.kv \in BundleRecords
      /\ s.rewrite_checkpoint \in CheckpointRecords
      /\ st.capture \in Nat /\ st.cursor \in Nat /\ st.extent \in Nat /\ st.kind \in CheckpointKinds
  <2>1. /\ s.ledger \in Seq(Token) /\ s.positions \in Seq(Int) /\ s.kv \in BundleRecords
        /\ s.rewrite_checkpoint \in CheckpointRecords
    BY DEF SequenceRecords
  <2>2. /\ st.capture \in Nat /\ st.cursor \in Nat /\ st.extent \in Nat
        /\ st.kind \in CheckpointKinds /\ st.prompt \in Seq(Token)
    BY DEF PrefillRecords
  <2> QED BY <2>1, <2>2 DEF Staged
<1>3. n \in st.cursor..k /\ n \in Nat /\ (Samples(st) <=> n = k)
  BY <1>2, ChunkEndBounds DEF Samples
<1>4. f = [kv |-> s.kv, execution_frontier |-> s.execution_frontier,
           ledger_frontier |-> s.ledger_frontier, ledger |-> s.ledger,
           positions |-> s.positions, rope_delta |-> s.rope_delta, text_kv_valid |-> n,
           mtp_kv_valid |-> IF Backend = "Mtp" THEN n ELSE s.mtp_kv_valid,
           dflash_context_frontier |-> IF Backend = "DFlash" THEN n
                                                             ELSE s.dflash_context_frontier,
           mtp_draft_count |-> s.mtp_draft_count, tail_hidden_valid |-> s.tail_hidden_valid,
           retained |-> s.retained, rewrite_checkpoint |-> s.rewrite_checkpoint]
  <2> DEFINE mtp == IF Backend = "Mtp" THEN n ELSE s.mtp_kv_valid
             draft == IF Backend = "DFlash" THEN n ELSE s.dflash_context_frontier
  <2>1. f = [s EXCEPT !.text_kv_valid = n, !.mtp_kv_valid = mtp,
                      !.dflash_context_frontier = draft]
    BY DEF PrefilledSequence
  <2> HIDE DEF f, n, mtp, draft
  <2>2. f = [kv |-> s.kv, execution_frontier |-> s.execution_frontier,
             ledger_frontier |-> s.ledger_frontier, ledger |-> s.ledger,
             positions |-> s.positions, rope_delta |-> s.rope_delta, text_kv_valid |-> n,
             mtp_kv_valid |-> mtp, dflash_context_frontier |-> draft,
             mtp_draft_count |-> s.mtp_draft_count, tail_hidden_valid |-> s.tail_hidden_valid,
             retained |-> s.retained, rewrite_checkpoint |-> s.rewrite_checkpoint]
    BY <2>1 DEF SequenceRecords
  <2> QED BY <2>2 DEF mtp, draft
<1> HIDE DEF f, n
<1>5. f \in SequenceRecords
  BY <1>2, <1>3, <1>4 DEF SequenceRecords
<1>6. BundleCovers(options, f, k + remaining - 1)
  BY <1>2, <1>3, <1>4 DEF BundleCovers, BundleRecords
<1>7. CASE ~ Samples(st)
  <2> DEFINE r == [st EXCEPT !.cursor = n, !.bridge = "none"]
  <2>1. q = [lifecycle |-> "Prefilling", pending |-> NoPending, remaining |-> remaining,
             prefill |-> r]
    BY <1>7 DEF StagedRequest, n
  <2>2. /\ r \in PrefillRecords /\ r.prompt = st.prompt /\ r.cursor = n
        /\ r.capture = st.capture /\ r.extent = st.extent
    BY <1>3 DEF PrefillRecords, Bridges
  <2>3. /\ NoPending \in PendingRecords /\ NoPending.kind = "none"
    BY DEF NoPending, PendingRecords
  <2> HIDE DEF q, r
  <2>4. /\ q \in RequestRecords /\ q.lifecycle = "Prefilling" /\ q.pending.kind = "none"
        /\ q.prefill = r /\ q.remaining = remaining
    BY <2>1, <2>2, <2>3 DEF RequestRecords, Lifecycles
  <2>5. n < k
    BY <1>2, <1>3, <1>7
  <2>6. Staged(options, f, r, remaining)
    BY <1>2, <1>3, <1>4, <1>6, <2>2, <2>5 DEF Staged
  <2>7. st.prompt # << >>
    BY <1>2
  <2>8. LaneOK(options, f, q)
    BY <1>2, <1>3, <1>4, <1>5, <2>2, <2>4, <2>5, <2>6, <2>7 DEF LaneOK, CheckpointRecords
  <2> QED BY <1>7, <2>8 DEF f, q
<1>8. CASE Samples(st)
  <2>1. g = [kv |-> s.kv, execution_frontier |-> s.execution_frontier,
             ledger_frontier |-> s.ledger_frontier, ledger |-> Append(s.ledger, token),
             positions |-> Append(s.positions, k + s.rope_delta),
             rope_delta |-> s.rope_delta, text_kv_valid |-> n,
             mtp_kv_valid |-> f.mtp_kv_valid,
             dflash_context_frontier |-> f.dflash_context_frontier,
             mtp_draft_count |-> st.extent, tail_hidden_valid |-> TRUE,
             retained |-> s.retained, rewrite_checkpoint |-> c]
    <3>1. g = [f EXCEPT !.ledger = Append(@, token),
                        !.positions = Append(@, k + s.rope_delta),
                        !.mtp_draft_count = st.extent, !.tail_hidden_valid = TRUE,
                        !.rewrite_checkpoint = IF st.capture # 0
                            THEN [valid |-> TRUE, kind |-> st.kind, frontier |-> st.capture]
                            ELSE @]
      BY DEF FinishedSequence, f
    <3>2. f.rewrite_checkpoint = s.rewrite_checkpoint /\ f.ledger = s.ledger
          /\ f.positions = s.positions
      BY <1>4
    <3>3. g = [f EXCEPT !.ledger = Append(s.ledger, token),
                        !.positions = Append(s.positions, k + s.rope_delta),
                        !.mtp_draft_count = st.extent, !.tail_hidden_valid = TRUE,
                        !.rewrite_checkpoint = c]
      BY <3>1, <3>2
    <3> HIDE DEF g, c, k
    <3> QED BY <1>4, <3>3
  <2>2. c \in CheckpointRecords /\ (c.valid => c.frontier <= k)
    BY <1>2, <1>3 DEF CheckpointRecords
  <2>3. /\ Append(s.ledger, token) \in Seq(Token) /\ Len(Append(s.ledger, token)) = k + 1
        /\ Append(s.positions, k + s.rope_delta) \in Seq(Int)
        /\ Len(Append(s.positions, k + s.rope_delta)) = k + 1
    <3>1. token \in Token /\ k + s.rope_delta \in Int
      BY <1>2 DEF Token, SequenceRecords
    <3>2. s.ledger \in Seq(Token) /\ Len(s.ledger) = k /\ s.positions \in Seq(Int)
          /\ Len(s.positions) = k /\ k \in Nat
      BY <1>2
    <3> DEFINE place == k + s.rope_delta
    <3> HIDE DEF k
    <3>3. place \in Int
      BY <3>1
    <3> HIDE DEF place
    <3>4. /\ Append(s.ledger, token) \in Seq(Token) /\ Len(Append(s.ledger, token)) = k + 1
      BY <3>1, <3>2
    <3>5. /\ Append(s.positions, place) \in Seq(Int) /\ Len(Append(s.positions, place)) = k + 1
      BY <3>2, <3>3
    <3> QED BY <3>4, <3>5 DEF place
  <2> HIDE DEF g, c
  <2>4. g \in SequenceRecords
    BY <1>2, <1>3, <1>5, <2>1, <2>2, <2>3 DEF SequenceRecords
  <2>5. n = k
    BY <1>3, <1>8
  <2>6. /\ options.backend = "Mtp" => g.mtp_kv_valid = k
        /\ options.backend = "DFlash" => g.dflash_context_frontier = k
    BY <1>1, <1>4, <2>1, <2>5
  <2> DEFINE pending == [kind |-> "begin", base_E |-> 0, base_S |-> 0, prompt_tokens |-> k,
                         tokens |-> <<token>>, next |-> 0]
  <2>7. q = [lifecycle |-> "Pending", prefill |-> NoPrefill, remaining |-> remaining,
             pending |-> pending]
    BY <1>8 DEF StagedRequest, NoPending
  <2>8. pending \in PendingRecords /\ Len(pending.tokens) = 1
    BY <1>2 DEF PendingRecords
  <2>9. NoPrefill \in PrefillRecords /\ NoPrefill.prompt = << >>
    <3>1. << >> \in Seq(Token)
      OBVIOUS
    <3> QED BY <3>1 DEF NoPrefill, PrefillRecords, CheckpointKinds, Bridges
  <2>10. pending.kind = "begin" /\ pending.prompt_tokens = k
    OBVIOUS
  <2> HIDE DEF q, pending
  <2>11. /\ q \in RequestRecords /\ q.lifecycle = "Pending" /\ q.pending = pending
         /\ q.prefill.prompt = << >> /\ q.remaining = remaining
    BY <2>7, <2>8, <2>9 DEF RequestRecords, Lifecycles
  <2>12. BundleCovers(options, g, k + remaining - 1)
    BY <1>2, <1>3, <2>1, <2>5 DEF BundleCovers, BundleRecords
  <2>13. k <= options.capacity
    BY <1>1, <1>2 DEF BundleCovers
  <2>14. Begun(options, g, pending, remaining)
    BY <1>2, <2>1, <2>3, <2>5, <2>6, <2>8, <2>10, <2>12, <2>13 DEF Begun
  <2>15. LaneOK(options, g, q)
    BY <1>2, <2>1, <2>2, <2>3, <2>4, <2>5, <2>10, <2>11, <2>14 DEF LaneOK
  <2> QED BY <1>8, <2>15 DEF g, q
<1> QED BY <1>7, <1>8

-----------------------------------------------------------------------------
(* decode_batch                                                            *)

(* An active lane passes the checks of a decode round.                     *)
LEMMA ActiveIsReady ==
  ASSUME LanesInv, NEW l \in Active
  PROVE  DecodeReady(l)
<1>1. /\ l \in Lanes /\ request[l].lifecycle = "Active"
      /\ options \in Setups /\ LaneOK(options, sequence[l], request[l])
  BY DEF LanesInv, Active
<1> DEFINE s == sequence[l]
           r == request[l].remaining
<1>2. /\ s \in SequenceRecords /\ Decoding(options, s, r) /\ Len(s.ledger) = Len(s.positions)
      /\ s.mtp_draft_count <= options.draft_window /\ r \in Nat
  BY <1>1 DEF LaneOK, RequestRecords
<1>3. /\ s.execution_frontier \in Nat /\ s.dflash_context_frontier \in Nat
      /\ options.wide_window \in Nat /\ options.capacity \in Nat
  BY <1>1, <1>2, OptionsFacts DEF SequenceRecords, WideWindow, Capacity
<1> HIDE DEF s, r
<1>4. /\ r > 0 /\ s.kv.bound /\ s.execution_frontier < options.capacity
      /\ s.ledger_frontier = s.execution_frontier + 1
      /\ Len(s.ledger) = s.ledger_frontier
      /\ s.text_kv_valid = s.execution_frontier
      /\ options.backend = "Mtp" => s.mtp_kv_valid = s.execution_frontier
      /\ options.backend = "DFlash" =>
           s.dflash_context_frontier \in
             (s.execution_frontier - options.wide_window - 1)..s.execution_frontier
  BY <1>2, <1>3 DEF Decoding, Settled, BundleCovers
<1> QED BY <1>2, <1>4 DEF DecodeReady, s, r, Backend, Capacity, DraftWindow, WideWindow

(* A round verifies at most as many drafts as the budget, the capacity and *)
(* the window allow, and commits at most one token more.                   *)
RoundFits(o, s, remaining, round) ==
    /\ round.extent \in Nat
    /\ s.execution_frontier + round.extent + 1 <= o.capacity
    /\ round.extent + 1 <= remaining
    /\ round.extent <= o.wide_window
    /\ o.backend = "None" => round.extent = 0
    /\ round.tokens \in Seq(Tokens) /\ Len(round.tokens) \in 1..(round.extent + 1)
    /\ round.next \in 0..o.draft_window

(* Every round decode_batch may run is of that kind.                       *)
LEMMA RoundsFit ==
  ASSUME LanesInv, NEW l \in Active, NEW window \in Windows, NEW round \in Rounds(l, window)
  PROVE  RoundFits(options, sequence[l], request[l].remaining, round)
<1> DEFINE s == sequence[l]
           r == request[l].remaining
           a == r - 1
           b == Capacity - s.execution_frontier - 1
           room == Min({a, b})
<1>1. /\ l \in Lanes /\ request[l].lifecycle = "Active"
      /\ options \in Setups /\ LaneOK(options, sequence[l], request[l])
  BY DEF LanesInv, Active
<1>2. /\ Backend \in {"None", "Mtp", "DFlash"} /\ Capacity \in Nat
      /\ DraftWindow \in Nat \ {0} /\ WideWindow \in Nat /\ WideWindow >= DraftWindow
  BY <1>1, OptionsFacts
<1>3. /\ s.execution_frontier \in Nat /\ r \in Nat /\ s.mtp_draft_count \in Nat
      /\ r > 0 /\ s.execution_frontier + r <= Capacity
  <2>1. s \in SequenceRecords /\ Decoding(options, s, r) /\ request[l] \in RequestRecords
    BY <1>1 DEF LaneOK
  <2>2. s.execution_frontier \in Nat /\ r \in Nat /\ s.mtp_draft_count \in Nat
    BY <2>1 DEF SequenceRecords, RequestRecords
  <2> QED BY <2>1, <2>2 DEF Decoding, BundleCovers, Capacity
<1>4. room \in Nat /\ room <= r - 1 /\ room <= Capacity - s.execution_frontier - 1
  <2>1. a \in Nat /\ b \in Nat /\ a = r - 1 /\ b = Capacity - s.execution_frontier - 1
    BY <1>2, <1>3
  <2> HIDE DEF a, b
  <2>2. Min({a, b}) \in Nat /\ Min({a, b}) <= a /\ Min({a, b}) <= b
    BY <2>1, LesserNat, Zenon
  <2> QED BY <2>1, <2>2
<1>5. PICK n \in Drafts(l, window) :
        /\ round.extent = n
        /\ round.tokens \in UNION {[1..k -> Tokens] : k \in 1..(n + 1)}
        /\ round.next \in IF Backend = "Mtp" THEN 0..DraftWindow ELSE {0}
  <2>1. PICK n \in Drafts(l, window) :
          round \in [extent : {n}, tokens : UNION {[1..k -> Tokens] : k \in 1..(n + 1)},
                     next : IF Backend = "Mtp" THEN 0..DraftWindow ELSE {0}]
    BY Zenon DEF Rounds
  <2> DEFINE X == UNION {[1..k -> Tokens] : k \in 1..(n + 1)}
             Y == IF Backend = "Mtp" THEN 0..DraftWindow ELSE {0}
  <2>2. round \in [extent : {n}, tokens : X, next : Y]
    BY <2>1
  <2> HIDE DEF X, Y
  <2>3. round.extent = n /\ round.tokens \in X /\ round.next \in Y
    BY <2>2
  <2> QED BY <2>3 DEF X, Y
<1>6. n \in Nat /\ n <= room /\ n <= WideWindow /\ (Backend = "None" => n = 0)
  <2> HIDE DEF room, s
  <2>0. /\ Backend = "None" => n = 0
        /\ Backend = "Mtp" => n = Min({s.mtp_draft_count, DraftWindow, room})
        /\ Backend = "DFlash" => \E m \in {DraftWindow} \union 1..window : n = Min({m, room})
    BY <1>2 DEF Drafts, s, room
  <2>1. CASE Backend = "None"
    BY <1>2, <1>4, <2>0, <2>1
  <2>2. CASE Backend = "Mtp"
    <3> DEFINE d == s.mtp_draft_count
    <3>1. d \in Int /\ DraftWindow \in Int /\ room \in Int /\ d \in Nat
      BY <1>2, <1>3, <1>4
    <3> HIDE DEF d
    <3>2. /\ Min({d, DraftWindow, room}) \in {d, DraftWindow, room}
          /\ Min({d, DraftWindow, room}) <= DraftWindow /\ Min({d, DraftWindow, room}) <= room
      BY <3>1, MinOfThree, Zenon
    <3>3. n = Min({d, DraftWindow, room})
      BY <2>0, <2>2 DEF d
    <3> QED BY <1>2, <1>4, <2>2, <3>1, <3>2, <3>3
  <2>3. CASE Backend = "DFlash"
    <3>1. PICK m \in {DraftWindow} \union 1..window : n = Min({m, room})
      BY <2>0, <2>3
    <3>2. window \in {DraftWindow, WideWindow}
      BY <2>3 DEF Windows
    <3>3. m \in Nat /\ m <= WideWindow
      BY <1>2, <3>1, <3>2
    <3>4. Min({m, room}) \in Nat /\ Min({m, room}) <= m /\ Min({m, room}) <= room
      BY <1>4, <3>3, LesserNat, Zenon
    <3> QED BY <1>2, <1>4, <2>3, <3>1, <3>3, <3>4
  <2> QED BY <1>2, <2>1, <2>2, <2>3
<1>7. round.tokens \in Seq(Tokens) /\ Len(round.tokens) \in 1..(n + 1)
  <2>1. PICK k \in 1..(n + 1) : round.tokens \in [1..k -> Tokens]
    BY <1>5
  <2>2. k \in Nat
    BY <1>6, <2>1
  <2> QED BY <2>1, <2>2
<1>8. round.next \in 0..DraftWindow
  BY <1>2, <1>5
<1> HIDE DEF s, r, room
<1>9. s.execution_frontier + n + 1 <= Capacity /\ n + 1 <= r
  BY <1>2, <1>3, <1>4, <1>6
<1> QED BY <1>5, <1>6, <1>7, <1>8, <1>9
        DEF RoundFits, s, r, Backend, Capacity, DraftWindow, WideWindow

(* A round stays within its lane's entitlement and leaves it pending.      *)
LEMMA RoundKeeps ==
  ASSUME options \in Setups, NEW s, NEW q, LaneOK(options, s, q), q.lifecycle = "Active",
         NEW round, RoundFits(options, s, q.remaining, round)
  PROVE  /\ Backed(RoundBundle(s, round))
         /\ LaneOK(options, RoundSequence(s, round),
                   [q EXCEPT !.lifecycle = "Pending", !.pending = RoundPending(s, round)])
<1> DEFINE e == s.execution_frontier
           r == q.remaining
           kv == RoundBundle(s, round)
           t == RoundSequence(s, round)
           w == RoundPending(s, round)
           rows == CASE Backend = "Mtp" -> Min({Capacity, e + round.extent + DraftWindow})
                     [] Backend = "DFlash" -> e
                     [] OTHER -> 0
<1>1. /\ options.backend \in {"None", "Mtp", "DFlash"} /\ options.capacity \in Nat
      /\ options.draft_window \in Nat \ {0} /\ options.wide_window \in Nat
      /\ Backend = options.backend /\ Capacity = options.capacity
      /\ DraftWindow = options.draft_window
  BY OptionsFacts DEF Backend, Capacity, DraftWindow, WideWindow
<1>2. /\ s \in SequenceRecords /\ q \in RequestRecords /\ Decoding(options, s, r)
      /\ Len(s.ledger) = Len(s.positions)
      /\ s.mtp_draft_count <= options.draft_window /\ s.execution_frontier <= options.capacity
      /\ s.rewrite_checkpoint.valid => s.rewrite_checkpoint.frontier <= s.text_kv_valid
      /\ ~ s.retained /\ q.prefill.prompt = << >>
  BY DEF LaneOK
<1>3. /\ e \in Nat /\ r \in Nat /\ r > 0 /\ s.kv \in BundleRecords
      /\ s.ledger \in Seq(Token) /\ s.positions \in Seq(Int) /\ s.rope_delta \in Int
      /\ s.rewrite_checkpoint \in CheckpointRecords
  BY <1>2 DEF SequenceRecords, RequestRecords, Decoding
<1>4. /\ Settled(options, s) /\ BundleCovers(options, s, e + r)
  BY <1>2 DEF Decoding
<1>5. /\ round.extent \in Nat /\ e + round.extent + 1 <= options.capacity
      /\ round.extent + 1 <= r /\ round.extent <= options.wide_window
      /\ options.backend = "None" => round.extent = 0
      /\ round.tokens \in Seq(Tokens) /\ Len(round.tokens) \in 1..(round.extent + 1)
      /\ round.next \in 0..options.draft_window
  BY DEF RoundFits
<1>6. rows \in Nat /\ rows <= s.kv.backend
  <2>1. s.kv.backend = BackendShare(options, e + r)
    BY <1>4 DEF BundleCovers
  <2>2. CASE Backend = "Mtp"
    <3> DEFINE x == e + round.extent + DraftWindow
               y == e + r + options.draft_window - 1
    <3>1. x \in Nat /\ y \in Nat /\ x <= y
      <4>1. /\ e \in Nat /\ r \in Nat /\ round.extent \in Nat /\ round.extent + 1 <= r
            /\ DraftWindow \in Nat /\ DraftWindow > 0 /\ options.draft_window = DraftWindow
        BY <1>1, <1>3, <1>5
      <4> HIDE DEF e, r
      <4> QED BY <4>1
    <3>2. rows = Min({Capacity, x}) /\ s.kv.backend = Min({Capacity, y})
      BY <1>1, <2>1, <2>2 DEF BackendShare
    <3> HIDE DEF rows, x, y
    <3>3. Min({Capacity, x}) \in Nat /\ Min({Capacity, x}) <= Capacity /\ Min({Capacity, x}) <= x
      BY <1>1, <3>1, LesserNat
    <3>4. rows \in Int /\ rows <= Capacity /\ rows <= y
      BY <1>1, <3>1, <3>2, <3>3
    <3>5. rows <= Min({Capacity, y})
      BY <1>1, <3>1, <3>4, LesserNat
    <3> QED BY <3>2, <3>3, <3>5
  <2>3. CASE Backend = "DFlash"
    BY <1>1, <1>3, <2>1, <2>3 DEF BackendShare
  <2>4. CASE Backend = "None"
    BY <1>1, <1>3, <2>4 DEF BundleRecords
  <2> QED BY <1>1, <2>2, <2>3, <2>4
<1>7. kv = Materialize(s.kv, e + round.extent + 1, rows)
  BY DEF RoundBundle
<1> HIDE DEF kv, rows
<1>8. /\ kv \in BundleRecords
      /\ kv.textMapped \in {e + round.extent + 1, s.kv.textMapped}
      /\ kv.textMapped >= e + round.extent + 1 /\ kv.textMapped >= s.kv.textMapped
      /\ kv.backendMapped \in {rows, s.kv.backendMapped}
      /\ kv.text = s.kv.text /\ kv.backend = s.kv.backend /\ kv.bound = s.kv.bound
  <2> DEFINE x == e + round.extent + 1
  <2>1. x \in Nat
    BY <1>3, <1>5
  <2> HIDE DEF x
  <2>2. /\ kv \in BundleRecords
        /\ kv.textMapped \in {x, s.kv.textMapped}
        /\ kv.textMapped >= x /\ kv.textMapped >= s.kv.textMapped
        /\ kv.backendMapped \in {rows, s.kv.backendMapped}
    BY <1>3, <1>6, <1>7, <2>1, MaterializeFields DEF x
  <2>3. kv.text = s.kv.text /\ kv.backend = s.kv.backend /\ kv.bound = s.kv.bound
    BY <1>3, <1>7 DEF Materialize, BundleRecords
  <2> QED BY <2>2, <2>3 DEF x
<1>9. Backed(kv) /\ kv.textMapped <= kv.text /\ kv.backendMapped <= kv.backend
  BY <1>3, <1>4, <1>5, <1>6, <1>8 DEF Backed, BundleCovers
<1>a. /\ e + 1 <= kv.textMapped /\ s.text_kv_valid <= kv.textMapped
      /\ e + Len(round.tokens) <= kv.textMapped
  <2>1. kv.textMapped \in Nat /\ kv.textMapped >= e + round.extent + 1
    BY <1>8 DEF BundleRecords
  <2>2. s.text_kv_valid = e
    BY <1>4 DEF Settled
  <2> QED BY <1>3, <1>5, <2>1, <2>2
<1>10. CASE Backend = "None"
  <2> DEFINE ledger == s.ledger \o round.tokens
             positions == Append(s.positions, Len(s.positions) + s.rope_delta)
  <2>1. t = [kv |-> kv, execution_frontier |-> e, ledger_frontier |-> s.ledger_frontier,
             ledger |-> ledger, positions |-> positions, rope_delta |-> s.rope_delta,
             text_kv_valid |-> e + 1, mtp_kv_valid |-> s.mtp_kv_valid,
             dflash_context_frontier |-> s.dflash_context_frontier,
             mtp_draft_count |-> s.mtp_draft_count, tail_hidden_valid |-> TRUE,
             retained |-> s.retained, rewrite_checkpoint |-> s.rewrite_checkpoint]
    <3>1. t = [[s EXCEPT !.kv = kv] EXCEPT !.text_kv_valid = e + 1, !.tail_hidden_valid = TRUE,
                 !.ledger = @ \o round.tokens, !.positions = Append(@, Len(@) + s.rope_delta)]
      BY <1>10 DEF RoundSequence, kv
    <3> HIDE DEF t
    <3> QED BY <1>2, <3>1 DEF SequenceRecords
  <2>2. Len(round.tokens) = 1 /\ round.tokens \in Seq(Token)
    <3>1. Len(round.tokens) = 1 /\ round.tokens \in Seq(Tokens)
      <4>1. round.extent = 0 /\ Len(round.tokens) \in 1..(round.extent + 1)
        BY <1>1, <1>5, <1>10
      <4>2. Len(round.tokens) \in 1..(0 + 1)
        BY <4>1, Zenon
      <4> QED BY <1>5, <4>2
    <3>2. Tokens \subseteq Token
      BY DEF Token
    <3> QED BY <3>1, <3>2, SeqMonotonic, Zenon
  <2>3. /\ ledger \in Seq(Token) /\ Len(ledger) = Len(s.ledger) + 1
        /\ positions \in Seq(Int) /\ Len(positions) = Len(s.positions) + 1
    <3>1. ledger \in Seq(Token) /\ Len(ledger) = Len(s.ledger) + 1
      <4>1. ledger \in Seq(Token) /\ Len(ledger) = Len(s.ledger) + Len(round.tokens)
        BY <1>3, <2>2, ConcatProperties, Zenon
      <4> QED BY <2>2, <4>1
    <3> DEFINE place == Len(s.positions) + s.rope_delta
    <3>2. place \in Int
      BY <1>3
    <3> HIDE DEF place
    <3>3. /\ Append(s.positions, place) \in Seq(Int)
          /\ Len(Append(s.positions, place)) = Len(s.positions) + 1
      BY <1>3, <3>2
    <3> QED BY <3>1, <3>3 DEF place
  <2>4. w = [kind |-> "ordinary", base_E |-> e, base_S |-> s.ledger_frontier, prompt_tokens |-> 0,
             tokens |-> round.tokens, next |-> round.next]
    BY <1>10 DEF RoundPending
  <2>5. w \in PendingRecords /\ w.kind = "ordinary"
    BY <1>1, <1>2, <1>3, <1>5, <2>4 DEF PendingRecords, SequenceRecords
  <2> DEFINE p == [q EXCEPT !.lifecycle = "Pending", !.pending = w]
  <2> HIDE DEF t, w, ledger, positions
  <2>6. /\ p \in RequestRecords /\ p.lifecycle = "Pending" /\ p.pending = w
        /\ p.prefill.prompt = << >> /\ p.remaining = r
    BY <1>2, <2>5 DEF RequestRecords, Lifecycles
  <2>7. t \in SequenceRecords
    BY <1>2, <1>3, <1>8, <2>1, <2>3 DEF SequenceRecords
  <2>8. BundleCovers(options, t, e + r)
    BY <1>3, <1>4, <1>8, <1>9, <1>a, <2>1 DEF BundleCovers
  <2>9. OrdinaryRound(options, t, w, r)
    BY <1>1, <1>3, <1>4, <1>10, <2>1, <2>2, <2>3, <2>4, <2>8 DEF OrdinaryRound, Settled
  <2>10. t.rewrite_checkpoint.valid => t.rewrite_checkpoint.frontier <= t.text_kv_valid
    BY <1>2, <1>3, <1>4, <2>1 DEF Settled, CheckpointRecords
  <2> HIDE DEF p
  <2>11. LaneOK(options, t, p)
    BY <1>2, <2>1, <2>3, <2>5, <2>6, <2>7, <2>9, <2>10 DEF LaneOK
  <2> QED BY <1>9, <2>11 DEF kv, t, w, p
<1>11. CASE Backend # "None"
  <2> DEFINE draft == IF Backend = "DFlash" THEN e ELSE s.dflash_context_frontier
  <2>1. t = [kv |-> kv, execution_frontier |-> e, ledger_frontier |-> s.ledger_frontier,
             ledger |-> s.ledger, positions |-> s.positions, rope_delta |-> s.rope_delta,
             text_kv_valid |-> s.text_kv_valid, mtp_kv_valid |-> s.mtp_kv_valid,
             dflash_context_frontier |-> draft,
             mtp_draft_count |-> s.mtp_draft_count, tail_hidden_valid |-> s.tail_hidden_valid,
             retained |-> s.retained, rewrite_checkpoint |-> s.rewrite_checkpoint]
    <3>1. CASE Backend = "Mtp"
      <4>1. t = [s EXCEPT !.kv = kv] /\ draft = s.dflash_context_frontier
        BY <3>1 DEF RoundSequence, kv
      <4> HIDE DEF t
      <4> QED BY <1>2, <4>1 DEF SequenceRecords
    <3>2. CASE Backend = "DFlash"
      <4>1. t = [[s EXCEPT !.kv = kv] EXCEPT !.dflash_context_frontier = e] /\ draft = e
        BY <3>2 DEF RoundSequence, kv
      <4> HIDE DEF t
      <4> QED BY <1>2, <4>1 DEF SequenceRecords
    <3> QED BY <1>1, <1>11, <3>1, <3>2
  <2>2. w = [kind |-> "speculative", base_E |-> e, base_S |-> s.ledger_frontier,
             prompt_tokens |-> 0, tokens |-> round.tokens, next |-> round.next]
    BY <1>11 DEF RoundPending
  <2>3. w \in PendingRecords /\ w.kind = "speculative"
    BY <1>1, <1>2, <1>3, <1>5, <2>2 DEF PendingRecords, SequenceRecords
  <2> DEFINE p == [q EXCEPT !.lifecycle = "Pending", !.pending = w]
  <2>4. \/ draft \in Nat /\ draft <= e /\ (options.backend = "DFlash" => draft = e)
        \/ options.backend = "Mtp" /\ draft \in Nat
    BY <1>1, <1>2, <1>3, <1>4, <1>11 DEF Settled, SequenceRecords
  <2> HIDE DEF t, w, draft
  <2>5. /\ p \in RequestRecords /\ p.lifecycle = "Pending" /\ p.pending = w
        /\ p.prefill.prompt = << >> /\ p.remaining = r
    BY <1>2, <2>3 DEF RequestRecords, Lifecycles
  <2>6. t \in SequenceRecords
    BY <1>2, <1>3, <1>8, <2>1, <2>4 DEF SequenceRecords
  <2>7. BundleCovers(options, t, e + r)
    BY <1>3, <1>4, <1>8, <1>9, <1>a, <2>1 DEF BundleCovers
  <2>8. Settled(options, t)
    BY <1>1, <1>4, <2>1, <2>4 DEF Settled
  <2>9. Decoding(options, t, r)
    BY <1>1, <1>3, <2>1, <2>4, <2>7, <2>8 DEF Decoding
  <2>10. SpeculativeRound(options, t, w, r)
    <3>1. Len(round.tokens) \in 1..r /\ Len(round.tokens) <= options.wide_window + 1
          /\ round.next <= options.draft_window
      BY <1>1, <1>3, <1>5
    <3>2. /\ t.execution_frontier = e /\ t.ledger_frontier = s.ledger_frontier /\ t.kv = kv
          /\ t.dflash_context_frontier = draft
          /\ w.base_E = e /\ w.base_S = s.ledger_frontier /\ w.tokens = round.tokens
          /\ w.next = round.next
      BY <2>1, <2>2
    <3> QED BY <1>1, <1>11, <1>a, <2>4, <2>9, <3>1, <3>2 DEF SpeculativeRound
  <2> HIDE DEF p
  <2>11. LaneOK(options, t, p)
    BY <1>2, <2>1, <2>3, <2>5, <2>6, <2>10 DEF LaneOK
  <2> QED BY <1>9, <2>11 DEF kv, t, w, p
<1> QED BY <1>10, <1>11

-----------------------------------------------------------------------------
(* resolve_prefill_lane, resolve_pending_batch                             *)

(* A pending lane passes the checks made before its round is resolved.     *)
LEMMA PendingIsResolvable ==
  ASSUME LanesInv, NEW l \in Lanes, request[l].pending.kind # "none"
  PROVE  Resolvable(l)
<1> DEFINE s == sequence[l]
           w == request[l].pending
           r == request[l].remaining
<1>1. /\ LaneOK(options, s, request[l]) /\ options \in Setups
      /\ w.kind \in {"none", "begin", "ordinary", "speculative"} /\ s \in SequenceRecords
  BY DEF LanesInv, LaneOK, RequestRecords, PendingRecords
<1>2. Len(s.ledger) = Len(s.positions)
  BY <1>1 DEF LaneOK
<1>3. CASE w.kind = "begin"
  <2>1. Begun(options, s, w, r) /\ w.prompt_tokens \in Nat
    BY <1>1, <1>3 DEF LaneOK, RequestRecords, PendingRecords
  <2>2. Len(s.ledger) = 1 + w.prompt_tokens
    BY <2>1 DEF Begun
  <2> QED BY <1>3, <2>2 DEF Resolvable
<1>4. CASE w.kind = "ordinary"
  <2>1. OrdinaryRound(options, s, w, r) /\ s.execution_frontier \in Nat
    BY <1>1, <1>4 DEF LaneOK, SequenceRecords
  <2>2. Len(s.ledger) = 1 + (w.base_E + 1)
    BY <2>1 DEF OrdinaryRound
  <2> QED BY <1>4, <2>2 DEF Resolvable
<1>5. CASE w.kind = "speculative"
  <2>1. SpeculativeRound(options, s, w, r)
    BY <1>1, <1>5 DEF LaneOK
  <2>2. /\ s.execution_frontier = w.base_E /\ s.ledger_frontier = w.base_S
        /\ Len(s.ledger) = w.base_S /\ s.text_kv_valid = w.base_E
        /\ options.backend = "Mtp" => s.mtp_kv_valid = w.base_E
        /\ options.backend = "DFlash" => s.dflash_context_frontier = w.base_E
    BY <2>1 DEF SpeculativeRound, Decoding, Settled
  <2> HIDE DEF s, w
  <2> QED BY <1>2, <1>5, <2>2 DEF Resolvable, s, w, Backend
<1> QED BY <1>1, <1>3, <1>4, <1>5

(* A verdict of the executor on a round.                                   *)
VerdictFits(verdict, tokens, remaining) ==
    /\ verdict.kept \in 1..Len(tokens)
    /\ verdict.terminal \in BOOLEAN /\ ~ verdict.cancelled
    /\ ~ verdict.terminal => verdict.kept = Len(tokens) /\ verdict.kept < remaining

(* The executor's verdicts are of that kind.                               *)
LEMMA VerdictsFit ==
  ASSUME LanesInv, NEW l \in Lanes, request[l].pending.kind # "none", NEW verdict \in Verdicts(l)
  PROVE  VerdictFits(verdict, request[l].pending.tokens, request[l].remaining)
<1> DEFINE produced == Len(request[l].pending.tokens)
<1>1. produced \in Nat /\ produced > 0 /\ request[l].remaining \in Nat
  <2>1. /\ LaneOK(options, sequence[l], request[l])
        /\ request[l].pending.tokens \in Seq(Tokens) /\ request[l].remaining \in Nat
        /\ request[l].pending.kind \in {"begin", "ordinary", "speculative"}
    BY DEF LanesInv, RequestRecords, PendingRecords
  <2>2. CASE request[l].pending.kind = "begin"
    <3>1. Begun(options, sequence[l], request[l].pending, request[l].remaining)
      BY <2>1, <2>2 DEF LaneOK
    <3> QED BY <2>1, <3>1 DEF Begun
  <2>3. CASE request[l].pending.kind = "ordinary"
    <3>1. OrdinaryRound(options, sequence[l], request[l].pending, request[l].remaining)
      BY <2>1, <2>3 DEF LaneOK
    <3> QED BY <2>1, <3>1 DEF OrdinaryRound
  <2>4. CASE request[l].pending.kind = "speculative"
    BY <2>1, <2>4 DEF LaneOK, SpeculativeRound
  <2> QED BY <2>1, <2>2, <2>3, <2>4
<1>2. \/ verdict \in [kept : 1..produced, terminal : {TRUE}, cancelled : {FALSE}]
      \/ verdict \in [kept : IF produced < request[l].remaining THEN {produced} ELSE {},
                      terminal : {FALSE}, cancelled : {FALSE}]
  BY DEF Verdicts
<1> HIDE DEF produced
<1>3. CASE verdict \in [kept : 1..produced, terminal : {TRUE}, cancelled : {FALSE}]
  BY <1>1, <1>3 DEF VerdictFits, produced
<1>4. CASE verdict \in [kept : IF produced < request[l].remaining THEN {produced} ELSE {},
                        terminal : {FALSE}, cancelled : {FALSE}]
  <2>1. /\ verdict.kept = produced /\ produced < request[l].remaining
        /\ verdict.terminal = FALSE /\ verdict.cancelled = FALSE
    BY <1>4
  <2>2. verdict.kept \in 1..produced
    BY <1>1, <2>1
  <2> QED BY <1>1, <2>1, <2>2 DEF VerdictFits, produced
<1> QED BY <1>2, <1>3, <1>4

(* The sequence after the kept tokens are committed, before its bundle is  *)
(* trimmed.                                                                *)
Committed(o, s, x, verdict, remaining) ==
    /\ x \in SequenceRecords /\ Settled(o, x)
    /\ x.execution_frontier <= o.capacity /\ x.mtp_draft_count <= o.draft_window
    /\ Len(x.ledger) = Len(x.positions)
    /\ x.kv = s.kv /\ ~ x.retained
    /\ x.rewrite_checkpoint = s.rewrite_checkpoint
    /\ x.rewrite_checkpoint.valid => x.rewrite_checkpoint.frontier <= x.execution_frontier
    /\ x.execution_frontier <= x.kv.textMapped
    /\ x.execution_frontier <= x.kv.text
    /\ ~ verdict.terminal => x.kv.text = x.execution_frontier + (remaining - verdict.kept)
    /\ o.backend = "DFlash" => x.execution_frontier <= x.dflash_context_frontier + o.wide_window + 1
    /\ o.backend = "DFlash" /\ verdict.terminal => x.dflash_context_frontier = x.execution_frontier

Extended(s, w, verdict) ==
    IF w.kind = "speculative"
      THEN CommittedSpeculation(CommittedFrontiers(s, w, verdict), w, verdict)
      ELSE CommittedFrontiers(s, w, verdict)

(* Committing the first token.                                             *)
LEMMA BeginCommitted ==
  ASSUME options \in Setups, NEW s, NEW q, LaneOK(options, s, q), q.pending.kind = "begin",
         NEW verdict, VerdictFits(verdict, q.pending.tokens, q.remaining)
  PROVE  Committed(options, s, Extended(s, q.pending, verdict), verdict, q.remaining)
<1> DEFINE n == q.pending.prompt_tokens
           x == Extended(s, q.pending, verdict)
<1>1. /\ s \in SequenceRecords /\ q \in RequestRecords /\ Begun(options, s, q.pending, q.remaining)
      /\ q.lifecycle = "Pending" /\ ~ s.retained /\ s.mtp_draft_count <= options.draft_window
      /\ Len(s.ledger) = Len(s.positions)
      /\ s.rewrite_checkpoint.valid => s.rewrite_checkpoint.frontier <= s.text_kv_valid
  BY DEF LaneOK, RequestRecords, PendingRecords
<1>2. /\ n \in Nat /\ q.remaining \in Nat /\ s.kv \in BundleRecords
      /\ options.wide_window \in Nat
  BY <1>1, OptionsFacts DEF RequestRecords, PendingRecords, SequenceRecords, WideWindow
<1>3. x = [kv |-> s.kv, execution_frontier |-> n, ledger_frontier |-> n + 1,
           ledger |-> s.ledger, positions |-> s.positions, rope_delta |-> s.rope_delta,
           text_kv_valid |-> s.text_kv_valid, mtp_kv_valid |-> s.mtp_kv_valid,
           dflash_context_frontier |-> s.dflash_context_frontier,
           mtp_draft_count |-> s.mtp_draft_count, tail_hidden_valid |-> s.tail_hidden_valid,
           retained |-> s.retained, rewrite_checkpoint |-> s.rewrite_checkpoint]
  <2>1. x = [s EXCEPT !.execution_frontier = n, !.ledger_frontier = n + 1]
    BY DEF Extended, CommittedFrontiers
  <2> HIDE DEF x, n
  <2> QED BY <1>1, <2>1 DEF SequenceRecords
<1> HIDE DEF x
<1>4. x \in SequenceRecords
  BY <1>1, <1>2, <1>3 DEF SequenceRecords
<1>5. /\ n > 0 /\ n <= options.capacity /\ Len(s.ledger) = n + 1 /\ s.text_kv_valid = n
      /\ options.backend = "Mtp" => s.mtp_kv_valid = n
      /\ options.backend = "DFlash" => s.dflash_context_frontier = n
      /\ s.tail_hidden_valid /\ Len(q.pending.tokens) = 1 /\ q.remaining > 0
      /\ BundleCovers(options, s, n + q.remaining - 1)
  BY <1>1 DEF Begun
<1>6. Settled(options, x)
  BY <1>2, <1>3, <1>5 DEF Settled
<1>7. verdict.kept = 1
  BY <1>5 DEF VerdictFits
<1>8. /\ s.kv.text = n + q.remaining - 1 /\ n <= s.kv.textMapped /\ n <= s.kv.text
      /\ s.kv.text = n + (q.remaining - verdict.kept)
  BY <1>2, <1>5, <1>7 DEF BundleCovers
<1>9. /\ x.kv = s.kv /\ x.execution_frontier = n /\ x.ledger = s.ledger
      /\ x.positions = s.positions /\ x.dflash_context_frontier = s.dflash_context_frontier
      /\ x.mtp_draft_count = s.mtp_draft_count /\ ~ x.retained
      /\ x.rewrite_checkpoint = s.rewrite_checkpoint
  BY <1>1, <1>3
<1>10. x.rewrite_checkpoint.valid => x.rewrite_checkpoint.frontier <= n
  BY <1>1, <1>5, <1>9
<1>11. /\ options.backend = "DFlash" =>
             x.execution_frontier <= x.dflash_context_frontier + options.wide_window + 1
       /\ options.backend = "DFlash" /\ verdict.terminal =>
             x.dflash_context_frontier = x.execution_frontier
  BY <1>2, <1>5, <1>9
<1>12. x.mtp_draft_count <= options.draft_window /\ Len(x.ledger) = Len(x.positions)
  BY <1>1, <1>9
<1> HIDE DEF n
<1>13. Committed(options, s, x, verdict, q.remaining)
  BY <1>4, <1>5, <1>6, <1>8, <1>9, <1>10, <1>11, <1>12 DEF Committed
<1> QED BY <1>13 DEF x

(* Committing the token of an ordinary round.                              *)
LEMMA OrdinaryCommitted ==
  ASSUME options \in Setups, NEW s, NEW q, LaneOK(options, s, q), q.pending.kind = "ordinary",
         NEW verdict, VerdictFits(verdict, q.pending.tokens, q.remaining)
  PROVE  Committed(options, s, Extended(s, q.pending, verdict), verdict, q.remaining)
<1> DEFINE n == s.execution_frontier + 1
           x == Extended(s, q.pending, verdict)
<1>1. /\ s \in SequenceRecords /\ q \in RequestRecords
      /\ OrdinaryRound(options, s, q.pending, q.remaining)
      /\ q.lifecycle = "Pending" /\ ~ s.retained /\ s.mtp_draft_count <= options.draft_window
      /\ Len(s.ledger) = Len(s.positions)
      /\ s.rewrite_checkpoint.valid => s.rewrite_checkpoint.frontier <= s.text_kv_valid
  BY DEF LaneOK, RequestRecords, PendingRecords
<1>2. /\ n \in Nat /\ s.execution_frontier \in Nat /\ q.remaining \in Nat
      /\ s.kv \in BundleRecords /\ options.wide_window \in Nat
  BY <1>1, OptionsFacts DEF RequestRecords, SequenceRecords, WideWindow
<1>5. /\ options.backend = "None"
      /\ q.pending.base_E = s.execution_frontier /\ q.pending.base_S = s.ledger_frontier
      /\ s.ledger_frontier = n /\ Len(s.ledger) = n + 1 /\ s.text_kv_valid = n
      /\ s.tail_hidden_valid /\ Len(q.pending.tokens) = 1 /\ q.remaining > 0
      /\ BundleCovers(options, s, s.execution_frontier + q.remaining)
  BY <1>1, <1>2 DEF OrdinaryRound
<1>7. verdict.kept = 1
  BY <1>5 DEF VerdictFits
<1>3. x = [kv |-> s.kv, execution_frontier |-> n, ledger_frontier |-> n + 1,
           ledger |-> s.ledger, positions |-> s.positions, rope_delta |-> s.rope_delta,
           text_kv_valid |-> s.text_kv_valid, mtp_kv_valid |-> s.mtp_kv_valid,
           dflash_context_frontier |-> s.dflash_context_frontier,
           mtp_draft_count |-> s.mtp_draft_count, tail_hidden_valid |-> s.tail_hidden_valid,
           retained |-> s.retained, rewrite_checkpoint |-> s.rewrite_checkpoint]
  <2>1. x = [s EXCEPT !.execution_frontier = q.pending.base_E + verdict.kept,
                      !.ledger_frontier = q.pending.base_S + verdict.kept]
    BY DEF Extended, CommittedFrontiers
  <2>2. q.pending.base_E + verdict.kept = n /\ q.pending.base_S + verdict.kept = n + 1
    BY <1>5, <1>7
  <2> HIDE DEF x, n
  <2> QED BY <1>1, <2>1, <2>2 DEF SequenceRecords
<1> HIDE DEF x
<1>4. x \in SequenceRecords
  BY <1>1, <1>2, <1>3 DEF SequenceRecords
<1>6. Settled(options, x)
  BY <1>2, <1>3, <1>5 DEF Settled
<1>8. /\ n <= s.kv.textMapped /\ n <= s.kv.text /\ n <= options.capacity
      /\ s.kv.text = n + (q.remaining - verdict.kept)
  <2>1. /\ s.kv.text = s.execution_frontier + q.remaining /\ s.kv.text <= options.capacity
        /\ n <= s.kv.textMapped
    BY <1>5 DEF BundleCovers
  <2>2. options.capacity \in Nat
    BY OptionsFacts DEF Capacity
  <2> QED BY <1>2, <1>5, <1>7, <2>1, <2>2
<1>9. /\ x.kv = s.kv /\ x.execution_frontier = n /\ x.ledger = s.ledger
      /\ x.positions = s.positions /\ x.dflash_context_frontier = s.dflash_context_frontier
      /\ x.mtp_draft_count = s.mtp_draft_count /\ ~ x.retained
      /\ x.rewrite_checkpoint = s.rewrite_checkpoint
  BY <1>1, <1>3
<1>10. x.rewrite_checkpoint.valid => x.rewrite_checkpoint.frontier <= n
  BY <1>1, <1>5, <1>9
<1>11. /\ options.backend = "DFlash" =>
             x.execution_frontier <= x.dflash_context_frontier + options.wide_window + 1
       /\ options.backend = "DFlash" /\ verdict.terminal =>
             x.dflash_context_frontier = x.execution_frontier
  BY <1>2, <1>5, <1>9
<1>12. x.mtp_draft_count <= options.draft_window /\ Len(x.ledger) = Len(x.positions)
  BY <1>1, <1>9
<1> HIDE DEF n
<1>13. Committed(options, s, x, verdict, q.remaining)
  BY <1>4, <1>5, <1>6, <1>8, <1>9, <1>10, <1>11, <1>12 DEF Committed
<1> QED BY <1>13 DEF x

(* Committing a prefix of a speculative round.                             *)
LEMMA SpeculationCommitted ==
  ASSUME options \in Setups, NEW s, NEW q, LaneOK(options, s, q),
         q.pending.kind = "speculative",
         NEW verdict, VerdictFits(verdict, q.pending.tokens, q.remaining)
  PROVE  Committed(options, s, Extended(s, q.pending, verdict), verdict, q.remaining)
<1> DEFINE e == s.execution_frontier
           k == verdict.kept
           n == e + k
           w == q.pending
           x == Extended(s, w, verdict)
           ledger == s.ledger \o SubSeq(w.tokens, 1, k)
           added == [i \in 1..k |-> Len(s.positions) + i - 1 + s.rope_delta]
           positions == s.positions \o added
           mtp == IF Backend = "Mtp" THEN n ELSE s.mtp_kv_valid
           count == IF Backend = "Mtp" /\ ~ verdict.terminal THEN w.next ELSE s.mtp_draft_count
           draft == IF Backend = "DFlash" /\ verdict.terminal THEN n ELSE s.dflash_context_frontier
<1>1. /\ s \in SequenceRecords /\ q \in RequestRecords
      /\ SpeculativeRound(options, s, w, q.remaining)
      /\ q.lifecycle = "Pending" /\ ~ s.retained /\ s.mtp_draft_count <= options.draft_window
      /\ Len(s.ledger) = Len(s.positions)
      /\ s.rewrite_checkpoint.valid => s.rewrite_checkpoint.frontier <= s.text_kv_valid
  BY DEF LaneOK, RequestRecords, PendingRecords
<1>2. /\ e \in Nat /\ q.remaining \in Nat /\ s.kv \in BundleRecords
      /\ s.ledger \in Seq(Token) /\ s.positions \in Seq(Int) /\ s.rope_delta \in Int
      /\ s.mtp_kv_valid \in Nat /\ s.dflash_context_frontier \in Nat /\ s.mtp_draft_count \in Nat
      /\ w.tokens \in Seq(Tokens) /\ w.next \in Nat
      /\ s.rewrite_checkpoint \in CheckpointRecords
  BY <1>1 DEF RequestRecords, PendingRecords, SequenceRecords
<1>3. /\ options.wide_window \in Nat /\ options.capacity \in Nat /\ Backend = options.backend
      /\ Backend \in {"None", "Mtp", "DFlash"}
  BY OptionsFacts DEF WideWindow, Capacity, Backend
<1>4. /\ options.backend # "None" /\ Settled(options, s)
      /\ BundleCovers(options, s, e + q.remaining)
      /\ w.base_E = e /\ w.base_S = s.ledger_frontier
      /\ Len(w.tokens) \in 1..q.remaining /\ Len(w.tokens) <= options.wide_window + 1
      /\ e + Len(w.tokens) <= s.kv.textMapped
      /\ options.backend = "DFlash" => s.dflash_context_frontier = e
      /\ w.next <= options.draft_window
  BY <1>1 DEF SpeculativeRound, Decoding
<1>5. /\ e > 0 /\ s.text_kv_valid = e /\ s.ledger_frontier = e + 1 /\ Len(s.ledger) = e + 1
      /\ s.tail_hidden_valid
  BY <1>4 DEF Settled
<1>6. /\ k \in 1..Len(w.tokens) /\ k \in Nat /\ n \in Nat /\ verdict.terminal \in BOOLEAN
      /\ ~ verdict.terminal => k < q.remaining
  BY <1>2 DEF VerdictFits
<1>7. /\ ledger \in Seq(Token) /\ Len(ledger) = n + 1
  <2>1. Tokens \subseteq Token
    BY DEF Token
  <2>2. w.tokens \in Seq(Token)
    BY <1>2, <2>1, SeqMonotonic, Zenon
  <2> DEFINE cut == SubSeq(w.tokens, 1, k)
  <2>3. cut \in Seq(Token) /\ Len(cut) = k
    BY <1>6, <2>2
  <2> HIDE DEF cut
  <2>4. s.ledger \o cut \in Seq(Token) /\ Len(s.ledger \o cut) = Len(s.ledger) + Len(cut)
    BY <1>2, <2>3, ConcatProperties, Zenon
  <2>5. Len(s.ledger \o cut) = e + 1 + k
    BY <1>5, <2>3, <2>4
  <2> HIDE DEF e, k
  <2>6. e + 1 + k = n + 1
    BY <1>2, <1>6
  <2> QED BY <2>4, <2>5, <2>6, Zenon DEF cut
<1>8. /\ positions \in Seq(Int) /\ Len(positions) = n + 1
  <2>1. added \in Seq(Int) /\ Len(added) = k
    <3>1. Len(s.positions) \in Nat
      BY <1>2
    <3>2. \A i \in 1..k : Len(s.positions) + i - 1 + s.rope_delta \in Int
      BY <1>2, <1>6, <3>1
    <3> QED BY <1>6, <3>2
  <2> HIDE DEF added
  <2>2. positions \in Seq(Int) /\ Len(positions) = Len(s.positions) + Len(added)
    BY <1>2, <2>1, ConcatProperties, Zenon
  <2>3. Len(positions) = e + 1 + k
    BY <1>1, <1>5, <2>1, <2>2
  <2> HIDE DEF e, k, positions
  <2>4. e + 1 + k = n + 1
    BY <1>2, <1>6
  <2> QED BY <2>2, <2>3, <2>4, Zenon
<1>9. x = [kv |-> s.kv, execution_frontier |-> n, ledger_frontier |-> n + 1,
           ledger |-> ledger, positions |-> positions, rope_delta |-> s.rope_delta,
           text_kv_valid |-> n, mtp_kv_valid |-> mtp, dflash_context_frontier |-> draft,
           mtp_draft_count |-> count, tail_hidden_valid |-> TRUE,
           retained |-> s.retained, rewrite_checkpoint |-> s.rewrite_checkpoint]
  <2> DEFINE m == CommittedFrontiers(s, w, verdict)
  <2>1. m = [s EXCEPT !.execution_frontier = w.base_E + k, !.ledger_frontier = w.base_S + k]
    BY DEF CommittedFrontiers
  <2>2. w.base_E + k = n /\ w.base_S + k = n + 1
    BY <1>2, <1>4, <1>5, <1>6
  <2>3. m = [kv |-> s.kv, execution_frontier |-> n, ledger_frontier |-> n + 1,
             ledger |-> s.ledger, positions |-> s.positions, rope_delta |-> s.rope_delta,
             text_kv_valid |-> s.text_kv_valid, mtp_kv_valid |-> s.mtp_kv_valid,
             dflash_context_frontier |-> s.dflash_context_frontier,
             mtp_draft_count |-> s.mtp_draft_count, tail_hidden_valid |-> s.tail_hidden_valid,
             retained |-> s.retained, rewrite_checkpoint |-> s.rewrite_checkpoint]
    <3> HIDE DEF m, n, k, w
    <3> QED BY <1>1, <2>1, <2>2 DEF SequenceRecords
  <2>4. x = CommittedSpeculation(m, w, verdict)
    BY DEF Extended
  <2> HIDE DEF m, n, x
  <2>5. /\ m.ledger = s.ledger /\ m.positions = s.positions /\ m.execution_frontier = n
        /\ m.rope_delta = s.rope_delta /\ m.mtp_kv_valid = s.mtp_kv_valid
        /\ m.mtp_draft_count = s.mtp_draft_count
        /\ m.dflash_context_frontier = s.dflash_context_frontier
    BY <2>3
  <2>6. x = [m EXCEPT !.ledger = @ \o SubSeq(w.tokens, 1, k),
                      !.positions = @ \o [i \in 1..k |-> Len(@) + i - 1 + m.rope_delta],
                      !.text_kv_valid = m.execution_frontier,
                      !.tail_hidden_valid = TRUE,
                      !.mtp_kv_valid = IF Backend = "Mtp" THEN m.execution_frontier ELSE @,
                      !.mtp_draft_count = IF Backend = "Mtp" /\ ~ verdict.terminal
                                            THEN w.next ELSE @,
                      !.dflash_context_frontier = IF Backend = "DFlash" /\ verdict.terminal
                                                    THEN m.execution_frontier ELSE @]
    BY <2>4 DEF CommittedSpeculation
  <2>7. x = [m EXCEPT !.ledger = ledger, !.positions = positions, !.text_kv_valid = n,
                      !.tail_hidden_valid = TRUE, !.mtp_kv_valid = mtp,
                      !.mtp_draft_count = count, !.dflash_context_frontier = draft]
    BY <2>3, <2>5, <2>6
  <2> HIDE DEF ledger, positions, mtp, count, draft
  <2> QED BY <2>3, <2>7
<1>10. /\ mtp \in Nat /\ draft \in Nat /\ count \in Nat /\ count <= options.draft_window
       /\ options.backend = "Mtp" => mtp = n
       /\ options.backend = "DFlash" => draft <= n /\ n <= draft + options.wide_window + 1
       /\ options.backend = "DFlash" /\ verdict.terminal => draft = n
  <2>1. e <= n /\ n <= e + options.wide_window + 1
    <3> DEFINE m == Len(w.tokens)
    <3>1. m \in Nat /\ k <= m /\ m <= options.wide_window + 1
      BY <1>2, <1>4, <1>6
    <3> HIDE DEF m, e, k
    <3> QED BY <1>2, <1>3, <1>6, <3>1
  <2>2. mtp \in Nat /\ (options.backend = "Mtp" => mtp = n)
    BY <1>2, <1>3, <1>6
  <2>3. count \in Nat /\ count <= options.draft_window
    BY <1>1, <1>2, <1>4
  <2>4. CASE Backend = "DFlash"
    <3>1. s.dflash_context_frontier = e
      BY <1>3, <1>4, <2>4
    <3>2. draft = IF verdict.terminal THEN n ELSE e
      BY <2>4, <3>1
    <3> HIDE DEF draft, n, e
    <3>3. draft \in Nat /\ draft <= n /\ n <= draft + options.wide_window + 1
          /\ (verdict.terminal => draft = n)
      BY <1>2, <1>3, <1>6, <2>1, <3>2
    <3> QED BY <1>3, <2>2, <2>3, <3>3
  <2>5. CASE Backend # "DFlash"
    <3>1. draft = s.dflash_context_frontier
      BY <2>5
    <3> HIDE DEF draft, mtp, count, n
    <3> QED BY <1>2, <1>3, <2>2, <2>3, <2>5, <3>1
  <2> QED BY <2>4, <2>5
<1>11. /\ n <= s.kv.textMapped /\ n <= s.kv.text /\ n <= options.capacity
       /\ s.kv.text = n + (q.remaining - k)
  <2>1. /\ s.kv.text = e + q.remaining /\ s.kv.text <= options.capacity
        /\ s.kv.textMapped \in Nat
    BY <1>2, <1>4 DEF BundleCovers, BundleRecords
  <2>2. k <= Len(w.tokens) /\ k <= q.remaining /\ Len(w.tokens) \in Nat
    BY <1>2, <1>4, <1>6
  <2>3. e + Len(w.tokens) <= s.kv.textMapped /\ e \in Nat /\ k \in Nat /\ q.remaining \in Nat
        /\ options.capacity \in Nat
    BY <1>2, <1>3, <1>4, <1>6
  <2> DEFINE m == Len(w.tokens)
             text == s.kv.text
             mapped == s.kv.textMapped
             r == q.remaining
  <2>4. /\ m \in Nat /\ k <= m /\ k <= r /\ text = e + r /\ text <= options.capacity
        /\ mapped \in Nat /\ e + m <= mapped
    BY <2>1, <2>2, <2>3
  <2> HIDE DEF m, text, mapped, r, e, k
  <2>5. n <= mapped /\ n <= text /\ n <= options.capacity /\ text = n + (r - k)
    BY <1>2, <1>6, <2>3, <2>4 DEF r
  <2> QED BY <2>5 DEF text, mapped, r
<1>12. s.rewrite_checkpoint.valid => s.rewrite_checkpoint.frontier <= n
  <2>1. s.rewrite_checkpoint.frontier \in Nat
    BY <1>2 DEF CheckpointRecords
  <2> QED BY <1>1, <1>2, <1>5, <1>6, <2>1
<1>13. n > 0
  BY <1>2, <1>5, <1>6
<1> HIDE DEF x, n, ledger, positions, mtp, count, draft
<1>14. x \in SequenceRecords
  BY <1>1, <1>2, <1>6, <1>7, <1>8, <1>9, <1>10 DEF SequenceRecords
<1>15. Settled(options, x)
  BY <1>6, <1>7, <1>9, <1>10, <1>13 DEF Settled
<1>16. Committed(options, s, x, verdict, q.remaining)
  <2>1. /\ x.kv = s.kv /\ x.execution_frontier = n /\ x.ledger = ledger
        /\ x.positions = positions /\ x.dflash_context_frontier = draft
        /\ x.mtp_draft_count = count /\ ~ x.retained
        /\ x.rewrite_checkpoint = s.rewrite_checkpoint
    BY <1>1, <1>9
  <2> QED BY <1>7, <1>8, <1>10, <1>11, <1>12, <1>14, <1>15, <2>1 DEF Committed
<1> QED BY <1>16 DEF x

(* The request of a lane whose round is resolved (Resolve).                *)
ResolvedRequest(q, verdict) ==
    [q EXCEPT !.lifecycle = IF verdict.terminal THEN "Complete" ELSE "Active",
              !.pending = NoPending,
              !.remaining = IF verdict.terminal THEN 0 ELSE @ - verdict.kept]

(* It waits for nothing, and has the rest of its budget.                   *)
LEMMA RequestSettles ==
  ASSUME NEW q \in RequestRecords, NEW verdict, verdict.terminal \in BOOLEAN,
         ~ verdict.terminal => q.remaining - verdict.kept \in Nat
  PROVE  LET p == ResolvedRequest(q, verdict)
         IN  /\ p \in RequestRecords /\ p.pending.kind = "none" /\ p.prefill = q.prefill
             /\ verdict.terminal => p.lifecycle = "Complete" /\ p.remaining = 0
             /\ ~ verdict.terminal => /\ p.lifecycle = "Active"
                                      /\ p.remaining = q.remaining - verdict.kept
<1>1. NoPending \in PendingRecords /\ NoPending.kind = "none"
  BY DEF NoPending, PendingRecords
<1>2. "Complete" \in Lifecycles /\ "Active" \in Lifecycles /\ 0 \in Nat
  BY DEF Lifecycles
<1> DEFINE p == ResolvedRequest(q, verdict)
<1>3. CASE verdict.terminal
  <2>1. p = [q EXCEPT !.lifecycle = "Complete", !.pending = NoPending, !.remaining = 0]
    BY <1>3 DEF ResolvedRequest
  <2> HIDE DEF p
  <2>2. /\ p \in RequestRecords /\ p.pending = NoPending /\ p.prefill = q.prefill
        /\ p.lifecycle = "Complete" /\ p.remaining = 0
    BY <1>1, <1>2, <2>1 DEF RequestRecords
  <2> QED BY <1>1, <1>3, <2>2 DEF p
<1>4. CASE ~ verdict.terminal
  <2> DEFINE left == q.remaining - verdict.kept
  <2>1. p = [q EXCEPT !.lifecycle = "Active", !.pending = NoPending, !.remaining = left]
    BY <1>4 DEF ResolvedRequest
  <2>2. left \in Nat
    BY <1>4
  <2> HIDE DEF p, left
  <2>3. /\ p \in RequestRecords /\ p.pending = NoPending /\ p.prefill = q.prefill
        /\ p.lifecycle = "Active" /\ p.remaining = left
    BY <1>1, <1>2, <2>1, <2>2 DEF RequestRecords
  <2> QED BY <1>1, <1>4, <2>3 DEF p, left
<1> QED BY <1>3, <1>4

(* A resolved lane, kept or still active, has a bundle that covers it.     *)
LEMMA ResolvedKeeps ==
  ASSUME options \in Setups, NEW s, NEW q, LaneOK(options, s, q), q.pending.kind # "none",
         NEW verdict, VerdictFits(verdict, q.pending.tokens, q.remaining),
         NEW t, t = ResolvedSequence(s, q.pending, verdict),
         NEW p, p = ResolvedRequest(q, verdict)
  PROVE  /\ TrimFits(t) /\ Backed(t.kv)
         /\ LaneOK(options, t, p)
<1> DEFINE w == q.pending
           x == Extended(s, w, verdict)
           e == x.execution_frontier
           b == BackendValid(x)
           grown == IF Backend = "DFlash" /\ verdict.terminal /\ w.kind = "speculative"
                      THEN Materialize(x.kv, e, e) ELSE x.kv
           kv == Trim(grown, x.text_kv_valid, b)
           trimmed == [x EXCEPT !.kv = kv]
<1>1. Committed(options, s, x, verdict, q.remaining)
  <2>1. w.kind \in {"begin", "ordinary", "speculative"}
    BY DEF LaneOK, RequestRecords, PendingRecords
  <2> QED BY <2>1, BeginCommitted, OrdinaryCommitted, SpeculationCommitted
<1>2. t = IF verdict.terminal THEN RetainedSequence(trimmed) ELSE trimmed
  BY DEF ResolvedSequence, Extended
<1>3. /\ Backend \in {"None", "Mtp", "DFlash"} /\ Backend = options.backend
      /\ options.capacity \in Nat /\ Capacity = options.capacity
      /\ options.draft_window \in Nat \ {0} /\ options.wide_window \in Nat
  BY OptionsFacts DEF Backend, Capacity, DraftWindow, WideWindow
<1>4. /\ q \in RequestRecords /\ q.lifecycle = "Pending" /\ q.prefill.prompt = << >>
      /\ q.remaining \in Nat /\ q.pending.tokens \in Seq(Tokens)
      /\ s.kv \in BundleRecords
      /\ \E reserved \in Nat : BundleCovers(options, s, reserved)
  <2>1. /\ q \in RequestRecords /\ q.lifecycle = "Pending" /\ q.prefill.prompt = << >>
        /\ s \in SequenceRecords
        /\ w.kind \in {"begin", "ordinary", "speculative"}
    BY DEF LaneOK, RequestRecords, PendingRecords
  <2>2. /\ q.remaining \in Nat /\ w.tokens \in Seq(Tokens) /\ s.kv \in BundleRecords
        /\ w.prompt_tokens \in Nat /\ s.execution_frontier \in Nat
    BY <2>1 DEF RequestRecords, PendingRecords, SequenceRecords
  <2>3. CASE w.kind = "begin"
    <3>1. /\ BundleCovers(options, s, w.prompt_tokens + q.remaining - 1)
          /\ q.remaining > 0
      BY <2>3 DEF LaneOK, Begun
    <3>2. w.prompt_tokens + q.remaining - 1 \in Nat
      BY <2>2, <3>1
    <3> QED BY <2>1, <2>2, <3>1, <3>2
  <2>4. CASE w.kind = "ordinary"
    <3>1. BundleCovers(options, s, s.execution_frontier + q.remaining)
      BY <2>4 DEF LaneOK, OrdinaryRound
    <3>2. s.execution_frontier + q.remaining \in Nat
      BY <2>2
    <3> QED BY <2>1, <2>2, <3>1, <3>2
  <2>5. CASE w.kind = "speculative"
    <3>1. BundleCovers(options, s, s.execution_frontier + q.remaining)
      BY <2>5 DEF LaneOK, SpeculativeRound, Decoding
    <3>2. s.execution_frontier + q.remaining \in Nat
      BY <2>2
    <3> QED BY <2>1, <2>2, <3>1, <3>2
  <2> QED BY <2>1, <2>3, <2>4, <2>5
<1>5. /\ x \in SequenceRecords /\ Settled(options, x) /\ x.kv = s.kv /\ e \in Nat /\ e > 0
      /\ e <= options.capacity /\ x.mtp_draft_count <= options.draft_window
      /\ Len(x.ledger) = Len(x.positions) /\ ~ x.retained
      /\ x.rewrite_checkpoint.valid => x.rewrite_checkpoint.frontier <= e
      /\ e <= s.kv.textMapped /\ e <= s.kv.text /\ x.text_kv_valid = e
      /\ x.dflash_context_frontier \in Nat
  <2>1. x \in SequenceRecords
    BY <1>1 DEF Committed
  <2>2. e \in Nat /\ x.dflash_context_frontier \in Nat
    BY <2>1 DEF SequenceRecords
  <2> HIDE DEF x
  <2> QED BY <1>1, <2>2 DEF Committed, Settled
<1>6. b \in Nat /\ b <= e
  <2> HIDE DEF x
  <2> QED BY <1>3, <1>5 DEF BackendValid, Settled
<1>7. /\ s.kv.textMapped <= s.kv.text /\ s.kv.backendMapped <= s.kv.backend /\ s.kv.bound
      /\ s.kv.text <= options.capacity
      /\ s.kv.backend = BackendShare(options, s.kv.text)
  BY <1>4 DEF BundleCovers
<1>8. /\ s.kv.text \in Nat /\ s.kv.backend \in Nat /\ s.kv.textMapped \in Nat
      /\ s.kv.backendMapped \in Nat
  BY <1>4 DEF BundleRecords
<1>9. /\ grown \in BundleRecords /\ grown.text = s.kv.text /\ grown.backend = s.kv.backend
      /\ grown.bound /\ e <= grown.textMapped /\ grown.textMapped <= s.kv.text
      /\ grown.backendMapped <= s.kv.backend
  <2> HIDE DEF x, e
  <2>1. CASE Backend = "DFlash" /\ verdict.terminal /\ w.kind = "speculative"
    <3>1. grown = Materialize(s.kv, e, e)
      BY <1>5, <2>1
    <3>2. s.kv.backend = s.kv.text
      BY <1>3, <1>7, <2>1 DEF BackendShare
    <3> HIDE DEF grown
    <3>3. /\ grown \in BundleRecords
          /\ grown.textMapped \in {e, s.kv.textMapped} /\ grown.textMapped >= e
          /\ grown.backendMapped \in {e, s.kv.backendMapped}
      BY <1>4, <1>5, <3>1, MaterializeFields
    <3>4. grown.text = s.kv.text /\ grown.backend = s.kv.backend /\ grown.bound
      BY <1>4, <1>7, <3>1 DEF Materialize, BundleRecords
    <3> QED BY <1>5, <1>7, <1>8, <3>2, <3>3, <3>4
  <2>2. CASE ~ (Backend = "DFlash" /\ verdict.terminal /\ w.kind = "speculative")
    <3>1. grown = s.kv
      BY <1>5, <2>2
    <3> QED BY <1>4, <1>5, <1>7, <1>8, <3>1
  <2> QED BY <2>1, <2>2
<1> HIDE DEF grown
<1>10. /\ kv \in BundleRecords /\ kv.text = s.kv.text /\ kv.backend = s.kv.backend
       /\ kv.bound /\ kv.textMapped = e /\ kv.backendMapped \in Nat
       /\ kv.backendMapped <= s.kv.backend
  <2> HIDE DEF x, e, b
  <2>1. kv = Trim(grown, e, b)
    BY <1>5
  <2> HIDE DEF kv
  <2>2. /\ kv \in BundleRecords
        /\ kv.textMapped \in {e, grown.textMapped} /\ kv.textMapped <= e
        /\ kv.backendMapped <= grown.backendMapped
    BY <1>5, <1>6, <1>9, <2>1, TrimFields
  <2>3. kv.text = grown.text /\ kv.backend = grown.backend /\ kv.bound
    BY <1>9, <2>1 DEF Trim, BundleRecords
  <2>4. grown.textMapped \in Nat /\ grown.backendMapped \in Nat /\ kv.backendMapped \in Nat
        /\ kv.textMapped \in Nat
    BY <1>9, <2>2 DEF BundleRecords
  <2> QED BY <1>5, <1>8, <1>9, <2>2, <2>3, <2>4
<1>12. verdict.terminal \in BOOLEAN /\ verdict.kept \in Nat
       /\ (~ verdict.terminal => verdict.kept < q.remaining)
  BY <1>4 DEF VerdictFits
<1>13. TrimFits(trimmed) /\ trimmed \in SequenceRecords
  <2>1. trimmed \in SequenceRecords
    <3> HIDE DEF x, kv
    <3> QED BY <1>5, <1>10 DEF SequenceRecords
  <2>2. BackendValid(trimmed) = b /\ trimmed.text_kv_valid = e
    <3> HIDE DEF kv
    <3>1. /\ trimmed.mtp_kv_valid = x.mtp_kv_valid /\ trimmed.text_kv_valid = x.text_kv_valid
          /\ trimmed.dflash_context_frontier = x.dflash_context_frontier
      <4> HIDE DEF x
      <4> QED BY <1>5 DEF SequenceRecords
    <3> QED BY <1>5, <3>1 DEF BackendValid
  <2> QED BY <1>3, <1>5, <1>6, <2>1, <2>2 DEF TrimFits
<1> HIDE DEF x, e, b, kv
<1>14. /\ trimmed.kv = kv /\ trimmed.execution_frontier = e
       /\ trimmed.rewrite_checkpoint = x.rewrite_checkpoint
       /\ trimmed.ledger = x.ledger /\ trimmed.positions = x.positions
       /\ trimmed.mtp_draft_count = x.mtp_draft_count
       /\ trimmed.text_kv_valid = x.text_kv_valid /\ trimmed.mtp_kv_valid = x.mtp_kv_valid
       /\ trimmed.dflash_context_frontier = x.dflash_context_frontier
       /\ trimmed.ledger_frontier = x.ledger_frontier
       /\ ~ trimmed.retained /\ trimmed.tail_hidden_valid
  BY <1>5 DEF SequenceRecords, Settled, e
<1>15. Settled(options, trimmed)
  BY <1>5, <1>14 DEF Settled, e
<1> HIDE DEF trimmed
<1>11. /\ p \in RequestRecords /\ p.pending.kind = "none" /\ p.prefill = q.prefill
       /\ verdict.terminal => p.lifecycle = "Complete"
       /\ ~ verdict.terminal => p.lifecycle = "Active" /\ p.remaining = q.remaining - verdict.kept
  BY <1>4, <1>12, RequestSettles
<1>16. CASE verdict.terminal
  <2>1. t = [trimmed EXCEPT !.mtp_draft_count = 0, !.kv = ReleaseGrowth(kv), !.retained = TRUE]
    BY <1>2, <1>14, <1>16 DEF RetainedSequence
  <2> DEFINE released == ReleaseGrowth(kv)
  <2>2. /\ released \in BundleRecords /\ released.text = e /\ released.textMapped = e
        /\ ~ released.bound /\ released.backend = kv.backendMapped
        /\ released.backendMapped = kv.backendMapped
    BY <1>10 DEF ReleaseGrowth, BundleRecords
  <2> HIDE DEF released
  <2>3. t = [kv |-> released, execution_frontier |-> e,
             ledger_frontier |-> trimmed.ledger_frontier,
             ledger |-> trimmed.ledger, positions |-> trimmed.positions,
             rope_delta |-> trimmed.rope_delta, text_kv_valid |-> trimmed.text_kv_valid,
             mtp_kv_valid |-> trimmed.mtp_kv_valid,
             dflash_context_frontier |-> trimmed.dflash_context_frontier,
             mtp_draft_count |-> 0, tail_hidden_valid |-> trimmed.tail_hidden_valid,
             retained |-> TRUE, rewrite_checkpoint |-> trimmed.rewrite_checkpoint]
    BY <1>13, <1>14, <2>1 DEF SequenceRecords, released
  <2>4. t \in SequenceRecords
    BY <1>5, <1>13, <2>2, <2>3 DEF SequenceRecords
  <2>5. Settled(options, t)
    BY <1>14, <1>15, <2>3 DEF Settled
  <2>6. options.backend = "DFlash" => t.dflash_context_frontier = e
    BY <1>1, <1>14, <1>16, <2>3 DEF Committed, e
  <2>7. Kept(options, t)
    BY <2>2, <2>3, <2>5, <2>6 DEF Kept
  <2>9. /\ p \in RequestRecords /\ p.lifecycle = "Complete" /\ p.pending.kind = "none"
        /\ p.prefill.prompt = << >>
    BY <1>4, <1>11, <1>16
  <2>10. /\ t.execution_frontier = e /\ t.mtp_draft_count = 0 /\ t.retained /\ t.kv = released
         /\ t.ledger = x.ledger /\ t.positions = x.positions /\ t.text_kv_valid = e
         /\ t.rewrite_checkpoint = x.rewrite_checkpoint
    BY <1>5, <1>14, <2>3
  <2>11. LaneOK(options, t, p)
    BY <1>3, <1>5, <2>4, <2>7, <2>9, <2>10 DEF LaneOK
  <2>12. BackendValid(t) = BackendValid(trimmed)
    BY <2>3 DEF BackendValid
  <2>13. TrimFits(t)
    <3>1. t.text_kv_valid = trimmed.text_kv_valid
      BY <2>3
    <3> QED BY <1>13, <2>12, <3>1 DEF TrimFits
  <2>14. Backed(t.kv)
    <3>1. t.kv.textMapped = t.kv.text /\ t.kv.backendMapped = t.kv.backend
      BY <2>2, <2>10
    <3>2. t.kv.text \in Nat /\ t.kv.backend \in Nat
      BY <2>4 DEF SequenceRecords, BundleRecords
    <3> QED BY <3>1, <3>2 DEF Backed
  <2> QED BY <2>11, <2>13, <2>14
<1>17. CASE ~ verdict.terminal
  <2>1. t = trimmed
    BY <1>2, <1>17
  <2>3. q.remaining - verdict.kept \in Nat \ {0}
    BY <1>4, <1>12, <1>17
  <2> DEFINE r == q.remaining - verdict.kept
  <2>4. /\ p \in RequestRecords /\ p.lifecycle = "Active" /\ p.pending.kind = "none"
        /\ p.prefill.prompt = << >> /\ p.remaining = r
    BY <1>4, <1>11, <1>17
  <2>5. s.kv.text = e + r
    BY <1>1, <1>5, <1>17 DEF Committed, e
  <2>6. BundleCovers(options, t, e + r)
    BY <1>5, <1>7, <1>8, <1>10, <1>14, <2>1, <2>5 DEF BundleCovers
  <2>7. options.backend = "DFlash" => e <= t.dflash_context_frontier + options.wide_window + 1
    BY <1>1, <1>14, <2>1 DEF Committed, e
  <2>8. Decoding(options, t, r)
    BY <1>14, <1>15, <2>1, <2>3, <2>6, <2>7 DEF Decoding
  <2>9. LaneOK(options, t, p)
    BY <1>5, <1>13, <1>14, <2>1, <2>4, <2>8 DEF LaneOK
  <2>10. Backed(t.kv)
    BY <1>5, <1>8, <1>10, <1>14, <2>1 DEF Backed
  <2> QED BY <1>13, <2>1, <2>9, <2>10
<1> QED BY <1>12, <1>16, <1>17

-----------------------------------------------------------------------------
(* The specification.                                                      *)

(* The records of a cleared lane.                                          *)
LEMMA ClearedRecords ==
  /\ ClearedSequence \in SequenceRecords
  /\ ClearedSequence.execution_frontier = 0 /\ ClearedSequence.mtp_draft_count = 0
  /\ ClearedSequence.ledger = ClearedSequence.positions /\ ClearedSequence.rope_delta = 0
  /\ ~ ClearedSequence.retained /\ ~ ClearedSequence.rewrite_checkpoint.valid
  /\ ClearedSequence.kv = NoKV
  /\ ClearedRequest \in RequestRecords /\ ClearedRequest.lifecycle = "Empty"
  /\ ClearedRequest.pending.kind = "none" /\ ClearedRequest.prefill.prompt = << >>
<1>1. /\ NoKV \in BundleRecords /\ NoCheckpoint \in CheckpointRecords
      /\ ~ NoCheckpoint.valid
  BY DEF NoKV, NoCheckpoint, BundleRecords, CheckpointRecords, CheckpointKinds
<1>2. NoPending \in PendingRecords /\ NoPending.kind = "none"
  BY DEF NoPending, PendingRecords
<1>3. NoPrefill \in PrefillRecords /\ NoPrefill.prompt = << >>
  BY DEF NoPrefill, PrefillRecords, CheckpointKinds, Bridges
<1>4. ClearedSequence \in SequenceRecords
  BY <1>1 DEF ClearedSequence, SequenceRecords
<1>5. /\ ClearedSequence.execution_frontier = 0 /\ ClearedSequence.mtp_draft_count = 0
      /\ ClearedSequence.ledger = ClearedSequence.positions /\ ClearedSequence.rope_delta = 0
      /\ ~ ClearedSequence.retained /\ ClearedSequence.rewrite_checkpoint = NoCheckpoint
      /\ ClearedSequence.kv = NoKV
  BY DEF ClearedSequence
<1>6. /\ ClearedRequest \in RequestRecords /\ ClearedRequest.lifecycle = "Empty"
      /\ ClearedRequest.pending = NoPending /\ ClearedRequest.prefill = NoPrefill
  BY <1>2, <1>3 DEF ClearedRequest, RequestRecords, Lifecycles
<1> QED BY <1>1, <1>2, <1>3, <1>4, <1>5, <1>6

(* A cleared lane is in order, whatever rope_delta it keeps.               *)
LEMMA ClearedOK ==
  ASSUME options \in Setups, NEW delta \in Int
  PROVE  LaneOK(options, [ClearedSequence EXCEPT !.rope_delta = delta], ClearedRequest)
<1> DEFINE c == ClearedSequence
           s == [c EXCEPT !.rope_delta = delta]
<1>1. options.capacity \in Nat /\ options.draft_window \in Nat
  BY OptionsFacts DEF Capacity, DraftWindow
<1> HIDE DEF c
<1>2. /\ c \in SequenceRecords /\ c.execution_frontier = 0 /\ c.mtp_draft_count = 0
      /\ c.ledger = c.positions /\ ~ c.retained /\ ~ c.rewrite_checkpoint.valid /\ c.kv = NoKV
  BY ClearedRecords DEF c
<1>3. /\ s \in SequenceRecords /\ s.execution_frontier = 0 /\ s.mtp_draft_count = 0
      /\ s.ledger = s.positions /\ s.kv = NoKV
      /\ s.rewrite_checkpoint = c.rewrite_checkpoint
  BY <1>2 DEF SequenceRecords
<1>4. ~ s.retained
  BY <1>2 DEF SequenceRecords
<1> HIDE DEF s
<1>5. Cleared(s)
  BY <1>2, <1>3, <1>4 DEF Cleared
<1>6. LaneOK(options, s, ClearedRequest)
  BY <1>1, <1>2, <1>3, <1>4, <1>5, ClearedRecords DEF LaneOK
<1> QED BY <1>6 DEF s, c

(* The least of some lanes is a lane.                                      *)
LEMMA LeastLane ==
  ASSUME NEW S, S \subseteq Lanes, S # {}
  PROVE  Min(S) \in Lanes
<1>1. S \subseteq Nat
  BY OptionsAssumption
<1> QED BY <1>1, LeastExists

(* The program starts with every lane cleared.                             *)
LEMMA InitLanes == Init => LanesInv
<1> SUFFICES ASSUME Init PROVE LanesInv
  OBVIOUS
<1>1. options \in Setups /\ fault = FALSE /\ ingress = Min(Lanes)
  BY DEF Init
<1>2. ingress \in Lanes
  BY <1>1, LeastLane, OptionsAssumption
<1>3. ClearedSequence = [ClearedSequence EXCEPT !.rope_delta = 0]
  <2>1. ClearedSequence \in SequenceRecords /\ ClearedSequence.rope_delta = 0
    BY ClearedRecords
  <2> QED BY <2>1 DEF SequenceRecords
<1>4. LaneOK(options, ClearedSequence, ClearedRequest)
  <2>1. 0 \in Int
    OBVIOUS
  <2> QED BY <1>1, <1>3, <2>1, ClearedOK, Zenon
<1>5. ClearedSequence \in SequenceRecords /\ ClearedRequest \in RequestRecords
  BY <1>4 DEF LaneOK
<1>6. sequence = [l \in Lanes |-> ClearedSequence] /\ request = [l \in Lanes |-> ClearedRequest]
  BY DEF Init
<1> QED BY <1>1, <1>2, <1>4, <1>5, <1>6 DEF LanesInv

(* What a step has to establish, lane by lane.                             *)
LEMMA LanesStep ==
  ASSUME LanesInv, UNCHANGED options, fault' = FALSE, ingress' \in Lanes,
         sequence' = [l \in Lanes |-> sequence'[l]], request' = [l \in Lanes |-> request'[l]],
         \A l \in Lanes : LaneOK(options, sequence'[l], request'[l])
  PROVE  LanesInv'
<1>1. \A l \in Lanes : sequence'[l] \in SequenceRecords /\ request'[l] \in RequestRecords
  BY DEF LaneOK
<1>2. options' = options /\ options \in Setups
  BY DEF LanesInv
<1> QED BY <1>1, <1>2 DEF LanesInv

(* Clearing some lanes keeps all of them in order.                         *)
LEMMA ClearingKeeps ==
  ASSUME LanesInv, UNCHANGED <<options, ingress, fault>>, NEW lanes, ClearLanes(lanes)
  PROVE  LanesInv'
<1>1. /\ sequence' = [l \in Lanes |-> IF l \in lanes
                                        THEN [ClearedSequence EXCEPT !.rope_delta =
                                                sequence[l].rope_delta]
                                        ELSE sequence[l]]
      /\ request' = [l \in Lanes |-> IF l \in lanes THEN ClearedRequest ELSE request[l]]
  BY DEF ClearLanes
<1>2. ASSUME NEW l \in Lanes
      PROVE  LaneOK(options, sequence'[l], request'[l])
  <2>1. LaneOK(options, sequence[l], request[l]) /\ options \in Setups
    BY DEF LanesInv
  <2>2. sequence[l].rope_delta \in Int
    BY <2>1 DEF LaneOK, SequenceRecords
  <2>3. LaneOK(options, [ClearedSequence EXCEPT !.rope_delta = sequence[l].rope_delta],
               ClearedRequest)
    BY <2>1, <2>2, ClearedOK, Zenon
  <2>4. CASE l \in lanes
    <3>1. /\ sequence'[l] = [ClearedSequence EXCEPT !.rope_delta = sequence[l].rope_delta]
          /\ request'[l] = ClearedRequest
      BY <1>1, <2>4, Zenon
    <3> QED BY <2>3, <3>1, Zenon
  <2>5. CASE l \notin lanes
    <3>1. sequence'[l] = sequence[l] /\ request'[l] = request[l]
      BY <1>1, <2>5, Zenon
    <3> QED BY <2>1, <3>1, Zenon
  <2> QED BY <2>4, <2>5
<1>3. /\ sequence' = [l \in Lanes |-> sequence'[l]] /\ request' = [l \in Lanes |-> request'[l]]
  BY <1>1, Zenon
<1>4. fault' = FALSE /\ ingress' \in Lanes /\ UNCHANGED options
  BY DEF LanesInv
<1> QED BY <1>2, <1>3, <1>4, LanesStep

(* A step of a staged prefill: its checks hold.                            *)
LEMMA AdvancePrefillKeeps ==
  ASSUME LanesInv, UNCHANGED options, NEW l \in Lanes, NEW s \in SequenceRecords,
         NEW st \in PrefillRecords, NEW d, NEW row \in Lanes, NEW remaining \in Nat,
         s.execution_frontier <= options.capacity, s.mtp_draft_count <= options.draft_window,
         s.rewrite_checkpoint.valid => s.rewrite_checkpoint.frontier <= s.text_kv_valid,
         Staged(options, s, st, remaining), AdvancePrefill(l, s, st, d, row, remaining)
  PROVE  LanesInv'
<1>1. options \in Setups /\ fault = FALSE /\ sequence \in [Lanes -> SequenceRecords]
      /\ request \in [Lanes -> RequestRecords]
      /\ \A k \in Lanes : LaneOK(options, sequence[k], request[k])
  BY DEF LanesInv
<1>2. (st.cursor = Len(st.prompt) => s.tail_hidden_valid) /\ Backed(s.kv)
  BY DEF Staged, BundleCovers, Backed
<1>3. PICK token \in Tokens :
        /\ sequence' = [sequence EXCEPT ![l] = IF Samples(st) THEN FinishedSequence(s, st, token)
                                                              ELSE PrefilledSequence(s, st)]
        /\ request' = [request EXCEPT ![l] = StagedRequest(st, token, remaining)]
        /\ ingress' = row
        /\ UNCHANGED fault
  BY <1>2 DEF AdvancePrefill
<1> DEFINE x == IF Samples(st) THEN FinishedSequence(s, st, token) ELSE PrefilledSequence(s, st)
           y == StagedRequest(st, token, remaining)
<1>4. LaneOK(options, x, y)
  BY <1>1, AdvanceKeeps
<1>5. sequence' = [sequence EXCEPT ![l] = x] /\ request' = [request EXCEPT ![l] = y]
  BY <1>3
<1> HIDE DEF x, y
<1>6. \A k \in Lanes : LaneOK(options, sequence'[k], request'[k])
  <2> TAKE k \in Lanes
  <2>1. CASE k = l
    BY <1>1, <1>4, <1>5, <2>1
  <2>2. CASE k # l
    <3>1. sequence'[k] = sequence[k] /\ request'[k] = request[k]
      BY <1>1, <1>5, <2>2
    <3> QED BY <1>1, <3>1
  <2> QED BY <2>1, <2>2
<1>7. /\ sequence' = [k \in Lanes |-> sequence'[k]] /\ request' = [k \in Lanes |-> request'[k]]
  BY <1>1, <1>5
<1>8. fault' = FALSE /\ ingress' \in Lanes /\ UNCHANGED options
  BY <1>1, <1>3
<1> QED BY <1>6, <1>7, <1>8, LanesStep

(* start_prefill_lane.                                                     *)
LEMMA StartPrefillLaneKeeps ==
  ASSUME LanesInv, UNCHANGED options, NEW l \in Lanes, StartPrefillLane(l)
  PROVE  LanesInv'
<1>1. /\ options \in Setups /\ LaneOK(options, sequence[l], request[l])
      /\ request[l].lifecycle \in {"Empty", "Complete"}
  BY DEF LanesInv, StartPrefillLane, Free
<1>2. PICK p \in Prompts, allowed \in BOOLEAN :
        LET s == sequence[l]
            plan == ReusePath(p, s, allowed)
        IN  IF Reusable(s, plan)
              THEN AdvancePrefill(l, StartSequence(s, p, plan), StartPrefill(s, p, plan),
                                  StartDevice(device[l], p, plan), l, p.output)
              ELSE Throw({l})
  BY DEF StartPrefillLane
<1> DEFINE s == sequence[l]
           plan == ReusePath(p, s, allowed)
           t == StartSequence(s, p, plan)
           st == StartPrefill(s, p, plan)
           d == StartDevice(device[l], p, plan)
<1>3. Reusable(s, plan)
  BY <1>1, PlanFacts
<1>4. AdvancePrefill(l, t, st, d, l, p.output)
  BY <1>2, <1>3
<1>5. /\ t \in SequenceRecords /\ st \in PrefillRecords
      /\ t.execution_frontier <= options.capacity /\ t.mtp_draft_count <= options.draft_window
      /\ t.rewrite_checkpoint.valid => t.rewrite_checkpoint.frontier <= t.text_kv_valid
      /\ Staged(options, t, st, p.output)
  BY <1>1, StartStaged
<1>6. p.output \in Nat
  BY <1>1, OptionsFacts
<1> HIDE DEF t, st, d, plan, s
<1> QED BY <1>4, <1>5, <1>6, AdvancePrefillKeeps

(* advance_prefill.                                                        *)
LEMMA AdvancePrefillLaneKeeps ==
  ASSUME LanesInv, UNCHANGED options, NEW l \in Lanes, AdvancePrefillLane(l)
  PROVE  LanesInv'
<1> DEFINE s == sequence[l]
           st == request[l].prefill
           r == request[l].remaining
<1>1. /\ LaneOK(options, s, request[l]) /\ request[l].lifecycle = "Prefilling" /\ ingress \in Lanes
      /\ AdvancePrefill(l, s, st, device[l], ingress, r)
  BY DEF LanesInv, AdvancePrefillLane
<1>2. /\ s \in SequenceRecords /\ st \in PrefillRecords /\ r \in Nat
      /\ s.execution_frontier <= options.capacity /\ s.mtp_draft_count <= options.draft_window
      /\ s.rewrite_checkpoint.valid => s.rewrite_checkpoint.frontier <= s.text_kv_valid
      /\ Staged(options, s, st, r)
  BY <1>1 DEF LaneOK, RequestRecords
<1> HIDE DEF s, st, r
<1> QED BY <1>1, <1>2, AdvancePrefillKeeps

(* decode_batch: every active lane is ready and its bundle suffices.       *)
LEMMA DecodeBatchKeeps ==
  ASSUME LanesInv, UNCHANGED options, DecodeBatch
  PROVE  LanesInv'
<1>1. /\ options \in Setups /\ fault = FALSE /\ ingress \in Lanes
      /\ \A l \in Lanes : LaneOK(options, sequence[l], request[l])
      /\ Active # {} /\ Active \subseteq Lanes
  BY DEF LanesInv, DecodeBatch, Active
<1>2. \A l \in Active : DecodeReady(l)
  BY ActiveIsReady
<1>w. PICK window \in Windows :
        \E rounds \in [Active -> UNION {Rounds(l, window) : l \in Active}] :
          /\ \A l \in Active : rounds[l] \in Rounds(l, window)
          /\ IF \A l \in Active : Backed(RoundBundle(sequence[l], rounds[l]))
               THEN /\ sequence' = [l \in Lanes |->
                         IF l \in Active THEN RoundSequence(sequence[l], rounds[l])
                                         ELSE sequence[l]]
                    /\ request' = [l \in Lanes |->
                         IF l \in Active
                           THEN [request[l] EXCEPT
                                   !.lifecycle = "Pending",
                                   !.pending = RoundPending(sequence[l], rounds[l])]
                           ELSE request[l]]
                    /\ ingress' = IF Backend = "DFlash" THEN Min(Active) ELSE ingress
                    /\ UNCHANGED fault
               ELSE Throw(Active)
  BY <1>2, Zenon DEF DecodeBatch
<1>3. PICK rounds \in [Active -> UNION {Rounds(l, window) : l \in Active}] :
        /\ \A l \in Active : rounds[l] \in Rounds(l, window)
        /\ IF \A l \in Active : Backed(RoundBundle(sequence[l], rounds[l]))
             THEN /\ sequence' = [l \in Lanes |->
                       IF l \in Active THEN RoundSequence(sequence[l], rounds[l])
                                       ELSE sequence[l]]
                  /\ request' = [l \in Lanes |->
                       IF l \in Active
                         THEN [request[l] EXCEPT
                                 !.lifecycle = "Pending",
                                 !.pending = RoundPending(sequence[l], rounds[l])]
                         ELSE request[l]]
                  /\ ingress' = IF Backend = "DFlash" THEN Min(Active) ELSE ingress
                  /\ UNCHANGED fault
             ELSE Throw(Active)
  BY <1>w, Zenon
<1>4. ASSUME NEW l \in Active
      PROVE  /\ Backed(RoundBundle(sequence[l], rounds[l]))
             /\ LaneOK(options, RoundSequence(sequence[l], rounds[l]),
                       [request[l] EXCEPT !.lifecycle = "Pending",
                                          !.pending = RoundPending(sequence[l], rounds[l])])
  <2>1. rounds[l] \in Rounds(l, window)
    BY <1>3
  <2>2. RoundFits(options, sequence[l], request[l].remaining, rounds[l])
    BY <2>1, RoundsFit
  <2>3. request[l].lifecycle = "Active" /\ LaneOK(options, sequence[l], request[l])
    BY <1>1 DEF Active
  <2> QED BY <1>1, <2>2, <2>3, RoundKeeps
<1>5. /\ sequence' = [l \in Lanes |->
           IF l \in Active THEN RoundSequence(sequence[l], rounds[l]) ELSE sequence[l]]
      /\ request' = [l \in Lanes |->
           IF l \in Active
             THEN [request[l] EXCEPT !.lifecycle = "Pending",
                                     !.pending = RoundPending(sequence[l], rounds[l])]
             ELSE request[l]]
      /\ ingress' = IF Backend = "DFlash" THEN Min(Active) ELSE ingress
      /\ UNCHANGED fault
  BY <1>3, <1>4, Zenon
<1>6. ASSUME NEW l \in Lanes
      PROVE  LaneOK(options, sequence'[l], request'[l])
  <2>1. CASE l \in Active
    <3>1. /\ sequence'[l] = RoundSequence(sequence[l], rounds[l])
          /\ request'[l] = [request[l] EXCEPT !.lifecycle = "Pending",
                                              !.pending = RoundPending(sequence[l], rounds[l])]
      BY <1>5, <2>1, Zenon
    <3> QED BY <1>4, <2>1, <3>1, Zenon
  <2>2. CASE l \notin Active
    <3>1. sequence'[l] = sequence[l] /\ request'[l] = request[l]
      BY <1>5, <2>2, Zenon
    <3> QED BY <1>1, <3>1
  <2> QED BY <2>1, <2>2
<1>7. /\ sequence' = [l \in Lanes |-> sequence'[l]] /\ request' = [l \in Lanes |-> request'[l]]
  BY <1>5, Zenon
<1>8. fault' = FALSE /\ ingress' \in Lanes
  BY <1>1, <1>5, LeastLane
<1> QED BY <1>6, <1>7, <1>8, LanesStep

(* Resolving pending lanes: no check fires, and each lane is kept, active  *)
(* or cleared.                                                             *)
LEMMA ResolveKeeps ==
  ASSUME LanesInv, UNCHANGED options, NEW lanes, lanes \subseteq Lanes,
         \A l \in lanes : request[l].pending.kind # "none",
         NEW verdicts, \A l \in lanes : verdicts[l] \in Verdicts(l) \union {Cancelled},
         Resolve(lanes, verdicts)
  PROVE  LanesInv'
<1> DEFINE kept == {l \in lanes : ~ verdicts[l].cancelled}
           ended == {l \in kept : verdicts[l].terminal /\ request[l].pending.kind = "speculative"}
           after == [l \in kept |-> ResolvedSequence(sequence[l], request[l].pending, verdicts[l])]
<1>1. /\ options \in Setups /\ fault = FALSE /\ ingress \in Lanes
      /\ \A l \in Lanes : LaneOK(options, sequence[l], request[l])
  BY DEF LanesInv
<1>2. \A l \in lanes : Resolvable(l)
  BY PendingIsResolvable
<1>3. ASSUME NEW l \in kept
      PROVE  /\ l \in Lanes /\ TrimFits(after[l]) /\ Backed(after[l].kv)
             /\ LaneOK(options, after[l], ResolvedRequest(request[l], verdicts[l]))
  <2>1. l \in Lanes /\ request[l].pending.kind # "none"
    OBVIOUS
  <2>2. verdicts[l] \in Verdicts(l)
    BY DEF Cancelled
  <2>3. VerdictFits(verdicts[l], request[l].pending.tokens, request[l].remaining)
    BY <2>1, <2>2, VerdictsFit
  <2>4. LaneOK(options, sequence[l], request[l])
    BY <1>1, <2>1
  <2> DEFINE t == ResolvedSequence(sequence[l], request[l].pending, verdicts[l])
             p == ResolvedRequest(request[l], verdicts[l])
  <2>5. TrimFits(t) /\ Backed(t.kv) /\ LaneOK(options, t, p)
    BY <1>1, <2>1, <2>3, <2>4, ResolvedKeeps
  <2>6. after[l] = t
    OBVIOUS
  <2> HIDE DEF t
  <2> QED BY <2>1, <2>5, <2>6
<1>4. /\ sequence' = [l \in Lanes |->
           CASE l \in kept -> after[l]
             [] l \in lanes \ kept -> [ClearedSequence EXCEPT !.rope_delta =
                                         sequence[l].rope_delta]
             [] OTHER -> sequence[l]]
      /\ request' = [l \in Lanes |->
           CASE l \in kept -> ResolvedRequest(request[l], verdicts[l])
             [] l \in lanes \ kept -> ClearedRequest
             [] OTHER -> request[l]]
      /\ ingress' = IF Backend = "DFlash" /\ ended # {} THEN Min(ended) ELSE ingress
      /\ UNCHANGED fault
  BY <1>2, <1>3, Zenon DEF Resolve, ResolvedRequest
<1>5. kept \subseteq lanes /\ ended \subseteq Lanes
  OBVIOUS
<1> HIDE DEF after, kept, ended
<1>6. ASSUME NEW l \in Lanes
      PROVE  LaneOK(options, sequence'[l], request'[l])
  <2>1. CASE l \in kept
    <3>1. sequence'[l] = after[l] /\ request'[l] = ResolvedRequest(request[l], verdicts[l])
      BY <1>4, <2>1, <1>5
    <3> QED BY <1>3, <2>1, <3>1, Zenon
  <2>2. CASE l \in lanes \ kept
    <3> DEFINE c == [ClearedSequence EXCEPT !.rope_delta = sequence[l].rope_delta]
    <3>1. sequence'[l] = c /\ request'[l] = ClearedRequest
      BY <1>4, <2>2
    <3>2. sequence[l].rope_delta \in Int
      BY <1>1 DEF LaneOK, SequenceRecords
    <3>3. LaneOK(options, c, ClearedRequest)
      BY <1>1, <3>2, ClearedOK, Zenon
    <3> HIDE DEF c
    <3> QED BY <3>1, <3>3
  <2>3. CASE l \notin lanes
    <3>1. sequence'[l] = sequence[l] /\ request'[l] = request[l]
      BY <1>4, <1>5, <2>3
    <3> QED BY <1>1, <3>1
  <2> QED BY <2>1, <2>2, <2>3
<1>7. /\ sequence' = [l \in Lanes |-> sequence'[l]] /\ request' = [l \in Lanes |-> request'[l]]
  BY <1>4, Zenon
<1>8. fault' = FALSE /\ ingress' \in Lanes
  BY <1>1, <1>4, <1>5, LeastLane
<1> QED BY <1>6, <1>7, <1>8, LanesStep

(* resolve_prefill_lane and resolve_pending_batch.                         *)
LEMMA ResolutionKeeps ==
  ASSUME LanesInv, UNCHANGED options,
         (\E l \in Lanes : ResolvePrefillLane(l)) \/ ResolvePendingBatch
  PROVE  LanesInv'
<1>1. ASSUME NEW l \in Lanes, ResolvePrefillLane(l)
      PROVE  LanesInv'
  <2>1. PICK verdict \in Verdicts(l) : Resolve({l}, [i \in {l} |-> verdict])
    BY <1>1 DEF ResolvePrefillLane
  <2>2. request[l].pending.kind = "begin"
    BY <1>1 DEF ResolvePrefillLane
  <2> DEFINE verdicts == [i \in {l} |-> verdict]
  <2>3. \A i \in {l} : verdicts[i] \in Verdicts(i) \union {Cancelled}
    OBVIOUS
  <2>4. \A i \in {l} : request[i].pending.kind # "none"
    BY <2>2
  <2> HIDE DEF verdicts
  <2> QED BY <2>1, <2>3, <2>4, ResolveKeeps DEF verdicts
<1>2. ASSUME ResolvePendingBatch
      PROVE  LanesInv'
  <2> DEFINE lanes == PendingOf({"ordinary", "speculative"})
  <2>1. PICK verdicts \in [lanes -> UNION {Verdicts(l) : l \in lanes} \union {Cancelled}] :
          /\ \A l \in lanes : verdicts[l] \in Verdicts(l) \union {Cancelled}
          /\ Resolve(lanes, verdicts)
    BY <1>2, Zenon DEF ResolvePendingBatch
  <2>2. lanes \subseteq Lanes /\ \A l \in lanes : request[l].pending.kind # "none"
    BY DEF PendingOf
  <2> HIDE DEF lanes
  <2> QED BY <2>1, <2>2, ResolveKeeps
<1> QED BY <1>1, <1>2

(* Nothing happens.                                                        *)
LEMMA StutterKeepsLanes == LanesInv /\ UNCHANGED vars => LanesInv'
BY DEF LanesInv, vars

(* One step of the program.                                                *)
LEMMA NextKeepsLanes == LanesInv /\ [Next]_vars => LanesInv'
<1> SUFFICES ASSUME LanesInv, Next PROVE LanesInv'
  BY StutterKeepsLanes
<1>1. UNCHANGED options
  BY DEF Next
<1>2. CASE \E l \in Lanes : StartPrefillLane(l)
  BY <1>1, <1>2, StartPrefillLaneKeeps
<1>3. CASE \E l \in Lanes : AdvancePrefillLane(l)
  BY <1>1, <1>3, AdvancePrefillLaneKeeps
<1>4. CASE DecodeBatch
  BY <1>1, <1>4, DecodeBatchKeeps
<1>5. CASE (\E l \in Lanes : ResolvePrefillLane(l)) \/ ResolvePendingBatch
  BY <1>1, <1>5, ResolutionKeeps
<1>6. CASE \E l \in Lanes : AbortLane(l) \/ EvictRetainedLane(l)
  <2>1. PICK l \in Lanes : AbortLane(l) \/ EvictRetainedLane(l)
    BY <1>6
  <2>2. ClearLanes({l}) /\ UNCHANGED <<ingress, fault>>
    BY <2>1 DEF AbortLane, EvictRetainedLane
  <2> QED BY <1>1, <2>2, ClearingKeeps
<1>7. CASE RoundFails
  <2>1. ClearLanes(PendingOf({"ordinary", "speculative"})) /\ UNCHANGED <<ingress, fault>>
    BY <1>7 DEF RoundFails
  <2> QED BY <1>1, <2>1, ClearingKeeps
<1> QED BY <1>2, <1>3, <1>4, <1>5, <1>6, <1>7 DEF Next

(* LanesInv: in every reachable state each lane's frontiers, ledger,       *)
(* pending round and KV bundle are in one of the shapes the phases of a    *)
(* request allow, whatever the backend, the windows, the chunk size and    *)
(* the prompts, and however calls, cancellations, evictions and device     *)
(* failures are interleaved.                                               *)
THEOREM LanesInvariant == Spec => []LanesInv
<1>1. Init => LanesInv
  BY InitLanes
<1>2. LanesInv /\ [Next]_vars => LanesInv'
  BY NextKeepsLanes
<1> QED BY <1>1, <1>2, PTL DEF Spec

(* CallsNeverFault: the consistency checks of start_prefill_lane,          *)
(* advance_prefill, decode_batch and the resolution of rounds never throw, *)
(* and no bundle is asked for more than the request was entitled to.       *)
THEOREM LaneCallsNeverFault == Spec => []CallsNeverFault
<1>1. LanesInv => CallsNeverFault
  <2> SUFFICES ASSUME LanesInv PROVE CallsNeverFault
    OBVIOUS
  <2>1. fault = FALSE /\ ingress \in Lanes /\ options \in Setups
    BY DEF LanesInv
  <2>2. Capacity = options.capacity /\ options.capacity \in Nat
        /\ DraftWindow = options.draft_window /\ options.draft_window \in Nat
    BY <2>1, OptionsFacts DEF Capacity, DraftWindow
  <2>3. ASSUME NEW l \in Lanes
        PROVE  /\ request[l].lifecycle \in Lifecycles
               /\ request[l].lifecycle = "Prefilling" <=> request[l].prefill.prompt # << >>
               /\ request[l].lifecycle = "Pending" <=> request[l].pending.kind # "none"
               /\ request[l].lifecycle = "Complete" <=> sequence[l].retained
               /\ sequence[l].execution_frontier \in 0..Capacity
               /\ sequence[l].mtp_draft_count \in 0..DraftWindow
               /\ Len(sequence[l].ledger) = Len(sequence[l].positions)
    <3>1. LaneOK(options, sequence[l], request[l])
      BY DEF LanesInv
    <3>2. /\ request[l].lifecycle \in Lifecycles
          /\ sequence[l].execution_frontier \in Nat /\ sequence[l].mtp_draft_count \in Nat
      BY <3>1 DEF LaneOK, SequenceRecords, RequestRecords
    <3> QED BY <2>2, <3>1, <3>2 DEF LaneOK
  <2> QED BY <2>1, <2>3 DEF CallsNeverFault, TypeOK
<1> QED BY <1>1, LanesInvariant, PTL

-----------------------------------------------------------------------------
(* What the device state of a lane was computed from.                      *)

Entry == (Token \union {"?"}) \X Int
DeviceFields == {"linear", "kv", "tail", "mtp", "draft", "round",
                 "linearCheckpoint", "hiddenCheckpoint", "draftCheckpoint"}
DeviceTyped(d) ==
    /\ DOMAIN d = DeviceFields
    /\ d.linear \in Seq(Entry) /\ d.kv \in Seq(Entry) /\ d.tail \in Seq(Entry)
    /\ d.round \in Seq(Entry)
    /\ d.linearCheckpoint \in Seq(Entry) /\ d.hiddenCheckpoint \in Seq(Entry)

(* The first n columns of v are those of the ledger; v has no others.      *)
Follows(v, s, n) ==
    /\ v \in Seq(Entry) /\ Len(v) >= n
    /\ \A i \in 1..n : v[i] = <<s.ledger[i], s.positions[i]>>
Exactly(v, s, n) == Follows(v, s, n) /\ Len(v) = n

(* The recurrent state and the Text KV are those of the valid prefix.      *)
Resident(s, d) == Exactly(d.linear, s, s.text_kv_valid) /\ Follows(d.kv, s, s.text_kv_valid)

CheckpointHolds(s, d) ==
    s.rewrite_checkpoint.valid =>
      /\ Exactly(d.linearCheckpoint, s, s.rewrite_checkpoint.frontier)
      /\ Exactly(d.hiddenCheckpoint, s, s.rewrite_checkpoint.frontier)

(* The next column's position follows from the length.                     *)
LastPosition(s) == s.positions[Len(s.positions)] = Len(s.positions) - 1 + s.rope_delta

(* A staged prefill knows the positions of its suffix, and has captured    *)
(* the checkpoint it has passed.                                           *)
StagedHolds(s, st, d) ==
    /\ \A i \in 1..Len(st.prompt) : s.positions[i] = PromptPosition(st.prompt, i)
    /\ s.rope_delta = RopeDelta(st.prompt)
    /\ \/ st.vision
       \/ st.cursor = Len(st.prompt)
       \/ \A i \in 1..Len(st.prompt) : st.prompt[i] # Media
    /\ st.cursor = Len(st.prompt) => Exactly(d.tail, s, st.cursor)
    /\ st.capture # 0 => ~ s.rewrite_checkpoint.valid
    /\ st.capture # 0 /\ st.capture <= st.cursor =>
         Exactly(d.linearCheckpoint, s, st.capture) /\ Exactly(d.hiddenCheckpoint, s, st.capture)

(* Column j of a round: the anchor, then the tokens it licensed.           *)
RoundEntry(s, tokens, j) ==
    <<IF j = 1 THEN s.ledger[Len(s.ledger)] ELSE tokens[j - 1],
      s.execution_frontier + j - 1 + s.rope_delta>>
RoundHolds(s, tokens, d) ==
    LET e == s.execution_frontier
        n == Len(tokens)
    IN  /\ Len(d.round) >= n /\ Len(d.kv) >= e + n /\ Len(d.tail) = e + n
        /\ \A j \in 1..n : /\ d.round[j] = RoundEntry(s, tokens, j)
                           /\ d.kv[e + j] = RoundEntry(s, tokens, j)
                           /\ d.tail[e + j] = RoundEntry(s, tokens, j)
        /\ Follows(d.tail, s, e)

Holds(s, q, d) ==
    /\ DeviceTyped(d)
    /\ CheckpointHolds(s, d)
    /\ q.lifecycle # "Empty" => Resident(s, d)
    /\ q.lifecycle \in {"Active", "Complete"} \/ q.pending.kind \in {"begin", "ordinary"} =>
         Exactly(d.tail, s, s.text_kv_valid)
    /\ q.lifecycle \in {"Active", "Pending"} => LastPosition(s)
    /\ q.lifecycle = "Prefilling" => StagedHolds(s, q.prefill, d)
    /\ q.pending.kind = "speculative" => RoundHolds(s, q.pending.tokens, d)

ContentInv ==
    /\ LanesInv
    /\ device = [l \in Lanes |-> device[l]]
    /\ \A l \in Lanes : Holds(sequence[l], request[l], device[l])

(* The media of a prompt, if it has any, are in the suffix that is to be   *)
(* computed behind n reused columns: its chunks are then multimodal ones,  *)
(* the only ones that set rope_delta.                                      *)
SeesMedia(p, n) ==
    \/ \E i \in (n + 1)..Len(p.tokens) : p.tokens[i] = Media
    \/ n = Len(p.tokens)
    \/ \A i \in 1..Len(p.tokens) : p.tokens[i] # Media

(* A prompt starts behind reused media with a suffix that has none: its    *)
(* columns are computed at positions that lack the media's offset.         *)
BlindStart ==
    \E l \in Lanes, p \in Prompts, allowed \in BOOLEAN :
      LET s == sequence[l]
          plan == ReusePath(p, s, allowed)
      IN  /\ Free(l)
          /\ ~ SeesMedia(p, plan.base)
          /\ AdvancePrefill(l, StartSequence(s, p, plan), StartPrefill(s, p, plan),
                            StartDevice(device[l], p, plan), l, p.output)

(* Enough to rule that out: a prompt with media ends with media.           *)
MediaEndsPrompts ==
    \A o \in Setups : \A p \in o.prompts :
      (\E i \in 1..Len(p.tokens) : p.tokens[i] = Media) => p.tokens[Len(p.tokens)] = Media

(* A shorter prefix, or the same columns of another record.                *)
LEMMA FollowsShorter ==
  ASSUME NEW v, NEW s, NEW t, NEW n \in Nat, NEW m \in 0..n, Follows(v, s, n),
         \A i \in 1..m : t.ledger[i] = s.ledger[i] /\ t.positions[i] = s.positions[i]
  PROVE  Follows(v, t, m)
BY DEF Follows

(* The same for a state that has no more columns.                          *)
LEMMA ExactlyShared ==
  ASSUME NEW v, NEW s, NEW t, NEW n \in Nat, Exactly(v, s, n),
         \A i \in 1..n : t.ledger[i] = s.ledger[i] /\ t.positions[i] = s.positions[i]
  PROVE  Exactly(v, t, n)
BY DEF Exactly, Follows

(* Two states of the same columns are equal.                               *)
LEMMA SameColumns ==
  ASSUME NEW a, NEW b, NEW s, NEW n \in Nat, Exactly(a, s, n), Exactly(b, s, n)
  PROVE  a = b
<1>1. /\ a \in Seq(Entry) /\ b \in Seq(Entry) /\ Len(a) = Len(b)
      /\ \A i \in 1..Len(a) : a[i] = b[i]
  BY DEF Exactly, Follows
<1> QED BY <1>1, SeqEqual

(* The first n columns of a cache that follows the ledger.                 *)
LEMMA UptoExactly ==
  ASSUME NEW v, NEW s, NEW n \in Nat, Follows(v, s, n)
  PROVE  Exactly(Upto(v, n), s, n)
<1>1. v \in Seq(Entry) /\ Len(v) \in Nat /\ Len(v) >= n
  BY DEF Follows
<1>2. \A i \in 1..n : v[i] \in Entry
  BY <1>1
<1>3. Upto(v, n) = [i \in 1..n |-> v[i]]
  BY <1>1 DEF Upto
<1> DEFINE u == [i \in 1..n |-> v[i]]
<1>4. u \in Seq(Entry) /\ Len(u) = n
  BY <1>2
<1>5. \A i \in 1..n : u[i] = v[i]
  OBVIOUS
<1> HIDE DEF u
<1>6. Exactly(u, s, n)
  BY <1>4, <1>5 DEF Exactly, Follows
<1> QED BY <1>3, <1>6 DEF u

(* Columns that follow the first n.                                        *)
Succeed(b, s, n, k) == \A j \in 1..k : b[j] = <<s.ledger[n + j], s.positions[n + j]>>

(* More columns behind a state.                                            *)
LEMMA FollowsConcat ==
  ASSUME NEW a, NEW b \in Seq(Entry), NEW s, NEW n \in Nat, Exactly(a, s, n), NEW k \in 0..Len(b),
         Succeed(b, s, n, k)
  PROVE  Follows(a \o b, s, n + k) /\ Len(a \o b) = n + Len(b)
<1>1. a \in Seq(Entry) /\ Len(a) = n /\ \A i \in 1..n : a[i] = <<s.ledger[i], s.positions[i]>>
  BY DEF Exactly, Follows
<1>2. /\ a \o b \in Seq(Entry) /\ Len(a \o b) = Len(a) + Len(b)
      /\ \A i \in 1..(Len(a) + Len(b)) : (a \o b)[i] = IF i <= Len(a) THEN a[i] ELSE b[i - Len(a)]
  BY <1>1, ConcatProperties, Zenon
<1> DEFINE c == a \o b
<1> HIDE DEF c
<1>3. /\ c \in Seq(Entry) /\ Len(c) = n + Len(b) /\ Len(b) \in Nat
      /\ \A i \in 1..(n + Len(b)) : c[i] = IF i <= n THEN a[i] ELSE b[i - n]
  BY <1>1, <1>2 DEF c
<1>4. ASSUME NEW i \in 1..(n + k)
      PROVE  c[i] = <<s.ledger[i], s.positions[i]>>
  <2>1. i \in 1..(n + Len(b))
    BY <1>3
  <2>2. CASE i <= n
    <3>1. i \in 1..n /\ c[i] = a[i]
      BY <1>3, <2>1, <2>2
    <3> QED BY <1>1, <3>1
  <2>3. CASE ~ (i <= n)
    <3>1. c[i] = b[i - n]
      BY <1>3, <2>1, <2>3
    <3>2. i - n \in 1..k /\ n + (i - n) = i
      BY <2>3
    <3>3. b[i - n] = <<s.ledger[n + (i - n)], s.positions[n + (i - n)]>>
      BY <3>2 DEF Succeed
    <3> QED BY <3>1, <3>2, <3>3
  <2> QED BY <2>2, <2>3
<1>5. Follows(c, s, n + k) /\ Len(c) = n + Len(b)
  BY <1>3, <1>4 DEF Follows
<1> QED BY <1>5 DEF c

(* What the ledger says of its first n columns.                            *)
LEMMA IdentityIsExact ==
  ASSUME NEW s \in SequenceRecords, NEW n \in Nat, n <= Len(s.ledger), Len(s.positions) = Len(s.ledger)
  PROVE  Exactly(Identity(s, n), s, n)
<1>1. s.ledger \in Seq(Token) /\ s.positions \in Seq(Int)
  BY DEF SequenceRecords
<1>2. \A i \in 1..n : s.ledger[i] \in Token /\ s.positions[i] \in Int
  BY <1>1
<1> DEFINE u == [i \in 1..n |-> <<s.ledger[i], s.positions[i]>>]
<1>3. \A i \in 1..n : <<s.ledger[i], s.positions[i]>> \in Entry
  BY <1>2 DEF Entry
<1>4. u \in Seq(Entry) /\ Len(u) = n
  BY <1>3
<1>5. \A i \in 1..n : u[i] = <<s.ledger[i], s.positions[i]>>
  OBVIOUS
<1> HIDE DEF u
<1>6. Exactly(u, s, n)
  BY <1>4, <1>5 DEF Exactly, Follows
<1>7. Identity(s, n) = u
  BY DEF Identity, u
<1> QED BY <1>6, <1>7

(* Columns computed from a sound state are sound.                          *)
LEMMA SoundColumns ==
  ASSUME NEW d, NEW s, NEW n \in Nat, Exactly(d.linear, s, n), Follows(d.kv, s, n), NEW entries
  PROVE  /\ Columns(d, n, entries) = entries
         /\ Context(d.linear, n) = d.linear
         /\ Upto(d.kv, n) = d.linear
<1>1. Exactly(Upto(d.kv, n), s, n)
  BY UptoExactly
<1>2. Upto(d.kv, n) = d.linear
  BY <1>1, SameColumns
<1>3. Len(d.linear) = n
  BY DEF Exactly
<1> QED BY <1>2, <1>3 DEF Columns, Context

-----------------------------------------------------------------------------
(* A chunk of a prefill.                                                   *)

ChunkContext(d, st) == Context(d.linear, st.cursor) \o ChunkColumns(d, st)

(* The fields a chunk writes, besides those of the backend.                *)
ChunkWrote(x, d, st) ==
    /\ DOMAIN x = DeviceFields
    /\ x.linear = ChunkContext(d, st) /\ x.kv = Upto(d.kv, st.cursor) \o ChunkColumns(d, st)
    /\ x.tail = IF Samples(st) THEN ChunkContext(d, st) ELSE d.tail
    /\ x.round = d.round
    /\ x.linearCheckpoint = IF ChunkEnd(st) = st.capture THEN ChunkContext(d, st)
                                                         ELSE d.linearCheckpoint
    /\ x.hiddenCheckpoint = IF ChunkEnd(st) = st.capture THEN ChunkContext(d, st)
                                                         ELSE d.hiddenCheckpoint

(* ChunkDevice writes them.                                                *)
LEMMA ChunkFields ==
  ASSUME NEW d, DOMAIN d = DeviceFields, NEW st, NEW token
  PROVE  ChunkWrote(ChunkDevice(d, st, token), d, st)
<1> DEFINE x == ChunkDevice(d, st, token)
           columns == ChunkColumns(d, st)
           context == Context(d.linear, st.cursor) \o columns
           next == SubSeq(st.prompt, st.cursor + 2, Min({ChunkEnd(st) + 1, Len(st.prompt)}))
           kv == Upto(d.kv, st.cursor) \o columns
           tail == IF Samples(st) THEN context ELSE d.tail
           mtp == IF Backend = "Mtp" THEN MtpPrompt(d.mtp, st.cursor, context, next, st, token)
                                     ELSE d.mtp
           lc == IF ChunkEnd(st) = st.capture THEN context ELSE d.linearCheckpoint
           hc == IF ChunkEnd(st) = st.capture THEN context ELSE d.hiddenCheckpoint
<1>1. x = [d EXCEPT !.linear = context, !.kv = kv, !.tail = tail, !.mtp = mtp,
                    !.linearCheckpoint = lc, !.hiddenCheckpoint = hc]
  BY DEF ChunkDevice
<1> HIDE DEF x, context, kv, tail, mtp, lc, hc
<1>2. /\ DOMAIN x = DeviceFields
      /\ x.linear = context /\ x.kv = kv /\ x.tail = tail /\ x.round = d.round
      /\ x.linearCheckpoint = lc /\ x.hiddenCheckpoint = hc
  BY <1>1 DEF DeviceFields
<1> QED BY <1>2 DEF ChunkWrote, ChunkContext, x, context, kv, tail, lc, hc

(* The bridge writes MTP rows only.                                        *)
LEMMA BridgeFields ==
  ASSUME NEW d, DOMAIN d = DeviceFields, NEW st, NEW x, x = BridgeMtp(d, st)
  PROVE  /\ DOMAIN x = DeviceFields
         /\ x.linear = d.linear /\ x.kv = d.kv /\ x.tail = d.tail /\ x.round = d.round
         /\ x.linearCheckpoint = d.linearCheckpoint /\ x.hiddenCheckpoint = d.hiddenCheckpoint
<1> DEFINE mtp == MtpWrite(d.mtp, st.base - 1,
                           Context(IF st.restored THEN d.hiddenCheckpoint ELSE d.tail, st.base),
                           <<st.prompt[st.base + 1]>>)
<1>1. x = d \/ x = [d EXCEPT !.mtp = mtp]
  BY DEF BridgeMtp
<1> HIDE DEF mtp
<1> QED BY <1>1 DEF DeviceFields

(* What a chunk and the end of the prompt leave of the sequence.           *)
LEMMA PrefilledFields ==
  ASSUME NEW s \in SequenceRecords, NEW st, NEW token, NEW f, f = PrefilledSequence(s, st),
         NEW g, g = FinishedSequence(s, st, token)
  PROVE  /\ f.ledger = s.ledger /\ f.positions = s.positions /\ f.rope_delta = s.rope_delta
         /\ f.text_kv_valid = ChunkEnd(st) /\ f.rewrite_checkpoint = s.rewrite_checkpoint
         /\ g.ledger = Append(s.ledger, token)
         /\ g.positions = Append(s.positions, Len(st.prompt) + s.rope_delta)
         /\ g.rope_delta = s.rope_delta /\ g.text_kv_valid = ChunkEnd(st)
         /\ st.capture # 0 => g.rewrite_checkpoint.frontier = st.capture
         /\ st.capture = 0 => g.rewrite_checkpoint = s.rewrite_checkpoint
<1> DEFINE n == ChunkEnd(st)
           mtp == IF Backend = "Mtp" THEN n ELSE s.mtp_kv_valid
           draft == IF Backend = "DFlash" THEN n ELSE s.dflash_context_frontier
           ledger == Append(s.ledger, token)
           positions == Append(s.positions, Len(st.prompt) + s.rope_delta)
           c == IF st.capture # 0 THEN [valid |-> TRUE, kind |-> st.kind, frontier |-> st.capture]
                                  ELSE s.rewrite_checkpoint
<1>1. f = [s EXCEPT !.text_kv_valid = n, !.mtp_kv_valid = mtp, !.dflash_context_frontier = draft]
  BY DEF PrefilledSequence
<1>2. g = [f EXCEPT !.ledger = Append(@, token),
                    !.positions = Append(@, Len(st.prompt) + s.rope_delta),
                    !.mtp_draft_count = st.extent, !.tail_hidden_valid = TRUE,
                    !.rewrite_checkpoint = IF st.capture # 0
                        THEN [valid |-> TRUE, kind |-> st.kind, frontier |-> st.capture]
                        ELSE @]
  BY DEF FinishedSequence
<1> HIDE DEF n, mtp, draft
<1>3. /\ f.ledger = s.ledger /\ f.positions = s.positions /\ f.rope_delta = s.rope_delta
      /\ f.text_kv_valid = n /\ f.rewrite_checkpoint = s.rewrite_checkpoint
      /\ DOMAIN f = DOMAIN s
  BY <1>1 DEF SequenceRecords
<1>4. g = [f EXCEPT !.ledger = ledger, !.positions = positions,
                    !.mtp_draft_count = st.extent, !.tail_hidden_valid = TRUE,
                    !.rewrite_checkpoint = c]
  BY <1>2, <1>3
<1> HIDE DEF ledger, positions, c
<1>5. /\ g.ledger = ledger /\ g.positions = positions /\ g.rope_delta = s.rope_delta
      /\ g.text_kv_valid = n /\ g.rewrite_checkpoint = c
  BY <1>3, <1>4 DEF SequenceRecords
<1>6. /\ st.capture # 0 => c.frontier = st.capture
      /\ st.capture = 0 => c = s.rewrite_checkpoint
  BY DEF c
<1> QED BY <1>3, <1>5, <1>6 DEF n, ledger, positions

(* The columns of a chunk are those of the ledger.                         *)
LEMMA ChunkEntries ==
  ASSUME NEW s \in SequenceRecords, NEW st \in PrefillRecords, NEW d,
         s.ledger = st.prompt, Len(s.positions) = Len(st.prompt),
         st.cursor = s.text_kv_valid, st.cursor < Len(st.prompt), st.capture <= Len(st.prompt),
         Resident(s, d), StagedHolds(s, st, d)
  PROVE  LET columns == ChunkColumns(d, st)
         IN  /\ columns \in Seq(Entry) /\ Len(columns) = ChunkEnd(st) - st.cursor
             /\ \A j \in 1..(ChunkEnd(st) - st.cursor) :
                  columns[j] = <<s.ledger[st.cursor + j], s.positions[st.cursor + j]>>
<1> DEFINE n == ChunkEnd(st)
           k == n - st.cursor
           place(i) == IF st.vision THEN PromptPosition(st.prompt, i) ELSE i - 1
           v == [j \in 1..k |-> <<st.prompt[st.cursor + j], place(st.cursor + j)>>]
<1>1. /\ st.cursor \in Nat /\ st.prompt \in Seq(Token) /\ s.positions \in Seq(Int)
      /\ Len(st.prompt) \in Nat
  BY DEF PrefillRecords, SequenceRecords
<1>2. n \in st.cursor..Len(st.prompt) /\ k \in Nat
  BY <1>1, ChunkEndBounds
<1>3. ASSUME NEW i \in 1..Len(st.prompt)
      PROVE  place(i) = s.positions[i]
  <2>1. s.positions[i] = PromptPosition(st.prompt, i)
    BY DEF StagedHolds
  <2>2. CASE st.vision
    BY <2>1, <2>2
  <2>3. CASE ~ st.vision
    <3>1. \A j \in 1..Len(st.prompt) : st.prompt[j] # Media
      BY <1>1, <2>3 DEF StagedHolds
    <3>2. {j \in 1..(i - 1) : st.prompt[j] = Media} = {}
      BY <1>1, <3>1
    <3>3. Cardinality({j \in 1..(i - 1) : st.prompt[j] = Media}) = 0
      BY <3>2, FS_EmptySet
    <3>4. PromptPosition(st.prompt, i) = i - 1
      BY <3>3 DEF PromptPosition
    <3> QED BY <2>1, <2>3, <3>4
  <2> QED BY <2>2, <2>3
<1>4. ChunkColumns(d, st) = v
  <2>1. Columns(d, st.cursor, v) = v
    <3>1. Exactly(d.linear, s, st.cursor) /\ Follows(d.kv, s, st.cursor)
      BY DEF Resident
    <3> QED BY <1>1, <3>1, SoundColumns
  <2>2. ChunkColumns(d, st) = Columns(d, st.cursor, v)
    BY DEF ChunkColumns
  <2> QED BY <2>1, <2>2
<1>5. ASSUME NEW j \in 1..k
      PROVE  /\ v[j] = <<s.ledger[st.cursor + j], s.positions[st.cursor + j]>>
             /\ v[j] \in Entry
  <2>1. st.cursor + j \in 1..Len(st.prompt)
    BY <1>1, <1>2
  <2>2. place(st.cursor + j) = s.positions[st.cursor + j]
    BY <1>3, <2>1
  <2>3. v[j] = <<st.prompt[st.cursor + j], place(st.cursor + j)>>
    OBVIOUS
  <2>4. st.prompt[st.cursor + j] \in Token /\ s.positions[st.cursor + j] \in Int
    BY <1>1, <2>1
  <2> HIDE DEF v, place
  <2>5. v[j] = <<s.ledger[st.cursor + j], s.positions[st.cursor + j]>>
    BY <2>2, <2>3
  <2> QED BY <2>4, <2>5 DEF Entry
<1>6. v \in Seq(Entry) /\ Len(v) = k
  <2> DEFINE w == [j \in 1..k |-> v[j]]
  <2>1. v = w
    OBVIOUS
  <2>2. \A j \in 1..k : v[j] \in Entry
    BY <1>5
  <2> HIDE DEF v, k
  <2>3. w \in Seq(Entry) /\ Len(w) = k
    BY <1>2, <2>2
  <2> HIDE DEF w
  <2> QED BY <2>1, <2>3
<1> HIDE DEF v
<1> QED BY <1>4, <1>5, <1>6

(* A device whose other fields changed.                                    *)
SameContent(d, e) ==
    /\ DOMAIN e = DeviceFields
    /\ e.linear = d.linear /\ e.kv = d.kv /\ e.tail = d.tail /\ e.round = d.round
    /\ e.linearCheckpoint = d.linearCheckpoint /\ e.hiddenCheckpoint = d.hiddenCheckpoint

(* It is still sound.                                                      *)
LEMMA SameContentHolds ==
  ASSUME NEW s, NEW q, NEW d, NEW e, Holds(s, q, d), SameContent(d, e)
  PROVE  Holds(s, q, e)
<1>1. DeviceTyped(e)
  BY DEF Holds, DeviceTyped, SameContent
<1>2. CheckpointHolds(s, e) /\ (q.lifecycle # "Empty" => Resident(s, e))
  BY DEF Holds, CheckpointHolds, Resident, SameContent
<1>3. q.lifecycle = "Prefilling" => StagedHolds(s, q.prefill, e)
  BY DEF Holds, StagedHolds, SameContent
<1>4. q.pending.kind = "speculative" => RoundHolds(s, q.pending.tokens, e)
  BY DEF Holds, RoundHolds, SameContent
<1> QED BY <1>1, <1>2, <1>3, <1>4 DEF Holds, SameContent

(* The device after a step of a staged prefill.                            *)
LEMMA PrefillDevice ==
  ASSUME NEW s \in SequenceRecords, NEW st \in PrefillRecords, NEW d, NEW token,
         s.ledger = st.prompt, Len(s.positions) = Len(st.prompt),
         st.cursor = s.text_kv_valid, st.cursor <= Len(st.prompt), st.capture <= Len(st.prompt),
         DeviceTyped(d), CheckpointHolds(s, d), Resident(s, d), StagedHolds(s, st, d),
         NEW e, e = IF st.cursor = Len(st.prompt) THEN ExactHitDevice(d, st, token)
                                                  ELSE ChunkDevice(BridgeMtp(d, st), st, token)
  PROVE  /\ DeviceTyped(e)
         /\ Exactly(e.linear, s, ChunkEnd(st)) /\ Follows(e.kv, s, ChunkEnd(st))
         /\ Samples(st) => Exactly(e.tail, s, ChunkEnd(st))
         /\ CheckpointHolds(s, e)
         /\ st.capture # 0 /\ st.capture <= ChunkEnd(st) =>
              /\ Exactly(e.linearCheckpoint, s, st.capture)
              /\ Exactly(e.hiddenCheckpoint, s, st.capture)
<1> DEFINE n == ChunkEnd(st)
           c == st.cursor
           k == Len(st.prompt)
<1>1. /\ c \in Nat /\ k \in Nat /\ st.capture \in Nat
  BY DEF PrefillRecords
<1>2. /\ n \in c..k /\ (c < k => c < n) /\ (c < st.capture => n <= st.capture)
  BY <1>1, ChunkEndBounds
<1>3. Exactly(d.linear, s, c) /\ Follows(d.kv, s, c)
  BY DEF Resident
<1>4. CASE c = k
  <2>1. SameContent(d, e)
    <3>1. DOMAIN d = DeviceFields
      BY DEF DeviceTyped
    <3> DEFINE mtp == MtpPrompt(d.mtp, Len(st.prompt) - 1, Context(d.tail, Len(st.prompt)),
                                << >>, st, token)
    <3>2. e = d \/ e = [d EXCEPT !.mtp = mtp]
      BY <1>4 DEF ExactHitDevice
    <3> HIDE DEF mtp
    <3> QED BY <3>1, <3>2 DEF SameContent, DeviceFields
  <2>2. n = c
    BY <1>1, <1>2, <1>4
  <2>3. Exactly(d.tail, s, c)
    BY <1>4 DEF StagedHolds
  <2>4. DeviceTyped(e) /\ CheckpointHolds(s, e)
    BY <2>1 DEF SameContent, DeviceTyped, CheckpointHolds
  <2>5. st.capture # 0 /\ st.capture <= c =>
          /\ Exactly(d.linearCheckpoint, s, st.capture)
          /\ Exactly(d.hiddenCheckpoint, s, st.capture)
    BY DEF StagedHolds
  <2> QED BY <1>3, <2>1, <2>2, <2>3, <2>4, <2>5 DEF SameContent
<1>5. CASE c # k
  <2> DEFINE b == BridgeMtp(d, st)
             columns == ChunkColumns(b, st)
             context == Context(b.linear, c) \o columns
  <2>1. SameContent(d, b)
    BY BridgeFields DEF SameContent, DeviceTyped
  <2>2. e = ChunkDevice(b, st, token)
    BY <1>5
  <2>3. columns = ChunkColumns(d, st)
    <3>1. b.linear = d.linear /\ b.kv = d.kv
      BY <2>1 DEF SameContent
    <3> HIDE DEF b
    <3> QED BY <3>1 DEF ChunkColumns, Columns
  <2>4. /\ columns \in Seq(Entry) /\ Len(columns) = n - c
        /\ \A j \in 1..(n - c) : columns[j] = <<s.ledger[c + j], s.positions[c + j]>>
    <3>1. c < k
      BY <1>1, <1>5
    <3>2. LET v == ChunkColumns(d, st)
          IN  /\ v \in Seq(Entry) /\ Len(v) = n - c
              /\ \A j \in 1..(n - c) : v[j] = <<s.ledger[c + j], s.positions[c + j]>>
      BY <3>1, ChunkEntries
    <3> HIDE DEF columns
    <3> QED BY <2>3, <3>2
  <2>5. /\ Context(b.linear, c) = d.linear /\ Upto(b.kv, c) = d.linear
    <3>1. Context(d.linear, c) = d.linear /\ Upto(d.kv, c) = d.linear
      BY <1>1, <1>3, SoundColumns
    <3> QED BY <2>1, <3>1 DEF SameContent
  <2>6. context = d.linear \o columns
    BY <2>5
  <2>7. /\ DOMAIN e = DeviceFields /\ e.linear = context /\ e.kv = context
        /\ e.tail = (IF Samples(st) THEN context ELSE d.tail) /\ e.round = d.round
        /\ e.linearCheckpoint = (IF n = st.capture THEN context ELSE d.linearCheckpoint)
        /\ e.hiddenCheckpoint = (IF n = st.capture THEN context ELSE d.hiddenCheckpoint)
    <3>1. DOMAIN b = DeviceFields /\ b.tail = d.tail /\ b.round = d.round
          /\ b.linearCheckpoint = d.linearCheckpoint /\ b.hiddenCheckpoint = d.hiddenCheckpoint
      BY <2>1 DEF SameContent
    <3> HIDE DEF b
    <3>3. ChunkWrote(e, b, st)
      BY <2>2, <3>1, ChunkFields
    <3>4. ChunkContext(b, st) = context
      BY DEF ChunkContext
    <3> HIDE DEF context
    <3>2. /\ DOMAIN e = DeviceFields
          /\ e.linear = context /\ e.kv = Upto(b.kv, c) \o columns
          /\ e.tail = IF Samples(st) THEN context ELSE b.tail
          /\ e.round = b.round
          /\ e.linearCheckpoint = IF n = st.capture THEN context ELSE b.linearCheckpoint
          /\ e.hiddenCheckpoint = IF n = st.capture THEN context ELSE b.hiddenCheckpoint
      BY <3>3, <3>4 DEF ChunkWrote
    <3> QED BY <2>5, <2>6, <3>1, <3>2
  <2> HIDE DEF columns, context, b
  <2>8. Exactly(context, s, n)
    <3>1. n - c \in 0..Len(columns) /\ c + (n - c) = n
      BY <1>1, <1>2, <2>4
    <3> DEFINE m == n - c
    <3> HIDE DEF m
    <3>2. Follows(d.linear \o columns, s, c + m) /\ Len(d.linear \o columns) = c + Len(columns)
      <4>1. m \in 0..Len(columns) /\ columns \in Seq(Entry)
            /\ Succeed(columns, s, c, m)
        BY <2>4, <3>1 DEF m, Succeed
      <4> QED BY <1>1, <1>3, <4>1, FollowsConcat, Zenon
    <3>3. Follows(context, s, n) /\ Len(context) = n
      BY <2>4, <2>6, <3>1, <3>2 DEF m
    <3> QED BY <3>3 DEF Exactly
  <2>9. context \in Seq(Entry)
    BY <2>8 DEF Exactly, Follows
  <2>10. DeviceTyped(e)
    BY <2>7, <2>9 DEF DeviceTyped
  <2>11. CheckpointHolds(s, e)
    <3>1. CASE s.rewrite_checkpoint.valid
      <4>1. st.capture = 0 /\ n # 0
        BY <1>1, <1>2, <1>5, <3>1 DEF StagedHolds
      <4>2. e.linearCheckpoint = d.linearCheckpoint /\ e.hiddenCheckpoint = d.hiddenCheckpoint
        BY <2>7, <4>1
      <4> QED BY <4>2 DEF CheckpointHolds
    <3>2. CASE ~ s.rewrite_checkpoint.valid
      BY <3>2 DEF CheckpointHolds
    <3> QED BY <3>1, <3>2
  <2>12. ASSUME st.capture # 0, st.capture <= n
         PROVE  Exactly(e.linearCheckpoint, s, st.capture) /\ Exactly(e.hiddenCheckpoint, s, st.capture)
    <3>1. CASE st.capture <= c
      <4>1. n # st.capture
        BY <1>1, <1>2, <1>5, <3>1
      <4>2. Exactly(d.linearCheckpoint, s, st.capture) /\ Exactly(d.hiddenCheckpoint, s, st.capture)
        BY <2>12, <3>1 DEF StagedHolds
      <4> QED BY <2>7, <4>1, <4>2
    <3>2. CASE ~ (st.capture <= c)
      <4>1. n = st.capture
        BY <1>1, <1>2, <2>12, <3>2
      <4> QED BY <2>7, <2>8, <4>1
    <3> QED BY <3>1, <3>2
  <2>13. Follows(e.kv, s, n) /\ Exactly(e.linear, s, n) /\ (Samples(st) => Exactly(e.tail, s, n))
    BY <2>7, <2>8 DEF Exactly
  <2> QED BY <2>10, <2>11, <2>12, <2>13
<1> QED BY <1>4, <1>5

(* A record that continues another one has its columns.                    *)
Continues(t, s, n) ==
    \A i \in 1..n : t.ledger[i] = s.ledger[i] /\ t.positions[i] = s.positions[i]

(* Its checkpoint, if it is the same and not behind them.                  *)
LEMMA CheckpointContinues ==
  ASSUME NEW s, NEW t, NEW d, NEW n \in Nat, CheckpointHolds(s, d), Continues(t, s, n),
         t.rewrite_checkpoint.valid =>
           /\ s.rewrite_checkpoint.valid
           /\ t.rewrite_checkpoint.frontier = s.rewrite_checkpoint.frontier
           /\ s.rewrite_checkpoint.frontier \in 0..n
  PROVE  CheckpointHolds(t, d)
<1> SUFFICES ASSUME t.rewrite_checkpoint.valid
             PROVE  LET f == t.rewrite_checkpoint.frontier
                    IN  Exactly(d.linearCheckpoint, t, f) /\ Exactly(d.hiddenCheckpoint, t, f)
  BY DEF CheckpointHolds
<1> DEFINE f == s.rewrite_checkpoint.frontier
<1>1. Exactly(d.linearCheckpoint, s, f) /\ Exactly(d.hiddenCheckpoint, s, f) /\ f \in 0..n
      /\ t.rewrite_checkpoint.frontier = f
  BY DEF CheckpointHolds
<1> HIDE DEF f
<1>2. f \in Nat /\ \A i \in 1..f : t.ledger[i] = s.ledger[i] /\ t.positions[i] = s.positions[i]
  BY <1>1 DEF Continues
<1>3. Exactly(d.linearCheckpoint, t, f) /\ Exactly(d.hiddenCheckpoint, t, f)
  BY <1>1, <1>2, ExactlyShared
<1> QED BY <1>1, <1>3

(* A state of s's columns is one of a record that continues s.             *)
LEMMA ExactlyContinues ==
  ASSUME NEW v, NEW s, NEW t, NEW n \in Nat, NEW m \in 0..n, Exactly(v, s, m), Continues(t, s, n)
  PROVE  Exactly(v, t, m)
BY DEF Exactly, Follows, Continues

(* So is a cache.                                                          *)
LEMMA FollowsContinues ==
  ASSUME NEW v, NEW s, NEW t, NEW n \in Nat, NEW m \in 0..n, Follows(v, s, m), Continues(t, s, n)
  PROVE  Follows(v, t, m)
BY DEF Follows, Continues

(* The record after a step of a staged prefill describes the device.       *)
LEMMA AdvanceHolds ==
  ASSUME NEW s \in SequenceRecords, NEW st \in PrefillRecords, NEW d, NEW token \in Tokens,
         NEW remaining, Staged(options, s, st, remaining),
         s.rewrite_checkpoint.valid => s.rewrite_checkpoint.frontier <= s.text_kv_valid,
         DeviceTyped(d), CheckpointHolds(s, d), Resident(s, d), StagedHolds(s, st, d),
         NEW e, e = IF st.cursor = Len(st.prompt) THEN ExactHitDevice(d, st, token)
                                                  ELSE ChunkDevice(BridgeMtp(d, st), st, token)
  PROVE  Holds(IF Samples(st) THEN FinishedSequence(s, st, token) ELSE PrefilledSequence(s, st),
               StagedRequest(st, token, remaining), e)
<1> DEFINE n == ChunkEnd(st)
           f == PrefilledSequence(s, st)
           g == FinishedSequence(s, st, token)
           q == StagedRequest(st, token, remaining)
           k == Len(st.prompt)
<1>1. /\ s.ledger = st.prompt /\ Len(s.positions) = k /\ k \in Nat
      /\ st.cursor = s.text_kv_valid /\ st.cursor <= k /\ st.capture <= k
      /\ st.capture \in Nat /\ st.cursor \in Nat
      /\ s.ledger \in Seq(Token) /\ s.positions \in Seq(Int) /\ s.rope_delta \in Int
      /\ s.rewrite_checkpoint.frontier \in Nat
  BY DEF Staged, PrefillRecords, SequenceRecords, CheckpointRecords
<1>2. n \in st.cursor..k /\ n \in Nat /\ (Samples(st) <=> n = k)
  BY <1>1, ChunkEndBounds DEF Samples
<1>3. /\ DeviceTyped(e)
      /\ Exactly(e.linear, s, n) /\ Follows(e.kv, s, n)
      /\ Samples(st) => Exactly(e.tail, s, n)
      /\ CheckpointHolds(s, e)
      /\ st.capture # 0 /\ st.capture <= n =>
           /\ Exactly(e.linearCheckpoint, s, st.capture)
           /\ Exactly(e.hiddenCheckpoint, s, st.capture)
  BY <1>1, PrefillDevice
<1>4. /\ f.ledger = s.ledger /\ f.positions = s.positions /\ f.rope_delta = s.rope_delta
      /\ f.text_kv_valid = n /\ f.rewrite_checkpoint = s.rewrite_checkpoint
      /\ g.ledger = Append(s.ledger, token)
      /\ g.positions = Append(s.positions, k + s.rope_delta)
      /\ g.rope_delta = s.rope_delta /\ g.text_kv_valid = n
      /\ st.capture # 0 => g.rewrite_checkpoint.frontier = st.capture
      /\ st.capture = 0 => g.rewrite_checkpoint = s.rewrite_checkpoint
  BY PrefilledFields
<1> HIDE DEF f, g, n
<1>5. CASE ~ Samples(st)
  <2> DEFINE r == [st EXCEPT !.cursor = n, !.bridge = "none"]
  <2>1. q = [lifecycle |-> "Prefilling", pending |-> NoPending, remaining |-> remaining,
             prefill |-> r]
    BY <1>5 DEF StagedRequest, n
  <2>2. /\ r.prompt = st.prompt /\ r.cursor = n /\ r.capture = st.capture /\ r.vision = st.vision
    BY DEF PrefillRecords
  <2>3. NoPending.kind = "none"
    BY DEF NoPending
  <2> HIDE DEF q, r
  <2>4. q.lifecycle = "Prefilling" /\ q.pending.kind = "none" /\ q.prefill = r
    BY <2>1, <2>3
  <2>5. n < k
    BY <1>1, <1>2, <1>5
  <2>6. Continues(f, s, n)
    BY <1>4 DEF Continues
  <2>7. Exactly(e.linear, f, n) /\ Follows(e.kv, f, n)
    BY <1>2, <1>3, <2>6, ExactlyContinues, FollowsContinues
  <2>8. CheckpointHolds(f, e)
    BY <1>3, <1>4 DEF CheckpointHolds, Exactly, Follows
  <2>9. StagedHolds(f, r, e)
    <3>1. /\ \A i \in 1..k : f.positions[i] = PromptPosition(r.prompt, i)
          /\ f.rope_delta = RopeDelta(r.prompt)
      BY <1>4, <2>2 DEF StagedHolds
    <3>2. r.vision \/ (\A i \in 1..k : r.prompt[i] # Media)
      <4>1. st.cursor # k
        BY <1>1, <1>2, <2>5
      <4>2. st.vision \/ (\A i \in 1..k : st.prompt[i] # Media)
        BY <4>1 DEF StagedHolds
      <4>3. CASE st.vision
        <5>1. r.vision
          BY <2>2, <4>3, Zenon
        <5> QED BY <5>1
      <4>4. CASE \A i \in 1..k : st.prompt[i] # Media
        BY <2>2, <4>4
      <4> QED BY <4>2, <4>3, <4>4
    <3>3. st.capture # 0 => ~ f.rewrite_checkpoint.valid
      BY <1>4 DEF StagedHolds
    <3>4. ASSUME st.capture # 0, st.capture <= n
          PROVE  Exactly(e.linearCheckpoint, f, st.capture)
                 /\ Exactly(e.hiddenCheckpoint, f, st.capture)
      BY <1>1, <1>2, <1>3, <2>6, <3>4, ExactlyContinues
    <3> QED BY <1>1, <1>2, <2>2, <2>5, <3>1, <3>2, <3>3, <3>4 DEF StagedHolds
  <2>10. Holds(f, q, e)
    BY <1>3, <1>4, <2>4, <2>7, <2>8, <2>9 DEF Holds, Resident
  <2> QED BY <1>5, <2>10 DEF f, q
<1>6. CASE Samples(st)
  <2> DEFINE pending == [NoPending EXCEPT !.kind = "begin", !.prompt_tokens = Len(st.prompt),
                                          !.tokens = <<token>>]
  <2>1. q = [lifecycle |-> "Pending", prefill |-> NoPrefill, remaining |-> remaining,
             pending |-> pending]
    BY <1>6 DEF StagedRequest
  <2>2. pending.kind = "begin"
    BY DEF NoPending
  <2> HIDE DEF q, pending
  <2>3. q.lifecycle = "Pending" /\ q.pending.kind = "begin"
    BY <2>1, <2>2
  <2>4. n = k
    BY <1>2, <1>6
  <2>5. /\ \A i \in 1..k : g.ledger[i] = s.ledger[i] /\ g.positions[i] = s.positions[i]
        /\ Len(g.positions) = k + 1 /\ g.positions[k + 1] = k + s.rope_delta
    <3> DEFINE place == k + s.rope_delta
    <3>1. token \in Token /\ place \in Int /\ Len(s.ledger) = k
      BY <1>1 DEF Token
    <3>2. g.ledger = Append(s.ledger, token) /\ g.positions = Append(s.positions, place)
      BY <1>4
    <3> HIDE DEF place
    <3>3. \A i \in 1..k : Append(s.ledger, token)[i] = s.ledger[i]
      BY <1>1, <3>1
    <3>4. /\ \A i \in 1..k : Append(s.positions, place)[i] = s.positions[i]
          /\ Len(Append(s.positions, place)) = k + 1
          /\ Append(s.positions, place)[k + 1] = place
      BY <1>1, <3>1
    <3> QED BY <3>2, <3>3, <3>4 DEF place
  <2>6. Continues(g, s, n)
    BY <2>4, <2>5 DEF Continues
  <2>7. Exactly(e.linear, g, n) /\ Follows(e.kv, g, n) /\ Exactly(e.tail, g, n)
    BY <1>2, <1>3, <1>6, <2>6, ExactlyContinues, FollowsContinues
  <2>8. CheckpointHolds(g, e)
    <3>1. CASE st.capture = 0
      <4>1. g.rewrite_checkpoint.valid =>
              /\ s.rewrite_checkpoint.valid
              /\ g.rewrite_checkpoint.frontier = s.rewrite_checkpoint.frontier
              /\ s.rewrite_checkpoint.frontier \in 0..n
        BY <1>1, <1>2, <1>4, <3>1
      <4> QED BY <1>2, <1>3, <2>6, <4>1, CheckpointContinues
    <3>2. CASE st.capture # 0
      <4>1. st.capture \in 0..n /\ g.rewrite_checkpoint.frontier = st.capture
        BY <1>1, <1>4, <2>4, <3>2
      <4>2. Exactly(e.linearCheckpoint, s, st.capture) /\ Exactly(e.hiddenCheckpoint, s, st.capture)
        BY <1>2, <1>3, <3>2, <4>1
      <4>3. Exactly(e.linearCheckpoint, g, st.capture) /\ Exactly(e.hiddenCheckpoint, g, st.capture)
        BY <1>2, <2>6, <4>1, <4>2, ExactlyContinues
      <4> QED BY <4>1, <4>3 DEF CheckpointHolds
    <3> QED BY <3>1, <3>2
  <2>9. LastPosition(g)
    BY <1>1, <1>4, <2>5 DEF LastPosition
  <2>10. Holds(g, q, e)
    BY <1>3, <1>4, <2>3, <2>7, <2>8, <2>9 DEF Holds, Resident
  <2> QED BY <1>6, <2>10 DEF g, q
<1> QED BY <1>5, <1>6

-----------------------------------------------------------------------------
(* The state a prompt starts from.                                         *)

(* What the reuse path leaves in the device.                               *)
StartWrote(e, d, p, plan) ==
    /\ DOMAIN e = DeviceFields
    /\ e.kv = d.kv /\ e.round = d.round
    /\ e.linearCheckpoint = d.linearCheckpoint /\ e.hiddenCheckpoint = d.hiddenCheckpoint
    /\ plan.path = "reset" => e.linear = << >> /\ e.tail = d.tail
    /\ plan.path = "append" => e.linear = d.linear /\ e.tail = d.tail
    /\ plan.path = "restore" =>
         /\ e.linear = d.linearCheckpoint
         /\ e.tail = IF plan.base = Len(p.tokens) THEN d.hiddenCheckpoint ELSE d.tail

(* StartDevice leaves that.                                                *)
LEMMA StartDeviceFields ==
  ASSUME NEW d, DOMAIN d = DeviceFields, NEW p, NEW plan,
         plan.path \in {"reset", "append", "restore"}
  PROVE  StartWrote(StartDevice(d, p, plan), d, p, plan)
<1> DEFINE e == StartDevice(d, p, plan)
           draft == IF Backend = "DFlash" THEN d.draftCheckpoint ELSE d.draft
           tail == IF plan.base = Len(p.tokens) THEN d.hiddenCheckpoint ELSE d.tail
<1>1. CASE plan.path = "reset"
  <2>1. e = [d EXCEPT !.linear = << >>]
    BY <1>1 DEF StartDevice
  <2> HIDE DEF e
  <2>2. StartWrote(e, d, p, plan)
    BY <1>1, <2>1 DEF StartWrote, DeviceFields
  <2> QED BY <2>2 DEF e
<1>2. CASE plan.path = "append"
  <2>1. e = d
    BY <1>2 DEF StartDevice
  <2> HIDE DEF e
  <2>2. StartWrote(e, d, p, plan)
    BY <1>2, <2>1 DEF StartWrote
  <2> QED BY <2>2 DEF e
<1>3. CASE plan.path = "restore"
  <2>1. e = [d EXCEPT !.linear = d.linearCheckpoint, !.draft = draft, !.tail = tail]
    BY <1>3 DEF StartDevice
  <2> HIDE DEF e, draft, tail
  <2>2. /\ DOMAIN e = DeviceFields
        /\ e.kv = d.kv /\ e.round = d.round
        /\ e.linearCheckpoint = d.linearCheckpoint /\ e.hiddenCheckpoint = d.hiddenCheckpoint
        /\ e.linear = d.linearCheckpoint /\ e.tail = tail
    BY <2>1 DEF DeviceFields
  <2>3. StartWrote(e, d, p, plan)
    BY <1>3, <2>2 DEF StartWrote, tail
  <2> QED BY <2>3 DEF e
<1> QED BY <1>1, <1>2, <1>3

(* A prompt that continues a kept lane finds there what it would compute:  *)
(* at the frontier, or at the checkpoint, whose recurrent state and hidden *)
(* are put back.                                                           *)
LEMMA StartHolds ==
  ASSUME options \in Setups, NEW s, NEW q, LaneOK(options, s, q),
         q.lifecycle \in {"Empty", "Complete"}, NEW d, Holds(s, q, d),
         NEW p \in Prompts, NEW allowed \in BOOLEAN, NEW plan, plan = ReusePath(p, s, allowed),
         SeesMedia(p, plan.base),
         NEW t, t = StartSequence(s, p, plan), NEW st, st = StartPrefill(s, p, plan),
         NEW e, e = StartDevice(d, p, plan)
  PROVE  DeviceTyped(e) /\ CheckpointHolds(t, e) /\ Resident(t, e) /\ StagedHolds(t, st, e)
<1> DEFINE n == plan.base
           k == Len(p.tokens)
<1>1. /\ s \in SequenceRecords /\ s.text_kv_valid \in Nat /\ s.rewrite_checkpoint.frontier \in Nat
      /\ p.tokens \in Seq(Token) /\ k \in Nat \ {0} /\ p.checkpoint \in Nat
  BY OptionsFacts DEF LaneOK, SequenceRecords, CheckpointRecords
<1>2. /\ n \in 0..k /\ n \in Nat /\ plan.path \in {"reset", "append", "restore"}
      /\ plan.path = "reset" => n = 0
      /\ plan.path # "reset" => /\ q.lifecycle = "Complete"
                                /\ n > 0 /\ n <= s.text_kv_valid
                                /\ PrefixMatches(p, s, n)
      /\ plan.path = "append" => n = s.execution_frontier
      /\ plan.path = "restore" => s.rewrite_checkpoint.valid /\ n = s.rewrite_checkpoint.frontier
  BY <1>1, PlanFacts
<1>3. /\ t.ledger = p.tokens /\ Len(t.positions) = k
      /\ \A i \in 1..k : t.positions[i] = PromptPosition(p.tokens, i)
      /\ t.text_kv_valid = n /\ t.rope_delta = RopeDelta(p.tokens)
      /\ t.rewrite_checkpoint = StartCheckpoint(s, p, plan)
  BY StartFields
<1>4. /\ StartCheckpoint(s, p, plan).valid =>
           /\ s.rewrite_checkpoint.valid /\ plan.path # "reset"
           /\ StartCheckpoint(s, p, plan).frontier = s.rewrite_checkpoint.frontier
           /\ s.rewrite_checkpoint.frontier <= n
      /\ CheckpointAction(p, s, plan) = "capture" =>
           p.checkpoint > n /\ ~ StartCheckpoint(s, p, plan).valid
  BY StartCheckpointFacts
<1>5. StartWrote(e, d, p, plan)
  BY <1>2, StartDeviceFields DEF Holds, DeviceTyped
<1>6. DeviceTyped(d) /\ CheckpointHolds(s, d)
      /\ (q.lifecycle = "Complete" => Resident(s, d) /\ Exactly(d.tail, s, s.text_kv_valid))
  BY DEF Holds
<1>7. DeviceTyped(e)
  <2>1. << >> \in Seq(Entry)
    OBVIOUS
  <2> QED BY <1>2, <1>5, <1>6, <2>1 DEF StartWrote, DeviceTyped
<1>8. Continues(t, s, n)
  <2>1. CASE plan.path = "reset"
    BY <1>2, <2>1 DEF Continues
  <2>2. CASE plan.path # "reset"
    <3>1. \A i \in 1..n : p.tokens[i] = s.ledger[i] /\ PromptPosition(p.tokens, i) = s.positions[i]
      BY <1>2, <2>2 DEF PrefixMatches
    <3>2. \A i \in 1..n : i \in 1..k
      BY <1>1, <1>2
    <3> QED BY <1>3, <3>1, <3>2 DEF Continues
  <2> QED BY <2>1, <2>2
<1>9. plan.path = "append" => n = s.text_kv_valid
  BY <1>2 DEF LaneOK, Kept, Settled
<1> HIDE DEF n, k
<1>10. n \in 0..n
  BY <1>2
<1>11. Resident(t, e)
  <2>1. Exactly(e.linear, t, n)
    <3>1. CASE plan.path = "reset"
      <4>1. e.linear = << >> /\ n = 0
        BY <1>2, <1>5, <3>1 DEF StartWrote
      <4>2. << >> \in Seq(Entry) /\ Len(<< >>) = 0
        OBVIOUS
      <4> QED BY <4>1, <4>2 DEF Exactly, Follows
    <3>2. CASE plan.path = "append"
      <4>1. e.linear = d.linear /\ Exactly(d.linear, s, n)
        BY <1>2, <1>5, <1>6, <1>9, <3>2 DEF StartWrote, Resident
      <4> QED BY <1>2, <1>8, <1>10, <4>1, ExactlyContinues
    <3>3. CASE plan.path = "restore"
      <4>1. e.linear = d.linearCheckpoint /\ Exactly(d.linearCheckpoint, s, n)
        BY <1>2, <1>5, <1>6, <3>3 DEF StartWrote, CheckpointHolds
      <4> QED BY <1>2, <1>8, <1>10, <4>1, ExactlyContinues
    <3> QED BY <1>2, <3>1, <3>2, <3>3
  <2>2. Follows(e.kv, t, n)
    <3>1. CASE plan.path = "reset"
      <4>1. e.kv \in Seq(Entry) /\ n = 0 /\ Len(e.kv) \in Nat
        BY <1>2, <1>7, <3>1 DEF DeviceTyped
      <4> QED BY <4>1 DEF Follows
    <3>2. CASE plan.path # "reset"
      <4>1. e.kv = d.kv /\ Follows(d.kv, s, s.text_kv_valid) /\ n \in 0..s.text_kv_valid
        BY <1>1, <1>2, <1>5, <1>6, <3>2 DEF StartWrote, Resident
      <4>2. \A i \in 1..n : t.ledger[i] = s.ledger[i] /\ t.positions[i] = s.positions[i]
        BY <1>8 DEF Continues
      <4> QED BY <1>1, <4>1, <4>2, FollowsShorter
    <3> QED BY <3>1, <3>2
  <2> QED BY <1>3, <2>1, <2>2 DEF Resident, n
<1>12. CheckpointHolds(t, e)
  <2>1. t.rewrite_checkpoint.valid =>
          /\ s.rewrite_checkpoint.valid
          /\ t.rewrite_checkpoint.frontier = s.rewrite_checkpoint.frontier
          /\ s.rewrite_checkpoint.frontier \in 0..n
    BY <1>1, <1>2, <1>3, <1>4
  <2>2. CheckpointHolds(t, d)
    BY <1>2, <1>6, <1>8, <2>1, CheckpointContinues
  <2> QED BY <1>5, <2>2 DEF CheckpointHolds, StartWrote
<1>13. n = k => Exactly(e.tail, t, n)
  <2> SUFFICES ASSUME n = k PROVE Exactly(e.tail, t, n)
    OBVIOUS
  <2>1. CASE plan.path = "reset"
    BY <1>1, <1>2, <2>1
  <2>2. CASE plan.path = "append"
    <3>1. e.tail = d.tail /\ Exactly(d.tail, s, n)
      BY <1>2, <1>5, <1>6, <1>9, <2>2 DEF StartWrote
    <3> QED BY <1>2, <1>8, <1>10, <3>1, ExactlyContinues
  <2>3. CASE plan.path = "restore"
    <3>1. e.tail = d.hiddenCheckpoint /\ Exactly(d.hiddenCheckpoint, s, n)
      BY <1>2, <1>5, <1>6, <2>3 DEF StartWrote, CheckpointHolds, n, k
    <3> QED BY <1>2, <1>8, <1>10, <3>1, ExactlyContinues
  <2> QED BY <1>2, <2>1, <2>2, <2>3
<1>14. /\ st.prompt = p.tokens /\ st.cursor = n
       /\ st.capture = (IF CheckpointAction(p, s, plan) = "capture" THEN p.checkpoint ELSE 0)
       /\ st.vision = (\E i \in (n + 1)..k : p.tokens[i] = Media)
  BY DEF StartPrefill, n, k
<1>15. (\E i \in (n + 1)..k : p.tokens[i] = Media) \/ n = k \/ (\A i \in 1..k : p.tokens[i] # Media)
  BY DEF SeesMedia, n, k
<1>16. StagedHolds(t, st, e)
  <2>1. st.vision \/ st.cursor = k \/ (\A i \in 1..k : st.prompt[i] # Media)
    BY <1>14, <1>15, Zenon
  <2>2. st.capture # 0 => ~ t.rewrite_checkpoint.valid /\ ~ (st.capture <= st.cursor)
    BY <1>1, <1>2, <1>3, <1>4, <1>14
  <2>3. Len(st.prompt) = k /\ t.rope_delta = RopeDelta(st.prompt)
        /\ \A i \in 1..k : t.positions[i] = PromptPosition(st.prompt, i)
    BY <1>3, <1>14 DEF k
  <2>4. st.cursor = k => Exactly(e.tail, t, st.cursor)
    BY <1>13, <1>14
  <2> QED BY <2>1, <2>2, <2>3, <2>4 DEF StagedHolds
<1> QED BY <1>7, <1>11, <1>12, <1>16

-----------------------------------------------------------------------------
(* A decode round.                                                         *)

(* The columns of a round: those of its tokens come first.                 *)
RoundRow(v, s, round) ==
    /\ v \in Seq(Entry) /\ Len(v) = round.extent + 1
    /\ \A j \in 1..Len(round.tokens) : v[j] = RoundEntry(s, round.tokens, j)

(* A sound lane computes them.                                             *)
LEMMA RoundEntries ==
  ASSUME NEW s \in SequenceRecords, NEW d, NEW round, Resident(s, d),
         s.text_kv_valid = s.execution_frontier, Len(s.ledger) > 0,
         round.extent \in Nat, round.tokens \in Seq(Tokens),
         Len(round.tokens) \in 1..(round.extent + 1)
  PROVE  RoundRow(RoundColumns(s, d, round), s, round)
<1> DEFINE e == s.execution_frontier
           m == Len(round.tokens)
           last == Last(s.ledger)
           front == Front(round.tokens)
           sound == <<last>> \o front
           w == [j \in 1..Len(sound) |-> <<sound[j], e + j - 1 + s.rope_delta>>]
           x == Scrap(round.extent + 1 - Len(sound))
<1>1. /\ e \in Nat /\ s.rope_delta \in Int /\ s.ledger \in Seq(Token) /\ m \in Nat /\ m > 0
      /\ m <= round.extent + 1
  BY DEF SequenceRecords
<1>2. last = s.ledger[Len(s.ledger)] /\ last \in Token
  BY <1>1 DEF Last
<1>3. front \in Seq(Token) /\ Len(front) = m - 1 /\ \A i \in 1..(m - 1) : front[i] = round.tokens[i]
  <2>1. \A i \in 1..(m - 1) : round.tokens[i] \in Token
    BY <1>1 DEF Token
  <2> DEFINE h == m - 1
             u == round.tokens
  <2>2. h \in Int /\ 1 \in Int /\ h >= 0 /\ h = m - 1
    BY <1>1
  <2>3. front = SubSeq(u, 1, h)
    BY DEF Front
  <2>4. \A i \in 1..h : u[i] \in Token
    BY <2>1
  <2> HIDE DEF h, u, front, m
  <2>5. /\ SubSeq(u, 1, h) \in Seq(Token)
        /\ Len(SubSeq(u, 1, h)) = IF 1 <= h THEN h - 1 + 1 ELSE 0
        /\ \A i \in 1..(h - 1 + 1) : SubSeq(u, 1, h)[i] = u[1 + i - 1]
    BY <2>2, <2>4, SubSeqProperties
  <2>6. Len(front) = h /\ front \in Seq(Token) /\ \A i \in 1..h : front[i] = u[i]
    BY <2>2, <2>3, <2>5
  <2> QED BY <2>2, <2>6 DEF u
<1> HIDE DEF last, front, m, e
<1>4. /\ sound \in Seq(Token) /\ Len(sound) = m
      /\ \A j \in 1..m : sound[j] = IF j = 1 THEN last ELSE round.tokens[j - 1]
  <2> DEFINE a == <<last>>
  <2>1. a \in Seq(Token) /\ Len(a) = 1 /\ a[1] = last
    BY <1>2
  <2> HIDE DEF a
  <2>2. /\ a \o front \in Seq(Token) /\ Len(a \o front) = Len(a) + Len(front)
        /\ \A i \in 1..(Len(a) + Len(front)) :
             (a \o front)[i] = IF i <= Len(a) THEN a[i] ELSE front[i - Len(a)]
    BY <1>3, <2>1, ConcatProperties, Zenon
  <2> DEFINE b == a \o front
  <2> HIDE DEF b
  <2>3. /\ b \in Seq(Token) /\ Len(b) = m
        /\ \A i \in 1..m : b[i] = IF i <= 1 THEN a[i] ELSE front[i - 1]
    BY <1>1, <1>3, <2>1, <2>2 DEF b
  <2>4. ASSUME NEW j \in 1..m
        PROVE  b[j] = IF j = 1 THEN last ELSE round.tokens[j - 1]
    <3>1. CASE j = 1
      BY <2>1, <2>3, <3>1
    <3>2. CASE j # 1
      <4>1. j - 1 \in 1..(m - 1) /\ ~ (j <= 1)
        BY <1>1, <3>2
      <4>2. b[j] = front[j - 1]
        BY <2>3, <4>1
      <4> QED BY <1>3, <3>2, <4>1, <4>2
    <3> QED BY <3>1, <3>2
  <2> QED BY <2>3, <2>4 DEF a, b
<1> HIDE DEF sound
<1>5. /\ w \in Seq(Entry) /\ Len(w) = m
      /\ \A j \in 1..m : w[j] = RoundEntry(s, round.tokens, j)
  <2>1. ASSUME NEW j \in 1..m
        PROVE  /\ w[j] = <<sound[j], e + j - 1 + s.rope_delta>> /\ w[j] \in Entry
    <3>1. sound[j] \in Token /\ e + j - 1 + s.rope_delta \in Int
      BY <1>1, <1>4
    <3>2. w[j] = <<sound[j], e + j - 1 + s.rope_delta>>
      BY <1>4
    <3> HIDE DEF w
    <3> QED BY <3>1, <3>2 DEF Entry
  <2>2. w = [j \in 1..m |-> w[j]]
    BY <1>4
  <2> HIDE DEF w
  <2>3. w \in Seq(Entry) /\ Len(w) = m
    <3> DEFINE u == [j \in 1..m |-> w[j]]
    <3>1. u \in Seq(Entry) /\ Len(u) = m
      BY <1>1, <2>1
    <3> HIDE DEF u
    <3>2. w = u
      BY <2>2 DEF u
    <3> QED BY <3>1, <3>2
  <2>4. ASSUME NEW j \in 1..m
        PROVE  w[j] = RoundEntry(s, round.tokens, j)
    BY <1>2, <1>4, <2>1 DEF RoundEntry, e, last
  <2> QED BY <2>3, <2>4
<1>6. x \in Seq(Entry) /\ Len(x) = round.extent + 1 - m
  <2> DEFINE h == round.extent + 1 - m
             u == [i \in 1..h |-> Garbage]
  <2>1. h \in Nat /\ Garbage \in Entry
    BY <1>1 DEF Garbage, Entry
  <2>2. x = u
    BY <1>4 DEF Scrap
  <2> HIDE DEF h, x
  <2>3. u \in Seq(Entry) /\ Len(u) = h
    BY <2>1
  <2> HIDE DEF u
  <2> QED BY <2>2, <2>3 DEF h
<1>7. RoundColumns(s, d, round) = w \o x
  <2>1. RoundColumns(s, d, round) = Columns(d, e, w \o x)
    BY DEF RoundColumns, w, x, sound, front, last, e
  <2>2. Exactly(d.linear, s, e) /\ Follows(d.kv, s, e)
    BY DEF Resident, e
  <2> HIDE DEF w, x
  <2>3. Columns(d, e, w \o x) = w \o x
    BY <1>1, <2>2, SoundColumns
  <2> QED BY <2>1, <2>3
<1> HIDE DEF w, x
<1>8. /\ w \o x \in Seq(Entry) /\ Len(w \o x) = Len(w) + Len(x)
      /\ \A i \in 1..(Len(w) + Len(x)) :
           (w \o x)[i] = IF i <= Len(w) THEN w[i] ELSE x[i - Len(w)]
  BY <1>5, <1>6, ConcatProperties, Zenon
<1> DEFINE c == w \o x
<1> HIDE DEF c
<1>9. /\ c \in Seq(Entry) /\ Len(c) = round.extent + 1
      /\ \A j \in 1..m : c[j] = w[j]
  BY <1>1, <1>5, <1>6, <1>8 DEF c
<1>10. RoundRow(c, s, round)
  BY <1>5, <1>9 DEF RoundRow, m
<1> QED BY <1>7, <1>10 DEF c

(* The fields a round writes, besides those of the backend.                *)
RoundWrote(x, s, d, round) ==
    LET e == s.execution_frontier
        columns == RoundColumns(s, d, round)
        context == Context(d.linear, e) \o SubSeq(columns, 1, Len(round.tokens))
    IN  /\ DOMAIN x = DeviceFields
        /\ x.kv = Upto(d.kv, e) \o columns /\ x.tail = context
        /\ x.linear = IF Backend = "None" THEN context ELSE d.linear
        /\ x.round = IF Backend = "None" THEN d.round ELSE columns
        /\ x.linearCheckpoint = d.linearCheckpoint /\ x.hiddenCheckpoint = d.hiddenCheckpoint

(* RoundDevice writes them.                                                *)
LEMMA RoundFields ==
  ASSUME NEW s, NEW d, DOMAIN d = DeviceFields, NEW round
  PROVE  RoundWrote(RoundDevice(s, d, round), s, d, round)
<1> DEFINE x == RoundDevice(s, d, round)
           e == s.execution_frontier
           columns == RoundColumns(s, d, round)
           context == Context(d.linear, e) \o SubSeq(columns, 1, Len(round.tokens))
           behind == e - s.dflash_context_frontier
           kv == Upto(d.kv, e) \o columns
           linear == IF Backend = "None" THEN context ELSE d.linear
           row == IF Backend = "None" THEN d.round ELSE columns
           mtp == IF Backend = "Mtp"
                    THEN MtpWrite(d.mtp, e, context, round.tokens)
                           \o Scrap(Min({Capacity, e + round.extent + DraftWindow})
                                      - e - Len(round.tokens))
                    ELSE d.mtp
           draft == IF Backend = "DFlash" /\ behind > 0
                      THEN DraftAppend(d.draft, s.dflash_context_frontier, Upto(d.round, behind))
                      ELSE d.draft
<1>1. x = [d EXCEPT !.kv = kv, !.tail = context, !.linear = linear, !.round = row,
                    !.mtp = mtp, !.draft = draft]
  BY DEF RoundDevice
<1> HIDE DEF x, context, kv, linear, row, mtp, draft
<1>2. /\ DOMAIN x = DeviceFields
      /\ x.linear = linear /\ x.kv = kv /\ x.tail = context /\ x.round = row
      /\ x.linearCheckpoint = d.linearCheckpoint /\ x.hiddenCheckpoint = d.hiddenCheckpoint
  BY <1>1 DEF DeviceFields
<1> QED BY <1>2 DEF RoundWrote, x, context, kv, linear, row

(* The first columns of a row.                                             *)
LEMMA RowPrefix ==
  ASSUME NEW v \in Seq(Entry), NEW m \in 0..Len(v)
  PROVE  /\ SubSeq(v, 1, m) \in Seq(Entry) /\ Len(SubSeq(v, 1, m)) = m
         /\ \A i \in 1..m : SubSeq(v, 1, m)[i] = v[i]
OBVIOUS

(* A row behind a context.                                                 *)
LEMMA RowBehind ==
  ASSUME NEW a \in Seq(Entry), NEW b \in Seq(Entry), NEW n \in Nat, Len(a) = n
  PROVE  /\ a \o b \in Seq(Entry) /\ Len(a \o b) = n + Len(b)
         /\ \A j \in 1..Len(b) : (a \o b)[n + j] = b[j]
<1>1. /\ a \o b \in Seq(Entry) /\ Len(a \o b) = Len(a) + Len(b)
      /\ \A i \in 1..(Len(a) + Len(b)) : (a \o b)[i] = IF i <= Len(a) THEN a[i] ELSE b[i - Len(a)]
  BY ConcatProperties, Zenon
<1> DEFINE c == a \o b
<1> HIDE DEF c
<1>2. /\ c \in Seq(Entry) /\ Len(c) = n + Len(b) /\ Len(b) \in Nat
      /\ \A i \in 1..(n + Len(b)) : c[i] = IF i <= n THEN a[i] ELSE b[i - n]
  BY <1>1 DEF c
<1>3. ASSUME NEW j \in 1..Len(b)
      PROVE  c[n + j] = b[j]
  <2>1. n + j \in 1..(n + Len(b)) /\ ~ (n + j <= n) /\ (n + j) - n = j
    BY <1>2
  <2> QED BY <1>2, <2>1
<1> QED BY <1>2, <1>3 DEF c

(* An ordinary round extends the record, a speculative one leaves it.      *)
LEMMA RoundRecord ==
  ASSUME NEW s \in SequenceRecords, NEW round, NEW t, t = RoundSequence(s, round),
         Backend \in {"None", "Mtp", "DFlash"}
  PROVE  /\ t.execution_frontier = s.execution_frontier /\ t.rope_delta = s.rope_delta
         /\ t.rewrite_checkpoint = s.rewrite_checkpoint
         /\ Backend = "None" =>
              /\ t.text_kv_valid = s.execution_frontier + 1
              /\ t.ledger = s.ledger \o round.tokens
              /\ t.positions = Append(s.positions, Len(s.positions) + s.rope_delta)
         /\ Backend # "None" =>
              /\ t.text_kv_valid = s.text_kv_valid
              /\ t.ledger = s.ledger /\ t.positions = s.positions
<1> DEFINE kv == RoundBundle(s, round)
           e == s.execution_frontier
           f == [s EXCEPT !.kv = kv]
           ledger == s.ledger \o round.tokens
           positions == Append(s.positions, Len(s.positions) + s.rope_delta)
<1>1. /\ f.execution_frontier = e /\ f.rope_delta = s.rope_delta
      /\ f.rewrite_checkpoint = s.rewrite_checkpoint /\ f.text_kv_valid = s.text_kv_valid
      /\ f.ledger = s.ledger /\ f.positions = s.positions /\ DOMAIN f = DOMAIN s
  BY DEF SequenceRecords
<1>2. CASE Backend = "None"
  <2>1. t = [f EXCEPT !.text_kv_valid = e + 1, !.tail_hidden_valid = TRUE,
                      !.ledger = @ \o round.tokens, !.positions = Append(@, Len(@) + s.rope_delta)]
    BY <1>2 DEF RoundSequence
  <2> HIDE DEF f
  <2>2. t = [f EXCEPT !.text_kv_valid = e + 1, !.tail_hidden_valid = TRUE,
                      !.ledger = ledger, !.positions = positions]
    BY <1>1, <2>1
  <2> HIDE DEF ledger, positions
  <2>3. /\ t.execution_frontier = e /\ t.rope_delta = s.rope_delta
        /\ t.rewrite_checkpoint = s.rewrite_checkpoint /\ t.text_kv_valid = e + 1
        /\ t.ledger = ledger /\ t.positions = positions
    BY <1>1, <2>2 DEF SequenceRecords
  <2> QED BY <1>2, <2>3 DEF ledger, positions
<1>3. CASE Backend = "Mtp"
  <2>1. t = f
    BY <1>3 DEF RoundSequence
  <2> QED BY <1>1, <1>3, <2>1
<1>4. CASE Backend = "DFlash"
  <2>1. t = [f EXCEPT !.dflash_context_frontier = e]
    BY <1>4 DEF RoundSequence
  <2> HIDE DEF f
  <2> QED BY <1>1, <1>4, <2>1 DEF SequenceRecords
<1> QED BY <1>2, <1>3, <1>4

(* The device after a round is that of the lane's new record: the kept     *)
(* prefix is untouched, and the round's columns stand behind it.           *)
LEMMA RoundHoldsAfter ==
  ASSUME options \in Setups, NEW s, NEW q, LaneOK(options, s, q), q.lifecycle = "Active",
         NEW round, RoundFits(options, s, q.remaining, round), NEW d, Holds(s, q, d)
  PROVE  Holds(RoundSequence(s, round),
               [q EXCEPT !.lifecycle = "Pending", !.pending = RoundPending(s, round)],
               RoundDevice(s, d, round))
<1> DEFINE e == s.execution_frontier
           m == Len(round.tokens)
           t == RoundSequence(s, round)
           w == RoundPending(s, round)
           p == [q EXCEPT !.lifecycle = "Pending", !.pending = w]
           x == RoundDevice(s, d, round)
           columns == RoundColumns(s, d, round)
           head == SubSeq(columns, 1, m)
<1>1. /\ s \in SequenceRecords /\ q \in RequestRecords
      /\ e \in Nat /\ s.text_kv_valid = e /\ Len(s.ledger) = e + 1 /\ Len(s.positions) = e + 1
      /\ s.ledger \in Seq(Token) /\ s.positions \in Seq(Int) /\ s.rope_delta \in Int
      /\ s.rewrite_checkpoint.frontier \in Nat
      /\ s.rewrite_checkpoint.valid => s.rewrite_checkpoint.frontier <= e
  BY DEF LaneOK, Decoding, Settled, SequenceRecords, CheckpointRecords
<1>2. /\ round.extent \in Nat /\ round.tokens \in Seq(Tokens) /\ m \in 1..(round.extent + 1)
      /\ m \in Nat /\ m > 0 /\ Backend \in {"None", "Mtp", "DFlash"}
      /\ Backend = "None" => round.extent = 0
  <2>1. /\ round.extent \in Nat /\ round.tokens \in Seq(Tokens) /\ m \in 1..(round.extent + 1)
        /\ Backend = "None" => round.extent = 0
    BY DEF RoundFits, Backend
  <2> QED BY <2>1, OptionsFacts
<1>3. DeviceTyped(d) /\ CheckpointHolds(s, d) /\ Resident(s, d) /\ LastPosition(s)
  BY DEF Holds
<1>4. Exactly(d.linear, s, e) /\ Follows(d.kv, s, e) /\ d.linear \in Seq(Entry) /\ Len(d.linear) = e
  BY <1>1, <1>3 DEF Resident, Exactly, Follows
<1>5. /\ columns \in Seq(Entry) /\ Len(columns) = round.extent + 1
      /\ \A j \in 1..m : columns[j] = RoundEntry(s, round.tokens, j)
  <2>1. RoundRow(columns, s, round)
    BY <1>1, <1>2, <1>3, RoundEntries
  <2> QED BY <2>1 DEF RoundRow
<1>6. Context(d.linear, e) = d.linear /\ Upto(d.kv, e) = d.linear
  BY <1>1, <1>4, SoundColumns
<1> DEFINE context == d.linear \o head
           kv == d.linear \o columns
<1>7. /\ DOMAIN x = DeviceFields /\ x.kv = kv /\ x.tail = context
      /\ x.linear = (IF Backend = "None" THEN context ELSE d.linear)
      /\ x.round = (IF Backend = "None" THEN d.round ELSE columns)
      /\ x.linearCheckpoint = d.linearCheckpoint /\ x.hiddenCheckpoint = d.hiddenCheckpoint
  <2>1. RoundWrote(x, s, d, round)
    BY <1>3, RoundFields DEF DeviceTyped
  <2> HIDE DEF x
  <2> QED BY <1>6, <2>1 DEF RoundWrote
<1> HIDE DEF columns, x, t, w
<1>8. m \in 0..Len(columns)
  BY <1>2, <1>5
<1> HIDE DEF m
<1>9. /\ head \in Seq(Entry) /\ Len(head) = m
      /\ \A j \in 1..m : head[j] = RoundEntry(s, round.tokens, j)
  BY <1>5, <1>8, RowPrefix
<1> HIDE DEF head, e
<1>10. /\ context \in Seq(Entry) /\ Len(context) = e + m
       /\ \A j \in 1..m : context[e + j] = RoundEntry(s, round.tokens, j)
       /\ kv \in Seq(Entry) /\ Len(kv) = e + (round.extent + 1)
       /\ \A j \in 1..m : kv[e + j] = RoundEntry(s, round.tokens, j)
  <2>1. /\ context \in Seq(Entry) /\ Len(context) = e + Len(head)
        /\ \A j \in 1..Len(head) : context[e + j] = head[j]
    BY <1>1, <1>4, <1>9, RowBehind, Zenon
  <2>2. /\ kv \in Seq(Entry) /\ Len(kv) = e + Len(columns)
        /\ \A j \in 1..Len(columns) : kv[e + j] = columns[j]
    BY <1>1, <1>4, <1>5, RowBehind, Zenon
  <2> HIDE DEF context, kv
  <2>3. \A j \in 1..m : j \in 1..Len(columns)
    BY <1>2, <1>8
  <2> QED BY <1>5, <1>9, <2>1, <2>2, <2>3
<1>11. Follows(context, s, e) /\ Follows(kv, s, e)
  <2>1. 0 \in 0..Len(head) /\ 0 \in 0..Len(columns) /\ e + 0 = e
    BY <1>1, <1>2, <1>5, <1>9
  <2>2. Succeed(head, s, e, 0) /\ Succeed(columns, s, e, 0)
    BY DEF Succeed
  <2>3. Follows(context, s, e + 0)
    BY <1>1, <1>4, <1>9, <2>1, <2>2, FollowsConcat, Zenon
  <2>4. Follows(kv, s, e + 0)
    BY <1>1, <1>4, <1>5, <2>1, <2>2, FollowsConcat, Zenon
  <2> QED BY <2>1, <2>3, <2>4
<1> HIDE DEF context, kv
<1>12. DeviceTyped(x)
  BY <1>3, <1>5, <1>7, <1>10 DEF DeviceTyped
<1>13. CheckpointHolds(s, x)
  BY <1>3, <1>7 DEF CheckpointHolds
<1>14. p.lifecycle = "Pending" /\ p.pending = w /\ p.prefill = q.prefill
  BY <1>1 DEF RequestRecords
<1>15. /\ w.kind = (IF Backend = "None" THEN "ordinary" ELSE "speculative")
       /\ w.tokens = round.tokens
  BY DEF w, RoundPending
<1> HIDE DEF p
<1>16. /\ t.execution_frontier = e /\ t.rope_delta = s.rope_delta
       /\ t.rewrite_checkpoint = s.rewrite_checkpoint
       /\ Backend = "None" =>
            /\ t.text_kv_valid = e + 1
            /\ t.ledger = s.ledger \o round.tokens
            /\ t.positions = Append(s.positions, Len(s.positions) + s.rope_delta)
       /\ Backend # "None" =>
            /\ t.text_kv_valid = e
            /\ t.ledger = s.ledger /\ t.positions = s.positions
  BY <1>1, <1>2, RoundRecord DEF t, e
<1>17. CASE Backend = "None"
  <2>1. m = 1
    <3>1. round.extent = 0 /\ m \in 1..(round.extent + 1)
      BY <1>2, <1>17, Zenon
    <3>2. m \in 1..(0 + 1)
      BY <3>1, Zenon
    <3> QED BY <3>2
  <2>2. \A i \in 1..(e + 1) : t.ledger[i] = s.ledger[i]
    <3>1. round.tokens \in Seq(Token)
      <4>1. Tokens \subseteq Token
        BY DEF Token
      <4> QED BY <1>2, <4>1, SeqMonotonic, Zenon
    <3>2. \A i \in 1..(Len(s.ledger) + Len(round.tokens)) :
            (s.ledger \o round.tokens)[i] = IF i <= Len(s.ledger) THEN s.ledger[i]
                                            ELSE round.tokens[i - Len(s.ledger)]
      BY <1>1, <3>1, ConcatProperties, Zenon
    <3> DEFINE c == s.ledger \o round.tokens
    <3>3. t.ledger = c
      BY <1>16, <1>17
    <3>4. \A i \in 1..(Len(s.ledger) + Len(round.tokens)) :
            c[i] = IF i <= Len(s.ledger) THEN s.ledger[i] ELSE round.tokens[i - Len(s.ledger)]
      BY <3>2
    <3> HIDE DEF c
    <3>5. Len(s.ledger) = e + 1 /\ Len(round.tokens) = m /\ m = 1
      BY <1>1, <2>1 DEF m
    <3>6. ASSUME NEW i \in 1..(e + 1)
          PROVE  c[i] = s.ledger[i]
      <4>1. i \in 1..(Len(s.ledger) + Len(round.tokens)) /\ i <= Len(s.ledger)
        BY <1>1, <3>5
      <4> QED BY <3>4, <4>1
    <3> QED BY <3>3, <3>6
  <2>3. /\ \A i \in 1..(e + 1) : t.positions[i] = s.positions[i]
        /\ Len(t.positions) = e + 2 /\ t.positions[e + 2] = e + 1 + s.rope_delta
    <3> DEFINE place == Len(s.positions) + s.rope_delta
    <3>1. place \in Int /\ place = e + 1 + s.rope_delta
      BY <1>1
    <3>2. t.positions = Append(s.positions, place)
      BY <1>16, <1>17
    <3> HIDE DEF place
    <3>3. /\ \A i \in 1..(e + 1) : Append(s.positions, place)[i] = s.positions[i]
          /\ Len(Append(s.positions, place)) = e + 2
          /\ Append(s.positions, place)[e + 2] = place
      BY <1>1, <3>1
    <3> QED BY <3>1, <3>2, <3>3
  <2>4. Continues(t, s, e + 1)
    BY <2>2, <2>3 DEF Continues
  <2>5. LastPosition(t)
    BY <1>1, <1>16, <2>3 DEF LastPosition
  <2>6. Exactly(context, t, e + 1)
    <3>1. Follows(context, t, e)
      <4>1. e + 1 \in Nat /\ e \in 0..(e + 1)
        BY <1>1
      <4> QED BY <1>11, <2>4, <4>1, FollowsContinues
    <3>2. context[e + 1] = <<t.ledger[e + 1], t.positions[e + 1]>>
      <4>1. context[e + 1] = RoundEntry(s, round.tokens, 1)
        BY <1>10, <2>1
      <4>2. RoundEntry(s, round.tokens, 1) = <<s.ledger[e + 1], e + 1 - 1 + s.rope_delta>>
        BY <1>1 DEF RoundEntry, e
      <4>3. s.positions[e + 1] = e + 1 - 1 + s.rope_delta
        BY <1>1, <1>3 DEF LastPosition
      <4>4. e + 1 \in 1..(e + 1)
        BY <1>1
      <4>5. t.ledger[e + 1] = s.ledger[e + 1] /\ t.positions[e + 1] = s.positions[e + 1]
        BY <2>2, <2>3, <4>4
      <4> QED BY <4>1, <4>2, <4>3, <4>5
    <3>3. \A i \in 1..(e + 1) : i = e + 1 \/ i \in 1..e
      BY <1>1
    <3>4. Len(context) = e + 1
      BY <1>1, <1>10, <2>1
    <3> QED BY <1>1, <1>10, <3>1, <3>2, <3>3, <3>4 DEF Exactly, Follows
  <2>7. columns = head
    <3>1. Len(columns) = m
      BY <1>2, <1>5, <1>17, <2>1
    <3> QED BY <1>5, <1>9, <3>1, SeqEqual
  <2>8. Resident(t, x) /\ Exactly(x.tail, t, t.text_kv_valid)
    <3>1. x.kv = context /\ x.tail = context /\ x.linear = context
      BY <1>7, <1>17, <2>7 DEF kv, context
    <3> QED BY <1>16, <1>17, <2>6, <3>1 DEF Resident, Exactly
  <2>9. CheckpointHolds(t, x)
    <3>1. t.rewrite_checkpoint.valid =>
            /\ s.rewrite_checkpoint.valid
            /\ t.rewrite_checkpoint.frontier = s.rewrite_checkpoint.frontier
            /\ s.rewrite_checkpoint.frontier \in 0..(e + 1)
      BY <1>1, <1>16
    <3> QED BY <1>1, <1>13, <2>4, <3>1, CheckpointContinues
  <2>10. w.kind = "ordinary"
    BY <1>15, <1>17
  <2>11. Holds(t, p, x)
    BY <1>12, <1>14, <2>5, <2>8, <2>9, <2>10 DEF Holds
  <2> QED BY <2>11 DEF t, p, w, x
<1>18. CASE Backend # "None"
  <2>1. Continues(t, s, e) /\ e \in 0..e
    BY <1>1, <1>16, <1>18 DEF Continues
  <2>2. Resident(t, x)
    <3>1. x.linear = d.linear /\ x.kv = kv
      BY <1>7, <1>18
    <3>2. Exactly(d.linear, t, e) /\ Follows(kv, t, e)
      BY <1>1, <1>4, <1>11, <2>1, ExactlyContinues, FollowsContinues
    <3> QED BY <1>16, <1>18, <3>1, <3>2 DEF Resident
  <2>3. CheckpointHolds(t, x)
    <3>1. t.rewrite_checkpoint.valid =>
            /\ s.rewrite_checkpoint.valid
            /\ t.rewrite_checkpoint.frontier = s.rewrite_checkpoint.frontier
            /\ s.rewrite_checkpoint.frontier \in 0..e
      BY <1>1, <1>16
    <3> QED BY <1>1, <1>13, <2>1, <3>1, CheckpointContinues
  <2>4. LastPosition(t)
    BY <1>3, <1>16, <1>18 DEF LastPosition
  <2>5. RoundHolds(t, round.tokens, x)
    <3>1. x.round = columns /\ x.kv = kv /\ x.tail = context
      BY <1>7, <1>18
    <3>2. \A j : RoundEntry(t, round.tokens, j) = RoundEntry(s, round.tokens, j)
      BY <1>16, <1>18 DEF RoundEntry, e
    <3>3. Follows(context, t, e)
      BY <1>1, <1>11, <2>1, FollowsContinues
    <3>4. Len(columns) >= m /\ Len(kv) >= e + m /\ Len(context) = e + m
      BY <1>1, <1>2, <1>5, <1>8, <1>10
    <3> QED BY <1>5, <1>10, <1>16, <3>1, <3>2, <3>3, <3>4 DEF RoundHolds, m
  <2>6. w.kind = "speculative"
    BY <1>15, <1>18
  <2>7. Holds(t, p, x)
    BY <1>12, <1>14, <1>15, <2>2, <2>3, <2>4, <2>5, <2>6 DEF Holds
  <2> QED BY <2>7 DEF t, p, w, x
<1> QED BY <1>17, <1>18

-----------------------------------------------------------------------------
(* A resolved round.                                                       *)

(* A record extended by the first k of a round's tokens.                   *)
ExtendedBy(x, s, tokens, k) ==
    /\ x.rope_delta = s.rope_delta
    /\ x.ledger = s.ledger \o SubSeq(tokens, 1, k)
    /\ x.positions = s.positions \o [i \in 1..k |-> Len(s.positions) + i - 1 + s.rope_delta]

(* The record behind the kept tokens, before its bundle is trimmed.        *)
LEMMA ExtendedRecord ==
  ASSUME NEW s \in SequenceRecords, NEW w, NEW verdict, NEW x, x = Extended(s, w, verdict)
  PROVE  /\ x.rope_delta = s.rope_delta /\ x.rewrite_checkpoint = s.rewrite_checkpoint
         /\ w.kind # "speculative" =>
              /\ x.ledger = s.ledger /\ x.positions = s.positions
              /\ x.text_kv_valid = s.text_kv_valid
         /\ w.kind = "speculative" =>
              /\ ExtendedBy(x, s, w.tokens, verdict.kept)
              /\ x.text_kv_valid = w.base_E + verdict.kept
<1> DEFINE m == CommittedFrontiers(s, w, verdict)
           k == verdict.kept
           ledger == s.ledger \o SubSeq(w.tokens, 1, k)
           positions == s.positions \o [i \in 1..k |-> Len(s.positions) + i - 1 + s.rope_delta]
<1>1. /\ m.ledger = s.ledger /\ m.positions = s.positions /\ m.rope_delta = s.rope_delta
      /\ m.text_kv_valid = s.text_kv_valid /\ m.rewrite_checkpoint = s.rewrite_checkpoint
      /\ DOMAIN m = DOMAIN s
      /\ w.kind = "speculative" => m.execution_frontier = w.base_E + k
  <2> DEFINE a == IF w.kind = "begin" THEN w.prompt_tokens ELSE w.base_E + k
             b == IF w.kind = "begin" THEN w.prompt_tokens + 1 ELSE w.base_S + k
  <2>1. m = [s EXCEPT !.execution_frontier = a, !.ledger_frontier = b]
    BY DEF CommittedFrontiers
  <2>2. w.kind = "speculative" => a = w.base_E + k
    OBVIOUS
  <2> HIDE DEF m, a, b
  <2> QED BY <2>1, <2>2 DEF SequenceRecords
<1>2. CASE w.kind # "speculative"
  <2>1. x = m
    BY <1>2 DEF Extended
  <2> QED BY <1>1, <1>2, <2>1
<1>3. CASE w.kind = "speculative"
  <2> DEFINE mtp == IF Backend = "Mtp" THEN m.execution_frontier ELSE m.mtp_kv_valid
             count == IF Backend = "Mtp" /\ ~ verdict.terminal THEN w.next ELSE m.mtp_draft_count
             draft == IF Backend = "DFlash" /\ verdict.terminal THEN m.execution_frontier
                                                                ELSE m.dflash_context_frontier
  <2>1. x = CommittedSpeculation(m, w, verdict)
    BY <1>3 DEF Extended
  <2> HIDE DEF m
  <2>2. x = [m EXCEPT !.ledger = @ \o SubSeq(w.tokens, 1, k),
                      !.positions = @ \o [i \in 1..k |-> Len(@) + i - 1 + m.rope_delta],
                      !.text_kv_valid = m.execution_frontier,
                      !.tail_hidden_valid = TRUE,
                      !.mtp_kv_valid = IF Backend = "Mtp" THEN m.execution_frontier ELSE @,
                      !.mtp_draft_count = IF Backend = "Mtp" /\ ~ verdict.terminal
                                            THEN w.next ELSE @,
                      !.dflash_context_frontier = IF Backend = "DFlash" /\ verdict.terminal
                                                    THEN m.execution_frontier ELSE @]
    BY <2>1 DEF CommittedSpeculation
  <2>3. x = [m EXCEPT !.ledger = ledger, !.positions = positions,
                      !.text_kv_valid = m.execution_frontier,
                      !.tail_hidden_valid = TRUE, !.mtp_kv_valid = mtp,
                      !.mtp_draft_count = count, !.dflash_context_frontier = draft]
    BY <1>1, <2>2
  <2> HIDE DEF ledger, positions, mtp, count, draft
  <2>4. /\ x.rope_delta = s.rope_delta /\ x.rewrite_checkpoint = s.rewrite_checkpoint
        /\ x.ledger = ledger /\ x.positions = positions /\ x.text_kv_valid = w.base_E + k
    BY <1>1, <1>3, <2>3 DEF SequenceRecords
  <2> QED BY <1>3, <2>4 DEF ledger, positions, ExtendedBy
<1> QED BY <1>2, <1>3

(* Trimming and retaining the lane leaves what the record says of columns. *)
LEMMA ResolvedRecord ==
  ASSUME NEW s, NEW w, NEW verdict, NEW x, x = Extended(s, w, verdict), x \in SequenceRecords,
         NEW t, t = ResolvedSequence(s, w, verdict)
  PROVE  /\ t.ledger = x.ledger /\ t.positions = x.positions /\ t.rope_delta = x.rope_delta
         /\ t.text_kv_valid = x.text_kv_valid /\ t.rewrite_checkpoint = x.rewrite_checkpoint
<1> DEFINE grown == IF Backend = "DFlash" /\ verdict.terminal /\ w.kind = "speculative"
                      THEN Materialize(x.kv, x.execution_frontier, x.execution_frontier) ELSE x.kv
           kv == Trim(grown, x.text_kv_valid, BackendValid(x))
           trimmed == [x EXCEPT !.kv = kv]
<1>1. t = IF verdict.terminal THEN RetainedSequence(trimmed) ELSE trimmed
  BY DEF ResolvedSequence, Extended
<1> HIDE DEF kv
<1>2. /\ trimmed.ledger = x.ledger /\ trimmed.positions = x.positions
      /\ trimmed.rope_delta = x.rope_delta /\ trimmed.text_kv_valid = x.text_kv_valid
      /\ trimmed.rewrite_checkpoint = x.rewrite_checkpoint /\ DOMAIN trimmed = DOMAIN x
  BY DEF SequenceRecords
<1> HIDE DEF trimmed
<1>3. CASE verdict.terminal
  <2> DEFINE released == ReleaseGrowth(trimmed.kv)
  <2>1. t = [trimmed EXCEPT !.mtp_draft_count = 0, !.kv = ReleaseGrowth(@), !.retained = TRUE]
    BY <1>1, <1>3 DEF RetainedSequence
  <2>2. t = [trimmed EXCEPT !.mtp_draft_count = 0, !.kv = released, !.retained = TRUE]
    BY <2>1
  <2> HIDE DEF released
  <2> QED BY <1>2, <2>2 DEF SequenceRecords
<1>4. CASE ~ verdict.terminal
  BY <1>1, <1>2, <1>4
<1> QED BY <1>3, <1>4

(* Columns n + 1, ..., n + k of a state are those of the ledger.           *)
Onward(v, s, n, k) == \A j \in 1..k : v[n + j] = <<s.ledger[n + j], s.positions[n + j]>>

(* A state that follows the ledger further.                                *)
LEMMA FollowsOnward ==
  ASSUME NEW v, NEW s, NEW n \in Nat, NEW k \in Nat, Follows(v, s, n), Len(v) >= n + k,
         Onward(v, s, n, k)
  PROVE  Follows(v, s, n + k)
<1>1. ASSUME NEW i \in 1..(n + k)
      PROVE  v[i] = <<s.ledger[i], s.positions[i]>>
  <2>1. CASE i \in 1..n
    BY <2>1 DEF Follows
  <2>2. CASE i \notin 1..n
    <3>1. i - n \in 1..k /\ n + (i - n) = i
      BY <2>2
    <3>2. v[n + (i - n)] = <<s.ledger[n + (i - n)], s.positions[n + (i - n)]>>
      BY <3>1 DEF Onward
    <3> QED BY <3>1, <3>2
  <2> QED BY <2>1, <2>2
<1> QED BY <1>1 DEF Follows

(* The tokens of a round become columns of the ledger, its first one the   *)
(* anchor's; the new last token is the next anchor.                        *)
LEMMA ExtendedColumns ==
  ASSUME NEW s \in SequenceRecords, NEW e \in Nat, e = s.execution_frontier,
         Len(s.ledger) = e + 1, Len(s.positions) = e + 1, LastPosition(s),
         NEW tokens \in Seq(Tokens), NEW k \in 1..Len(tokens),
         NEW x, ExtendedBy(x, s, tokens, k)
  PROVE  /\ Continues(x, s, e + 1)
         /\ \A j \in 1..k : RoundEntry(s, tokens, j) = <<x.ledger[e + j], x.positions[e + j]>>
         /\ LastPosition(x)
<1> DEFINE cut == SubSeq(tokens, 1, k)
           added == [i \in 1..k |-> Len(s.positions) + i - 1 + s.rope_delta]
<1>1. /\ s.ledger \in Seq(Token) /\ s.positions \in Seq(Int) /\ s.rope_delta \in Int
      /\ k \in Nat /\ k > 0 /\ Len(tokens) \in Nat
  BY DEF SequenceRecords
<1>2. cut \in Seq(Token) /\ Len(cut) = k /\ \A i \in 1..k : cut[i] = tokens[i]
  <2>1. Tokens \subseteq Token
    BY DEF Token
  <2>2. tokens \in Seq(Token)
    BY <2>1, SeqMonotonic, Zenon
  <2> QED BY <1>1, <2>2
<1>3. /\ added \in Seq(Int) /\ Len(added) = k
      /\ \A i \in 1..k : added[i] = e + i + s.rope_delta
  <2>1. \A i \in 1..k : Len(s.positions) + i - 1 + s.rope_delta \in Int
    BY <1>1
  <2>2. added \in Seq(Int) /\ Len(added) = k
    BY <1>1, <2>1
  <2>3. \A i \in 1..k : added[i] = Len(s.positions) + i - 1 + s.rope_delta
    OBVIOUS
  <2> HIDE DEF added
  <2>4. ASSUME NEW i \in 1..k
        PROVE  added[i] = e + i + s.rope_delta
    <3>1. added[i] = (e + 1) + i - 1 + s.rope_delta
      BY <2>3, Zenon
    <3>2. \A d \in Int : (e + 1) + i - 1 + d = e + i + d
      OBVIOUS
    <3> QED BY <1>1, <3>1, <3>2, Zenon
  <2> QED BY <2>2, <2>4
<1>4. /\ x.ledger = s.ledger \o cut /\ x.positions = s.positions \o added
      /\ x.rope_delta = s.rope_delta
  BY DEF ExtendedBy
<1> HIDE DEF cut, added
<1>5. \A i \in 1..(Len(s.ledger) + Len(cut)) :
        (s.ledger \o cut)[i] = IF i <= Len(s.ledger) THEN s.ledger[i] ELSE cut[i - Len(s.ledger)]
  BY <1>1, <1>2, ConcatProperties, Zenon
<1>6. /\ Len(s.positions \o added) = Len(s.positions) + Len(added)
      /\ \A i \in 1..(Len(s.positions) + Len(added)) :
           (s.positions \o added)[i] = IF i <= Len(s.positions) THEN s.positions[i]
                                       ELSE added[i - Len(s.positions)]
  BY <1>1, <1>3, ConcatProperties, Zenon
<1> DEFINE a == s.ledger \o cut
           b == s.positions \o added
<1> HIDE DEF a, b
<1>7. /\ x.ledger = a /\ x.positions = b /\ Len(b) = e + 1 + k
      /\ \A i \in 1..(e + 1 + k) : a[i] = IF i <= e + 1 THEN s.ledger[i] ELSE cut[i - (e + 1)]
      /\ \A i \in 1..(e + 1 + k) : b[i] = IF i <= e + 1 THEN s.positions[i]
                                                        ELSE added[i - (e + 1)]
  BY <1>2, <1>3, <1>4, <1>5, <1>6 DEF a, b
<1>8. ASSUME NEW i \in 1..(e + 1)
      PROVE  a[i] = s.ledger[i] /\ b[i] = s.positions[i]
  <2>1. i \in 1..(e + 1 + k) /\ i <= e + 1
    BY <1>1
  <2> QED BY <1>7, <2>1
<1>9. ASSUME NEW j \in 1..k
      PROVE  a[e + 1 + j] = tokens[j] /\ b[e + 1 + j] = e + j + s.rope_delta
  <2>1. e + 1 + j \in 1..(e + 1 + k) /\ ~ (e + 1 + j <= e + 1) /\ (e + 1 + j) - (e + 1) = j
    <3>1. j \in Nat /\ j >= 1 /\ j <= k /\ k \in Nat
      BY <1>1
    <3>2. e + 1 + j \in 1..(e + 1 + k) /\ ~ (e + 1 + j <= e + 1)
      BY <3>1
    <3>3. (e + 1 + j) - (e + 1) = j
      BY <3>1
    <3> QED BY <3>2, <3>3
  <2>2. a[e + 1 + j] = cut[j] /\ b[e + 1 + j] = added[j]
    BY <1>7, <2>1
  <2> QED BY <1>2, <1>3, <2>2
<1>10. Continues(x, s, e + 1)
  BY <1>7, <1>8 DEF Continues
<1>11. ASSUME NEW j \in 1..k
       PROVE  RoundEntry(s, tokens, j) = <<x.ledger[e + j], x.positions[e + j]>>
  <2>1. CASE j = 1
    <3>1. RoundEntry(s, tokens, j) = <<s.ledger[e + 1], e + 1 - 1 + s.rope_delta>>
      BY <2>1 DEF RoundEntry
    <3>2. s.positions[e + 1] = e + 1 - 1 + s.rope_delta
      BY DEF LastPosition
    <3>3. e + 1 \in 1..(e + 1)
      OBVIOUS
    <3> QED BY <1>7, <1>8, <2>1, <3>1, <3>2, <3>3
  <2>2. CASE j # 1
    <3>1. RoundEntry(s, tokens, j) = <<tokens[j - 1], e + j - 1 + s.rope_delta>>
      BY <2>2 DEF RoundEntry
    <3>2. j - 1 \in 1..k /\ e + 1 + (j - 1) = e + j /\ e + (j - 1) + s.rope_delta = e + j - 1 + s.rope_delta
      BY <1>1, <2>2
    <3>3. a[e + 1 + (j - 1)] = tokens[j - 1] /\ b[e + 1 + (j - 1)] = e + (j - 1) + s.rope_delta
      BY <1>9, <3>2
    <3> QED BY <1>7, <3>1, <3>2, <3>3
  <2> QED BY <2>1, <2>2
<1>12. LastPosition(x)
  <2>1. k \in 1..k /\ Len(b) = e + 1 + k /\ e + k + s.rope_delta = (e + 1 + k) - 1 + s.rope_delta
    BY <1>1, <1>7
  <2>2. b[e + 1 + k] = e + k + s.rope_delta
    BY <1>9, <2>1
  <2> QED BY <1>4, <1>7, <2>1, <2>2 DEF LastPosition
<1> QED BY <1>10, <1>11, <1>12

(* The fields a resolution writes, besides those of the backend.           *)
ResolvedWrote(x, d, w, verdict) ==
    LET kept == SubSeq(d.round, 1, verdict.kept)
    IN  /\ DOMAIN x = DeviceFields
        /\ x.kv = d.kv /\ x.round = d.round
        /\ x.linearCheckpoint = d.linearCheckpoint /\ x.hiddenCheckpoint = d.hiddenCheckpoint
        /\ x.linear = d.linear \o kept
        /\ x.tail = IF verdict.terminal /\ verdict.kept < Len(w.tokens)
                      THEN Context(d.linear, w.base_E) \o kept ELSE d.tail

(* ResolvedDevice writes them, if the round was speculative.               *)
LEMMA ResolvedFields ==
  ASSUME NEW d, DOMAIN d = DeviceFields, NEW w, NEW verdict, w.kind = "speculative"
  PROVE  ResolvedWrote(ResolvedDevice(d, w, verdict), d, w, verdict)
<1> DEFINE x == ResolvedDevice(d, w, verdict)
           kept == SubSeq(d.round, 1, verdict.kept)
           linear == d.linear \o kept
           tail == IF verdict.terminal /\ verdict.kept < Len(w.tokens)
                     THEN Context(d.linear, w.base_E) \o kept ELSE d.tail
           draft == IF Backend = "DFlash" /\ verdict.terminal
                      THEN DraftAppend(d.draft, w.base_E, kept) ELSE d.draft
<1>1. x = [d EXCEPT !.linear = linear, !.tail = tail, !.draft = draft]
  BY DEF ResolvedDevice
<1> HIDE DEF x, linear, tail, draft
<1>2. /\ DOMAIN x = DeviceFields
      /\ x.kv = d.kv /\ x.round = d.round
      /\ x.linearCheckpoint = d.linearCheckpoint /\ x.hiddenCheckpoint = d.hiddenCheckpoint
      /\ x.linear = linear /\ x.tail = tail
  BY <1>1 DEF DeviceFields
<1> QED BY <1>2 DEF ResolvedWrote, x, linear, tail

(* The state of a resolved lane is that of the tokens it kept, even if     *)
(* they are only a prefix of the round.                                    *)
LEMMA ResolvedHolds ==
  ASSUME options \in Setups, NEW s, NEW q, LaneOK(options, s, q), q.pending.kind # "none",
         NEW verdict, VerdictFits(verdict, q.pending.tokens, q.remaining),
         NEW d, Holds(s, q, d),
         NEW t, t = ResolvedSequence(s, q.pending, verdict),
         NEW p, p = ResolvedRequest(q, verdict),
         NEW y, y = ResolvedDevice(d, q.pending, verdict)
  PROVE  Holds(t, p, y)
<1> DEFINE w == q.pending
           x == Extended(s, w, verdict)
           k == verdict.kept
           e == s.execution_frontier
<1>1. /\ w.kind \in {"begin", "ordinary", "speculative"} /\ q.lifecycle = "Pending"
      /\ s \in SequenceRecords /\ q \in RequestRecords
      /\ s.rewrite_checkpoint.frontier \in Nat /\ e \in Nat /\ s.text_kv_valid \in Nat
      /\ s.rewrite_checkpoint.valid => s.rewrite_checkpoint.frontier <= s.text_kv_valid
      /\ w.tokens \in Seq(Tokens) /\ q.remaining \in Nat
  BY DEF LaneOK, RequestRecords, PendingRecords, SequenceRecords, CheckpointRecords
<1>2. x \in SequenceRecords
  BY <1>1, BeginCommitted, OrdinaryCommitted, SpeculationCommitted DEF Committed
<1>3. /\ t.ledger = x.ledger /\ t.positions = x.positions /\ t.rope_delta = x.rope_delta
      /\ t.text_kv_valid = x.text_kv_valid /\ t.rewrite_checkpoint = x.rewrite_checkpoint
  BY <1>2, ResolvedRecord
<1>4. /\ x.rope_delta = s.rope_delta /\ x.rewrite_checkpoint = s.rewrite_checkpoint
      /\ w.kind # "speculative" =>
           /\ x.ledger = s.ledger /\ x.positions = s.positions
           /\ x.text_kv_valid = s.text_kv_valid
      /\ w.kind = "speculative" =>
           ExtendedBy(x, s, w.tokens, k) /\ x.text_kv_valid = w.base_E + k
  BY <1>1, ExtendedRecord
<1> HIDE DEF x
<1>5. /\ k \in 1..Len(w.tokens) /\ k \in Nat /\ k > 0 /\ Len(w.tokens) \in Nat
      /\ verdict.terminal \in BOOLEAN
      /\ ~ verdict.terminal => k = Len(w.tokens) /\ k < q.remaining
  BY <1>1 DEF VerdictFits
<1>6. /\ p.pending.kind = "none" /\ p.lifecycle \in {"Active", "Complete"}
  <2>1. ~ verdict.terminal => q.remaining - k \in Nat
    BY <1>1, <1>5
  <2> QED BY <1>1, <1>5, <2>1, RequestSettles
<1>7. DeviceTyped(d) /\ CheckpointHolds(s, d) /\ Resident(s, d) /\ LastPosition(s)
  BY <1>1 DEF Holds
<1>8. CASE w.kind # "speculative"
  <2>1. y = d
    BY <1>8 DEF ResolvedDevice
  <2>2. Exactly(d.tail, s, s.text_kv_valid)
    BY <1>1, <1>8 DEF Holds
  <2>3. /\ t.ledger = s.ledger /\ t.positions = s.positions /\ t.rope_delta = s.rope_delta
        /\ t.text_kv_valid = s.text_kv_valid /\ t.rewrite_checkpoint = s.rewrite_checkpoint
    BY <1>3, <1>4, <1>8
  <2>4. Resident(t, d) /\ Exactly(d.tail, t, t.text_kv_valid)
    BY <1>7, <2>2, <2>3 DEF Resident, Exactly, Follows
  <2>5. CheckpointHolds(t, d)
    BY <1>7, <2>3 DEF CheckpointHolds, Exactly, Follows
  <2>6. LastPosition(t)
    BY <1>7, <2>3 DEF LastPosition
  <2> QED BY <1>6, <1>7, <2>1, <2>4, <2>5, <2>6 DEF Holds
<1>9. CASE w.kind = "speculative"
  <2> DEFINE kept == SubSeq(d.round, 1, k)
             m == Len(w.tokens)
             u == d.linear \o kept
  <2>1. /\ w.base_E = e /\ Len(s.ledger) = e + 1 /\ Len(s.positions) = e + 1
        /\ s.text_kv_valid = e
    <3>1. SpeculativeRound(options, s, w, q.remaining) /\ Len(s.ledger) = Len(s.positions)
      BY <1>9 DEF LaneOK
    <3> QED BY <3>1 DEF SpeculativeRound, Decoding, Settled
  <2>2. RoundHolds(s, w.tokens, d)
    BY <1>9 DEF Holds
  <2>3. ExtendedBy(t, s, w.tokens, k)
    BY <1>3, <1>4, <1>9 DEF ExtendedBy
  <2>4. t.text_kv_valid = e + k /\ t.rewrite_checkpoint = s.rewrite_checkpoint
    BY <1>3, <1>4, <1>9, <2>1
  <2> HIDE DEF e, k
  <2>5. /\ Continues(t, s, e + 1) /\ LastPosition(t)
        /\ \A j \in 1..k : RoundEntry(s, w.tokens, j) = <<t.ledger[e + j], t.positions[e + j]>>
    <3>1. e = s.execution_frontier
      BY DEF e
    <3> QED BY <1>1, <1>5, <1>7, <2>1, <2>3, <3>1, ExtendedColumns
  <2>6. /\ Len(d.round) >= m /\ Len(d.kv) >= e + m /\ Len(d.tail) = e + m
        /\ \A j \in 1..m : /\ d.round[j] = RoundEntry(s, w.tokens, j)
                           /\ d.kv[e + j] = RoundEntry(s, w.tokens, j)
                           /\ d.tail[e + j] = RoundEntry(s, w.tokens, j)
        /\ Follows(d.tail, s, e)
    BY <2>2 DEF RoundHolds, e
  <2>7. /\ Succeed(d.round, t, e, k) /\ Onward(d.kv, t, e, k) /\ Onward(d.tail, t, e, k)
    <3>1. \A j \in 1..k : j \in 1..m
      BY <1>5
    <3> QED BY <2>5, <2>6, <3>1 DEF Succeed, Onward
  <2>8. /\ Exactly(d.linear, t, e) /\ Follows(d.kv, t, e) /\ Follows(d.tail, t, e)
    <3>1. Exactly(d.linear, s, e) /\ Follows(d.kv, s, e)
      BY <1>7, <2>1 DEF Resident
    <3>2. e + 1 \in Nat /\ e \in 0..(e + 1)
      BY <1>1
    <3> QED BY <2>5, <2>6, <3>1, <3>2, ExactlyContinues, FollowsContinues
  <2>9. /\ d.round \in Seq(Entry) /\ d.linear \in Seq(Entry) /\ k \in 0..Len(d.round)
    <3>1. d.round \in Seq(Entry) /\ d.linear \in Seq(Entry)
      BY <1>7 DEF DeviceTyped
    <3>2. Len(d.round) \in Nat
      BY <3>1
    <3> QED BY <1>5, <2>6, <3>1, <3>2
  <2>10. /\ kept \in Seq(Entry) /\ Len(kept) = k /\ Succeed(kept, t, e, k)
    <3>1. kept \in Seq(Entry) /\ Len(kept) = k /\ \A i \in 1..k : kept[i] = d.round[i]
      BY <2>9, RowPrefix
    <3> HIDE DEF kept
    <3> QED BY <2>7, <3>1 DEF Succeed
  <2> HIDE DEF kept
  <2>11. Exactly(u, t, e + k)
    <3>1. k \in 0..Len(kept)
      BY <1>5, <2>10
    <3>2. Follows(u, t, e + k) /\ Len(u) = e + Len(kept)
      BY <1>1, <2>8, <2>10, <3>1, FollowsConcat, Zenon
    <3> HIDE DEF u
    <3> QED BY <2>10, <3>2 DEF Exactly
  <2>12. Follows(d.kv, t, e + k)
    <3>1. Len(d.kv) >= e + k
      <4>1. Len(d.kv) \in Nat
        BY <1>7 DEF DeviceTyped
      <4> QED BY <1>1, <1>5, <2>6, <4>1
    <3> QED BY <1>1, <1>5, <2>7, <2>8, <3>1, FollowsOnward
  <2>13. k = m => Exactly(d.tail, t, e + k)
    <3> SUFFICES ASSUME k = m PROVE Exactly(d.tail, t, e + k)
      OBVIOUS
    <3>1. Len(d.tail) = e + k /\ e + k \in Int
      BY <1>1, <1>5, <2>6
    <3>2. Follows(d.tail, t, e + k)
      BY <1>1, <1>5, <2>7, <2>8, <3>1, FollowsOnward
    <3> QED BY <3>1, <3>2 DEF Exactly
  <2>14. /\ DOMAIN y = DeviceFields
         /\ y.kv = d.kv /\ y.round = d.round
         /\ y.linearCheckpoint = d.linearCheckpoint /\ y.hiddenCheckpoint = d.hiddenCheckpoint
         /\ y.linear = u
         /\ y.tail = IF verdict.terminal /\ k < m THEN u ELSE d.tail
    <3>1. ResolvedWrote(y, d, w, verdict)
      BY <1>7, <1>9, ResolvedFields DEF DeviceTyped
    <3>2. Context(d.linear, w.base_E) = d.linear
      <4>1. Len(d.linear) = e
        BY <2>8 DEF Exactly
      <4> QED BY <2>1, <4>1 DEF Context
    <3> QED BY <3>1, <3>2 DEF ResolvedWrote, kept, k
  <2> HIDE DEF u
  <2>15. Exactly(y.tail, t, e + k)
    <3>1. CASE verdict.terminal /\ k < m
      BY <2>11, <2>14, <3>1
    <3>2. CASE ~ (verdict.terminal /\ k < m)
      <4>1. k = m
        <5>1. k <= m
          BY <1>5
        <5> QED BY <1>5, <3>2, <5>1 DEF k
      <4> QED BY <2>13, <2>14, <3>2, <4>1
    <3> QED BY <3>1, <3>2
  <2>16. DeviceTyped(y)
    <3>1. y.tail \in Seq(Entry) /\ y.linear \in Seq(Entry)
      BY <2>11, <2>14, <2>15 DEF Exactly, Follows
    <3> QED BY <1>7, <2>14, <3>1 DEF DeviceTyped
  <2>17. CheckpointHolds(t, y)
    <3>1. CheckpointHolds(s, y)
      BY <1>7, <2>14 DEF CheckpointHolds
    <3>2. t.rewrite_checkpoint.valid =>
            /\ s.rewrite_checkpoint.valid
            /\ t.rewrite_checkpoint.frontier = s.rewrite_checkpoint.frontier
            /\ s.rewrite_checkpoint.frontier \in 0..(e + 1)
      BY <1>1, <2>1, <2>4
    <3>3. e + 1 \in Nat
      BY <1>1
    <3> QED BY <2>5, <3>1, <3>2, <3>3, CheckpointContinues
  <2>18. Resident(t, y)
    BY <2>4, <2>11, <2>12, <2>14 DEF Resident
  <2>19. Exactly(y.tail, t, t.text_kv_valid)
    BY <2>4, <2>15
  <2> QED BY <1>6, <2>5, <2>16, <2>17, <2>18, <2>19 DEF Holds
<1> QED BY <1>8, <1>9

-----------------------------------------------------------------------------
(* The specification, with the device.                                     *)

(* A cleared lane promises nothing about its device state.                 *)
LEMMA ClearedHolds ==
  ASSUME NEW delta, NEW d, DeviceTyped(d)
  PROVE  Holds([ClearedSequence EXCEPT !.rope_delta = delta], ClearedRequest, d)
<1> DEFINE c == ClearedSequence
           s == [c EXCEPT !.rope_delta = delta]
<1> HIDE DEF c
<1>1. c \in SequenceRecords /\ ~ c.rewrite_checkpoint.valid
  BY ClearedRecords DEF c
<1>2. s.rewrite_checkpoint = c.rewrite_checkpoint
  BY <1>1 DEF SequenceRecords
<1> HIDE DEF s
<1>3. CheckpointHolds(s, d)
  BY <1>1, <1>2 DEF CheckpointHolds
<1>4. Holds(s, ClearedRequest, d)
  BY <1>3, ClearedRecords DEF Holds
<1> QED BY <1>4 DEF s, c

(* Nor does one at the start.                                              *)
LEMMA InitContent == Init => ContentInv
<1> SUFFICES ASSUME Init PROVE ContentInv
  OBVIOUS
<1> DEFINE d == [linear |-> << >>, kv |-> << >>, tail |-> << >>,
                 mtp |-> << >>, draft |-> << >>, round |-> << >>,
                 linearCheckpoint |-> << >>, hiddenCheckpoint |-> << >>,
                 draftCheckpoint |-> << >>]
<1>1. /\ sequence = [l \in Lanes |-> ClearedSequence] /\ request = [l \in Lanes |-> ClearedRequest]
      /\ device = [l \in Lanes |-> d]
  BY DEF Init
<1>2. DeviceTyped(d)
  <2>1. << >> \in Seq(Entry)
    OBVIOUS
  <2> QED BY <2>1 DEF DeviceTyped, DeviceFields
<1> HIDE DEF d
<1>3. ClearedSequence = [ClearedSequence EXCEPT !.rope_delta = 0]
  <2>1. ClearedSequence \in SequenceRecords /\ ClearedSequence.rope_delta = 0
    BY ClearedRecords
  <2> QED BY <2>1 DEF SequenceRecords
<1>4. Holds(ClearedSequence, ClearedRequest, d)
  BY <1>2, <1>3, ClearedHolds, Zenon
<1>5. \A l \in Lanes : Holds(sequence[l], request[l], device[l])
  BY <1>1, <1>4
<1>6. device = [l \in Lanes |-> device[l]]
  BY <1>1
<1> QED BY <1>5, <1>6, InitLanes DEF ContentInv

(* What a step has to establish, lane by lane.                             *)
LEMMA ContentStep ==
  ASSUME LanesInv', device' = [l \in Lanes |-> device'[l]],
         \A l \in Lanes : Holds(sequence'[l], request'[l], device'[l])
  PROVE  ContentInv'
BY DEF ContentInv

(* Clearing some lanes.                                                    *)
LEMMA ClearingContent ==
  ASSUME ContentInv, LanesInv', UNCHANGED device, NEW lanes, ClearLanes(lanes)
  PROVE  ContentInv'
<1>1. /\ sequence' = [l \in Lanes |-> IF l \in lanes
                                        THEN [ClearedSequence EXCEPT !.rope_delta =
                                                sequence[l].rope_delta]
                                        ELSE sequence[l]]
      /\ request' = [l \in Lanes |-> IF l \in lanes THEN ClearedRequest ELSE request[l]]
  BY DEF ClearLanes
<1>2. ASSUME NEW l \in Lanes
      PROVE  Holds(sequence'[l], request'[l], device'[l])
  <2>1. Holds(sequence[l], request[l], device[l]) /\ device'[l] = device[l]
    BY DEF ContentInv
  <2>2. CASE l \in lanes
    <3>1. /\ sequence'[l] = [ClearedSequence EXCEPT !.rope_delta = sequence[l].rope_delta]
          /\ request'[l] = ClearedRequest
      BY <1>1, <2>2, Zenon
    <3>2. DeviceTyped(device[l])
      BY <2>1 DEF Holds
    <3>3. Holds([ClearedSequence EXCEPT !.rope_delta = sequence[l].rope_delta], ClearedRequest,
                device[l])
      BY <3>2, ClearedHolds, Zenon
    <3> QED BY <2>1, <3>1, <3>3, Zenon
  <2>3. CASE l \notin lanes
    <3>1. sequence'[l] = sequence[l] /\ request'[l] = request[l]
      BY <1>1, <2>3, Zenon
    <3> QED BY <2>1, <3>1, Zenon
  <2> QED BY <2>2, <2>3
<1>3. device' = [l \in Lanes |-> device'[l]]
  BY DEF ContentInv
<1> QED BY <1>2, <1>3, ContentStep

(* The feature sink writes the draft model's caches only, whatever lane    *)
(* the ingress frame names.                                                *)
LEMMA FeedDraftFields ==
  ASSUME NEW devices, devices = [l \in Lanes |-> devices[l]],
         \A l \in Lanes : DOMAIN devices[l] = DeviceFields,
         NEW row \in Lanes, NEW st, NEW columns,
         NEW fed, fed = FeedDraft(devices, row, st, columns)
  PROVE  fed = [l \in Lanes |-> fed[l]] /\ \A l \in Lanes : SameContent(devices[l], fed[l])
<1> DEFINE draft == DraftAppend(devices[row].draft, st.cursor, columns)
           copy == IF ChunkEnd(st) = st.capture THEN draft ELSE devices[row].draftCheckpoint
           one == [devices[row] EXCEPT !.draft = draft, !.draftCheckpoint = copy]
<1>1. DOMAIN devices = Lanes
  OBVIOUS
<1>2. fed = [devices EXCEPT ![row].draft = draft,
                            ![row].draftCheckpoint =
                               IF ChunkEnd(st) = st.capture THEN draft ELSE @]
  BY DEF FeedDraft
<1> HIDE DEF draft
<1>3. fed = [devices EXCEPT ![row] = one]
  BY <1>1, <1>2 DEF DeviceFields
<1>4. SameContent(devices[row], one)
  <2>1. DOMAIN devices[row] = DeviceFields
    OBVIOUS
  <2> HIDE DEF copy
  <2> QED BY <2>1 DEF SameContent, DeviceFields
<1> HIDE DEF one
<1>5. fed = [l \in Lanes |-> fed[l]]
  BY <1>1, <1>3
<1>6. ASSUME NEW l \in Lanes
      PROVE  SameContent(devices[l], fed[l])
  <2>1. CASE l = row
    BY <1>1, <1>3, <1>4, <2>1
  <2>2. CASE l # row
    <3>1. fed[l] = devices[l]
      BY <1>1, <1>3, <2>2
    <3> QED BY <3>1 DEF SameContent
  <2> QED BY <2>1, <2>2
<1> QED BY <1>5, <1>6

(* A step of a staged prefill.                                             *)
LEMMA AdvancePrefillContent ==
  ASSUME ContentInv, LanesInv', NEW l \in Lanes, NEW s \in SequenceRecords,
         NEW st \in PrefillRecords, NEW d, NEW row \in Lanes, NEW remaining \in Nat,
         s.rewrite_checkpoint.valid => s.rewrite_checkpoint.frontier <= s.text_kv_valid,
         Staged(options, s, st, remaining),
         DeviceTyped(d), CheckpointHolds(s, d), Resident(s, d), StagedHolds(s, st, d),
         AdvancePrefill(l, s, st, d, row, remaining)
  PROVE  ContentInv'
<1>1. /\ sequence \in [Lanes -> SequenceRecords] /\ request \in [Lanes -> RequestRecords]
      /\ device = [k \in Lanes |-> device[k]]
      /\ \A k \in Lanes : Holds(sequence[k], request[k], device[k])
  BY DEF ContentInv, LanesInv
<1>2. (st.cursor = Len(st.prompt) => s.tail_hidden_valid) /\ Backed(s.kv)
  BY DEF Staged, BundleCovers, Backed
<1>3. PICK token \in Tokens :
        LET exact == st.cursor = Len(st.prompt)
            devices == [device EXCEPT ![l] = IF exact THEN ExactHitDevice(d, st, token)
                                                      ELSE ChunkDevice(BridgeMtp(d, st), st, token)]
        IN  /\ device' = IF Backend = "DFlash" /\ ~ exact
                           THEN FeedDraft(devices, row, st, ChunkColumns(d, st)) ELSE devices
            /\ sequence' = [sequence EXCEPT ![l] =
                              IF Samples(st) THEN FinishedSequence(s, st, token)
                                             ELSE PrefilledSequence(s, st)]
            /\ request' = [request EXCEPT ![l] = StagedRequest(st, token, remaining)]
  BY <1>2 DEF AdvancePrefill
<1> DEFINE e == IF st.cursor = Len(st.prompt) THEN ExactHitDevice(d, st, token)
                                              ELSE ChunkDevice(BridgeMtp(d, st), st, token)
           x == IF Samples(st) THEN FinishedSequence(s, st, token) ELSE PrefilledSequence(s, st)
           y == StagedRequest(st, token, remaining)
           devices == [device EXCEPT ![l] = e]
           fed == FeedDraft(devices, row, st, ChunkColumns(d, st))
<1>4. Holds(x, y, e)
  BY AdvanceHolds
<1>5. /\ sequence' = [sequence EXCEPT ![l] = x] /\ request' = [request EXCEPT ![l] = y]
      /\ device' = fed \/ device' = devices
  BY <1>3
<1> HIDE DEF x, y, e
<1>6. /\ devices = [k \in Lanes |-> devices[k]] /\ devices[l] = e
      /\ \A k \in Lanes : k # l => devices[k] = device[k]
  BY <1>1
<1> HIDE DEF devices
<1>7. ASSUME NEW k \in Lanes
      PROVE  Holds(sequence'[k], request'[k], devices[k])
  <2>1. CASE k = l
    BY <1>1, <1>4, <1>5, <1>6, <2>1
  <2>2. CASE k # l
    <3>1. sequence'[k] = sequence[k] /\ request'[k] = request[k]
      BY <1>1, <1>5, <2>2
    <3> QED BY <1>1, <1>6, <2>2, <3>1
  <2> QED BY <2>1, <2>2
<1>8. CASE device' = devices
  BY <1>6, <1>7, <1>8, ContentStep
<1>9. CASE device' = fed
  <2>1. \A k \in Lanes : DOMAIN devices[k] = DeviceFields
    BY <1>7 DEF Holds, DeviceTyped
  <2>2. fed = [k \in Lanes |-> fed[k]] /\ \A k \in Lanes : SameContent(devices[k], fed[k])
    BY <1>6, <2>1, FeedDraftFields
  <2> HIDE DEF fed
  <2>3. \A k \in Lanes : Holds(sequence'[k], request'[k], fed[k])
    BY <1>7, <2>2, SameContentHolds
  <2> QED BY <1>9, <2>2, <2>3, ContentStep
<1> QED BY <1>5, <1>8, <1>9

(* start_prefill_lane.                                                     *)
LEMMA StartPrefillLaneContent ==
  ASSUME ContentInv, LanesInv', ~ BlindStart, NEW l \in Lanes, StartPrefillLane(l)
  PROVE  ContentInv'
<1>1. /\ options \in Setups /\ LaneOK(options, sequence[l], request[l])
      /\ request[l].lifecycle \in {"Empty", "Complete"}
      /\ Holds(sequence[l], request[l], device[l])
  BY DEF ContentInv, LanesInv, StartPrefillLane, Free
<1>2. PICK p \in Prompts, allowed \in BOOLEAN :
        LET s == sequence[l]
            plan == ReusePath(p, s, allowed)
        IN  IF Reusable(s, plan)
              THEN AdvancePrefill(l, StartSequence(s, p, plan), StartPrefill(s, p, plan),
                                  StartDevice(device[l], p, plan), l, p.output)
              ELSE Throw({l})
  BY DEF StartPrefillLane
<1> DEFINE s == sequence[l]
           plan == ReusePath(p, s, allowed)
           t == StartSequence(s, p, plan)
           st == StartPrefill(s, p, plan)
           d == StartDevice(device[l], p, plan)
<1>3. Reusable(s, plan)
  BY <1>1, PlanFacts
<1>4. AdvancePrefill(l, t, st, d, l, p.output)
  BY <1>2, <1>3
<1>5. /\ t \in SequenceRecords /\ st \in PrefillRecords
      /\ t.rewrite_checkpoint.valid => t.rewrite_checkpoint.frontier <= t.text_kv_valid
      /\ Staged(options, t, st, p.output)
  BY <1>1, StartStaged
<1>6. p.output \in Nat
  BY <1>1, OptionsFacts
<1>s. SeesMedia(p, plan.base)
  BY <1>4 DEF BlindStart, StartPrefillLane
<1>7. DeviceTyped(d) /\ CheckpointHolds(t, d) /\ Resident(t, d) /\ StagedHolds(t, st, d)
  BY <1>1, <1>s, StartHolds
<1> HIDE DEF t, st, d, plan, s
<1> QED BY <1>4, <1>5, <1>6, <1>7, AdvancePrefillContent

(* advance_prefill.                                                        *)
LEMMA AdvancePrefillLaneContent ==
  ASSUME ContentInv, LanesInv', NEW l \in Lanes, AdvancePrefillLane(l)
  PROVE  ContentInv'
<1> DEFINE s == sequence[l]
           st == request[l].prefill
           r == request[l].remaining
           d == device[l]
<1>1. /\ LaneOK(options, s, request[l]) /\ request[l].lifecycle = "Prefilling" /\ ingress \in Lanes
      /\ AdvancePrefill(l, s, st, d, ingress, r) /\ Holds(s, request[l], d)
  BY DEF ContentInv, LanesInv, AdvancePrefillLane
<1>2. /\ s \in SequenceRecords /\ st \in PrefillRecords /\ r \in Nat
      /\ s.rewrite_checkpoint.valid => s.rewrite_checkpoint.frontier <= s.text_kv_valid
      /\ Staged(options, s, st, r)
  BY <1>1 DEF LaneOK, RequestRecords
<1>3. DeviceTyped(d) /\ CheckpointHolds(s, d) /\ Resident(s, d) /\ StagedHolds(s, st, d)
  BY <1>1 DEF Holds
<1> HIDE DEF s, st, r, d
<1> QED BY <1>1, <1>2, <1>3, AdvancePrefillContent

(* decode_batch.                                                           *)
LEMMA DecodeBatchContent ==
  ASSUME ContentInv, LanesInv', DecodeBatch
  PROVE  ContentInv'
<1>1. /\ LanesInv /\ options \in Setups
      /\ \A l \in Lanes : LaneOK(options, sequence[l], request[l])
      /\ \A l \in Lanes : Holds(sequence[l], request[l], device[l])
      /\ Active # {} /\ Active \subseteq Lanes
  BY DEF ContentInv, LanesInv, DecodeBatch, Active
<1>2. \A l \in Active : DecodeReady(l)
  BY <1>1, ActiveIsReady
<1>w. PICK window \in Windows :
        \E rounds \in [Active -> UNION {Rounds(l, window) : l \in Active}] :
          /\ \A l \in Active : rounds[l] \in Rounds(l, window)
          /\ IF \A l \in Active : Backed(RoundBundle(sequence[l], rounds[l]))
               THEN /\ sequence' = [l \in Lanes |->
                         IF l \in Active THEN RoundSequence(sequence[l], rounds[l])
                                         ELSE sequence[l]]
                    /\ device' = [l \in Lanes |->
                         IF l \in Active THEN RoundDevice(sequence[l], device[l], rounds[l])
                                         ELSE device[l]]
                    /\ request' = [l \in Lanes |->
                         IF l \in Active
                           THEN [request[l] EXCEPT
                                   !.lifecycle = "Pending",
                                   !.pending = RoundPending(sequence[l], rounds[l])]
                           ELSE request[l]]
               ELSE Throw(Active)
  BY <1>2, Zenon DEF DecodeBatch
<1>3. PICK rounds \in [Active -> UNION {Rounds(l, window) : l \in Active}] :
        /\ \A l \in Active : rounds[l] \in Rounds(l, window)
        /\ IF \A l \in Active : Backed(RoundBundle(sequence[l], rounds[l]))
             THEN /\ sequence' = [l \in Lanes |->
                       IF l \in Active THEN RoundSequence(sequence[l], rounds[l])
                                       ELSE sequence[l]]
                  /\ device' = [l \in Lanes |->
                       IF l \in Active THEN RoundDevice(sequence[l], device[l], rounds[l])
                                       ELSE device[l]]
                  /\ request' = [l \in Lanes |->
                       IF l \in Active
                         THEN [request[l] EXCEPT
                                 !.lifecycle = "Pending",
                                 !.pending = RoundPending(sequence[l], rounds[l])]
                         ELSE request[l]]
             ELSE Throw(Active)
  BY <1>w, Zenon
<1>4. ASSUME NEW l \in Active
      PROVE  /\ Backed(RoundBundle(sequence[l], rounds[l]))
             /\ Holds(RoundSequence(sequence[l], rounds[l]),
                      [request[l] EXCEPT !.lifecycle = "Pending",
                                         !.pending = RoundPending(sequence[l], rounds[l])],
                      RoundDevice(sequence[l], device[l], rounds[l]))
  <2>1. rounds[l] \in Rounds(l, window)
    BY <1>3
  <2>2. RoundFits(options, sequence[l], request[l].remaining, rounds[l])
    BY <1>1, <2>1, RoundsFit
  <2>3. /\ request[l].lifecycle = "Active" /\ LaneOK(options, sequence[l], request[l])
        /\ Holds(sequence[l], request[l], device[l])
    BY <1>1 DEF Active
  <2>4. Backed(RoundBundle(sequence[l], rounds[l]))
    BY <1>1, <2>2, <2>3, RoundKeeps
  <2> QED BY <1>1, <2>2, <2>3, <2>4, RoundHoldsAfter
<1>5. /\ sequence' = [l \in Lanes |->
           IF l \in Active THEN RoundSequence(sequence[l], rounds[l]) ELSE sequence[l]]
      /\ device' = [l \in Lanes |->
           IF l \in Active THEN RoundDevice(sequence[l], device[l], rounds[l]) ELSE device[l]]
      /\ request' = [l \in Lanes |->
           IF l \in Active
             THEN [request[l] EXCEPT !.lifecycle = "Pending",
                                     !.pending = RoundPending(sequence[l], rounds[l])]
             ELSE request[l]]
  BY <1>3, <1>4, Zenon
<1>6. ASSUME NEW l \in Lanes
      PROVE  Holds(sequence'[l], request'[l], device'[l])
  <2>1. CASE l \in Active
    <3>1. /\ sequence'[l] = RoundSequence(sequence[l], rounds[l])
          /\ request'[l] = [request[l] EXCEPT !.lifecycle = "Pending",
                                              !.pending = RoundPending(sequence[l], rounds[l])]
          /\ device'[l] = RoundDevice(sequence[l], device[l], rounds[l])
      BY <1>5, <2>1, Zenon
    <3> QED BY <1>4, <2>1, <3>1, Zenon
  <2>2. CASE l \notin Active
    <3>1. sequence'[l] = sequence[l] /\ request'[l] = request[l] /\ device'[l] = device[l]
      BY <1>5, <2>2, Zenon
    <3> QED BY <1>1, <3>1
  <2> QED BY <2>1, <2>2
<1>7. device' = [l \in Lanes |-> device'[l]]
  BY <1>5, Zenon
<1> QED BY <1>6, <1>7, ContentStep

(* Resolving pending lanes.                                                *)
LEMMA ResolveContent ==
  ASSUME ContentInv, LanesInv', NEW lanes, lanes \subseteq Lanes,
         \A l \in lanes : request[l].pending.kind # "none",
         NEW verdicts, \A l \in lanes : verdicts[l] \in Verdicts(l) \union {Cancelled},
         Resolve(lanes, verdicts)
  PROVE  ContentInv'
<1> DEFINE kept == {l \in lanes : ~ verdicts[l].cancelled}
           after == [l \in kept |-> ResolvedSequence(sequence[l], request[l].pending, verdicts[l])]
<1>1. /\ LanesInv /\ options \in Setups
      /\ \A l \in Lanes : LaneOK(options, sequence[l], request[l])
      /\ \A l \in Lanes : Holds(sequence[l], request[l], device[l])
  BY DEF ContentInv, LanesInv
<1>2. \A l \in lanes : Resolvable(l)
  BY <1>1, PendingIsResolvable
<1>3. ASSUME NEW l \in kept
      PROVE  /\ l \in Lanes /\ TrimFits(after[l]) /\ Backed(after[l].kv)
             /\ Holds(after[l], ResolvedRequest(request[l], verdicts[l]),
                      ResolvedDevice(device[l], request[l].pending, verdicts[l]))
  <2>1. l \in Lanes /\ request[l].pending.kind # "none"
    OBVIOUS
  <2>2. verdicts[l] \in Verdicts(l)
    BY DEF Cancelled
  <2>3. VerdictFits(verdicts[l], request[l].pending.tokens, request[l].remaining)
    BY <1>1, <2>1, <2>2, VerdictsFit
  <2>4. LaneOK(options, sequence[l], request[l]) /\ Holds(sequence[l], request[l], device[l])
    BY <1>1, <2>1
  <2> DEFINE t == ResolvedSequence(sequence[l], request[l].pending, verdicts[l])
             p == ResolvedRequest(request[l], verdicts[l])
             y == ResolvedDevice(device[l], request[l].pending, verdicts[l])
  <2>5. TrimFits(t) /\ Backed(t.kv)
    BY <1>1, <2>1, <2>3, <2>4, ResolvedKeeps
  <2>6. Holds(t, p, y)
    BY <1>1, <2>1, <2>3, <2>4, ResolvedHolds
  <2>7. after[l] = t
    OBVIOUS
  <2> HIDE DEF t
  <2> QED BY <2>1, <2>5, <2>6, <2>7
<1>4. /\ sequence' = [l \in Lanes |->
           CASE l \in kept -> after[l]
             [] l \in lanes \ kept -> [ClearedSequence EXCEPT !.rope_delta =
                                         sequence[l].rope_delta]
             [] OTHER -> sequence[l]]
      /\ device' = [l \in Lanes |->
           IF l \in kept THEN ResolvedDevice(device[l], request[l].pending, verdicts[l])
                         ELSE device[l]]
      /\ request' = [l \in Lanes |->
           CASE l \in kept -> ResolvedRequest(request[l], verdicts[l])
             [] l \in lanes \ kept -> ClearedRequest
             [] OTHER -> request[l]]
  BY <1>2, <1>3, Zenon DEF Resolve, ResolvedRequest
<1>5. kept \subseteq lanes
  OBVIOUS
<1> HIDE DEF after, kept
<1>6. ASSUME NEW l \in Lanes
      PROVE  Holds(sequence'[l], request'[l], device'[l])
  <2>1. CASE l \in kept
    <3>1. /\ sequence'[l] = after[l] /\ request'[l] = ResolvedRequest(request[l], verdicts[l])
          /\ device'[l] = ResolvedDevice(device[l], request[l].pending, verdicts[l])
      BY <1>4, <2>1, <1>5
    <3> QED BY <1>3, <2>1, <3>1, Zenon
  <2>2. CASE l \in lanes \ kept
    <3> DEFINE c == [ClearedSequence EXCEPT !.rope_delta = sequence[l].rope_delta]
    <3>1. sequence'[l] = c /\ request'[l] = ClearedRequest /\ device'[l] = device[l]
      BY <1>4, <2>2
    <3>2. DeviceTyped(device[l])
      BY <1>1 DEF Holds
    <3>3. Holds(c, ClearedRequest, device[l])
      BY <3>2, ClearedHolds, Zenon
    <3> HIDE DEF c
    <3> QED BY <3>1, <3>3
  <2>3. CASE l \notin lanes
    <3>1. sequence'[l] = sequence[l] /\ request'[l] = request[l] /\ device'[l] = device[l]
      BY <1>4, <1>5, <2>3
    <3> QED BY <1>1, <3>1
  <2> QED BY <2>1, <2>2, <2>3
<1>7. device' = [l \in Lanes |-> device'[l]]
  BY <1>4, Zenon
<1> QED BY <1>6, <1>7, ContentStep

(* resolve_prefill_lane and resolve_pending_batch.                         *)
LEMMA ResolutionContent ==
  ASSUME ContentInv, LanesInv',
         (\E l \in Lanes : ResolvePrefillLane(l)) \/ ResolvePendingBatch
  PROVE  ContentInv'
<1>1. ASSUME NEW l \in Lanes, ResolvePrefillLane(l)
      PROVE  ContentInv'
  <2>1. PICK verdict \in Verdicts(l) : Resolve({l}, [i \in {l} |-> verdict])
    BY <1>1 DEF ResolvePrefillLane
  <2>2. request[l].pending.kind = "begin"
    BY <1>1 DEF ResolvePrefillLane
  <2> DEFINE verdicts == [i \in {l} |-> verdict]
  <2>3. \A i \in {l} : verdicts[i] \in Verdicts(i) \union {Cancelled}
    OBVIOUS
  <2>4. \A i \in {l} : request[i].pending.kind # "none"
    BY <2>2
  <2> HIDE DEF verdicts
  <2> QED BY <2>1, <2>3, <2>4, ResolveContent DEF verdicts
<1>2. ASSUME ResolvePendingBatch
      PROVE  ContentInv'
  <2> DEFINE lanes == PendingOf({"ordinary", "speculative"})
  <2>1. PICK verdicts \in [lanes -> UNION {Verdicts(l) : l \in lanes} \union {Cancelled}] :
          /\ \A l \in lanes : verdicts[l] \in Verdicts(l) \union {Cancelled}
          /\ Resolve(lanes, verdicts)
    BY <1>2, Zenon DEF ResolvePendingBatch
  <2>2. lanes \subseteq Lanes /\ \A l \in lanes : request[l].pending.kind # "none"
    BY DEF PendingOf
  <2> HIDE DEF lanes
  <2> QED BY <2>1, <2>2, ResolveContent
<1> QED BY <1>1, <1>2

(* Nothing happens.                                                        *)
LEMMA StutterKeepsContent == ContentInv /\ UNCHANGED vars => ContentInv'
BY DEF ContentInv, LanesInv, vars

(* One step of the program.                                                *)
LEMMA NextKeepsContent == ContentInv /\ [Next]_vars /\ [~ BlindStart]_vars => ContentInv'
<1> SUFFICES ASSUME ContentInv, Next, ~ BlindStart PROVE ContentInv'
  BY StutterKeepsContent
<1>1. LanesInv'
  BY NextKeepsLanes DEF ContentInv
<1>2. CASE \E l \in Lanes : StartPrefillLane(l)
  BY <1>1, <1>2, StartPrefillLaneContent
<1>3. CASE \E l \in Lanes : AdvancePrefillLane(l)
  BY <1>1, <1>3, AdvancePrefillLaneContent
<1>4. CASE DecodeBatch
  BY <1>1, <1>4, DecodeBatchContent
<1>5. CASE (\E l \in Lanes : ResolvePrefillLane(l)) \/ ResolvePendingBatch
  BY <1>1, <1>5, ResolutionContent
<1>6. CASE \E l \in Lanes : AbortLane(l) \/ EvictRetainedLane(l)
  <2>1. PICK l \in Lanes : AbortLane(l) \/ EvictRetainedLane(l)
    BY <1>6
  <2>2. ClearLanes({l}) /\ UNCHANGED device
    BY <2>1 DEF AbortLane, EvictRetainedLane
  <2> QED BY <1>1, <2>2, ClearingContent
<1>7. CASE RoundFails
  <2>1. ClearLanes(PendingOf({"ordinary", "speculative"})) /\ UNCHANGED device
    BY <1>7 DEF RoundFails
  <2> QED BY <1>1, <2>1, ClearingContent
<1> QED BY <1>2, <1>3, <1>4, <1>5, <1>6, <1>7 DEF Next

(* Without prompts that have media only before their end no start is       *)
(* blind.                                                                  *)
LEMMA MediaLastSees ==
  ASSUME MediaEndsPrompts, LanesInv
  PROVE  ~ BlindStart
<1> SUFFICES ASSUME NEW l \in Lanes, NEW p \in Prompts, NEW allowed \in BOOLEAN, Free(l)
             PROVE  SeesMedia(p, ReusePath(p, sequence[l], allowed).base)
  BY DEF BlindStart
<1> DEFINE s == sequence[l]
           plan == ReusePath(p, s, allowed)
           n == plan.base
           k == Len(p.tokens)
<1>1. /\ options \in Setups /\ LaneOK(options, s, request[l])
      /\ request[l].lifecycle \in {"Empty", "Complete"}
  BY DEF LanesInv, Free
<1>2. n \in 0..k /\ k \in Nat \ {0}
  BY <1>1, PlanFacts, OptionsFacts
<1>3. (\E i \in 1..k : p.tokens[i] = Media) => p.tokens[k] = Media
  BY <1>1 DEF MediaEndsPrompts, Prompts
<1> HIDE DEF n, k
<1>4. \/ \E i \in (n + 1)..k : p.tokens[i] = Media
      \/ n = k
      \/ \A i \in 1..k : p.tokens[i] # Media
  <2> SUFFICES ASSUME n # k, NEW i \in 1..k, p.tokens[i] = Media
               PROVE  \E j \in (n + 1)..k : p.tokens[j] = Media
    OBVIOUS
  <2>1. p.tokens[k] = Media
    BY <1>3
  <2>2. k \in (n + 1)..k
    BY <1>2
  <2> QED BY <2>1, <2>2
<1> QED BY <1>4 DEF SeesMedia, n, k

-----------------------------------------------------------------------------
(* What a lane continues from is what its ledger says.                     *)

(* The columns a lane is computed through are those that are valid.        *)
LEMMA ComputedIsValid ==
  ASSUME LanesInv, NEW l \in Lanes, request[l].lifecycle # "Empty"
  PROVE  /\ Computed(l) = sequence[l].text_kv_valid /\ Computed(l) \in Nat
         /\ Computed(l) <= Len(sequence[l].ledger)
<1> DEFINE s == sequence[l]
           q == request[l]
<1>1. LaneOK(options, s, q) /\ s \in SequenceRecords /\ q \in RequestRecords
  BY DEF LanesInv, LaneOK
<1>2. /\ s.text_kv_valid \in Nat /\ s.execution_frontier \in Nat /\ s.ledger_frontier \in Nat
      /\ Len(s.ledger) \in Nat
  <2>1. s.ledger \in Seq(Token)
    BY <1>1 DEF SequenceRecords
  <2>2. Len(s.ledger) \in Nat
    BY <2>1
  <2> QED BY <1>1, <2>2 DEF SequenceRecords
<1>q. /\ q.lifecycle \in Lifecycles
      /\ q.pending.kind \in {"none", "begin", "ordinary", "speculative"}
      /\ q.pending.prompt_tokens \in Nat
  BY <1>1 DEF RequestRecords, PendingRecords
<1>3. CASE q.lifecycle = "Prefilling"
  <2>0. q.pending.kind \notin {"begin", "ordinary"}
    BY <1>1, <1>3 DEF LaneOK
  <2>1. Computed(l) = q.prefill.cursor
    BY <1>3, <2>0 DEF Computed
  <2>2. s.ledger = q.prefill.prompt /\ q.prefill.cursor = s.text_kv_valid
        /\ q.prefill.cursor <= Len(q.prefill.prompt)
    BY <1>1, <1>3 DEF LaneOK, Staged
  <2> QED BY <1>2, <2>1, <2>2
<1>4. CASE q.lifecycle \in {"Active", "Complete"} \/ q.pending.kind = "speculative"
  <2>1. Settled(options, s)
    BY <1>1, <1>4 DEF LaneOK, Decoding, Kept, SpeculativeRound
  <2>2. q.lifecycle # "Prefilling" /\ q.pending.kind \notin {"begin", "ordinary"}
    BY <1>1, <1>4 DEF LaneOK
  <2>3. Computed(l) = s.execution_frontier
    BY <2>2 DEF Computed
  <2> QED BY <1>2, <2>1, <2>3 DEF Settled
<1>5. CASE q.pending.kind \in {"begin", "ordinary"}
  <2>1. q.lifecycle # "Prefilling"
    BY <1>1, <1>5 DEF LaneOK
  <2>2. Computed(l) = Len(s.ledger) - 1
    BY <1>5, <2>1 DEF Computed
  <2>3. Len(s.ledger) = s.text_kv_valid + 1
    <3>1. CASE q.pending.kind = "begin"
      BY <1>1, <1>2, <1>q, <3>1 DEF LaneOK, Begun
    <3>2. CASE q.pending.kind = "ordinary"
      BY <1>1, <1>2, <3>2 DEF LaneOK, OrdinaryRound
    <3> QED BY <1>5, <3>1, <3>2
  <2> QED BY <1>2, <2>2, <2>3
<1>6. q.lifecycle = "Pending" <=> q.pending.kind # "none"
  BY <1>1 DEF LaneOK
<1> QED BY <1>q, <1>3, <1>4, <1>5, <1>6 DEF Lifecycles

(* ContentInv says of each lane what ContinuationMatchesLedger says.       *)
LEMMA ContentIsContinuation == ContentInv => ContinuationMatchesLedger
<1> SUFFICES ASSUME ContentInv, NEW l \in Lanes, request[l].lifecycle # "Empty"
             PROVE  LET n == Computed(l)
                    IN  /\ device[l].linear = Identity(sequence[l], n)
                        /\ sequence[l].text_kv_valid = n
                        /\ Upto(device[l].kv, n) = Identity(sequence[l], n)
                        /\ request[l].lifecycle \in {"Active", "Complete"} =>
                             device[l].tail = Identity(sequence[l], n)
  BY DEF ContinuationMatchesLedger
<1> DEFINE n == Computed(l)
<1>1. n = sequence[l].text_kv_valid /\ n \in Nat /\ n <= Len(sequence[l].ledger)
  BY ComputedIsValid DEF ContentInv
<1> HIDE DEF n
<1>2. /\ sequence[l] \in SequenceRecords /\ Len(sequence[l].positions) = Len(sequence[l].ledger)
      /\ Holds(sequence[l], request[l], device[l])
  BY DEF ContentInv, LanesInv, LaneOK
<1>3. Exactly(Identity(sequence[l], n), sequence[l], n)
  BY <1>1, <1>2, IdentityIsExact
<1>4. Exactly(device[l].linear, sequence[l], n) /\ Follows(device[l].kv, sequence[l], n)
  BY <1>1, <1>2 DEF Holds, Resident
<1>5. Exactly(Upto(device[l].kv, n), sequence[l], n)
  BY <1>1, <1>4, UptoExactly
<1>6. ASSUME request[l].lifecycle \in {"Active", "Complete"}
      PROVE  device[l].tail = Identity(sequence[l], n)
  <2>1. Exactly(device[l].tail, sequence[l], n)
    BY <1>1, <1>2, <1>6 DEF Holds
  <2> QED BY <1>1, <1>3, <2>1, SameColumns
<1>7. /\ device[l].linear = Identity(sequence[l], n)
      /\ Upto(device[l].kv, n) = Identity(sequence[l], n)
  BY <1>1, <1>3, <1>4, <1>5, SameColumns
<1> QED BY <1>1, <1>6, <1>7 DEF n

(* The checkpoint a later request may restore lies within the valid text   *)
(* KV and holds the recurrent state and the hidden of the ledger's prefix  *)
(* at its frontier, whatever the lane has computed since its capture: the  *)
(* part of CheckpointMatchesLedger that every backend shares.              *)
TextCheckpointMatchesLedger ==
    \A l \in Lanes :
      LET s == sequence[l]
          prefix == Identity(s, s.rewrite_checkpoint.frontier)
      IN  s.rewrite_checkpoint.valid =>
            /\ s.rewrite_checkpoint.frontier <= s.text_kv_valid
            /\ device[l].linearCheckpoint = prefix
            /\ device[l].hiddenCheckpoint = prefix

(* ContentInv says so of each lane.                                        *)
LEMMA ContentIsCheckpoint == ContentInv => TextCheckpointMatchesLedger
<1> SUFFICES ASSUME ContentInv, NEW l \in Lanes, sequence[l].rewrite_checkpoint.valid
             PROVE  LET s == sequence[l]
                        prefix == Identity(s, s.rewrite_checkpoint.frontier)
                    IN  /\ s.rewrite_checkpoint.frontier <= s.text_kv_valid
                        /\ device[l].linearCheckpoint = prefix
                        /\ device[l].hiddenCheckpoint = prefix
  BY DEF TextCheckpointMatchesLedger
<1> DEFINE s == sequence[l]
           n == s.rewrite_checkpoint.frontier
<1>1. /\ s \in SequenceRecords /\ Len(s.positions) = Len(s.ledger) /\ n <= s.text_kv_valid
      /\ Holds(s, request[l], device[l]) /\ LaneOK(options, s, request[l])
  BY DEF ContentInv, LanesInv, LaneOK
<1>2. n \in Nat /\ s.text_kv_valid \in Nat /\ Len(s.ledger) \in Nat
  BY <1>1 DEF SequenceRecords, CheckpointRecords
<1>3. request[l].lifecycle # "Empty"
  BY <1>1 DEF LaneOK, Cleared
<1>4. s.text_kv_valid <= Len(s.ledger)
  BY <1>3, ComputedIsValid DEF ContentInv
<1>5. Exactly(device[l].linearCheckpoint, s, n) /\ Exactly(device[l].hiddenCheckpoint, s, n)
  BY <1>1 DEF Holds, CheckpointHolds
<1> HIDE DEF s, n
<1>6. Exactly(Identity(s, n), s, n)
  BY <1>1, <1>2, <1>4, IdentityIsExact
<1>7. device[l].linearCheckpoint = Identity(s, n) /\ device[l].hiddenCheckpoint = Identity(s, n)
  BY <1>2, <1>5, <1>6, SameColumns
<1> QED BY <1>1, <1>7 DEF s, n

(* Every behaviour in which no prompt starts blind keeps the device state  *)
(* of every lane that of its ledger: chunks of a prefill, rounds kept in   *)
(* whole or in part, trims, checkpoints captured and restored, prompts     *)
(* that continue a kept lane, lanes cleared by an error or an eviction.    *)
THEOREM ContentInvariant == Spec /\ [][~ BlindStart]_vars => []ContentInv
BY InitContent, NextKeepsContent, PTL DEF Spec

(* In such a behaviour every token is sampled from its own prefix: what    *)
(* start_prefill_lane, advance_prefill, decode_batch and the resolutions   *)
(* leave on the device is computed from the ledger's tokens and positions. *)
THEOREM LaneContinuation == Spec /\ [][~ BlindStart]_vars => []ContinuationMatchesLedger
BY ContentInvariant, ContentIsContinuation, PTL

(* In such a behaviour a checkpoint that may be restored is that of the    *)
(* prefix the ledger still has.                                            *)
THEOREM TextCheckpoint == Spec /\ [][~ BlindStart]_vars => []TextCheckpointMatchesLedger
BY ContentInvariant, ContentIsCheckpoint, PTL

-----------------------------------------------------------------------------
(* The MTP rows behind a checkpoint.                                       *)

(* Between two chunks the MTP cache has got as far as the Text KV.         *)
Paced(s, q) == q.lifecycle = "Prefilling" => s.mtp_kv_valid = s.text_kv_valid
MtpKeepsPace == options.backend = "Mtp" => \A l \in Lanes : Paced(sequence[l], request[l])

(* What a step that touches no staged prefill does to it.                  *)
LEMMA PacedFrame ==
  ASSUME MtpKeepsPace, options' = options,
         \A l \in Lanes : request'[l].lifecycle = "Prefilling" =>
           request'[l] = request[l] /\ sequence'[l] = sequence[l]
  PROVE  MtpKeepsPace'
BY DEF MtpKeepsPace, Paced

(* Lanes are cleared.                                                      *)
LEMMA ClearingPaced ==
  ASSUME MtpKeepsPace, options' = options, NEW lanes, ClearLanes(lanes)
  PROVE  MtpKeepsPace'
<1>1. /\ sequence' = [l \in Lanes |-> IF l \in lanes
                                        THEN [ClearedSequence EXCEPT !.rope_delta =
                                                sequence[l].rope_delta]
                                        ELSE sequence[l]]
      /\ request' = [l \in Lanes |-> IF l \in lanes THEN ClearedRequest ELSE request[l]]
  BY DEF ClearLanes
<1>2. ClearedRequest.lifecycle = "Empty"
  BY DEF ClearedRequest
<1>3. ASSUME NEW l \in Lanes, request'[l].lifecycle = "Prefilling"
      PROVE  request'[l] = request[l] /\ sequence'[l] = sequence[l]
  <2>1. CASE l \in lanes
    <3>1. request'[l] = ClearedRequest
      BY <1>1, <2>1, Zenon
    <3> QED BY <1>2, <1>3, <3>1
  <2>2. CASE l \notin lanes
    BY <1>1, <2>2, Zenon
  <2> QED BY <2>1, <2>2
<1> QED BY <1>3, PacedFrame

(* A chunk brings both caches to its end.                                  *)
LEMMA AdvancePrefillPaced ==
  ASSUME LanesInv, MtpKeepsPace, options' = options, NEW l \in Lanes, NEW s \in SequenceRecords,
         NEW st, NEW d, NEW row, NEW remaining, AdvancePrefill(l, s, st, d, row, remaining)
  PROVE  MtpKeepsPace'
<1>1. CASE Throw({l})
  BY <1>1, ClearingPaced DEF Throw
<1>2. CASE ~ Throw({l})
  <2>1. PICK token \in Tokens :
          /\ sequence' = [sequence EXCEPT ![l] = IF Samples(st) THEN FinishedSequence(s, st, token)
                                                               ELSE PrefilledSequence(s, st)]
          /\ request' = [request EXCEPT ![l] = StagedRequest(st, token, remaining)]
    BY <1>2 DEF AdvancePrefill
  <2> DEFINE x == IF Samples(st) THEN FinishedSequence(s, st, token) ELSE PrefilledSequence(s, st)
             y == StagedRequest(st, token, remaining)
  <2>2. Backend = "Mtp" => Paced(x, y)
    <3>1. CASE Samples(st)
      <4>1. y.lifecycle = "Pending"
        BY <3>1 DEF StagedRequest
      <4> HIDE DEF x, y
      <4> QED BY <4>1 DEF Paced
    <3>2. CASE ~ Samples(st)
      <4>1. x = [s EXCEPT !.text_kv_valid = ChunkEnd(st),
                          !.mtp_kv_valid = IF Backend = "Mtp" THEN ChunkEnd(st) ELSE @,
                          !.dflash_context_frontier = IF Backend = "DFlash" THEN ChunkEnd(st)
                                                                           ELSE @]
        BY <3>2 DEF PrefilledSequence
      <4> HIDE DEF x, y
      <4>2. Backend = "Mtp" => x.mtp_kv_valid = x.text_kv_valid
        BY <4>1 DEF SequenceRecords
      <4> QED BY <4>2 DEF Paced
    <3> QED BY <3>1, <3>2
  <2>3. /\ sequence' = [sequence EXCEPT ![l] = x] /\ request' = [request EXCEPT ![l] = y]
        /\ sequence \in [Lanes -> SequenceRecords] /\ request \in [Lanes -> RequestRecords]
    BY <2>1 DEF LanesInv
  <2> HIDE DEF x, y
  <2>4. ASSUME options.backend = "Mtp", NEW k \in Lanes
        PROVE  Paced(sequence'[k], request'[k])
    <3>1. CASE k = l
      BY <2>2, <2>3, <2>4, <3>1 DEF Backend
    <3>2. CASE k # l
      <4>1. sequence'[k] = sequence[k] /\ request'[k] = request[k]
        BY <2>3, <3>2
      <4> QED BY <2>4, <4>1 DEF MtpKeepsPace
    <3> QED BY <3>1, <3>2
  <2> QED BY <2>4 DEF MtpKeepsPace
<1> QED BY <1>1, <1>2

(* A round and its resolution leave staged prefills alone.                 *)
LEMMA RoundPaced ==
  ASSUME MtpKeepsPace, options' = options, DecodeBatch
  PROVE  MtpKeepsPace'
<1>1. CASE Throw(Active)
  BY <1>1, ClearingPaced DEF Throw
<1>2. CASE ~ Throw(Active)
  <2>1. PICK sequences, pendings :
          /\ sequence' = [l \in Lanes |-> IF l \in Active THEN sequences[l] ELSE sequence[l]]
          /\ request' = [l \in Lanes |->
               IF l \in Active
                 THEN [request[l] EXCEPT !.lifecycle = "Pending", !.pending = pendings[l]]
                 ELSE request[l]]
    <3>1. PICK rounds :
            /\ sequence' = [l \in Lanes |-> IF l \in Active THEN RoundSequence(sequence[l], rounds[l])
                                                           ELSE sequence[l]]
            /\ request' = [l \in Lanes |->
                 IF l \in Active
                   THEN [request[l] EXCEPT !.lifecycle = "Pending",
                                           !.pending = RoundPending(sequence[l], rounds[l])]
                   ELSE request[l]]
      BY <1>2 DEF DecodeBatch
    <3> DEFINE a == [l \in Lanes |-> RoundSequence(sequence[l], rounds[l])]
               b == [l \in Lanes |-> RoundPending(sequence[l], rounds[l])]
    <3>2. /\ sequence' = [l \in Lanes |-> IF l \in Active THEN a[l] ELSE sequence[l]]
          /\ request' = [l \in Lanes |->
               IF l \in Active
                 THEN [request[l] EXCEPT !.lifecycle = "Pending", !.pending = b[l]]
                 ELSE request[l]]
      BY <3>1
    <3> HIDE DEF a, b
    <3> QED BY <3>2
  <2>2. ASSUME NEW l \in Lanes, request'[l].lifecycle = "Prefilling"
        PROVE  request'[l] = request[l] /\ sequence'[l] = sequence[l]
    <3>1. CASE l \in Active
      <4>1. request'[l] = [request[l] EXCEPT !.lifecycle = "Pending", !.pending = pendings[l]]
        BY <2>1, <3>1
      <4>2. request[l].lifecycle = "Active"
        BY <3>1 DEF Active
      <4> QED BY <2>2, <4>1, <4>2
    <3>2. CASE l \notin Active
      BY <2>1, <3>2
    <3> QED BY <3>1, <3>2
  <2> QED BY <2>2, PacedFrame
<1> QED BY <1>1, <1>2

(* A verdict ends or resumes the lanes of the round.                       *)
LEMMA ResolvePaced ==
  ASSUME LanesInv, MtpKeepsPace, options' = options, NEW lanes, NEW verdicts,
         Resolve(lanes, verdicts)
  PROVE  MtpKeepsPace'
<1>1. CASE Throw(lanes)
  BY <1>1, ClearingPaced DEF Throw
<1>2. CASE ~ Throw(lanes)
  <2> DEFINE kept == {l \in lanes : ~ verdicts[l].cancelled}
             after == [l \in kept |-> ResolvedSequence(sequence[l], request[l].pending, verdicts[l])]
  <2>1. /\ sequence' = [l \in Lanes |->
             CASE l \in kept -> after[l]
               [] l \in lanes \ kept -> [ClearedSequence EXCEPT !.rope_delta =
                                           sequence[l].rope_delta]
               [] OTHER -> sequence[l]]
        /\ request' = [l \in Lanes |->
             CASE l \in kept -> ResolvedRequest(request[l], verdicts[l])
               [] l \in lanes \ kept -> ClearedRequest
               [] OTHER -> request[l]]
    BY <1>2, Zenon DEF Resolve, ResolvedRequest
  <2>2. kept \subseteq lanes
    OBVIOUS
  <2> HIDE DEF kept, after
  <2>3. ASSUME NEW l \in Lanes, request'[l].lifecycle = "Prefilling"
        PROVE  request'[l] = request[l] /\ sequence'[l] = sequence[l]
    <3>1. CASE l \in kept
      <4>1. request'[l] = ResolvedRequest(request[l], verdicts[l]) /\ request[l] \in RequestRecords
        BY <2>1, <2>2, <3>1 DEF LanesInv
      <4>2. request'[l].lifecycle \in {"Complete", "Active"}
        BY <4>1 DEF ResolvedRequest, RequestRecords
      <4> QED BY <2>3, <4>2
    <3>2. CASE l \in lanes \ kept
      <4>1. request'[l] = ClearedRequest
        BY <2>1, <3>2
      <4> QED BY <2>3, <4>1 DEF ClearedRequest
    <3>3. CASE l \notin lanes
      BY <2>1, <2>2, <3>3
    <3> QED BY <3>1, <3>2, <3>3
  <2> QED BY <2>3, PacedFrame
<1> QED BY <1>1, <1>2

(* One step of the program.                                                *)
LEMMA NextKeepsPace == LanesInv /\ MtpKeepsPace /\ [Next]_vars => MtpKeepsPace'
<1>1. ASSUME MtpKeepsPace, UNCHANGED vars PROVE MtpKeepsPace'
  BY <1>1 DEF MtpKeepsPace, vars
<1> SUFFICES ASSUME LanesInv, MtpKeepsPace, Next PROVE MtpKeepsPace'
  BY <1>1
<1>2. options' = options
  BY DEF Next
<1>3. ASSUME NEW l \in Lanes, StartPrefillLane(l) PROVE MtpKeepsPace'
  <2>1. PICK p \in Prompts, allowed \in BOOLEAN :
          LET s == sequence[l]
              plan == ReusePath(p, s, allowed)
          IN  IF Reusable(s, plan)
                THEN AdvancePrefill(l, StartSequence(s, p, plan), StartPrefill(s, p, plan),
                                    StartDevice(device[l], p, plan), l, p.output)
                ELSE Throw({l})
    BY <1>3 DEF StartPrefillLane
  <2> DEFINE s == sequence[l]
             plan == ReusePath(p, s, allowed)
             t == StartSequence(s, p, plan)
             st == StartPrefill(s, p, plan)
             d == StartDevice(device[l], p, plan)
  <2>2. /\ options \in Setups /\ LaneOK(options, s, request[l])
        /\ request[l].lifecycle \in {"Empty", "Complete"}
    BY <1>3 DEF LanesInv, StartPrefillLane, Free
  <2>3. t \in SequenceRecords
    BY <2>2, StartStaged
  <2>4. CASE AdvancePrefill(l, t, st, d, l, p.output)
    <3> HIDE DEF t, st, d
    <3> QED BY <1>2, <2>3, <2>4, AdvancePrefillPaced
  <2>5. CASE Throw({l})
    BY <1>2, <2>5, ClearingPaced DEF Throw
  <2> QED BY <2>1, <2>4, <2>5
<1>4. ASSUME NEW l \in Lanes, AdvancePrefillLane(l) PROVE MtpKeepsPace'
  <2>1. /\ AdvancePrefill(l, sequence[l], request[l].prefill, device[l], ingress,
                          request[l].remaining)
        /\ sequence[l] \in SequenceRecords
    BY <1>4 DEF AdvancePrefillLane, LanesInv
  <2> QED BY <1>2, <2>1, AdvancePrefillPaced
<1>5. ASSUME NEW l \in Lanes, ResolvePrefillLane(l) PROVE MtpKeepsPace'
  <2>1. PICK verdict : Resolve({l}, [i \in {l} |-> verdict])
    BY <1>5 DEF ResolvePrefillLane
  <2> QED BY <1>2, <2>1, ResolvePaced
<1>6. ASSUME ResolvePendingBatch PROVE MtpKeepsPace'
  <2>1. PICK verdicts : Resolve(PendingOf({"ordinary", "speculative"}), verdicts)
    BY <1>6 DEF ResolvePendingBatch
  <2> QED BY <1>2, <2>1, ResolvePaced
<1>7. ASSUME NEW l \in Lanes, AbortLane(l) \/ EvictRetainedLane(l) PROVE MtpKeepsPace'
  BY <1>2, <1>7, ClearingPaced DEF AbortLane, EvictRetainedLane
<1>8. ASSUME RoundFails PROVE MtpKeepsPace'
  BY <1>2, <1>8, ClearingPaced DEF RoundFails
<1>9. ASSUME DecodeBatch PROVE MtpKeepsPace'
  BY <1>2, <1>9, RoundPaced
<1> QED BY <1>3, <1>4, <1>5, <1>6, <1>7, <1>8, <1>9 DEF Next

(* The MTP rows are valid as far as the Text KV is, and a token of the     *)
(* ledger follows them.                                                    *)
LEMMA MtpReachesText ==
  ASSUME LanesInv, MtpKeepsPace, options.backend = "Mtp", NEW l \in Lanes,
         request[l].lifecycle # "Empty"
  PROVE  /\ sequence[l].mtp_kv_valid = sequence[l].text_kv_valid
         /\ sequence[l].text_kv_valid < Len(sequence[l].ledger)
<1> DEFINE s == sequence[l]
           q == request[l]
<1>1. LaneOK(options, s, q) /\ s \in SequenceRecords /\ q \in RequestRecords
  BY DEF LanesInv, LaneOK
<1>2. s.text_kv_valid \in Nat /\ s.execution_frontier \in Nat /\ q.pending.prompt_tokens \in Nat
  BY <1>1 DEF SequenceRecords, RequestRecords, PendingRecords
<1>3. CASE q.lifecycle = "Prefilling"
  <2>1. s.mtp_kv_valid = s.text_kv_valid
    BY <1>3 DEF MtpKeepsPace, Paced
  <2>2. s.text_kv_valid < Len(s.ledger)
    BY <1>1, <1>3 DEF LaneOK, Staged
  <2> QED BY <2>1, <2>2
<1>4. CASE q.lifecycle \in {"Active", "Complete"} \/ q.pending.kind = "speculative"
  <2>1. Settled(options, s)
    BY <1>1, <1>4 DEF LaneOK, Decoding, Kept, SpeculativeRound
  <2> QED BY <1>2, <2>1 DEF Settled
<1>5. CASE q.pending.kind = "begin"
  BY <1>1, <1>2, <1>5 DEF LaneOK, Begun
<1>6. CASE q.pending.kind = "ordinary"
  BY <1>1, <1>6 DEF LaneOK, OrdinaryRound
<1>7. /\ q.lifecycle \in Lifecycles
      /\ q.pending.kind \in {"none", "begin", "ordinary", "speculative"}
      /\ q.lifecycle = "Pending" <=> q.pending.kind # "none"
  BY <1>1 DEF LaneOK, RequestRecords, PendingRecords
<1> QED BY <1>3, <1>4, <1>5, <1>6, <1>7 DEF Lifecycles

(* The MTP rows reach at least to the row before the checkpoint.           *)
LEMMA MtpBehindCheckpoint ==
  ASSUME LanesInv, MtpKeepsPace, options.backend = "Mtp", NEW l \in Lanes,
         sequence[l].rewrite_checkpoint.valid
  PROVE  sequence[l].mtp_kv_valid >= sequence[l].rewrite_checkpoint.frontier - 1
<1> DEFINE s == sequence[l]
<1>1. LaneOK(options, s, request[l]) /\ s \in SequenceRecords
  BY DEF LanesInv, LaneOK
<1>2. /\ s.text_kv_valid \in Nat /\ s.rewrite_checkpoint.frontier \in Nat
      /\ s.rewrite_checkpoint.frontier <= s.text_kv_valid
  BY <1>1 DEF LaneOK, SequenceRecords, CheckpointRecords
<1>3. request[l].lifecycle # "Empty"
  BY <1>1 DEF LaneOK, Cleared
<1>4. s.mtp_kv_valid = s.text_kv_valid
  BY <1>3, MtpReachesText
<1> QED BY <1>2, <1>4

(* Without a draft model a checkpoint that start_prefill_lane may restore  *)
(* holds all that CheckpointMatchesLedger asks of it, the MTP rows behind  *)
(* it included.                                                            *)
THEOREM LaneCheckpoint ==
  Spec /\ [][~ BlindStart]_vars => [](options.backend # "DFlash" => CheckpointMatchesLedger)
<1>1. Init => MtpKeepsPace
  BY DEF Init, MtpKeepsPace, Paced, ClearedRequest
<1>2. ASSUME LanesInv, MtpKeepsPace, TextCheckpointMatchesLedger, options.backend # "DFlash"
      PROVE  CheckpointMatchesLedger
  <2>1. \A l \in Lanes : sequence[l].rewrite_checkpoint.valid /\ Backend = "Mtp" =>
          sequence[l].mtp_kv_valid >= sequence[l].rewrite_checkpoint.frontier - 1
    BY <1>2, MtpBehindCheckpoint DEF Backend
  <2>2. Backend # "DFlash"
    BY <1>2 DEF Backend
  <2> QED BY <1>2, <2>1, <2>2, Zenon DEF TextCheckpointMatchesLedger, CheckpointMatchesLedger
<1> QED BY <1>1, <1>2, NextKeepsPace, LanesInvariant, TextCheckpoint, PTL DEF Spec

-----------------------------------------------------------------------------
(* The rows of the MTP cache.                                              *)

MtpEntry == (Entry \X Token) \union {Garbage}

(* Row i comes from column i and the token behind it.                      *)
Row(s, i) == << <<s.ledger[i], s.positions[i]>>, s.ledger[i + 1] >>
RowsFollow(v, s, n) ==
    /\ v \in Seq(MtpEntry) /\ Len(v) >= n
    /\ \A i \in 1..n : v[i] = Row(s, i)

(* The rows of a round that waits for its verdict.                         *)
RoundRows(v, s, tokens) ==
    LET e == s.execution_frontier
    IN  /\ Len(v) >= e + Len(tokens)
        /\ \A j \in 1..Len(tokens) : v[e + j] = <<RoundEntry(s, tokens, j), tokens[j]>>

MtpHolds(s, q, d) ==
    /\ d.mtp \in Seq(MtpEntry)
    /\ q.lifecycle # "Empty" => RowsFollow(d.mtp, s, s.mtp_kv_valid)
    /\ q.lifecycle = "Prefilling" => q.prefill.bridge = "none"
    /\ q.pending.kind = "speculative" => RoundRows(d.mtp, s, q.pending.tokens)

MtpLanes == \A l \in Lanes : MtpHolds(sequence[l], request[l], device[l])
MtpInv == options.backend = "Mtp" => MtpLanes

(* The first n rows agree with the columns.                                *)
Agree(mtp, n, hidden) ==
    Len(mtp) >= n /\ \A i \in 1..n : mtp[i] = <<hidden[i], hidden[i + 1][1]>>
(* They are followed by rows of the other columns.                         *)
Extends(w, mtp, n, hidden, next) ==
    /\ w \in Seq(MtpEntry) /\ Len(w) = Len(hidden)
    /\ \A i \in 1..n : w[i] = mtp[i]
    /\ \A j \in 1..(Len(hidden) - n) : w[n + j] = <<hidden[n + j], next[j]>>

(* Rows written behind n rows that agree with the columns.                 *)
LEMMA MtpWriteRows ==
  ASSUME NEW mtp \in Seq(MtpEntry), NEW n \in Nat, NEW hidden \in Seq(Entry), n < Len(hidden),
         Agree(mtp, n, hidden), NEW next \in Seq(Token), Len(next) = Len(hidden) - n,
         NEW w, w = MtpWrite(mtp, n, hidden, next)
  PROVE  Extends(w, mtp, n, hidden, next)
<1> DEFINE m == Len(hidden)
           before == SubSeq(hidden, 1, n)
           ahead == SubSeq(hidden, 1, n + 1)
           rest == SubSeq(hidden, n + 1, m)
           old == [i \in 1..n |-> mtp[i]]
           new == [j \in 1..(m - n) |-> <<rest[j], next[j]>>]
<1>1. m \in Nat /\ n < m /\ Len(mtp) \in Nat /\ Len(mtp) >= n
      /\ \A i \in 1..n : mtp[i] = <<hidden[i], hidden[i + 1][1]>>
  BY DEF Agree
<1>2. \A i \in 1..m : hidden[i] \in Entry
  OBVIOUS
<1>3. /\ Len(before) = n /\ \A i \in 1..n : before[i] = hidden[i]
  <2>1. \A i \in 1..n : hidden[i] \in Entry
    BY <1>1, <1>2
  <2> QED BY <1>1, <2>1, SubSeqProperties
<1>4. /\ Len(ahead) = n + 1 /\ \A i \in 1..(n + 1) : ahead[i] = hidden[i]
  <2>1. \A i \in 1..(n + 1) : hidden[i] \in Entry
    BY <1>1, <1>2
  <2> QED BY <1>1, <2>1, SubSeqProperties
<1>5. /\ rest \in Seq(Entry) /\ Len(rest) = m - n
      /\ \A j \in 1..(m - n) : rest[j] = hidden[n + j] /\ rest[j] \in Entry
  <2>1. \A i \in (n + 1)..m : hidden[i] \in Entry
    BY <1>1, <1>2
  <2>2. /\ rest \in Seq(Entry) /\ Len(rest) = IF n + 1 <= m THEN m - (n + 1) + 1 ELSE 0
        /\ \A i \in 1..(m - (n + 1) + 1) : rest[i] = hidden[n + 1 + i - 1]
    BY <1>1, <2>1, SubSeqProperties
  <2> QED BY <1>1, <2>1, <2>2
<1>6. Upto(mtp, n) = old
  BY <1>1 DEF Upto
<1> HIDE DEF before, ahead, rest
<1>7. MtpRows(before, Shifted(ahead)) = old
  <2> DEFINE shifted == [i \in 1..n |-> ahead[i + 1][1]]
  <2>1. Shifted(ahead) = shifted
    BY <1>1, <1>4 DEF Shifted
  <2>2. \A i \in 1..n : shifted[i] = hidden[i + 1][1]
    BY <1>1, <1>4
  <2> HIDE DEF shifted
  <2>3. MtpRows(before, shifted) = [i \in 1..n |-> <<before[i], shifted[i]>>]
    BY <1>3 DEF MtpRows
  <2>4. \A i \in 1..n : <<before[i], shifted[i]>> = mtp[i]
    BY <1>1, <1>3, <2>2
  <2>5. [i \in 1..n |-> <<before[i], shifted[i]>>] = old
    BY <2>4
  <2> QED BY <2>1, <2>3, <2>5
<1>8. MtpRows(rest, next) = new
  BY <1>5 DEF MtpRows
<1>9. w = old \o new
  BY <1>6, <1>7, <1>8 DEF MtpWrite, before, ahead, rest, m
<1>10. old \in Seq(MtpEntry) /\ Len(old) = n
  <2>1. \A i \in 1..n : mtp[i] \in MtpEntry
    BY <1>1
  <2> QED BY <2>1
<1>11. new \in Seq(MtpEntry) /\ Len(new) = m - n
  <2>1. m - n \in Nat /\ \A j \in 1..(m - n) : next[j] \in Token
    BY <1>1
  <2>2. \A j \in 1..(m - n) : <<rest[j], next[j]>> \in MtpEntry
    BY <1>5, <2>1 DEF MtpEntry
  <2> HIDE DEF m
  <2> QED BY <2>1, <2>2
<1>12. \A i \in 1..n : old[i] = mtp[i]
  OBVIOUS
<1>13. \A j \in 1..(m - n) : new[j] = <<hidden[n + j], next[j]>>
  BY <1>5
<1> HIDE DEF old, new, m
<1>14. /\ old \o new \in Seq(MtpEntry) /\ Len(old \o new) = Len(old) + Len(new)
       /\ \A i \in 1..(Len(old) + Len(new)) :
            (old \o new)[i] = IF i <= Len(old) THEN old[i] ELSE new[i - Len(old)]
  BY <1>10, <1>11, ConcatProperties, Zenon
<1>15. /\ w \in Seq(MtpEntry) /\ Len(w) = m
       /\ \A i \in 1..m : w[i] = IF i <= n THEN old[i] ELSE new[i - n]
  <2>1. n + (m - n) = m
    BY <1>1
  <2> QED BY <1>9, <1>10, <1>11, <1>14, <2>1
<1>16. \A i \in 1..n : w[i] = mtp[i]
  BY <1>1, <1>12, <1>15
<1>17. ASSUME NEW j \in 1..(m - n)
       PROVE  w[n + j] = <<hidden[n + j], next[j]>>
  <2>1. n + j \in 1..m /\ ~ (n + j <= n) /\ (n + j) - n = j
    BY <1>1
  <2> QED BY <1>13, <1>15, <2>1
<1> QED BY <1>15, <1>16, <1>17 DEF m, Extends

(* Rows of proposed drafts behind them change nothing.                     *)
LEMMA ScrapBehind ==
  ASSUME NEW v \in Seq(MtpEntry), NEW k \in Int
  PROVE  /\ v \o Scrap(k) \in Seq(MtpEntry) /\ Len(v \o Scrap(k)) >= Len(v)
         /\ \A i \in 1..Len(v) : (v \o Scrap(k))[i] = v[i]
<1>1. Scrap(k) \in Seq(MtpEntry)
  <2>1. Garbage \in MtpEntry
    BY DEF MtpEntry
  <2>2. CASE k \in Nat
    BY <2>1, <2>2 DEF Scrap
  <2>3. CASE k \notin Nat
    <3>1. 1..k = 1..0
      BY <2>3
    <3>2. Scrap(k) = [i \in 1..0 |-> Garbage]
      BY <3>1 DEF Scrap
    <3>3. [i \in 1..0 |-> Garbage] \in Seq(MtpEntry)
      BY <2>1
    <3> QED BY <3>2, <3>3
  <2> QED BY <2>2, <2>3
<1>2. Len(Scrap(k)) \in Nat /\ Len(v) \in Nat
  BY <1>1
<1>3. /\ v \o Scrap(k) \in Seq(MtpEntry) /\ Len(v \o Scrap(k)) = Len(v) + Len(Scrap(k))
      /\ \A i \in 1..(Len(v) + Len(Scrap(k))) :
           (v \o Scrap(k))[i] = IF i <= Len(v) THEN v[i] ELSE Scrap(k)[i - Len(v)]
  BY <1>1, ConcatProperties, Zenon
<1> DEFINE c == v \o Scrap(k)
<1> HIDE DEF c
<1>4. /\ c \in Seq(MtpEntry) /\ Len(c) >= Len(v) /\ \A i \in 1..Len(v) : c[i] = v[i]
  BY <1>2, <1>3 DEF c
<1> QED BY <1>4 DEF c

(* Columns and rows of one record agree.                                   *)
LEMMA RowsAgree ==
  ASSUME NEW s, NEW v, NEW hidden, NEW n \in Nat, NEW m \in Nat, n < m,
         RowsFollow(v, s, n), Exactly(hidden, s, m)
  PROVE  Agree(v, n, hidden)
<1> SUFFICES ASSUME NEW i \in 1..n PROVE v[i] = <<hidden[i], hidden[i + 1][1]>>
  BY DEF Agree, RowsFollow
<1>1. i \in 1..m /\ i + 1 \in 1..m
  OBVIOUS
<1>2. /\ hidden[i] = <<s.ledger[i], s.positions[i]>>
      /\ hidden[i + 1] = <<s.ledger[i + 1], s.positions[i + 1]>>
  BY <1>1 DEF Exactly, Follows
<1>3. v[i] = << <<s.ledger[i], s.positions[i]>>, s.ledger[i + 1] >>
  BY DEF RowsFollow, Row
<1>4. hidden[i + 1][1] = s.ledger[i + 1]
  BY <1>2
<1> QED BY <1>2, <1>3, <1>4

(* Rows up to the last column, for a record that knows the next token.     *)
LEMMA WrittenRows ==
  ASSUME NEW s, NEW t, NEW v, NEW hidden, NEW n \in Nat, NEW m \in Nat, n < m,
         RowsFollow(v, s, n), Exactly(hidden, s, m), Continues(t, s, m),
         NEW next \in Seq(Token), Len(next) = m - n,
         \A j \in 1..(m - n) : next[j] = t.ledger[n + j + 1]
  PROVE  RowsFollow(MtpWrite(v, n, hidden, next), t, m)
<1> DEFINE w == MtpWrite(v, n, hidden, next)
<1>1. /\ v \in Seq(MtpEntry) /\ Len(v) >= n /\ hidden \in Seq(Entry) /\ Len(hidden) = m
  BY DEF RowsFollow, Exactly, Follows
<1>2. Agree(v, n, hidden)
  BY RowsAgree
<1>3. /\ w \in Seq(MtpEntry) /\ Len(w) = m
      /\ \A i \in 1..n : w[i] = v[i]
      /\ \A j \in 1..(m - n) : w[n + j] = <<hidden[n + j], next[j]>>
  <2>1. n < Len(hidden) /\ Len(next) = Len(hidden) - n
    BY <1>1
  <2>2. Extends(w, v, n, hidden, next)
    BY <1>1, <1>2, <2>1, MtpWriteRows
  <2> HIDE DEF w
  <2> QED BY <1>1, <2>2 DEF Extends
<1> HIDE DEF w
<1>4. ASSUME NEW i \in 1..m
      PROVE  w[i] = Row(t, i)
  <2>1. CASE i <= n
    <3>1. i \in 1..n /\ i + 1 \in 1..m
      BY <2>1
    <3>2. w[i] = << <<s.ledger[i], s.positions[i]>>, s.ledger[i + 1] >>
      BY <1>3, <3>1 DEF RowsFollow, Row
    <3>3. t.ledger[i] = s.ledger[i] /\ t.positions[i] = s.positions[i]
          /\ t.ledger[i + 1] = s.ledger[i + 1]
      BY <3>1 DEF Continues
    <3> QED BY <3>2, <3>3 DEF Row
  <2>2. CASE ~ (i <= n)
    <3> DEFINE j == i - n
    <3>1. j \in 1..(m - n) /\ n + j = i
      BY <2>2
    <3> HIDE DEF j
    <3>2. w[i] = <<hidden[i], next[j]>> /\ next[j] = t.ledger[i + 1]
      BY <1>3, <3>1
    <3>3. hidden[i] = <<s.ledger[i], s.positions[i]>>
      BY DEF Exactly, Follows
    <3>4. t.ledger[i] = s.ledger[i] /\ t.positions[i] = s.positions[i]
      BY DEF Continues
    <3> QED BY <3>2, <3>3, <3>4 DEF Row
  <2> QED BY <2>1, <2>2
<1>5. RowsFollow(w, t, m)
  BY <1>3, <1>4 DEF RowsFollow
<1> QED BY <1>5 DEF w

(* Drafts behind them.                                                     *)
LEMMA RowsScrap ==
  ASSUME NEW v, NEW t, NEW n \in Nat, RowsFollow(v, t, n), NEW k \in Int
  PROVE  RowsFollow(v \o Scrap(k), t, n)
<1>1. v \in Seq(MtpEntry) /\ Len(v) >= n /\ Len(v) \in Nat
  BY DEF RowsFollow
<1> DEFINE c == v \o Scrap(k)
<1>2. c \in Seq(MtpEntry) /\ Len(c) >= Len(v) /\ \A i \in 1..Len(v) : c[i] = v[i]
  BY <1>1, ScrapBehind
<1> HIDE DEF c
<1>3. Len(c) \in Nat
  BY <1>2
<1>4. RowsFollow(c, t, n)
  BY <1>1, <1>2, <1>3 DEF RowsFollow
<1> QED BY <1>4 DEF c

(* Rows of a record that continues another one, and fewer of them.         *)
LEMMA RowsContinue ==
  ASSUME NEW v, NEW s, NEW t, NEW n \in Nat, NEW m \in 0..n, RowsFollow(v, s, n),
         Continues(t, s, m + 1)
  PROVE  RowsFollow(v, t, m)
<1>1. v \in Seq(MtpEntry) /\ Len(v) >= m
  BY DEF RowsFollow
<1>2. ASSUME NEW i \in 1..m
      PROVE  v[i] = Row(t, i)
  <2>1. i \in 1..n /\ i \in 1..(m + 1) /\ i + 1 \in 1..(m + 1)
    OBVIOUS
  <2>2. v[i] = Row(s, i)
    BY <2>1 DEF RowsFollow
  <2>3. t.ledger[i] = s.ledger[i] /\ t.positions[i] = s.positions[i]
        /\ t.ledger[i + 1] = s.ledger[i + 1]
    BY <2>1 DEF Continues
  <2> QED BY <2>2, <2>3 DEF Row
<1> QED BY <1>1, <1>2 DEF RowsFollow

(* The next tokens of a chunk: those of the prompt, then the sampled one.  *)
ChunkNext(st, token) ==
    LET next == SubSeq(st.prompt, st.cursor + 2, Min({ChunkEnd(st) + 1, Len(st.prompt)}))
    IN  IF Samples(st) THEN Append(next, token) ELSE next

(* They are as many as its columns.                                        *)
LEMMA ChunkNextTokens ==
  ASSUME NEW st \in PrefillRecords, NEW token \in Tokens, st.cursor < Len(st.prompt),
         st.capture <= Len(st.prompt)
  PROVE  LET n == ChunkEnd(st) - st.cursor
             u == ChunkNext(st, token)
         IN  /\ u \in Seq(Token) /\ Len(u) = n
             /\ \A j \in 1..n : u[j] = IF st.cursor + j + 1 <= Len(st.prompt)
                                         THEN st.prompt[st.cursor + j + 1] ELSE token
<1> DEFINE c == st.cursor
           k == Len(st.prompt)
           n == ChunkEnd(st)
           h == Min({n + 1, k})
           next == SubSeq(st.prompt, c + 2, h)
           u == ChunkNext(st, token)
<1>1. st.prompt \in Seq(Token) /\ c \in Nat /\ k \in Nat /\ c < k /\ token \in Token
  BY DEF PrefillRecords, Token
<1>2. n \in Nat /\ c < n /\ n <= k
  BY <1>1, ChunkEndBounds
<1>3. h = IF n < k THEN n + 1 ELSE k
  <2> HIDE DEF n
  <2>1. n + 1 \in Nat /\ k \in Nat
    BY <1>1, <1>2
  <2>2. /\ h \in Nat /\ h <= n + 1 /\ h <= k
        /\ \A i \in Int : i <= n + 1 /\ i <= k => i <= h
    BY <2>1, LesserNat
  <2> HIDE DEF h, k
  <2>3. CASE n < k
    <3>1. n + 1 <= h
      BY <2>1, <2>2, <2>3, <1>2
    <3> QED BY <2>1, <2>2, <2>3, <3>1, <1>2
  <2>4. CASE ~ (n < k)
    <3>1. k <= h
      BY <2>1, <2>2, <2>4, <1>2
    <3> QED BY <2>1, <2>2, <2>4, <3>1, <1>2
  <2> QED BY <2>3, <2>4
<1>4. Samples(st) <=> n = k
  BY DEF Samples
<1> HIDE DEF h, n
<1>5. h \in Nat /\ h <= k /\ c + 1 <= h
  BY <1>1, <1>2, <1>3
<1>6. /\ next \in Seq(Token) /\ Len(next) = h - c - 1
      /\ \A i \in 1..(h - c - 1) : next[i] = st.prompt[c + 1 + i]
  <2>1. \A i \in (c + 2)..h : st.prompt[i] \in Token
    BY <1>1, <1>5
  <2>2. /\ next \in Seq(Token)
        /\ Len(next) = IF c + 2 <= h THEN h - (c + 2) + 1 ELSE 0
        /\ \A i \in 1..(h - (c + 2) + 1) : next[i] = st.prompt[c + 2 + i - 1]
    <3>1. c + 2 \in Int /\ h \in Int
      BY <1>1, <1>5
    <3> QED BY <2>1, <3>1, SubSeqProperties
  <2>3. h - (c + 2) + 1 = h - c - 1 /\ (~ (c + 2 <= h) => h - c - 1 = 0)
    BY <1>1, <1>5
  <2>4. \A i \in 1..(h - c - 1) : c + 2 + i - 1 = c + 1 + i
    BY <1>1, <1>5
  <2> HIDE DEF next
  <2> QED BY <2>2, <2>3, <2>4
<1>7. u = IF Samples(st) THEN Append(next, token) ELSE next
  BY DEF ChunkNext, n, h
<1> HIDE DEF next, u
<1>8. CASE n < k
  <2>1. u = next /\ h = n + 1
    BY <1>1, <1>2, <1>3, <1>4, <1>7, <1>8
  <2>2. Len(u) = n - c /\ \A j \in 1..(n - c) : u[j] = st.prompt[c + j + 1] /\ c + j + 1 <= k
    BY <1>1, <1>2, <1>6, <1>8, <2>1
  <2> QED BY <1>6, <2>1, <2>2 DEF n, u
<1>9. CASE n = k
  <2>1. u = Append(next, token) /\ h = k
    BY <1>1, <1>2, <1>3, <1>4, <1>7, <1>9
  <2>2. /\ u \in Seq(Token) /\ Len(u) = Len(next) + 1
        /\ \A i \in 1..Len(next) : u[i] = next[i]
        /\ u[Len(next) + 1] = token
    BY <1>1, <1>6, <2>1, AppendProperties
  <2>3. Len(u) = n - c
    BY <1>1, <1>2, <1>6, <1>9, <2>1, <2>2
  <2>4. ASSUME NEW j \in 1..(n - c)
        PROVE  u[j] = IF c + j + 1 <= k THEN st.prompt[c + j + 1] ELSE token
    <3>1. CASE c + j + 1 <= k
      BY <1>1, <1>2, <1>6, <1>9, <2>1, <2>2, <3>1
    <3>2. CASE ~ (c + j + 1 <= k)
      <4>1. j = Len(next) + 1
        BY <1>1, <1>2, <1>6, <1>9, <2>1, <3>2
      <4> QED BY <2>2, <3>2, <4>1
    <3> QED BY <3>1, <3>2
  <2> QED BY <2>2, <2>3, <2>4 DEF n, u
<1> QED BY <1>1, <1>2, <1>8, <1>9

(* What a chunk and the end of the prompt say of the MTP cache.            *)
LEMMA PrefilledPace ==
  ASSUME NEW s \in SequenceRecords, NEW st, NEW token, Backend = "Mtp"
  PROVE  /\ PrefilledSequence(s, st).mtp_kv_valid = ChunkEnd(st)
         /\ FinishedSequence(s, st, token).mtp_kv_valid = ChunkEnd(st)
<1> DEFINE n == ChunkEnd(st)
           f == PrefilledSequence(s, st)
           g == FinishedSequence(s, st, token)
           c == IF st.capture # 0 THEN [valid |-> TRUE, kind |-> st.kind, frontier |-> st.capture]
                                  ELSE f.rewrite_checkpoint
           ledger == Append(f.ledger, token)
           positions == Append(f.positions, Len(st.prompt) + s.rope_delta)
<1>1. f = [s EXCEPT !.text_kv_valid = n, !.mtp_kv_valid = n]
      \/ f = [s EXCEPT !.text_kv_valid = n, !.mtp_kv_valid = n,
                       !.dflash_context_frontier = s.dflash_context_frontier]
  BY DEF PrefilledSequence
<1>2. g = [f EXCEPT !.ledger = ledger, !.positions = positions, !.mtp_draft_count = st.extent,
                    !.tail_hidden_valid = TRUE, !.rewrite_checkpoint = c]
  BY DEF FinishedSequence
<1> HIDE DEF f, g, n, c, ledger, positions
<1>3. f.mtp_kv_valid = n /\ DOMAIN f = DOMAIN s
  BY <1>1 DEF SequenceRecords
<1>4. "mtp_kv_valid" \in DOMAIN f
  BY <1>3 DEF SequenceRecords
<1>5. g.mtp_kv_valid = n
  BY <1>2, <1>3, <1>4
<1> QED BY <1>3, <1>5 DEF f, g, n

(* The MTP rows a chunk writes.                                            *)
LEMMA ChunkMtp ==
  ASSUME NEW d, DOMAIN d = DeviceFields, NEW st, NEW token, Backend = "Mtp",
         NEW e, e = ChunkDevice(d, st, token)
  PROVE  e.mtp = MtpWrite(d.mtp, st.cursor, e.linear, ChunkNext(st, token))
                   \o Scrap(IF Samples(st) THEN Max({st.extent - 1, 0}) ELSE 0)
<1> DEFINE columns == ChunkColumns(d, st)
           context == Context(d.linear, st.cursor) \o columns
           next == SubSeq(st.prompt, st.cursor + 2, Min({ChunkEnd(st) + 1, Len(st.prompt)}))
           kv == Upto(d.kv, st.cursor) \o columns
           tail == IF Samples(st) THEN context ELSE d.tail
           mtp == MtpPrompt(d.mtp, st.cursor, context, next, st, token)
           lc == IF ChunkEnd(st) = st.capture THEN context ELSE d.linearCheckpoint
           hc == IF ChunkEnd(st) = st.capture THEN context ELSE d.hiddenCheckpoint
<1>1. e = [d EXCEPT !.linear = context, !.kv = kv, !.tail = tail, !.mtp = mtp,
                    !.linearCheckpoint = lc, !.hiddenCheckpoint = hc]
  BY DEF ChunkDevice
<1>2. mtp = MtpWrite(d.mtp, st.cursor, context, ChunkNext(st, token))
              \o Scrap(IF Samples(st) THEN Max({st.extent - 1, 0}) ELSE 0)
  BY DEF MtpPrompt, ChunkNext
<1> HIDE DEF context, kv, tail, mtp, lc, hc
<1>3. e.linear = context /\ e.mtp = mtp
  BY <1>1 DEF DeviceFields
<1> QED BY <1>2, <1>3

(* The number of proposed drafts' rows.                                    *)
LEMMA ExtentRows ==
  ASSUME NEW st \in PrefillRecords
  PROVE  (IF Samples(st) THEN Max({st.extent - 1, 0}) ELSE 0) \in Int
<1>1. st.extent \in Nat
  BY DEF PrefillRecords
<1>2. Max({st.extent - 1, 0}) \in Int
  <2>1. CASE st.extent = 0
    <3>1. st.extent - 1 \in Int /\ st.extent - 1 <= 0
      BY <2>1
    <3> QED BY <3>1, MaxOfTwo
  <2>2. CASE st.extent # 0
    <3> DEFINE a == st.extent - 1
    <3>1. a \in Nat /\ 0 \in Nat
      BY <1>1, <2>2
    <3> HIDE DEF a
    <3>2. Max({a, 0}) \in Nat
      BY <3>1, GreaterNat, Zenon
    <3> QED BY <3>2 DEF a
  <2> QED BY <2>1, <2>2
<1> QED BY <1>2

(* A step of a staged prefill leaves the rows of what it computed.         *)
LEMMA PrefillRows ==
  ASSUME Backend = "Mtp",
         NEW s \in SequenceRecords, NEW st \in PrefillRecords, NEW d, NEW token \in Tokens,
         NEW remaining, Staged(options, s, st, remaining),
         DeviceTyped(d), CheckpointHolds(s, d), Resident(s, d), StagedHolds(s, st, d),
         st.cursor = Len(st.prompt) => RowsFollow(d.mtp, s, Len(st.prompt) - 1),
         st.cursor < Len(st.prompt) => RowsFollow(BridgeMtp(d, st).mtp, s, st.cursor),
         NEW e, e = IF st.cursor = Len(st.prompt) THEN ExactHitDevice(d, st, token)
                                                  ELSE ChunkDevice(BridgeMtp(d, st), st, token)
  PROVE  MtpHolds(IF Samples(st) THEN FinishedSequence(s, st, token) ELSE PrefilledSequence(s, st),
                  StagedRequest(st, token, remaining), e)
<1> DEFINE n == ChunkEnd(st)
           k == Len(st.prompt)
           c == st.cursor
           f == PrefilledSequence(s, st)
           g == FinishedSequence(s, st, token)
           t == IF Samples(st) THEN g ELSE f
           q == StagedRequest(st, token, remaining)
           extra == IF Samples(st) THEN Max({st.extent - 1, 0}) ELSE 0
<1>1. /\ s.ledger = st.prompt /\ Len(s.positions) = k /\ k \in Nat /\ k > 0
      /\ c = s.text_kv_valid /\ c <= k /\ st.capture <= k /\ c \in Nat
      /\ s.ledger \in Seq(Token) /\ s.positions \in Seq(Int) /\ token \in Token
  BY DEF Staged, PrefillRecords, SequenceRecords, Token
<1>2. n \in c..k /\ n \in Nat /\ (Samples(st) <=> n = k) /\ (c < k => c < n)
  BY <1>1, ChunkEndBounds DEF Samples
<1>3. Exactly(e.linear, s, n)
  BY <1>1, PrefillDevice
<1>4. /\ f.ledger = s.ledger /\ f.positions = s.positions
      /\ g.ledger = Append(s.ledger, token)
      /\ g.positions = Append(s.positions, Len(st.prompt) + s.rope_delta)
  BY PrefilledFields
<1>5. f.mtp_kv_valid = n /\ g.mtp_kv_valid = n
  BY PrefilledPace
<1>6. extra \in Int
  BY ExtentRows
<1> HIDE DEF extra, f, g, n
<1>7. /\ Continues(g, s, k) /\ g.ledger[k + 1] = token
  <2>1. /\ \A i \in 1..k : g.ledger[i] = s.ledger[i]
        /\ g.ledger[k + 1] = token
    BY <1>1, <1>4
  <2>2. s.rope_delta \in Int /\ k + s.rope_delta \in Int
    BY <1>1 DEF SequenceRecords
  <2>3. \A i \in 1..k : g.positions[i] = s.positions[i]
    BY <1>1, <1>4, <2>2
  <2> QED BY <2>1, <2>3 DEF Continues
<1>8. Continues(t, s, n) /\ t.mtp_kv_valid = n
      /\ \A i \in 1..n : t.ledger[i + 1] = IF i + 1 <= k THEN st.prompt[i + 1] ELSE token
  <2>1. CASE Samples(st)
    <3>1. t = g /\ n = k
      BY <1>2, <2>1
    <3>2. ASSUME NEW i \in 1..k
          PROVE  g.ledger[i + 1] = IF i + 1 <= k THEN st.prompt[i + 1] ELSE token
      <4>1. CASE i + 1 <= k
        <5>1. i + 1 \in 1..k
          BY <1>1, <4>1
        <5> QED BY <1>1, <1>7, <4>1, <5>1 DEF Continues
      <4>2. CASE ~ (i + 1 <= k)
        <5>1. i + 1 = k + 1
          BY <1>1, <4>2
        <5> QED BY <1>7, <4>2, <5>1
      <4> QED BY <4>1, <4>2
    <3> QED BY <1>5, <1>7, <3>1, <3>2
  <2>2. CASE ~ Samples(st)
    <3>1. t = f /\ n < k
      BY <1>1, <1>2, <2>2
    <3>2. \A i \in 1..n : i + 1 <= k
      BY <1>1, <1>2, <3>1
    <3> QED BY <1>1, <1>4, <1>5, <3>1, <3>2 DEF Continues
  <2> QED BY <2>1, <2>2
<1> HIDE DEF t
<1>9. RowsFollow(e.mtp, t, n)
  <2>1. CASE c = k
    <3>1. n = k /\ Samples(st) /\ k - 1 \in Nat /\ k - 1 < k
      BY <1>1, <1>2, <2>1
    <3>2. Exactly(d.tail, s, k)
      BY <2>1 DEF StagedHolds
    <3> DEFINE next == Append(<< >>, token)
               w == MtpWrite(d.mtp, k - 1, d.tail, next)
    <3>3. Context(d.tail, k) = d.tail
      BY <3>2 DEF Context, Exactly
    <3>4. e.mtp = w \o Scrap(extra)
      <4> DEFINE mtp == MtpPrompt(d.mtp, k - 1, Context(d.tail, k), << >>, st, token)
      <4>1. e = [d EXCEPT !.mtp = mtp] /\ DOMAIN d = DeviceFields
        BY <2>1 DEF ExactHitDevice, DeviceTyped
      <4>2. mtp = w \o Scrap(extra)
        BY <3>1, <3>3 DEF MtpPrompt, extra
      <4> HIDE DEF mtp, w
      <4>3. e.mtp = mtp
        BY <4>1 DEF DeviceFields
      <4> QED BY <4>2, <4>3
    <3>5. next \in Seq(Token) /\ Len(next) = 1 /\ next[1] = token
      BY <1>1
    <3>6. \A j \in 1..(k - (k - 1)) : next[j] = t.ledger[(k - 1) + j + 1]
      <4>1. t.ledger[k + 1] = token
        <5>1. k \in 1..n /\ ~ (k + 1 <= k)
          BY <1>1, <3>1
        <5> QED BY <1>8, <5>1
      <4>2. \A j \in 1..(k - (k - 1)) : j = 1 /\ (k - 1) + j + 1 = k + 1
        BY <1>1
      <4> QED BY <3>5, <4>1, <4>2
    <3>7. RowsFollow(d.mtp, s, k - 1) /\ Len(next) = k - (k - 1)
      BY <1>1, <2>1, <3>5
    <3> HIDE DEF next
    <3>8. RowsFollow(w, t, k)
      BY <1>1, <1>8, <3>1, <3>2, <3>5, <3>6, <3>7, WrittenRows
    <3> HIDE DEF w
    <3> QED BY <1>1, <1>6, <3>1, <3>4, <3>8, RowsScrap
  <2>2. CASE c # k
    <3> DEFINE b == BridgeMtp(d, st)
               next == ChunkNext(st, token)
               w == MtpWrite(b.mtp, c, e.linear, next)
    <3>1. c < k /\ c < n
      BY <1>1, <1>2, <2>2
    <3>2. DOMAIN b = DeviceFields
      BY BridgeFields DEF DeviceTyped
    <3>3. e = ChunkDevice(b, st, token) /\ RowsFollow(b.mtp, s, c)
      BY <2>2, <3>1
    <3> HIDE DEF b
    <3>4. e.mtp = w \o Scrap(extra)
      <4>1. e.mtp = MtpWrite(b.mtp, st.cursor, e.linear, ChunkNext(st, token))
                      \o Scrap(IF Samples(st) THEN Max({st.extent - 1, 0}) ELSE 0)
        BY <3>2, <3>3, ChunkMtp, Zenon
      <4> QED BY <4>1, Zenon DEF w, next, extra
    <3>5. /\ next \in Seq(Token) /\ Len(next) = n - c
          /\ \A j \in 1..(n - c) : next[j] = IF c + j + 1 <= k THEN st.prompt[c + j + 1] ELSE token
      BY <1>1, <3>1, ChunkNextTokens DEF n
    <3> HIDE DEF next
    <3>6. ASSUME NEW j \in 1..(n - c)
          PROVE  next[j] = t.ledger[c + j + 1]
      <4>1. c + j \in 1..n
        BY <1>1, <1>2
      <4> QED BY <1>8, <3>5, <4>1
    <3>7. RowsFollow(w, t, n)
      BY <1>1, <1>2, <1>3, <1>8, <3>1, <3>3, <3>5, <3>6, WrittenRows
    <3> HIDE DEF w
    <3> QED BY <1>2, <1>6, <3>4, <3>7, RowsScrap
  <2> QED BY <2>1, <2>2
<1>10. /\ q.lifecycle = "Prefilling" => q.prefill.bridge = "none"
       /\ q.pending.kind # "speculative"
  <2>1. NoPending.kind = "none" /\ [NoPending EXCEPT !.kind = "begin",
          !.prompt_tokens = Len(st.prompt), !.tokens = <<token>>].kind = "begin"
    BY DEF NoPending
  <2>2. [st EXCEPT !.cursor = ChunkEnd(st), !.bridge = "none"].bridge = "none"
    BY DEF PrefillRecords
  <2>3. CASE Samples(st)
    <3>1. q.lifecycle = "Pending" /\ q.pending.kind = "begin"
      BY <2>1, <2>3 DEF StagedRequest
    <3> QED BY <3>1
  <2>4. CASE ~ Samples(st)
    <3>1. q.pending.kind = "none" /\ q.prefill.bridge = "none"
      BY <2>1, <2>2, <2>4 DEF StagedRequest
    <3> QED BY <3>1
  <2> QED BY <2>3, <2>4
<1> HIDE DEF q
<1>11. MtpHolds(t, q, e)
  BY <1>8, <1>9, <1>10 DEF MtpHolds, RowsFollow
<1> QED BY <1>11 DEF t, q, f, g

(* A start leaves the MTP rows where they are.                             *)
LEMMA StartDeviceMtp ==
  ASSUME NEW d, DOMAIN d = DeviceFields, NEW p, NEW plan,
         plan.path \in {"reset", "append", "restore"}
  PROVE  StartDevice(d, p, plan).mtp = d.mtp
<1> DEFINE e == StartDevice(d, p, plan)
           draft == IF Backend = "DFlash" THEN d.draftCheckpoint ELSE d.draft
           tail == IF plan.base = Len(p.tokens) THEN d.hiddenCheckpoint ELSE d.tail
<1>1. \/ e = [d EXCEPT !.linear = << >>]
      \/ e = d
      \/ e = [d EXCEPT !.linear = d.linearCheckpoint, !.draft = draft, !.tail = tail]
  BY DEF StartDevice
<1> HIDE DEF e, draft, tail
<1>2. e.mtp = d.mtp
  BY <1>1 DEF DeviceFields
<1> QED BY <1>2 DEF e

(* A prompt that continues a kept lane finds the rows before its first     *)
(* column, the last of them rewritten for the token that now follows.      *)
LEMMA StartRows ==
  ASSUME Backend = "Mtp", options \in Setups, NEW s, NEW q, LaneOK(options, s, q),
         q.lifecycle \in {"Empty", "Complete"}, NEW d, Holds(s, q, d), MtpHolds(s, q, d),
         NEW p \in Prompts, NEW allowed \in BOOLEAN, NEW plan, plan = ReusePath(p, s, allowed),
         NEW t, t = StartSequence(s, p, plan), NEW st, st = StartPrefill(s, p, plan),
         NEW e, e = StartDevice(d, p, plan)
  PROVE  /\ st.cursor = Len(st.prompt) => RowsFollow(e.mtp, t, Len(st.prompt) - 1)
         /\ st.cursor < Len(st.prompt) => RowsFollow(BridgeMtp(e, st).mtp, t, st.cursor)
<1> DEFINE n == plan.base
           k == Len(p.tokens)
<1>1. /\ s \in SequenceRecords /\ s.text_kv_valid \in Nat /\ s.mtp_kv_valid \in Nat
      /\ p.tokens \in Seq(Token) /\ k \in Nat \ {0}
  BY OptionsFacts DEF LaneOK, SequenceRecords
<1>2. /\ n \in 0..k /\ n \in Nat /\ plan.path \in {"reset", "append", "restore"}
      /\ plan.path = "reset" => n = 0
      /\ plan.path # "reset" => /\ q.lifecycle = "Complete"
                                /\ n > 0 /\ n <= s.text_kv_valid
                                /\ PrefixMatches(p, s, n)
      /\ plan.path = "append" => n = s.execution_frontier
      /\ plan.path = "restore" => s.rewrite_checkpoint.valid /\ n = s.rewrite_checkpoint.frontier
  BY <1>1, PlanFacts
<1>3. /\ t.ledger = p.tokens
      /\ \A i \in 1..k : t.positions[i] = PromptPosition(p.tokens, i)
  BY StartFields
<1>4. /\ st.prompt = p.tokens /\ st.cursor = n /\ st.base = n
      /\ st.bridge = BridgeMode(p, plan) /\ st.restored = (plan.path = "restore")
  BY DEF StartPrefill
<1>5. /\ DOMAIN d = DeviceFields /\ CheckpointHolds(s, d)
      /\ (q.lifecycle = "Complete" => Exactly(d.tail, s, s.text_kv_valid))
  BY DEF Holds, DeviceTyped
<1>6. StartWrote(e, d, p, plan) /\ DOMAIN e = DeviceFields
  BY <1>2, <1>5, StartDeviceFields DEF StartWrote
<1>7. e.mtp = d.mtp /\ d.mtp \in Seq(MtpEntry)
  BY <1>2, <1>5, StartDeviceMtp DEF MtpHolds
<1>8. CASE plan.path = "reset"
  <2>1. n = 0 /\ st.cursor < Len(st.prompt) /\ st.cursor # Len(st.prompt)
    BY <1>1, <1>2, <1>4, <1>8
  <2>2. BridgeMtp(e, st) = e
    BY <1>4, <1>8 DEF BridgeMode, BridgeMtp
  <2>3. RowsFollow(d.mtp, t, 0)
    BY <1>7 DEF RowsFollow
  <2> QED BY <1>4, <1>7, <2>1, <2>2, <2>3
<1>9. CASE plan.path # "reset"
  <2>1. Continues(t, s, n)
    <3>1. \A i \in 1..n : p.tokens[i] = s.ledger[i] /\ PromptPosition(p.tokens, i) = s.positions[i]
      BY <1>2, <1>9 DEF PrefixMatches
    <3>2. \A i \in 1..n : i \in 1..k
      BY <1>1, <1>2
    <3> QED BY <1>3, <3>1, <3>2 DEF Continues
  <2>2. /\ q.lifecycle = "Complete" /\ n > 0 /\ n - 1 \in Nat /\ (n - 1) + 1 = n /\ n - 1 < n
        /\ n <= s.text_kv_valid
    BY <1>2, <1>9
  <2>3. s.mtp_kv_valid = s.text_kv_valid /\ s.execution_frontier = s.text_kv_valid
    BY <2>2 DEF LaneOK, Kept, Settled, Backend
  <2>4. RowsFollow(d.mtp, s, s.mtp_kv_valid)
    BY <2>2 DEF MtpHolds
  <2>5. RowsFollow(d.mtp, t, n - 1)
    <3> DEFINE m == n - 1
    <3>1. m \in 0..s.mtp_kv_valid /\ Continues(t, s, m + 1)
      BY <1>1, <2>1, <2>2, <2>3
    <3> HIDE DEF m
    <3>2. RowsFollow(d.mtp, t, m)
      BY <1>1, <2>4, <3>1, RowsContinue
    <3> QED BY <3>2 DEF m
  <2>6. CASE n = k
    <3>1. ~ (st.cursor < Len(st.prompt)) /\ Len(st.prompt) - 1 = n - 1
      BY <1>1, <1>2, <1>4, <2>6
    <3> QED BY <1>7, <2>5, <3>1
  <2>7. CASE n # k
    <3> DEFINE hidden == IF st.restored THEN e.hiddenCheckpoint ELSE e.tail
               next == <<st.prompt[st.base + 1]>>
    <3>1. n < k /\ st.cursor # Len(st.prompt)
      BY <1>1, <1>2, <1>4, <2>7
    <3>2. Exactly(hidden, t, n)
      <4>1. CASE plan.path = "restore"
        <5>1. hidden = d.hiddenCheckpoint /\ Exactly(d.hiddenCheckpoint, s, n)
          BY <1>2, <1>4, <1>5, <1>6, <4>1 DEF StartWrote, CheckpointHolds
        <5>2. n \in 0..n
          BY <1>2
        <5> HIDE DEF hidden
        <5> QED BY <1>2, <2>1, <5>1, <5>2, ExactlyContinues
      <4>2. CASE plan.path = "append"
        <5>1. hidden = d.tail /\ Exactly(d.tail, s, n)
          BY <1>2, <1>4, <1>5, <1>6, <2>2, <2>3, <4>2 DEF StartWrote
        <5>2. n \in 0..n
          BY <1>2
        <5> HIDE DEF hidden
        <5> QED BY <1>2, <2>1, <5>1, <5>2, ExactlyContinues
      <4> QED BY <1>2, <1>9, <4>1, <4>2
    <3>3. Context(hidden, n) = hidden
      BY <3>2 DEF Context, Exactly
    <3>4. BridgeMtp(e, st).mtp = MtpWrite(d.mtp, n - 1, hidden, next)
      <4>1. st.bridge = "before suffix"
        BY <1>4, <1>9, <3>1 DEF BridgeMode
      <4> DEFINE mtp == MtpWrite(e.mtp, st.base - 1, Context(hidden, st.base), next)
      <4>2. BridgeMtp(e, st) = [e EXCEPT !.mtp = mtp]
        BY <4>1 DEF BridgeMtp
      <4>3. mtp = MtpWrite(d.mtp, n - 1, hidden, next)
        BY <1>4, <1>7, <3>3
      <4> HIDE DEF mtp, hidden, next
      <4>4. BridgeMtp(e, st).mtp = mtp
        BY <1>6, <4>2 DEF DeviceFields
      <4> QED BY <4>3, <4>4
    <3>5. st.prompt[st.base + 1] = t.ledger[n + 1] /\ t.ledger[n + 1] \in Token
      <4>1. n + 1 \in 1..k
        BY <1>1, <1>2, <3>1
      <4> QED BY <1>1, <1>3, <1>4, <4>1
    <3>6. next \in Seq(Token) /\ Len(next) = 1 /\ next[1] = t.ledger[n + 1]
      BY <3>5
    <3> HIDE DEF hidden, next
    <3>7. \A j \in 1..(n - (n - 1)) : next[j] = t.ledger[(n - 1) + j + 1]
      <4>1. \A j \in 1..(n - (n - 1)) : j = 1 /\ (n - 1) + j + 1 = n + 1
        BY <1>2
      <4> QED BY <3>6, <4>1
    <3>8. Len(next) = n - (n - 1) /\ Continues(t, t, n)
      BY <1>2, <3>6 DEF Continues
    <3>9. RowsFollow(MtpWrite(d.mtp, n - 1, hidden, next), t, n)
      <4> DEFINE m == n - 1
      <4>1. /\ m \in Nat /\ m < n /\ RowsFollow(d.mtp, t, m) /\ Len(next) = n - m
            /\ \A j \in 1..(n - m) : next[j] = t.ledger[m + j + 1]
        BY <2>2, <2>5, <3>7, <3>8
      <4> HIDE DEF m
      <4>2. RowsFollow(MtpWrite(d.mtp, m, hidden, next), t, n)
        BY <1>2, <3>2, <3>6, <3>8, <4>1, WrittenRows
      <4> QED BY <4>2 DEF m
    <3> QED BY <1>4, <3>1, <3>4, <3>9
  <2> QED BY <2>6, <2>7
<1> QED BY <1>8, <1>9

(* The MTP rows a round writes.                                            *)
LEMMA RoundMtp ==
  ASSUME NEW s, NEW d, DOMAIN d = DeviceFields, NEW round, Backend = "Mtp",
         NEW x, x = RoundDevice(s, d, round)
  PROVE  x.mtp = MtpWrite(d.mtp, s.execution_frontier, x.tail, round.tokens)
                   \o Scrap(Min({Capacity, s.execution_frontier + round.extent + DraftWindow})
                              - s.execution_frontier - Len(round.tokens))
<1> DEFINE e == s.execution_frontier
           columns == RoundColumns(s, d, round)
           context == Context(d.linear, e) \o SubSeq(columns, 1, Len(round.tokens))
           behind == e - s.dflash_context_frontier
           kv == Upto(d.kv, e) \o columns
           linear == IF Backend = "None" THEN context ELSE d.linear
           row == IF Backend = "None" THEN d.round ELSE columns
           mtp == MtpWrite(d.mtp, e, context, round.tokens)
                    \o Scrap(Min({Capacity, e + round.extent + DraftWindow})
                               - e - Len(round.tokens))
           draft == IF Backend = "DFlash" /\ behind > 0
                      THEN DraftAppend(d.draft, s.dflash_context_frontier, Upto(d.round, behind))
                      ELSE d.draft
<1>1. x = [d EXCEPT !.kv = kv, !.tail = context, !.linear = linear, !.round = row,
                    !.mtp = mtp, !.draft = draft]
  BY DEF RoundDevice
<1> HIDE DEF context, kv, linear, row, mtp, draft
<1>2. x.tail = context /\ x.mtp = mtp
  BY <1>1 DEF DeviceFields
<1> QED BY <1>2 DEF mtp

(* A round leaves the valid rows alone and its own behind them.            *)
LEMMA RoundRowsAfter ==
  ASSUME Backend = "Mtp", options \in Setups, NEW s, NEW q, LaneOK(options, s, q),
         q.lifecycle = "Active", NEW round, RoundFits(options, s, q.remaining, round),
         NEW d, Holds(s, q, d), MtpHolds(s, q, d)
  PROVE  MtpHolds(RoundSequence(s, round),
                  [q EXCEPT !.lifecycle = "Pending", !.pending = RoundPending(s, round)],
                  RoundDevice(s, d, round))
<1> DEFINE e == s.execution_frontier
           m == Len(round.tokens)
           t == RoundSequence(s, round)
           w == RoundPending(s, round)
           p == [q EXCEPT !.lifecycle = "Pending", !.pending = w]
           x == RoundDevice(s, d, round)
           extra == Min({Capacity, e + round.extent + DraftWindow}) - e - m
           rows == MtpWrite(d.mtp, e, x.tail, round.tokens)
<1>1. /\ s \in SequenceRecords /\ q \in RequestRecords
      /\ e \in Nat /\ s.text_kv_valid = e /\ Len(s.ledger) = e + 1 /\ s.mtp_kv_valid = e
  BY DEF LaneOK, Decoding, Settled, SequenceRecords, Backend
<1>2. /\ round.extent \in Nat /\ round.tokens \in Seq(Tokens) /\ m \in Nat /\ m > 0
      /\ Capacity \in Nat /\ DraftWindow \in Nat /\ Backend # "None"
  BY OptionsFacts DEF RoundFits
<1>3. /\ w.kind = "speculative" /\ w.tokens = round.tokens
      /\ p.lifecycle = "Pending" /\ p.pending = w
  <2>1. w.kind = "speculative" /\ w.tokens = round.tokens
    BY <1>2 DEF RoundPending
  <2> HIDE DEF w
  <2>2. p.lifecycle = "Pending" /\ p.pending = w
    BY <1>1 DEF RequestRecords
  <2> QED BY <2>1, <2>2
<1>4. Holds(t, p, x)
  BY RoundHoldsAfter
<1>5. /\ t.execution_frontier = e /\ t.ledger = s.ledger /\ t.positions = s.positions
      /\ t.rope_delta = s.rope_delta
  BY <1>1, <1>2, RoundRecord
<1>6. t.mtp_kv_valid = e
  <2>1. t = [s EXCEPT !.kv = RoundBundle(s, round)]
    BY DEF RoundSequence
  <2> HIDE DEF t
  <2>2. t.mtp_kv_valid = s.mtp_kv_valid
    BY <1>1, <2>1 DEF SequenceRecords
  <2> QED BY <1>1, <2>2
<1>7. x.mtp = rows \o Scrap(extra)
  BY RoundMtp DEF Holds, DeviceTyped
<1>8. extra \in Int
  <2>1. e + round.extent + DraftWindow \in Nat
    BY <1>1, <1>2
  <2>2. Min({Capacity, e + round.extent + DraftWindow}) \in Nat
    BY <1>2, <2>1, LesserNat
  <2> QED BY <1>1, <1>2, <2>2
<1> HIDE DEF t, p, w, x, extra
<1>9. /\ Len(x.tail) = e + m /\ x.tail \in Seq(Entry)
      /\ \A j \in 1..m : x.tail[e + j] = RoundEntry(t, round.tokens, j)
      /\ \A i \in 1..e : x.tail[i] = <<s.ledger[i], s.positions[i]>>
  <2>1. RoundHolds(t, round.tokens, x)
    BY <1>3, <1>4 DEF Holds
  <2> QED BY <1>5, <2>1 DEF RoundHolds, Follows
<1>10. /\ d.mtp \in Seq(MtpEntry) /\ Len(d.mtp) >= e
       /\ \A i \in 1..e : d.mtp[i] = Row(s, i)
  BY <1>1 DEF MtpHolds, RowsFollow
<1>11. Agree(d.mtp, e, x.tail)
  <2> SUFFICES ASSUME NEW i \in 1..e
               PROVE  d.mtp[i] = <<x.tail[i], x.tail[i + 1][1]>>
    BY <1>10 DEF Agree
  <2>1. d.mtp[i] = << <<s.ledger[i], s.positions[i]>>, s.ledger[i + 1] >>
    BY <1>10 DEF Row
  <2>2. x.tail[i + 1][1] = s.ledger[i + 1]
    <3>1. CASE i + 1 <= e
      <4>1. i + 1 \in 1..e
        BY <1>1, <3>1
      <4>2. x.tail[i + 1] = <<s.ledger[i + 1], s.positions[i + 1]>>
        BY <1>9, <4>1
      <4> QED BY <4>2
    <3>2. CASE ~ (i + 1 <= e)
      <4>1. i = e /\ 1 \in 1..m
        BY <1>1, <1>2, <3>2
      <4>2. x.tail[e + 1] = RoundEntry(t, round.tokens, 1)
        BY <1>9, <4>1
      <4>3. RoundEntry(t, round.tokens, 1)[1] = s.ledger[e + 1]
        BY <1>1, <1>5 DEF RoundEntry
      <4> QED BY <4>1, <4>2, <4>3
    <3> QED BY <3>1, <3>2
  <2>3. x.tail[i] = <<s.ledger[i], s.positions[i]>>
    BY <1>9
  <2> QED BY <2>1, <2>2, <2>3
<1>12. /\ rows \in Seq(MtpEntry) /\ Len(rows) = e + m
       /\ \A i \in 1..e : rows[i] = d.mtp[i]
       /\ \A j \in 1..m : rows[e + j] = <<x.tail[e + j], round.tokens[j]>>
  <2>1. round.tokens \in Seq(Token)
    <3>1. Tokens \subseteq Token
      BY DEF Token
    <3> QED BY <1>2, <3>1, SeqMonotonic, Zenon
  <2>2. e < Len(x.tail) /\ Len(round.tokens) = Len(x.tail) - e
    BY <1>1, <1>2, <1>9
  <2>3. Extends(rows, d.mtp, e, x.tail, round.tokens)
    BY <1>1, <1>9, <1>10, <1>11, <2>1, <2>2, MtpWriteRows
  <2> HIDE DEF rows
  <2> QED BY <1>9, <2>2, <2>3 DEF Extends
<1> HIDE DEF rows
<1>13. /\ x.mtp \in Seq(MtpEntry) /\ Len(x.mtp) >= e + m
       /\ \A i \in 1..(e + m) : x.mtp[i] = rows[i]
  <2> DEFINE c == rows \o Scrap(extra)
  <2>1. c \in Seq(MtpEntry) /\ Len(c) >= Len(rows) /\ \A i \in 1..Len(rows) : c[i] = rows[i]
    BY <1>8, <1>12, ScrapBehind
  <2>2. x.mtp = c
    BY <1>7
  <2> HIDE DEF c
  <2>3. c \in Seq(MtpEntry) /\ Len(c) >= e + m /\ \A i \in 1..(e + m) : c[i] = rows[i]
    BY <1>12, <2>1, Zenon
  <2> QED BY <2>2, <2>3, Zenon
<1>14. RowsFollow(x.mtp, t, t.mtp_kv_valid)
  <2>1. ASSUME NEW i \in 1..e
        PROVE  x.mtp[i] = Row(t, i)
    <3>1. i \in 1..(e + m)
      BY <1>1, <1>2
    <3>2. x.mtp[i] = Row(s, i)
      BY <1>10, <1>12, <1>13, <3>1
    <3> QED BY <1>5, <3>2 DEF Row
  <2>2. Len(x.mtp) >= e
    BY <1>1, <1>2, <1>13
  <2> QED BY <1>6, <1>13, <2>1, <2>2 DEF RowsFollow
<1>15. RoundRows(x.mtp, t, round.tokens)
  <2>1. ASSUME NEW j \in 1..m
        PROVE  x.mtp[e + j] = <<RoundEntry(t, round.tokens, j), round.tokens[j]>>
    <3>1. e + j \in 1..(e + m)
      BY <1>1, <1>2
    <3> QED BY <1>9, <1>12, <1>13, <3>1
  <2> QED BY <1>5, <1>13, <2>1 DEF RoundRows, m
<1>16. MtpHolds(t, p, x)
  BY <1>3, <1>13, <1>14, <1>15 DEF MtpHolds
<1> QED BY <1>16 DEF t, p, w, x

(* A verdict does not touch the MTP cache.                                 *)
LEMMA ResolvedMtp ==
  ASSUME NEW d, DOMAIN d = DeviceFields, NEW w, NEW verdict
  PROVE  ResolvedDevice(d, w, verdict).mtp = d.mtp
<1> DEFINE x == ResolvedDevice(d, w, verdict)
           kept == SubSeq(d.round, 1, verdict.kept)
           linear == d.linear \o kept
           tail == IF verdict.terminal /\ verdict.kept < Len(w.tokens)
                     THEN Context(d.linear, w.base_E) \o kept ELSE d.tail
           draft == IF Backend = "DFlash" /\ verdict.terminal
                      THEN DraftAppend(d.draft, w.base_E, kept) ELSE d.draft
<1>1. x = d \/ x = [d EXCEPT !.linear = linear, !.tail = tail, !.draft = draft]
  BY DEF ResolvedDevice
<1> HIDE DEF x, linear, tail, draft
<1>2. x.mtp = d.mtp
  BY <1>1 DEF DeviceFields
<1> QED BY <1>2 DEF x

(* The rows of the kept tokens become valid with them.                     *)
LEMMA ResolvedRows ==
  ASSUME Backend = "Mtp", options \in Setups, NEW s, NEW q, LaneOK(options, s, q),
         q.pending.kind # "none",
         NEW verdict, VerdictFits(verdict, q.pending.tokens, q.remaining),
         NEW d, Holds(s, q, d), MtpHolds(s, q, d),
         NEW t, t = ResolvedSequence(s, q.pending, verdict),
         NEW p, p = ResolvedRequest(q, verdict),
         NEW y, y = ResolvedDevice(d, q.pending, verdict)
  PROVE  MtpHolds(t, p, y)
<1> DEFINE w == q.pending
           x == Extended(s, w, verdict)
           k == verdict.kept
           e == s.execution_frontier
<1>1. /\ w.kind \in {"begin", "ordinary", "speculative"} /\ q.lifecycle = "Pending"
      /\ s \in SequenceRecords /\ q \in RequestRecords /\ e \in Nat
      /\ w.tokens \in Seq(Tokens) /\ q.remaining \in Nat
  BY DEF LaneOK, RequestRecords, PendingRecords, SequenceRecords
<1>2. x \in SequenceRecords
  BY <1>1, BeginCommitted, OrdinaryCommitted, SpeculationCommitted DEF Committed
<1>3. t.ledger = x.ledger /\ t.positions = x.positions /\ t.text_kv_valid = x.text_kv_valid
  BY <1>2, ResolvedRecord
<1>4. /\ p.lifecycle \in {"Active", "Complete"} /\ p.pending.kind = "none"
  <2>1. NoPending.kind = "none"
    BY DEF NoPending
  <2> QED BY <1>1, <2>1 DEF ResolvedRequest, RequestRecords
<1>5. t.mtp_kv_valid = t.text_kv_valid
  <2>1. LaneOK(options, t, p)
    BY ResolvedKeeps
  <2>2. Settled(options, t)
    BY <1>4, <2>1 DEF LaneOK, Decoding, Kept
  <2> QED BY <2>2 DEF Settled, Backend
<1>6. y.mtp = d.mtp
  BY ResolvedMtp DEF Holds, DeviceTyped
<1>7. /\ w.kind # "speculative" => /\ x.ledger = s.ledger /\ x.positions = s.positions
                                   /\ x.text_kv_valid = s.text_kv_valid
      /\ w.kind = "speculative" => /\ ExtendedBy(x, s, w.tokens, k)
                                   /\ x.text_kv_valid = w.base_E + k
  BY <1>1, ExtendedRecord
<1>8. d.mtp \in Seq(MtpEntry) /\ RowsFollow(d.mtp, s, s.mtp_kv_valid)
  BY <1>1 DEF MtpHolds
<1> HIDE DEF x
<1>9. CASE w.kind = "begin"
  <2>1. s.mtp_kv_valid = s.text_kv_valid
    BY <1>9 DEF LaneOK, Begun, Backend
  <2>2. RowsFollow(d.mtp, t, t.mtp_kv_valid)
    BY <1>3, <1>5, <1>7, <1>8, <1>9, <2>1 DEF RowsFollow, Row
  <2> QED BY <1>4, <1>6, <1>8, <2>2 DEF MtpHolds
<1>10. CASE w.kind = "ordinary"
  BY <1>10 DEF LaneOK, OrdinaryRound, Backend
<1>11. CASE w.kind = "speculative"
  <2>1. /\ w.base_E = e /\ s.mtp_kv_valid = e /\ Len(s.ledger) = e + 1 /\ Len(s.positions) = e + 1
    BY <1>1, <1>11 DEF LaneOK, SpeculativeRound, Decoding, Settled, Backend
  <2>2. LastPosition(s) /\ RoundRows(d.mtp, s, w.tokens)
    BY <1>1, <1>11 DEF Holds, MtpHolds
  <2>3. k \in 1..Len(w.tokens) /\ k \in Nat /\ Len(w.tokens) \in Nat
    BY <1>1 DEF VerdictFits
  <2>4. /\ Continues(x, s, e + 1)
        /\ \A j \in 1..k : RoundEntry(s, w.tokens, j) = <<x.ledger[e + j], x.positions[e + j]>>
    BY <1>1, <1>7, <1>11, <2>1, <2>2, <2>3, ExtendedColumns
  <2>5. \A j \in 1..k : x.ledger[e + j + 1] = w.tokens[j]
    <3> DEFINE cut == SubSeq(w.tokens, 1, k)
    <3>1. cut \in Seq(Token) /\ Len(cut) = k /\ \A i \in 1..k : cut[i] = w.tokens[i]
      <4>1. Tokens \subseteq Token
        BY DEF Token
      <4>2. w.tokens \in Seq(Token)
        BY <1>1, <4>1, SeqMonotonic, Zenon
      <4> QED BY <2>3, <4>2
    <3>2. x.ledger = s.ledger \o cut /\ s.ledger \in Seq(Token)
      BY <1>1, <1>7, <1>11 DEF ExtendedBy, SequenceRecords
    <3> HIDE DEF cut
    <3>3. /\ Len(s.ledger \o cut) = Len(s.ledger) + Len(cut)
          /\ \A i \in 1..(Len(s.ledger) + Len(cut)) :
               (s.ledger \o cut)[i] = IF i <= Len(s.ledger) THEN s.ledger[i]
                                                            ELSE cut[i - Len(s.ledger)]
      BY <3>1, <3>2, ConcatProperties, Zenon
    <3>4. \A i \in 1..(e + 1 + k) : x.ledger[i] = IF i <= e + 1 THEN s.ledger[i] ELSE cut[i - (e + 1)]
      BY <2>1, <3>1, <3>2, <3>3
    <3>5. ASSUME NEW j \in 1..k
          PROVE  x.ledger[e + j + 1] = w.tokens[j]
      <4>1. e \in Nat /\ k \in Nat /\ j \in Nat /\ 1 <= j /\ j <= k
        BY <1>1, <2>3
      <4>2. /\ e + j + 1 \in 1..(e + 1 + k) /\ ~ (e + j + 1 <= e + 1)
            /\ (e + j + 1) - (e + 1) = j
        <5> HIDE DEF e, k
        <5> QED BY <4>1
      <4> QED BY <3>1, <3>4, <4>2
    <3> QED BY <3>5
  <2>6. RowsFollow(d.mtp, x, e)
    <3>1. e \in 0..e
      BY <1>1
    <3> QED BY <1>1, <1>8, <2>1, <2>4, <3>1, RowsContinue
  <2>7. ASSUME NEW i \in 1..(e + k)
        PROVE  d.mtp[i] = Row(x, i)
    <3>1. CASE i <= e
      BY <1>1, <2>6, <3>1 DEF RowsFollow
    <3>2. CASE ~ (i <= e)
      <4> DEFINE j == i - e
      <4>1. j \in 1..k /\ j \in 1..Len(w.tokens) /\ e + j = i
        BY <1>1, <2>3, <3>2
      <4> HIDE DEF j
      <4>2. d.mtp[e + j] = <<RoundEntry(s, w.tokens, j), w.tokens[j]>>
        BY <2>2, <4>1 DEF RoundRows
      <4>3. d.mtp[e + j] = << <<x.ledger[e + j], x.positions[e + j]>>, x.ledger[e + j + 1] >>
        BY <2>4, <2>5, <4>1, <4>2
      <4> QED BY <4>1, <4>3 DEF Row
    <3> QED BY <3>1, <3>2
  <2>8. Len(d.mtp) >= e + k
    <3>1. Len(d.mtp) >= e + Len(w.tokens) /\ Len(d.mtp) \in Nat
      BY <1>8, <2>2 DEF RoundRows
    <3> QED BY <1>1, <2>3, <3>1
  <2>9. RowsFollow(d.mtp, t, t.mtp_kv_valid)
    <3>1. t.mtp_kv_valid = e + k
      BY <1>3, <1>5, <1>7, <1>11, <2>1
    <3> QED BY <1>3, <1>8, <2>7, <2>8, <3>1 DEF RowsFollow, Row
  <2> QED BY <1>4, <1>6, <1>8, <2>9 DEF MtpHolds
<1> QED BY <1>1, <1>9, <1>10, <1>11

(* A cleared lane promises nothing about its rows.                         *)
LEMMA ClearedRows ==
  ASSUME NEW s, NEW d, d.mtp \in Seq(MtpEntry)
  PROVE  MtpHolds(s, ClearedRequest, d)
<1>1. ClearedRequest.lifecycle = "Empty" /\ ClearedRequest.pending.kind = "none"
  BY DEF ClearedRequest, NoPending
<1> QED BY <1>1 DEF MtpHolds

(* Lanes are cleared.                                                      *)
LEMMA ClearingRows ==
  ASSUME MtpLanes, UNCHANGED device, NEW lanes, ClearLanes(lanes)
  PROVE  MtpLanes'
<1>1. /\ sequence' = [l \in Lanes |-> IF l \in lanes
                                        THEN [ClearedSequence EXCEPT !.rope_delta =
                                                sequence[l].rope_delta]
                                        ELSE sequence[l]]
      /\ request' = [l \in Lanes |-> IF l \in lanes THEN ClearedRequest ELSE request[l]]
  BY DEF ClearLanes
<1>2. ASSUME NEW l \in Lanes
      PROVE  MtpHolds(sequence'[l], request'[l], device'[l])
  <2>1. MtpHolds(sequence[l], request[l], device[l]) /\ device'[l] = device[l]
    BY DEF MtpLanes
  <2>2. CASE l \in lanes
    <3>1. request'[l] = ClearedRequest
      BY <1>1, <2>2, Zenon
    <3>2. device[l].mtp \in Seq(MtpEntry)
      BY <2>1 DEF MtpHolds
    <3>3. MtpHolds(sequence'[l], ClearedRequest, device[l])
      BY <3>2, ClearedRows, Zenon
    <3> QED BY <2>1, <3>1, <3>3, Zenon
  <2>3. CASE l \notin lanes
    <3>1. sequence'[l] = sequence[l] /\ request'[l] = request[l]
      BY <1>1, <2>3, Zenon
    <3> QED BY <2>1, <3>1, Zenon
  <2> QED BY <2>2, <2>3
<1> QED BY <1>2 DEF MtpLanes

(* A step of a staged prefill.                                             *)
LEMMA AdvancePrefillRows ==
  ASSUME Backend = "Mtp", ContentInv, MtpLanes, NEW l \in Lanes, NEW s \in SequenceRecords,
         NEW st \in PrefillRecords, NEW d, NEW row \in Lanes, NEW remaining \in Nat,
         Staged(options, s, st, remaining),
         DeviceTyped(d), CheckpointHolds(s, d), Resident(s, d), StagedHolds(s, st, d),
         st.cursor = Len(st.prompt) => RowsFollow(d.mtp, s, Len(st.prompt) - 1),
         st.cursor < Len(st.prompt) => RowsFollow(BridgeMtp(d, st).mtp, s, st.cursor),
         AdvancePrefill(l, s, st, d, row, remaining)
  PROVE  MtpLanes'
<1>1. /\ sequence \in [Lanes -> SequenceRecords] /\ request \in [Lanes -> RequestRecords]
      /\ device = [k \in Lanes |-> device[k]]
  BY DEF ContentInv, LanesInv
<1>2. (st.cursor = Len(st.prompt) => s.tail_hidden_valid) /\ Backed(s.kv)
  BY DEF Staged, BundleCovers, Backed
<1>3. PICK token \in Tokens :
        /\ device' = [device EXCEPT ![l] =
                        IF st.cursor = Len(st.prompt)
                          THEN ExactHitDevice(d, st, token)
                          ELSE ChunkDevice(BridgeMtp(d, st), st, token)]
        /\ sequence' = [sequence EXCEPT ![l] =
                          IF Samples(st) THEN FinishedSequence(s, st, token)
                                         ELSE PrefilledSequence(s, st)]
        /\ request' = [request EXCEPT ![l] = StagedRequest(st, token, remaining)]
  BY <1>2 DEF AdvancePrefill
<1> DEFINE e == IF st.cursor = Len(st.prompt) THEN ExactHitDevice(d, st, token)
                                              ELSE ChunkDevice(BridgeMtp(d, st), st, token)
           x == IF Samples(st) THEN FinishedSequence(s, st, token) ELSE PrefilledSequence(s, st)
           y == StagedRequest(st, token, remaining)
<1>4. MtpHolds(x, y, e)
  BY PrefillRows
<1>5. /\ sequence' = [sequence EXCEPT ![l] = x] /\ request' = [request EXCEPT ![l] = y]
      /\ device' = [device EXCEPT ![l] = e]
  BY <1>3
<1> HIDE DEF x, y, e
<1>6. ASSUME NEW k \in Lanes
      PROVE  MtpHolds(sequence'[k], request'[k], device'[k])
  <2>1. CASE k = l
    <3>1. sequence'[l] = x /\ request'[l] = y /\ device'[l] = e
      BY <1>1, <1>5
    <3> QED BY <1>4, <2>1, <3>1
  <2>2. CASE k # l
    <3>1. sequence'[k] = sequence[k] /\ request'[k] = request[k] /\ device'[k] = device[k]
      BY <1>1, <1>5, <2>2
    <3> QED BY <3>1 DEF MtpLanes
  <2> QED BY <2>1, <2>2
<1> QED BY <1>6 DEF MtpLanes

(* start_prefill_lane.                                                     *)
LEMMA StartPrefillLaneRows ==
  ASSUME Backend = "Mtp", ContentInv, MtpLanes, ~ BlindStart, NEW l \in Lanes, StartPrefillLane(l)
  PROVE  MtpLanes'
<1>1. /\ options \in Setups /\ LaneOK(options, sequence[l], request[l])
      /\ request[l].lifecycle \in {"Empty", "Complete"}
      /\ Holds(sequence[l], request[l], device[l]) /\ MtpHolds(sequence[l], request[l], device[l])
  BY DEF ContentInv, LanesInv, StartPrefillLane, Free, MtpLanes
<1>2. PICK p \in Prompts, allowed \in BOOLEAN :
        LET s == sequence[l]
            plan == ReusePath(p, s, allowed)
        IN  IF Reusable(s, plan)
              THEN AdvancePrefill(l, StartSequence(s, p, plan), StartPrefill(s, p, plan),
                                  StartDevice(device[l], p, plan), l, p.output)
              ELSE Throw({l})
  BY DEF StartPrefillLane
<1> DEFINE s == sequence[l]
           plan == ReusePath(p, s, allowed)
           t == StartSequence(s, p, plan)
           st == StartPrefill(s, p, plan)
           d == StartDevice(device[l], p, plan)
<1>3. Reusable(s, plan)
  BY <1>1, PlanFacts
<1>4. AdvancePrefill(l, t, st, d, l, p.output)
  BY <1>2, <1>3
<1>5. t \in SequenceRecords /\ st \in PrefillRecords /\ Staged(options, t, st, p.output)
  BY <1>1, StartStaged
<1>6. p.output \in Nat
  BY <1>1, OptionsFacts
<1>7. SeesMedia(p, plan.base)
  BY <1>4 DEF BlindStart, StartPrefillLane
<1>8. DeviceTyped(d) /\ CheckpointHolds(t, d) /\ Resident(t, d) /\ StagedHolds(t, st, d)
  BY <1>1, <1>7, StartHolds
<1>9. /\ st.cursor = Len(st.prompt) => RowsFollow(d.mtp, t, Len(st.prompt) - 1)
      /\ st.cursor < Len(st.prompt) => RowsFollow(BridgeMtp(d, st).mtp, t, st.cursor)
  BY <1>1, StartRows
<1> HIDE DEF t, st, d, plan, s
<1> QED BY <1>4, <1>5, <1>6, <1>8, <1>9, AdvancePrefillRows

(* advance_prefill.                                                        *)
LEMMA AdvancePrefillLaneRows ==
  ASSUME Backend = "Mtp", ContentInv, MtpKeepsPace, MtpLanes, NEW l \in Lanes,
         AdvancePrefillLane(l)
  PROVE  MtpLanes'
<1> DEFINE s == sequence[l]
           q == request[l]
           st == request[l].prefill
           r == request[l].remaining
           d == device[l]
<1>1. /\ LaneOK(options, s, q) /\ q.lifecycle = "Prefilling" /\ ingress \in Lanes
      /\ AdvancePrefill(l, s, st, d, ingress, r) /\ Holds(s, q, d) /\ MtpHolds(s, q, d)
  BY DEF ContentInv, LanesInv, AdvancePrefillLane, MtpLanes
<1>2. /\ s \in SequenceRecords /\ st \in PrefillRecords /\ r \in Nat
      /\ Staged(options, s, st, r) /\ st.cursor < Len(st.prompt)
  BY <1>1 DEF LaneOK, RequestRecords
<1>3. DeviceTyped(d) /\ CheckpointHolds(s, d) /\ Resident(s, d) /\ StagedHolds(s, st, d)
  BY <1>1 DEF Holds
<1>4. s.mtp_kv_valid = s.text_kv_valid
  BY <1>1 DEF MtpKeepsPace, Paced, Backend
<1>5. st.bridge = "none" /\ RowsFollow(d.mtp, s, s.mtp_kv_valid)
  BY <1>1 DEF MtpHolds
<1>6. BridgeMtp(d, st) = d /\ st.cursor = s.text_kv_valid
  BY <1>2, <1>5 DEF BridgeMtp, Staged
<1>7. /\ st.cursor # Len(st.prompt)
      /\ RowsFollow(BridgeMtp(d, st).mtp, s, st.cursor)
  <2>1. st.cursor \in Nat /\ Len(st.prompt) \in Nat
    BY <1>2 DEF PrefillRecords
  <2> QED BY <1>2, <1>4, <1>5, <1>6, <2>1
<1> HIDE DEF s, q, st, r, d
<1> QED BY <1>1, <1>2, <1>3, <1>7, AdvancePrefillRows

(* decode_batch, lane by lane.                                             *)
LEMMA RoundOnLanes ==
  ASSUME LanesInv, DecodeBatch
  PROVE  \E rounds : \A l \in Lanes :
           /\ l \in Active =>
                /\ RoundFits(options, sequence[l], request[l].remaining, rounds[l])
                /\ sequence'[l] = RoundSequence(sequence[l], rounds[l])
                /\ request'[l] = [request[l] EXCEPT !.lifecycle = "Pending",
                                                    !.pending = RoundPending(sequence[l], rounds[l])]
                /\ device'[l] = RoundDevice(sequence[l], device[l], rounds[l])
           /\ l \notin Active =>
                sequence'[l] = sequence[l] /\ request'[l] = request[l] /\ device'[l] = device[l]
<1>1. /\ options \in Setups /\ \A l \in Lanes : LaneOK(options, sequence[l], request[l])
      /\ Active # {} /\ Active \subseteq Lanes
  BY DEF LanesInv, DecodeBatch, Active
<1>2. \A l \in Active : DecodeReady(l)
  BY <1>1, ActiveIsReady
<1>3. PICK window \in Windows :
        \E rounds \in [Active -> UNION {Rounds(l, window) : l \in Active}] :
          /\ \A l \in Active : rounds[l] \in Rounds(l, window)
          /\ IF \A l \in Active : Backed(RoundBundle(sequence[l], rounds[l]))
               THEN /\ sequence' = [l \in Lanes |->
                         IF l \in Active THEN RoundSequence(sequence[l], rounds[l])
                                         ELSE sequence[l]]
                    /\ device' = [l \in Lanes |->
                         IF l \in Active THEN RoundDevice(sequence[l], device[l], rounds[l])
                                         ELSE device[l]]
                    /\ request' = [l \in Lanes |->
                         IF l \in Active
                           THEN [request[l] EXCEPT
                                   !.lifecycle = "Pending",
                                   !.pending = RoundPending(sequence[l], rounds[l])]
                           ELSE request[l]]
               ELSE Throw(Active)
  BY <1>2, Zenon DEF DecodeBatch
<1>4. PICK rounds \in [Active -> UNION {Rounds(l, window) : l \in Active}] :
        /\ \A l \in Active : rounds[l] \in Rounds(l, window)
        /\ IF \A l \in Active : Backed(RoundBundle(sequence[l], rounds[l]))
             THEN /\ sequence' = [l \in Lanes |->
                       IF l \in Active THEN RoundSequence(sequence[l], rounds[l])
                                       ELSE sequence[l]]
                  /\ device' = [l \in Lanes |->
                       IF l \in Active THEN RoundDevice(sequence[l], device[l], rounds[l])
                                       ELSE device[l]]
                  /\ request' = [l \in Lanes |->
                       IF l \in Active
                         THEN [request[l] EXCEPT
                                 !.lifecycle = "Pending",
                                 !.pending = RoundPending(sequence[l], rounds[l])]
                         ELSE request[l]]
             ELSE Throw(Active)
  BY <1>3, Zenon
<1>5. ASSUME NEW l \in Active
      PROVE  /\ Backed(RoundBundle(sequence[l], rounds[l]))
             /\ RoundFits(options, sequence[l], request[l].remaining, rounds[l])
  <2>1. rounds[l] \in Rounds(l, window)
    BY <1>4
  <2>2. RoundFits(options, sequence[l], request[l].remaining, rounds[l])
    BY <1>1, <2>1, RoundsFit
  <2>3. request[l].lifecycle = "Active" /\ LaneOK(options, sequence[l], request[l])
    BY <1>1 DEF Active
  <2> QED BY <1>1, <2>2, <2>3, RoundKeeps
<1>6. /\ sequence' = [l \in Lanes |->
           IF l \in Active THEN RoundSequence(sequence[l], rounds[l]) ELSE sequence[l]]
      /\ device' = [l \in Lanes |->
           IF l \in Active THEN RoundDevice(sequence[l], device[l], rounds[l]) ELSE device[l]]
      /\ request' = [l \in Lanes |->
           IF l \in Active
             THEN [request[l] EXCEPT !.lifecycle = "Pending",
                                     !.pending = RoundPending(sequence[l], rounds[l])]
             ELSE request[l]]
  BY <1>4, <1>5, Zenon
<1>7. ASSUME NEW l \in Lanes, l \in Active
      PROVE  /\ RoundFits(options, sequence[l], request[l].remaining, rounds[l])
             /\ sequence'[l] = RoundSequence(sequence[l], rounds[l])
             /\ request'[l] = [request[l] EXCEPT !.lifecycle = "Pending",
                                                 !.pending = RoundPending(sequence[l], rounds[l])]
             /\ device'[l] = RoundDevice(sequence[l], device[l], rounds[l])
  BY <1>5, <1>6, <1>7, Zenon
<1>8. ASSUME NEW l \in Lanes, l \notin Active
      PROVE  sequence'[l] = sequence[l] /\ request'[l] = request[l] /\ device'[l] = device[l]
  BY <1>6, <1>8, Zenon
<1> QED BY <1>7, <1>8, Zenon

(* A resolution, lane by lane.                                             *)
LEMMA VerdictOnLanes ==
  ASSUME LanesInv, NEW lanes, lanes \subseteq Lanes,
         \A l \in lanes : request[l].pending.kind # "none",
         NEW verdicts, \A l \in lanes : verdicts[l] \in Verdicts(l) \union {Cancelled},
         Resolve(lanes, verdicts), NEW l \in Lanes
  PROVE  /\ l \in lanes /\ ~ verdicts[l].cancelled =>
              /\ VerdictFits(verdicts[l], request[l].pending.tokens, request[l].remaining)
              /\ sequence'[l] = ResolvedSequence(sequence[l], request[l].pending, verdicts[l])
              /\ request'[l] = ResolvedRequest(request[l], verdicts[l])
              /\ device'[l] = ResolvedDevice(device[l], request[l].pending, verdicts[l])
         /\ l \in lanes /\ verdicts[l].cancelled =>
              /\ sequence'[l] = [ClearedSequence EXCEPT !.rope_delta = sequence[l].rope_delta]
              /\ request'[l] = ClearedRequest /\ device'[l] = device[l]
         /\ l \notin lanes =>
              sequence'[l] = sequence[l] /\ request'[l] = request[l] /\ device'[l] = device[l]
<1> DEFINE kept == {i \in lanes : ~ verdicts[i].cancelled}
           after == [i \in kept |-> ResolvedSequence(sequence[i], request[i].pending, verdicts[i])]
<1>1. options \in Setups /\ \A i \in Lanes : LaneOK(options, sequence[i], request[i])
  BY DEF LanesInv
<1>2. \A i \in lanes : Resolvable(i)
  BY <1>1, PendingIsResolvable
<1>3. ASSUME NEW i \in kept
      PROVE  /\ TrimFits(after[i]) /\ Backed(after[i].kv)
             /\ VerdictFits(verdicts[i], request[i].pending.tokens, request[i].remaining)
             /\ after[i] = ResolvedSequence(sequence[i], request[i].pending, verdicts[i])
  <2>1. i \in Lanes /\ request[i].pending.kind # "none"
    OBVIOUS
  <2>2. verdicts[i] \in Verdicts(i)
    BY DEF Cancelled
  <2>3. VerdictFits(verdicts[i], request[i].pending.tokens, request[i].remaining)
    BY <1>1, <2>1, <2>2, VerdictsFit
  <2>4. LaneOK(options, sequence[i], request[i])
    BY <1>1, <2>1
  <2> DEFINE t == ResolvedSequence(sequence[i], request[i].pending, verdicts[i])
  <2>5. TrimFits(t) /\ Backed(t.kv)
    BY <1>1, <2>1, <2>3, <2>4, ResolvedKeeps
  <2>6. after[i] = t
    OBVIOUS
  <2> HIDE DEF t
  <2> QED BY <2>3, <2>5, <2>6 DEF t
<1>4. /\ sequence' = [i \in Lanes |->
           CASE i \in kept -> after[i]
             [] i \in lanes \ kept -> [ClearedSequence EXCEPT !.rope_delta =
                                         sequence[i].rope_delta]
             [] OTHER -> sequence[i]]
      /\ device' = [i \in Lanes |->
           IF i \in kept THEN ResolvedDevice(device[i], request[i].pending, verdicts[i])
                         ELSE device[i]]
      /\ request' = [i \in Lanes |->
           CASE i \in kept -> ResolvedRequest(request[i], verdicts[i])
             [] i \in lanes \ kept -> ClearedRequest
             [] OTHER -> request[i]]
  BY <1>2, <1>3, Zenon DEF Resolve, ResolvedRequest
<1>5. /\ kept \subseteq lanes /\ (l \in lanes /\ ~ verdicts[l].cancelled => l \in kept)
      /\ (l \in lanes /\ verdicts[l].cancelled => l \in lanes \ kept)
  OBVIOUS
<1> HIDE DEF after, kept
<1>6. ASSUME l \in lanes, ~ verdicts[l].cancelled
      PROVE  /\ VerdictFits(verdicts[l], request[l].pending.tokens, request[l].remaining)
             /\ sequence'[l] = ResolvedSequence(sequence[l], request[l].pending, verdicts[l])
             /\ request'[l] = ResolvedRequest(request[l], verdicts[l])
             /\ device'[l] = ResolvedDevice(device[l], request[l].pending, verdicts[l])
  <2>1. l \in kept
    BY <1>5, <1>6
  <2>2. /\ sequence'[l] = after[l] /\ request'[l] = ResolvedRequest(request[l], verdicts[l])
        /\ device'[l] = ResolvedDevice(device[l], request[l].pending, verdicts[l])
    BY <1>4, <1>5, <2>1
  <2> QED BY <1>3, <2>1, <2>2, Zenon
<1>7. ASSUME l \in lanes, verdicts[l].cancelled
      PROVE  /\ sequence'[l] = [ClearedSequence EXCEPT !.rope_delta = sequence[l].rope_delta]
             /\ request'[l] = ClearedRequest /\ device'[l] = device[l]
  <2>1. l \in lanes \ kept
    BY <1>5, <1>7
  <2> QED BY <1>4, <2>1
<1>8. ASSUME l \notin lanes
      PROVE  sequence'[l] = sequence[l] /\ request'[l] = request[l] /\ device'[l] = device[l]
  BY <1>4, <1>5, <1>8
<1> QED BY <1>6, <1>7, <1>8

(* decode_batch.                                                           *)
LEMMA DecodeBatchRows ==
  ASSUME Backend = "Mtp", ContentInv, MtpLanes, DecodeBatch
  PROVE  MtpLanes'
<1>1. /\ LanesInv /\ options \in Setups
      /\ \A l \in Lanes : /\ LaneOK(options, sequence[l], request[l])
                          /\ Holds(sequence[l], request[l], device[l])
                          /\ MtpHolds(sequence[l], request[l], device[l])
  BY DEF ContentInv, LanesInv, MtpLanes
<1>2. PICK rounds : \A l \in Lanes :
        /\ l \in Active =>
             /\ RoundFits(options, sequence[l], request[l].remaining, rounds[l])
             /\ sequence'[l] = RoundSequence(sequence[l], rounds[l])
             /\ request'[l] = [request[l] EXCEPT !.lifecycle = "Pending",
                                                 !.pending = RoundPending(sequence[l], rounds[l])]
             /\ device'[l] = RoundDevice(sequence[l], device[l], rounds[l])
        /\ l \notin Active =>
             sequence'[l] = sequence[l] /\ request'[l] = request[l] /\ device'[l] = device[l]
  BY <1>1, RoundOnLanes
<1>3. ASSUME NEW l \in Lanes
      PROVE  MtpHolds(sequence'[l], request'[l], device'[l])
  <2>1. CASE l \in Active
    <3>1. request[l].lifecycle = "Active"
      BY <2>1 DEF Active
    <3>2. MtpHolds(RoundSequence(sequence[l], rounds[l]),
                   [request[l] EXCEPT !.lifecycle = "Pending",
                                      !.pending = RoundPending(sequence[l], rounds[l])],
                   RoundDevice(sequence[l], device[l], rounds[l]))
      BY <1>1, <1>2, <2>1, <3>1, RoundRowsAfter
    <3> QED BY <1>2, <2>1, <3>2, Zenon
  <2>2. CASE l \notin Active
    BY <1>1, <1>2, <2>2, Zenon
  <2> QED BY <2>1, <2>2
<1> QED BY <1>3 DEF MtpLanes

(* Resolving pending lanes.                                                *)
LEMMA ResolveRows ==
  ASSUME Backend = "Mtp", ContentInv, MtpLanes, NEW lanes, lanes \subseteq Lanes,
         \A l \in lanes : request[l].pending.kind # "none",
         NEW verdicts, \A l \in lanes : verdicts[l] \in Verdicts(l) \union {Cancelled},
         Resolve(lanes, verdicts)
  PROVE  MtpLanes'
<1>1. LanesInv /\ options \in Setups
  BY DEF ContentInv, LanesInv
<1>2. ASSUME NEW l \in Lanes
      PROVE  MtpHolds(sequence'[l], request'[l], device'[l])
  <2>1. /\ LaneOK(options, sequence[l], request[l])
        /\ Holds(sequence[l], request[l], device[l])
        /\ MtpHolds(sequence[l], request[l], device[l])
    BY DEF ContentInv, LanesInv, MtpLanes
  <2>2. /\ l \in lanes /\ ~ verdicts[l].cancelled =>
             /\ VerdictFits(verdicts[l], request[l].pending.tokens, request[l].remaining)
             /\ sequence'[l] = ResolvedSequence(sequence[l], request[l].pending, verdicts[l])
             /\ request'[l] = ResolvedRequest(request[l], verdicts[l])
             /\ device'[l] = ResolvedDevice(device[l], request[l].pending, verdicts[l])
        /\ l \in lanes /\ verdicts[l].cancelled =>
             /\ sequence'[l] = [ClearedSequence EXCEPT !.rope_delta = sequence[l].rope_delta]
             /\ request'[l] = ClearedRequest /\ device'[l] = device[l]
        /\ l \notin lanes =>
             sequence'[l] = sequence[l] /\ request'[l] = request[l] /\ device'[l] = device[l]
    BY <1>1, VerdictOnLanes, Zenon
  <2>3. CASE l \in lanes /\ ~ verdicts[l].cancelled
    <3>1. /\ VerdictFits(verdicts[l], request[l].pending.tokens, request[l].remaining)
          /\ sequence'[l] = ResolvedSequence(sequence[l], request[l].pending, verdicts[l])
          /\ request'[l] = ResolvedRequest(request[l], verdicts[l])
          /\ device'[l] = ResolvedDevice(device[l], request[l].pending, verdicts[l])
      BY <2>3, <2>2, Zenon
    <3>2. request[l].pending.kind # "none"
      BY <2>3
    <3> QED BY <1>1, <2>1, <3>1, <3>2, ResolvedRows
  <2>4. CASE l \in lanes /\ verdicts[l].cancelled
    <3>1. request'[l] = ClearedRequest /\ device'[l] = device[l]
      BY <2>4, <2>2, Zenon
    <3>2. device[l].mtp \in Seq(MtpEntry)
      BY <2>1 DEF MtpHolds
    <3>3. MtpHolds(sequence'[l], ClearedRequest, device[l])
      BY <3>2, ClearedRows, Zenon
    <3> QED BY <3>1, <3>3
  <2>5. CASE l \notin lanes
    <3>1. sequence'[l] = sequence[l] /\ request'[l] = request[l] /\ device'[l] = device[l]
      BY <2>5, <2>2, Zenon
    <3> QED BY <2>1, <3>1
  <2> QED BY <2>3, <2>4, <2>5
<1> QED BY <1>2 DEF MtpLanes

(* resolve_prefill_lane and resolve_pending_batch.                         *)
LEMMA ResolutionRows ==
  ASSUME Backend = "Mtp", ContentInv, MtpLanes,
         (\E l \in Lanes : ResolvePrefillLane(l)) \/ ResolvePendingBatch
  PROVE  MtpLanes'
<1>1. ASSUME NEW l \in Lanes, ResolvePrefillLane(l)
      PROVE  MtpLanes'
  <2>1. PICK verdict \in Verdicts(l) : Resolve({l}, [i \in {l} |-> verdict])
    BY <1>1 DEF ResolvePrefillLane
  <2>2. request[l].pending.kind = "begin"
    BY <1>1 DEF ResolvePrefillLane
  <2> DEFINE verdicts == [i \in {l} |-> verdict]
  <2>3. \A i \in {l} : verdicts[i] \in Verdicts(i) \union {Cancelled}
    OBVIOUS
  <2>4. \A i \in {l} : request[i].pending.kind # "none"
    BY <2>2
  <2> HIDE DEF verdicts
  <2> QED BY <2>1, <2>3, <2>4, ResolveRows DEF verdicts
<1>2. ASSUME ResolvePendingBatch
      PROVE  MtpLanes'
  <2> DEFINE lanes == PendingOf({"ordinary", "speculative"})
  <2>1. PICK verdicts \in [lanes -> UNION {Verdicts(l) : l \in lanes} \union {Cancelled}] :
          /\ \A l \in lanes : verdicts[l] \in Verdicts(l) \union {Cancelled}
          /\ Resolve(lanes, verdicts)
    BY <1>2, Zenon DEF ResolvePendingBatch
  <2>2. lanes \subseteq Lanes /\ \A l \in lanes : request[l].pending.kind # "none"
    BY DEF PendingOf
  <2> HIDE DEF lanes
  <2> QED BY <2>1, <2>2, ResolveRows
<1> QED BY <1>1, <1>2

(* One step of the program.                                                *)
LEMMA NextKeepsRows ==
  ContentInv /\ MtpKeepsPace /\ MtpInv /\ [Next]_vars /\ [~ BlindStart]_vars => MtpInv'
<1>1. ASSUME MtpInv, UNCHANGED vars PROVE MtpInv'
  BY <1>1 DEF MtpInv, MtpLanes, vars
<1> SUFFICES ASSUME ContentInv, MtpKeepsPace, MtpInv, Next, ~ BlindStart, options.backend = "Mtp"
             PROVE  MtpLanes'
  <2>1. ASSUME Next PROVE options' = options
    BY <2>1 DEF Next
  <2> QED BY <1>1, <2>1 DEF MtpInv
<1>2. Backend = "Mtp" /\ MtpLanes
  BY DEF MtpInv, Backend
<1>3. CASE \E l \in Lanes : StartPrefillLane(l)
  BY <1>2, <1>3, StartPrefillLaneRows
<1>4. CASE \E l \in Lanes : AdvancePrefillLane(l)
  BY <1>2, <1>4, AdvancePrefillLaneRows
<1>5. CASE DecodeBatch
  BY <1>2, <1>5, DecodeBatchRows
<1>6. CASE (\E l \in Lanes : ResolvePrefillLane(l)) \/ ResolvePendingBatch
  BY <1>2, <1>6, ResolutionRows
<1>7. CASE \E l \in Lanes : AbortLane(l) \/ EvictRetainedLane(l)
  <2>1. PICK l \in Lanes : AbortLane(l) \/ EvictRetainedLane(l)
    BY <1>7
  <2>2. ClearLanes({l}) /\ UNCHANGED device
    BY <2>1 DEF AbortLane, EvictRetainedLane
  <2> QED BY <1>2, <2>2, ClearingRows
<1>8. CASE RoundFails
  <2>1. ClearLanes(PendingOf({"ordinary", "speculative"})) /\ UNCHANGED device
    BY <1>8 DEF RoundFails
  <2> QED BY <1>2, <2>1, ClearingRows
<1> QED BY <1>3, <1>4, <1>5, <1>6, <1>7, <1>8 DEF Next

(* Every lane starts empty.                                                *)
LEMMA InitRows == Init => MtpInv
<1> SUFFICES ASSUME Init, NEW l \in Lanes PROVE MtpHolds(sequence[l], request[l], device[l])
  BY DEF MtpInv, MtpLanes
<1>1. request[l] = ClearedRequest /\ device[l].mtp = << >>
  BY DEF Init
<1>2. << >> \in Seq(MtpEntry)
  OBVIOUS
<1> QED BY <1>1, <1>2, ClearedRows

(* Rows that follow the ledger are the rows of its columns.                *)
LEMMA RowsAreLedgers ==
  ASSUME NEW s \in SequenceRecords, NEW n \in Nat, n < Len(s.ledger),
         NEW v, RowsFollow(v, s, n)
  PROVE  Upto(v, n) = MtpRows(Identity(s, n), Tail(SubSeq(s.ledger, 1, n + 1)))
<1> DEFINE rows == [i \in 1..n |-> Row(s, i)]
           columns == Identity(s, n)
           before == SubSeq(s.ledger, 1, n + 1)
           next == Tail(before)
<1>1. Upto(v, n) = rows
  <2>1. v \in Seq(MtpEntry) /\ Len(v) \in Nat /\ Len(v) >= n /\ \A i \in 1..n : v[i] = Row(s, i)
    BY DEF RowsFollow
  <2>2. \A i \in 1..n : (IF i <= Len(v) THEN v[i] ELSE Garbage) = Row(s, i)
    BY <2>1
  <2> QED BY <2>2 DEF Upto
<1>2. s.ledger \in Seq(Token) /\ Len(s.ledger) \in Nat
  BY DEF SequenceRecords
<1>3. /\ before \in Seq(Token) /\ Len(before) = n + 1
      /\ \A i \in 1..(n + 1) : before[i] = s.ledger[i]
  BY <1>2
<1> HIDE DEF before
<1>4. \A i \in 1..n : next[i] = s.ledger[i + 1]
  <2>1. before # << >>
    BY <1>3
  <2>2. Len(next) = n /\ \A i \in 1..n : next[i] = before[i + 1]
    BY <1>3, <2>1
  <2>3. \A i \in 1..n : i + 1 \in 1..(n + 1)
    OBVIOUS
  <2> HIDE DEF next
  <2> QED BY <1>3, <2>2, <2>3
<1> HIDE DEF next
<1>5. columns = [i \in 1..n |-> <<s.ledger[i], s.positions[i]>>] /\ Len(columns) = n
  <2>1. columns = [i \in 1..n |-> <<s.ledger[i], s.positions[i]>>]
    BY DEF Identity
  <2> HIDE DEF columns
  <2>2. Len(columns) = n
    BY <2>1
  <2> QED BY <2>1, <2>2
<1> HIDE DEF columns
<1>6. MtpRows(columns, next) = [i \in 1..n |-> <<columns[i], next[i]>>]
  BY <1>5 DEF MtpRows
<1>7. \A i \in 1..n : <<columns[i], next[i]>> = Row(s, i)
  BY <1>4, <1>5 DEF Row
<1>8. MtpRows(columns, next) = rows
  BY <1>6, <1>7
<1> QED BY <1>1, <1>8 DEF columns, next, before

(* MtpInv says of each lane what BackendMatchesLedger says of MTP.         *)
LEMMA RowsAreBackend ==
  ASSUME ContentInv, MtpKeepsPace, MtpInv, options.backend # "DFlash"
  PROVE  BackendMatchesLedger
<1>1. ASSUME NEW l \in Lanes, request[l].lifecycle # "Empty", Backend = "Mtp"
      PROVE  LET s == sequence[l]
             IN  Upto(device[l].mtp, s.mtp_kv_valid) =
                   MtpRows(Identity(s, s.mtp_kv_valid),
                           Tail(SubSeq(s.ledger, 1, s.mtp_kv_valid + 1)))
  <2>1. /\ sequence[l] \in SequenceRecords /\ LanesInv /\ options.backend = "Mtp"
        /\ MtpHolds(sequence[l], request[l], device[l])
    BY <1>1 DEF ContentInv, LanesInv, MtpInv, MtpLanes, Backend
  <2> DEFINE s == sequence[l]
             n == s.mtp_kv_valid
  <2>2. n < Len(s.ledger) /\ n \in Nat
    BY <1>1, <2>1, MtpReachesText DEF SequenceRecords
  <2>3. RowsFollow(device[l].mtp, s, n)
    BY <1>1, <2>1 DEF MtpHolds
  <2> HIDE DEF s, n
  <2>4. s \in SequenceRecords
    BY <2>1 DEF s
  <2>5. Upto(device[l].mtp, n) = MtpRows(Identity(s, n), Tail(SubSeq(s.ledger, 1, n + 1)))
    BY <2>2, <2>3, <2>4, RowsAreLedgers
  <2> QED BY <2>5 DEF s, n
<1>2. Backend # "DFlash"
  BY DEF Backend
<1> QED BY <1>1, <1>2, Zenon DEF BackendMatchesLedger

(* The inductive invariant of the MTP cache: in a behaviour without a      *)
(* blind start the valid rows of every lane are those of its ledger, and   *)
(* those of a pending round are the ones its verdict will make valid.      *)
THEOREM MtpInvariant == Spec /\ [][~ BlindStart]_vars => []MtpInv
<1>1. Init => MtpKeepsPace
  BY DEF Init, MtpKeepsPace, Paced, ClearedRequest
<1> QED BY <1>1, InitRows, NextKeepsPace, NextKeepsRows, LanesInvariant, ContentInvariant, PTL
        DEF Spec

(* With the MTP backend every row below mtp_kv_valid comes from a column   *)
(* of the ledger and the token that followed it: the row before a reused   *)
(* prefix's suffix is rewritten for its new successor (the bridge of       *)
(* advance_prefill), rows of rejected drafts never become valid, and trims *)
(* and resolutions leave no row of another continuation.                   *)
THEOREM LaneBackend ==
  Spec /\ [][~ BlindStart]_vars => [](options.backend # "DFlash" => BackendMatchesLedger)
<1>1. Init => MtpKeepsPace
  BY DEF Init, MtpKeepsPace, Paced, ClearedRequest
<1>2. ContentInv /\ MtpKeepsPace /\ MtpInv =>
        (options.backend # "DFlash" => BackendMatchesLedger)
  BY RowsAreBackend
<1> QED BY <1>1, <1>2, NextKeepsPace, LanesInvariant, ContentInvariant, MtpInvariant, PTL DEF Spec

-----------------------------------------------------------------------------
(* The context of the draft model.                                         *)

(* A prefill that has passed its checkpoint has captured the draft context *)
(* there.                                                                  *)
DraftCaptured(s, st, d) ==
    st.capture # 0 /\ st.capture <= st.cursor => Exactly(d.draftCheckpoint, s, st.capture)
DraftCheckpoint(s, d) ==
    s.rewrite_checkpoint.valid => Exactly(d.draftCheckpoint, s, s.rewrite_checkpoint.frontier)
(* The columns of the last round that the context still lacks.             *)
DraftWaits(s, d) ==
    LET n == s.dflash_context_frontier
        waiting == s.execution_frontier - n
    IN  Len(d.round) >= waiting /\ Succeed(d.round, s, n, waiting)

DraftHolds(s, q, d) ==
    /\ d.draft \in Seq(Entry) /\ d.draftCheckpoint \in Seq(Entry)
    /\ q.lifecycle # "Empty" => Exactly(d.draft, s, s.dflash_context_frontier)
    /\ DraftCheckpoint(s, d)
    /\ q.lifecycle = "Prefilling" => /\ s.dflash_context_frontier = s.text_kv_valid
                                     /\ DraftCaptured(s, q.prefill, d)
    /\ q.lifecycle = "Active" => DraftWaits(s, d)

DraftLanes == \A l \in Lanes : DraftHolds(sequence[l], request[l], device[l])
DraftInv == options.backend = "DFlash" => DraftLanes

(* A chunk whose features reach the draft context of another lane, because *)
(* a round or a resolution between two chunks has written its own lanes to *)
(* the ingress frame.                                                      *)
StrayFeed == Backend = "DFlash" /\ \E l \in Lanes : AdvancePrefillLane(l) /\ ingress # l

(* Columns appended to a context at its end, or from the start.            *)
LEMMA DraftAppended ==
  ASSUME NEW draft \in Seq(Entry), NEW s, NEW n \in Nat, n = 0 \/ Exactly(draft, s, n),
         NEW b \in Seq(Entry), Succeed(b, s, n, Len(b)),
         NEW x, x = DraftAppend(draft, n, b)
  PROVE  Exactly(x, s, n + Len(b))
<1> DEFINE a == SubSeq(draft, 1, n)
<1>1. n \in 0..Len(draft) /\ Len(b) \in Nat
  BY DEF Exactly
<1>2. a \in Seq(Entry) /\ Len(a) = n /\ \A i \in 1..n : a[i] = draft[i]
  BY <1>1, RowPrefix
<1>3. x = a \o b
  BY DEF DraftAppend, Exactly
<1> HIDE DEF a
<1>4. Exactly(a, s, n)
  BY <1>2 DEF Exactly, Follows
<1>5. Len(b) \in 0..Len(b)
  BY <1>1
<1>6. Follows(a \o b, s, n + Len(b)) /\ Len(a \o b) = n + Len(b)
  BY <1>4, <1>5, FollowsConcat
<1> QED BY <1>3, <1>6 DEF Exactly

(* What a step of a staged prefill leaves of the lane's draft context.     *)
DraftWrote(x, d, st) ==
    /\ x.draft = IF st.cursor = Len(st.prompt)
                   THEN d.draft ELSE DraftAppend(d.draft, st.cursor, ChunkColumns(d, st))
    /\ x.draftCheckpoint = IF st.cursor # Len(st.prompt) /\ ChunkEnd(st) = st.capture
                             THEN x.draft ELSE d.draftCheckpoint

(* A chunk itself does not write it.                                       *)
LEMMA ChunkDraft ==
  ASSUME Backend = "DFlash", NEW d, DOMAIN d = DeviceFields, NEW st, NEW token,
         NEW e, e = IF st.cursor = Len(st.prompt) THEN ExactHitDevice(d, st, token)
                                                  ELSE ChunkDevice(BridgeMtp(d, st), st, token)
  PROVE  e.draft = d.draft /\ e.draftCheckpoint = d.draftCheckpoint /\ DOMAIN e = DeviceFields
<1>1. CASE st.cursor = Len(st.prompt)
  BY <1>1 DEF ExactHitDevice
<1>2. CASE st.cursor # Len(st.prompt)
  <2> DEFINE b == BridgeMtp(d, st)
             row == MtpWrite(d.mtp, st.base - 1,
                             Context(IF st.restored THEN d.hiddenCheckpoint ELSE d.tail, st.base),
                             <<st.prompt[st.base + 1]>>)
  <2>1. b = d \/ b = [d EXCEPT !.mtp = row]
    BY DEF BridgeMtp
  <2> HIDE DEF b, row
  <2>2. DOMAIN b = DeviceFields /\ b.draft = d.draft /\ b.draftCheckpoint = d.draftCheckpoint
    BY <2>1 DEF DeviceFields
  <2> DEFINE columns == ChunkColumns(b, st)
             context == Context(b.linear, st.cursor) \o columns
             next == SubSeq(st.prompt, st.cursor + 2, Min({ChunkEnd(st) + 1, Len(st.prompt)}))
             kv == Upto(b.kv, st.cursor) \o columns
             tail == IF Samples(st) THEN context ELSE b.tail
             mtp == IF Backend = "Mtp" THEN MtpPrompt(b.mtp, st.cursor, context, next, st, token)
                                       ELSE b.mtp
             lc == IF ChunkEnd(st) = st.capture THEN context ELSE b.linearCheckpoint
             hc == IF ChunkEnd(st) = st.capture THEN context ELSE b.hiddenCheckpoint
  <2>3. e = [b EXCEPT !.linear = context, !.kv = kv, !.tail = tail, !.mtp = mtp,
                      !.linearCheckpoint = lc, !.hiddenCheckpoint = hc]
    BY <1>2 DEF ChunkDevice, b
  <2> HIDE DEF context, kv, tail, mtp, lc, hc
  <2> QED BY <2>2, <2>3 DEF DeviceFields
<1> QED BY <1>1, <1>2

(* The feature sink writes it, when the ingress frame names the lane.      *)
LEMMA FedDraft ==
  ASSUME NEW devices, devices = [l \in Lanes |-> devices[l]], NEW l \in Lanes,
         DOMAIN devices[l] = DeviceFields, NEW st, NEW columns,
         NEW fed, fed = FeedDraft(devices, l, st, columns)
  PROVE  /\ fed[l].draft = DraftAppend(devices[l].draft, st.cursor, columns)
         /\ fed[l].draftCheckpoint = IF ChunkEnd(st) = st.capture
                                       THEN fed[l].draft ELSE devices[l].draftCheckpoint
         /\ \A k \in Lanes : k # l => fed[k] = devices[k]
<1> DEFINE draft == DraftAppend(devices[l].draft, st.cursor, columns)
           copy == IF ChunkEnd(st) = st.capture THEN draft ELSE devices[l].draftCheckpoint
           one == [devices[l] EXCEPT !.draft = draft, !.draftCheckpoint = copy]
<1>1. DOMAIN devices = Lanes
  OBVIOUS
<1>2. fed = [devices EXCEPT ![l].draft = draft,
                            ![l].draftCheckpoint =
                               IF ChunkEnd(st) = st.capture THEN draft ELSE @]
  BY DEF FeedDraft
<1> HIDE DEF draft
<1>3. fed = [devices EXCEPT ![l] = one]
  BY <1>1, <1>2 DEF DeviceFields
<1>4. one.draft = draft /\ one.draftCheckpoint = copy
  <2> HIDE DEF copy
  <2> QED BY DEF DeviceFields
<1> HIDE DEF one, copy
<1>5. fed[l] = one /\ \A k \in Lanes : k # l => fed[k] = devices[k]
  BY <1>1, <1>3
<1> QED BY <1>4, <1>5 DEF draft, copy

(* The draft context after a step of a staged prefill is that of the       *)
(* prompt, and so is the copy taken at the checkpoint.                     *)
LEMMA PrefillDraft ==
  ASSUME Backend = "DFlash",
         NEW s \in SequenceRecords, NEW st \in PrefillRecords, NEW d, NEW token \in Tokens,
         NEW remaining, Staged(options, s, st, remaining),
         s.rewrite_checkpoint.valid => s.rewrite_checkpoint.frontier <= s.text_kv_valid,
         Resident(s, d), StagedHolds(s, st, d),
         d.draft \in Seq(Entry), d.draftCheckpoint \in Seq(Entry),
         st.cursor = 0 \/ Exactly(d.draft, s, st.cursor),
         DraftCheckpoint(s, d), DraftCaptured(s, st, d),
         NEW x, DraftWrote(x, d, st)
  PROVE  DraftHolds(IF Samples(st) THEN FinishedSequence(s, st, token) ELSE PrefilledSequence(s, st),
                    StagedRequest(st, token, remaining), x)
<1> DEFINE n == ChunkEnd(st)
           f == PrefilledSequence(s, st)
           g == FinishedSequence(s, st, token)
           q == StagedRequest(st, token, remaining)
           k == Len(st.prompt)
           c == st.cursor
<1>1. /\ s.ledger = st.prompt /\ Len(s.positions) = k /\ k \in Nat /\ k > 0
      /\ c = s.text_kv_valid /\ c <= k /\ st.capture <= k
      /\ st.capture \in Nat /\ c \in Nat
      /\ s.ledger \in Seq(Token) /\ s.positions \in Seq(Int) /\ s.rope_delta \in Int
      /\ s.rewrite_checkpoint.frontier \in Nat
  BY DEF Staged, PrefillRecords, SequenceRecords, CheckpointRecords
<1>2. /\ n \in c..k /\ n \in Nat /\ (Samples(st) <=> n = k)
      /\ (c < k => c < n) /\ (c < st.capture => n <= st.capture)
  BY <1>1, ChunkEndBounds DEF Samples
<1>3. Exactly(x.draft, s, n)
  <2>1. CASE c = k
    <3>1. x.draft = d.draft /\ n = c /\ c # 0
      BY <1>1, <1>2, <2>1 DEF DraftWrote
    <3> QED BY <3>1
  <2>2. CASE c # k
    <3> DEFINE b == ChunkColumns(d, st)
    <3>1. c < k
      BY <1>1, <2>2
    <3>2. /\ b \in Seq(Entry) /\ Len(b) = n - c
          /\ \A j \in 1..(n - c) : b[j] = <<s.ledger[c + j], s.positions[c + j]>>
      BY <1>1, <3>1, ChunkEntries
    <3>3. x.draft = DraftAppend(d.draft, c, b)
      BY <2>2 DEF DraftWrote
    <3> HIDE DEF b
    <3>4. Succeed(b, s, c, Len(b))
      BY <3>2 DEF Succeed
    <3>5. Exactly(x.draft, s, c + Len(b))
      BY <1>1, <3>2, <3>3, <3>4, DraftAppended
    <3>6. c + Len(b) = n
      BY <1>1, <1>2, <3>2
    <3> QED BY <3>5, <3>6
  <2> QED BY <2>1, <2>2
<1>4. ASSUME st.capture # 0, st.capture <= n
      PROVE  Exactly(x.draftCheckpoint, s, st.capture)
  <2>1. CASE c # k /\ n = st.capture
    BY <1>3, <2>1 DEF DraftWrote
  <2>2. CASE ~ (c # k /\ n = st.capture)
    <3>1. x.draftCheckpoint = d.draftCheckpoint
      BY <2>2 DEF DraftWrote
    <3>2. st.capture <= c
      BY <1>1, <1>2, <1>4, <2>2
    <3> QED BY <1>4, <3>1, <3>2 DEF DraftCaptured
  <2> QED BY <2>1, <2>2
<1>5. st.capture = 0 => x.draftCheckpoint = d.draftCheckpoint
  <2> SUFFICES ASSUME st.capture = 0 PROVE x.draftCheckpoint = d.draftCheckpoint
    OBVIOUS
  <2>1. ~ (c # k /\ n = st.capture)
    BY <1>1, <1>2
  <2> QED BY <2>1 DEF DraftWrote
<1>6. x.draft \in Seq(Entry) /\ x.draftCheckpoint \in Seq(Entry)
  BY <1>3 DEF Exactly, Follows, DraftWrote
<1>7. DraftCheckpoint(s, x)
  <2> SUFFICES ASSUME s.rewrite_checkpoint.valid
               PROVE  Exactly(x.draftCheckpoint, s, s.rewrite_checkpoint.frontier)
    BY DEF DraftCheckpoint
  <2>1. st.capture = 0
    BY DEF StagedHolds
  <2> QED BY <1>5, <2>1 DEF DraftCheckpoint
<1>8. /\ f.ledger = s.ledger /\ f.positions = s.positions
      /\ f.text_kv_valid = n /\ f.rewrite_checkpoint = s.rewrite_checkpoint
      /\ g.ledger = Append(s.ledger, token)
      /\ g.positions = Append(s.positions, k + s.rope_delta)
      /\ st.capture # 0 => g.rewrite_checkpoint.frontier = st.capture
      /\ st.capture = 0 => g.rewrite_checkpoint = s.rewrite_checkpoint
  BY PrefilledFields
<1>9. f.dflash_context_frontier = n /\ g.dflash_context_frontier = n
  <2> DEFINE mtp == IF Backend = "Mtp" THEN n ELSE s.mtp_kv_valid
             ledger == Append(f.ledger, token)
             positions == Append(f.positions, Len(st.prompt) + s.rope_delta)
             cp == IF st.capture # 0
                     THEN [valid |-> TRUE, kind |-> st.kind, frontier |-> st.capture]
                     ELSE f.rewrite_checkpoint
  <2>1. f = [s EXCEPT !.text_kv_valid = n, !.mtp_kv_valid = mtp, !.dflash_context_frontier = n]
    BY DEF PrefilledSequence
  <2> HIDE DEF f, mtp, n
  <2>2. f.dflash_context_frontier = n /\ DOMAIN f = DOMAIN s
    BY <2>1 DEF SequenceRecords
  <2>3. g = [f EXCEPT !.ledger = ledger, !.positions = positions, !.mtp_draft_count = st.extent,
                      !.tail_hidden_valid = TRUE, !.rewrite_checkpoint = cp]
    BY DEF FinishedSequence, f
  <2> HIDE DEF g, ledger, positions, cp
  <2>4. g.dflash_context_frontier = n
    BY <2>2, <2>3 DEF SequenceRecords
  <2> QED BY <2>2, <2>4
<1> HIDE DEF f, g, n
<1>10. CASE ~ Samples(st)
  <2> DEFINE r == [st EXCEPT !.cursor = n, !.bridge = "none"]
  <2>1. q = [lifecycle |-> "Prefilling", pending |-> NoPending, remaining |-> remaining,
             prefill |-> r]
    BY <1>10 DEF StagedRequest, n
  <2>2. r.cursor = n /\ r.capture = st.capture
    BY DEF PrefillRecords
  <2> HIDE DEF q, r
  <2>3. q.lifecycle = "Prefilling" /\ q.prefill = r
    BY <2>1
  <2>4. Continues(f, s, n)
    BY <1>8 DEF Continues
  <2>5. Exactly(x.draft, f, f.dflash_context_frontier)
    BY <1>3, <1>8, <1>9 DEF Exactly, Follows
  <2>6. DraftCheckpoint(f, x)
    BY <1>7, <1>8 DEF DraftCheckpoint, Exactly, Follows
  <2>7. DraftCaptured(f, r, x)
    <3> SUFFICES ASSUME st.capture # 0, st.capture <= n
                 PROVE  Exactly(x.draftCheckpoint, f, st.capture)
      BY <2>2 DEF DraftCaptured
    <3> QED BY <1>4, <1>8 DEF Exactly, Follows
  <2>8. DraftHolds(f, q, x)
    BY <1>6, <1>8, <1>9, <2>3, <2>5, <2>6, <2>7 DEF DraftHolds
  <2> QED BY <1>10, <2>8 DEF f, q
<1>11. CASE Samples(st)
  <2>1. q.lifecycle = "Pending"
    BY <1>11 DEF StagedRequest
  <2> HIDE DEF q
  <2>2. n = k
    BY <1>2, <1>11
  <2>3. Continues(g, s, n)
    <3> DEFINE place == k + s.rope_delta
    <3>1. token \in Token /\ place \in Int /\ Len(s.ledger) = k
      BY <1>1 DEF Token
    <3>2. g.ledger = Append(s.ledger, token) /\ g.positions = Append(s.positions, place)
      BY <1>8
    <3> HIDE DEF place
    <3>3. \A i \in 1..k : Append(s.ledger, token)[i] = s.ledger[i]
      BY <1>1, <3>1
    <3>4. \A i \in 1..k : Append(s.positions, place)[i] = s.positions[i]
      BY <1>1, <3>1
    <3> QED BY <2>2, <3>2, <3>3, <3>4 DEF Continues
  <2>4. Exactly(x.draft, g, g.dflash_context_frontier)
    <3>1. n \in 0..n
      BY <1>2
    <3> QED BY <1>2, <1>3, <1>9, <2>3, <3>1, ExactlyContinues
  <2>5. DraftCheckpoint(g, x)
    <3> SUFFICES ASSUME g.rewrite_checkpoint.valid
                 PROVE  Exactly(x.draftCheckpoint, g, g.rewrite_checkpoint.frontier)
      BY DEF DraftCheckpoint
    <3>1. CASE st.capture = 0
      <4>1. /\ g.rewrite_checkpoint = s.rewrite_checkpoint
            /\ s.rewrite_checkpoint.frontier \in 0..n
        BY <1>1, <1>2, <1>8, <3>1
      <4>2. Exactly(x.draftCheckpoint, s, s.rewrite_checkpoint.frontier)
        BY <1>7, <4>1 DEF DraftCheckpoint
      <4> QED BY <1>2, <2>3, <4>1, <4>2, ExactlyContinues
    <3>2. CASE st.capture # 0
      <4>1. st.capture \in 0..n /\ g.rewrite_checkpoint.frontier = st.capture
        BY <1>1, <1>8, <2>2, <3>2
      <4>2. Exactly(x.draftCheckpoint, s, st.capture)
        BY <1>2, <1>4, <3>2, <4>1
      <4> QED BY <1>2, <2>3, <4>1, <4>2, ExactlyContinues
    <3> QED BY <3>1, <3>2
  <2>6. DraftHolds(g, q, x)
    BY <1>6, <2>1, <2>4, <2>5 DEF DraftHolds
  <2> QED BY <1>11, <2>6 DEF g, q
<1> QED BY <1>10, <1>11

(* The draft context a prompt starts from: kept at the frontier, put back  *)
(* at the checkpoint.                                                      *)
LEMMA StartDraft ==
  ASSUME Backend = "DFlash", options \in Setups, NEW s, NEW q, LaneOK(options, s, q),
         q.lifecycle \in {"Empty", "Complete"}, NEW d, DeviceTyped(d), DraftHolds(s, q, d),
         NEW p \in Prompts, NEW allowed \in BOOLEAN, NEW plan, plan = ReusePath(p, s, allowed),
         NEW t, t = StartSequence(s, p, plan), NEW st, st = StartPrefill(s, p, plan),
         NEW e, e = StartDevice(d, p, plan)
  PROVE  /\ e.draft \in Seq(Entry) /\ e.draftCheckpoint \in Seq(Entry)
         /\ st.cursor = 0 \/ Exactly(e.draft, t, st.cursor)
         /\ DraftCheckpoint(t, e) /\ DraftCaptured(t, st, e)
<1> DEFINE n == plan.base
           k == Len(p.tokens)
<1>1. /\ s \in SequenceRecords /\ s.text_kv_valid \in Nat /\ s.rewrite_checkpoint.frontier \in Nat
      /\ p.tokens \in Seq(Token) /\ k \in Nat \ {0} /\ p.checkpoint \in Nat
  BY OptionsFacts DEF LaneOK, SequenceRecords, CheckpointRecords
<1>2. /\ n \in 0..k /\ n \in Nat /\ plan.path \in {"reset", "append", "restore"}
      /\ plan.path = "reset" => n = 0
      /\ plan.path # "reset" => /\ q.lifecycle = "Complete"
                                /\ n > 0 /\ n <= s.text_kv_valid
                                /\ PrefixMatches(p, s, n)
      /\ plan.path = "append" => n = s.execution_frontier
      /\ plan.path = "restore" => s.rewrite_checkpoint.valid /\ n = s.rewrite_checkpoint.frontier
  BY <1>1, PlanFacts
<1>3. /\ t.ledger = p.tokens /\ Len(t.positions) = k
      /\ \A i \in 1..k : t.positions[i] = PromptPosition(p.tokens, i)
      /\ t.rewrite_checkpoint = StartCheckpoint(s, p, plan)
  BY StartFields
<1>4. /\ StartCheckpoint(s, p, plan).valid =>
           /\ s.rewrite_checkpoint.valid /\ plan.path # "reset"
           /\ StartCheckpoint(s, p, plan).frontier = s.rewrite_checkpoint.frontier
           /\ s.rewrite_checkpoint.frontier <= n
      /\ CheckpointAction(p, s, plan) = "capture" => p.checkpoint > n
  BY StartCheckpointFacts
<1>5. /\ e.draftCheckpoint = d.draftCheckpoint
      /\ e.draft = IF plan.path = "restore" THEN d.draftCheckpoint ELSE d.draft
  <2> DEFINE tail == IF plan.base = Len(p.tokens) THEN d.hiddenCheckpoint ELSE d.tail
  <2>1. CASE plan.path = "reset"
    <3>1. e = [d EXCEPT !.linear = << >>]
      BY <2>1 DEF StartDevice
    <3> QED BY <2>1, <3>1 DEF DeviceTyped, DeviceFields
  <2>2. CASE plan.path = "append"
    BY <2>2 DEF StartDevice
  <2>3. CASE plan.path = "restore"
    <3>1. e = [d EXCEPT !.linear = d.linearCheckpoint, !.draft = d.draftCheckpoint, !.tail = tail]
      BY <2>3 DEF StartDevice
    <3> HIDE DEF tail
    <3> QED BY <2>3, <3>1 DEF DeviceTyped, DeviceFields
  <2> QED BY <1>2, <2>1, <2>2, <2>3
<1>6. Continues(t, s, n)
  <2>1. CASE plan.path = "reset"
    BY <1>2, <2>1 DEF Continues
  <2>2. CASE plan.path # "reset"
    <3>1. \A i \in 1..n : p.tokens[i] = s.ledger[i] /\ PromptPosition(p.tokens, i) = s.positions[i]
      BY <1>2, <2>2 DEF PrefixMatches
    <3>2. \A i \in 1..n : i \in 1..k
      BY <1>1, <1>2
    <3> QED BY <1>3, <3>1, <3>2 DEF Continues
  <2> QED BY <2>1, <2>2
<1>7. n \in 0..n
  BY <1>2
<1>8. /\ st.cursor = n
      /\ st.capture = IF CheckpointAction(p, s, plan) = "capture" THEN p.checkpoint ELSE 0
  BY DEF StartPrefill
<1> HIDE DEF n
<1>9. n = 0 \/ Exactly(e.draft, t, n)
  <2>1. CASE plan.path = "reset"
    BY <1>2, <2>1
  <2>2. CASE plan.path = "append"
    <3>1. s.dflash_context_frontier = n
      BY <1>2, <2>2 DEF LaneOK, Kept, Backend
    <3>2. Exactly(d.draft, s, n) /\ e.draft = d.draft
      BY <1>2, <1>5, <2>2, <3>1 DEF DraftHolds
    <3> QED BY <1>2, <1>6, <1>7, <3>2, ExactlyContinues
  <2>3. CASE plan.path = "restore"
    <3>1. Exactly(d.draftCheckpoint, s, n) /\ e.draft = d.draftCheckpoint
      BY <1>2, <1>5, <2>3 DEF DraftHolds, DraftCheckpoint
    <3> QED BY <1>2, <1>6, <1>7, <3>1, ExactlyContinues
  <2> QED BY <1>2, <2>1, <2>2, <2>3
<1>10. DraftCheckpoint(t, e)
  <2> SUFFICES ASSUME t.rewrite_checkpoint.valid
               PROVE  Exactly(e.draftCheckpoint, t, t.rewrite_checkpoint.frontier)
    BY DEF DraftCheckpoint
  <2>1. /\ s.rewrite_checkpoint.valid
        /\ t.rewrite_checkpoint.frontier = s.rewrite_checkpoint.frontier
        /\ s.rewrite_checkpoint.frontier \in 0..n
    BY <1>1, <1>2, <1>3, <1>4
  <2>2. Exactly(d.draftCheckpoint, s, s.rewrite_checkpoint.frontier)
    BY <2>1 DEF DraftHolds, DraftCheckpoint
  <2> QED BY <1>2, <1>5, <1>6, <2>1, <2>2, ExactlyContinues
<1>11. DraftCaptured(t, st, e)
  BY <1>1, <1>2, <1>4, <1>8 DEF DraftCaptured
<1> QED BY <1>5, <1>8, <1>9, <1>10, <1>11 DEF DraftHolds

(* A round first appends the columns that wait.                            *)
LEMMA RoundDraft ==
  ASSUME Backend = "DFlash", options \in Setups, NEW s, NEW q, LaneOK(options, s, q),
         q.lifecycle = "Active", NEW d, DeviceTyped(d), DraftHolds(s, q, d), NEW round
  PROVE  DraftHolds(RoundSequence(s, round),
                    [q EXCEPT !.lifecycle = "Pending", !.pending = RoundPending(s, round)],
                    RoundDevice(s, d, round))
<1> DEFINE e == s.execution_frontier
           n == s.dflash_context_frontier
           waiting == e - n
           t == RoundSequence(s, round)
           w == RoundPending(s, round)
           p == [q EXCEPT !.lifecycle = "Pending", !.pending = w]
           x == RoundDevice(s, d, round)
<1>1. /\ s \in SequenceRecords /\ q \in RequestRecords /\ e \in Nat /\ n \in Nat /\ n <= e
      /\ waiting \in Nat /\ n + waiting = e
  <2>1. /\ s \in SequenceRecords /\ q \in RequestRecords /\ e \in Nat /\ n \in Nat /\ n <= e
    BY DEF LaneOK, Decoding, Settled, SequenceRecords, Backend
  <2> QED BY <2>1
<1>2. /\ t.ledger = s.ledger /\ t.positions = s.positions
      /\ t.rewrite_checkpoint = s.rewrite_checkpoint
  BY <1>1, RoundRecord
<1>3. t.dflash_context_frontier = e
  <2> DEFINE f == [s EXCEPT !.kv = RoundBundle(s, round)]
  <2>1. t = [f EXCEPT !.dflash_context_frontier = e]
    BY DEF RoundSequence
  <2>2. DOMAIN f = DOMAIN s
    OBVIOUS
  <2> HIDE DEF f, t
  <2> QED BY <1>1, <2>1, <2>2 DEF SequenceRecords
<1>4. p.lifecycle = "Pending"
  <2> HIDE DEF w
  <2> QED BY <1>1 DEF RequestRecords
<1>5. /\ x.draftCheckpoint = d.draftCheckpoint
      /\ x.draft = IF waiting > 0 THEN DraftAppend(d.draft, n, Upto(d.round, waiting)) ELSE d.draft
  <2> DEFINE columns == RoundColumns(s, d, round)
             context == Context(d.linear, e) \o SubSeq(columns, 1, Len(round.tokens))
             kv == Upto(d.kv, e) \o columns
             linear == IF Backend = "None" THEN context ELSE d.linear
             row == IF Backend = "None" THEN d.round ELSE columns
             mtp == IF Backend = "Mtp"
                      THEN MtpWrite(d.mtp, e, context, round.tokens)
                             \o Scrap(Min({Capacity, e + round.extent + DraftWindow})
                                        - e - Len(round.tokens))
                      ELSE d.mtp
             draft == IF Backend = "DFlash" /\ waiting > 0
                        THEN DraftAppend(d.draft, n, Upto(d.round, waiting)) ELSE d.draft
  <2>1. x = [d EXCEPT !.kv = kv, !.tail = context, !.linear = linear, !.round = row,
                      !.mtp = mtp, !.draft = draft]
    BY DEF RoundDevice
  <2> HIDE DEF x, context, kv, linear, row, mtp, draft
  <2>2. x.draftCheckpoint = d.draftCheckpoint /\ x.draft = draft
    BY <2>1 DEF DeviceTyped, DeviceFields
  <2> QED BY <2>2 DEF draft
<1>6. /\ Exactly(d.draft, s, n) /\ Len(d.round) >= waiting /\ Succeed(d.round, s, n, waiting)
      /\ DraftCheckpoint(s, d)
  BY DEF DraftHolds, DraftWaits
<1> HIDE DEF t, p, x, w
<1>7. Exactly(x.draft, s, e)
  <2>1. CASE waiting > 0
    <3> DEFINE b == Upto(d.round, waiting)
    <3>1. d.round \in Seq(Entry) /\ Len(d.round) \in Nat
      BY DEF DeviceTyped
    <3>2. b \in Seq(Entry) /\ Len(b) = waiting /\ \A i \in 1..waiting : b[i] = d.round[i]
      <4> HIDE DEF waiting
      <4>1. b = [i \in 1..waiting |-> d.round[i]]
        BY <1>1, <1>6, <3>1 DEF Upto
      <4>2. \A i \in 1..waiting : d.round[i] \in Entry
        BY <1>1, <1>6, <3>1
      <4> HIDE DEF b
      <4> QED BY <1>1, <4>1, <4>2
    <3>3. x.draft = DraftAppend(d.draft, n, b)
      BY <1>5, <2>1
    <3> HIDE DEF b
    <3>4. Succeed(b, s, n, Len(b))
      BY <1>6, <3>2 DEF Succeed
    <3>5. Exactly(x.draft, s, n + Len(b))
      <4>1. d.draft \in Seq(Entry)
        BY DEF DraftHolds
      <4> QED BY <1>1, <1>6, <3>2, <3>3, <3>4, <4>1, DraftAppended
    <3> QED BY <1>1, <3>2, <3>5
  <2>2. CASE ~ (waiting > 0)
    <3>1. e = n /\ x.draft = d.draft
      BY <1>1, <1>5, <2>2
    <3> QED BY <1>6, <3>1
  <2> QED BY <2>1, <2>2
<1>8. Exactly(x.draft, t, t.dflash_context_frontier)
  BY <1>2, <1>3, <1>7 DEF Exactly, Follows
<1>9. DraftCheckpoint(t, x)
  BY <1>2, <1>5, <1>6 DEF DraftCheckpoint, Exactly, Follows
<1>10. x.draft \in Seq(Entry) /\ x.draftCheckpoint \in Seq(Entry)
  BY <1>5, <1>7 DEF DraftHolds, Exactly, Follows
<1>11. DraftHolds(t, p, x)
  BY <1>4, <1>8, <1>9, <1>10 DEF DraftHolds
<1> QED BY <1>11 DEF t, p, x, w

(* A resolution moves the draft frontier only when it ends the request.    *)
LEMMA ResolvedDraftFrontier ==
  ASSUME Backend = "DFlash", NEW s \in SequenceRecords, NEW w, NEW verdict,
         NEW t, t = ResolvedSequence(s, w, verdict)
  PROVE  t.dflash_context_frontier = IF w.kind = "speculative" /\ verdict.terminal
                                       THEN w.base_E + verdict.kept ELSE s.dflash_context_frontier
<1> DEFINE m == CommittedFrontiers(s, w, verdict)
           x == Extended(s, w, verdict)
           k == verdict.kept
<1>1. /\ DOMAIN m = DOMAIN s /\ m.dflash_context_frontier = s.dflash_context_frontier
      /\ w.kind = "speculative" => m.execution_frontier = w.base_E + k
  <2> DEFINE a == IF w.kind = "begin" THEN w.prompt_tokens ELSE w.base_E + k
             b == IF w.kind = "begin" THEN w.prompt_tokens + 1 ELSE w.base_S + k
  <2>1. m = [s EXCEPT !.execution_frontier = a, !.ledger_frontier = b]
    BY DEF CommittedFrontiers
  <2>2. w.kind = "speculative" => a = w.base_E + k
    OBVIOUS
  <2> HIDE DEF m, a, b
  <2> QED BY <2>1, <2>2 DEF SequenceRecords
<1>2. /\ DOMAIN x = DOMAIN s
      /\ x.dflash_context_frontier = IF w.kind = "speculative" /\ verdict.terminal
                                       THEN w.base_E + k ELSE s.dflash_context_frontier
  <2>1. CASE w.kind # "speculative"
    <3>1. x = m
      BY <2>1 DEF Extended
    <3> QED BY <1>1, <2>1, <3>1
  <2>2. CASE w.kind = "speculative"
    <3> DEFINE ledger == m.ledger \o SubSeq(w.tokens, 1, k)
               positions == m.positions \o [i \in 1..k |-> Len(m.positions) + i - 1 + m.rope_delta]
               count == IF Backend = "Mtp" /\ ~ verdict.terminal THEN w.next ELSE m.mtp_draft_count
               mtp == IF Backend = "Mtp" THEN m.execution_frontier ELSE m.mtp_kv_valid
               draft == IF Backend = "DFlash" /\ verdict.terminal THEN m.execution_frontier
                                                                  ELSE m.dflash_context_frontier
    <3>1. x = CommittedSpeculation(m, w, verdict)
      BY <2>2 DEF Extended
    <3> HIDE DEF m
    <3>2. x = [m EXCEPT !.ledger = ledger, !.positions = positions,
                        !.text_kv_valid = m.execution_frontier,
                        !.tail_hidden_valid = TRUE, !.mtp_kv_valid = mtp,
                        !.mtp_draft_count = count, !.dflash_context_frontier = draft]
      BY <1>1, <3>1 DEF CommittedSpeculation
    <3> HIDE DEF x, ledger, positions, mtp, count, draft
    <3>3. DOMAIN x = DOMAIN s /\ x.dflash_context_frontier = draft
      BY <1>1, <3>2 DEF SequenceRecords
    <3> QED BY <1>1, <2>2, <3>3 DEF draft
  <2> QED BY <2>1, <2>2
<1> DEFINE grown == IF Backend = "DFlash" /\ verdict.terminal /\ w.kind = "speculative"
                      THEN Materialize(x.kv, x.execution_frontier, x.execution_frontier) ELSE x.kv
           kv == Trim(grown, x.text_kv_valid, BackendValid(x))
           trimmed == [x EXCEPT !.kv = kv]
           released == ReleaseGrowth(trimmed.kv)
<1>3. t = IF verdict.terminal THEN RetainedSequence(trimmed) ELSE trimmed
  BY DEF ResolvedSequence, Extended
<1> HIDE DEF x, kv
<1>4. /\ trimmed.dflash_context_frontier = x.dflash_context_frontier /\ DOMAIN trimmed = DOMAIN s
  BY <1>2 DEF SequenceRecords
<1> HIDE DEF trimmed
<1>5. t.dflash_context_frontier = trimmed.dflash_context_frontier
  <2>1. CASE verdict.terminal
    <3>1. t = [trimmed EXCEPT !.mtp_draft_count = 0, !.kv = released, !.retained = TRUE]
      BY <1>3, <2>1 DEF RetainedSequence
    <3> HIDE DEF released
    <3> QED BY <1>4, <3>1 DEF SequenceRecords
  <2>2. CASE ~ verdict.terminal
    BY <1>3, <2>2
  <2> QED BY <2>1, <2>2
<1> QED BY <1>2, <1>4, <1>5

(* What a resolution leaves of the draft context.                          *)
LEMMA ResolvedDraftFields ==
  ASSUME Backend = "DFlash", NEW d, DOMAIN d = DeviceFields, NEW w, NEW verdict,
         NEW y, y = ResolvedDevice(d, w, verdict)
  PROVE  /\ y.draftCheckpoint = d.draftCheckpoint /\ y.round = d.round
         /\ y.draft = IF w.kind = "speculative" /\ verdict.terminal
                        THEN DraftAppend(d.draft, w.base_E, SubSeq(d.round, 1, verdict.kept))
                        ELSE d.draft
<1> DEFINE kept == SubSeq(d.round, 1, verdict.kept)
           linear == d.linear \o kept
           tail == IF verdict.terminal /\ verdict.kept < Len(w.tokens)
                     THEN Context(d.linear, w.base_E) \o kept ELSE d.tail
           draft == IF Backend = "DFlash" /\ verdict.terminal
                      THEN DraftAppend(d.draft, w.base_E, kept) ELSE d.draft
<1>1. CASE w.kind # "speculative"
  BY <1>1 DEF ResolvedDevice
<1>2. CASE w.kind = "speculative"
  <2>1. y = [d EXCEPT !.linear = linear, !.tail = tail, !.draft = draft]
    BY <1>2 DEF ResolvedDevice
  <2> HIDE DEF linear, tail, draft
  <2>2. y.draftCheckpoint = d.draftCheckpoint /\ y.round = d.round /\ y.draft = draft
    BY <2>1 DEF DeviceFields
  <2> QED BY <1>2, <2>2 DEF draft
<1> QED BY <1>1, <1>2

(* The kept columns wait for the next round, or are appended at once when  *)
(* there is none.                                                          *)
LEMMA ResolvedDraft ==
  ASSUME Backend = "DFlash", options \in Setups, NEW s, NEW q, LaneOK(options, s, q),
         q.pending.kind # "none",
         NEW verdict, VerdictFits(verdict, q.pending.tokens, q.remaining),
         NEW d, Holds(s, q, d), DraftHolds(s, q, d),
         NEW t, t = ResolvedSequence(s, q.pending, verdict),
         NEW p, p = ResolvedRequest(q, verdict),
         NEW y, y = ResolvedDevice(d, q.pending, verdict)
  PROVE  DraftHolds(t, p, y)
<1> DEFINE w == q.pending
           x == Extended(s, w, verdict)
           k == verdict.kept
           e == s.execution_frontier
<1>1. /\ w.kind \in {"begin", "ordinary", "speculative"} /\ q.lifecycle = "Pending"
      /\ s \in SequenceRecords /\ q \in RequestRecords
      /\ s.rewrite_checkpoint.frontier \in Nat /\ e \in Nat /\ s.text_kv_valid \in Nat
      /\ s.rewrite_checkpoint.valid => s.rewrite_checkpoint.frontier <= s.text_kv_valid
      /\ w.tokens \in Seq(Tokens) /\ q.remaining \in Nat
  BY DEF LaneOK, RequestRecords, PendingRecords, SequenceRecords, CheckpointRecords
<1>2. x \in SequenceRecords
  BY <1>1, BeginCommitted, OrdinaryCommitted, SpeculationCommitted DEF Committed
<1>3. /\ t.ledger = x.ledger /\ t.positions = x.positions /\ t.rope_delta = x.rope_delta
      /\ t.text_kv_valid = x.text_kv_valid /\ t.rewrite_checkpoint = x.rewrite_checkpoint
  BY <1>2, ResolvedRecord
<1>4. /\ x.rope_delta = s.rope_delta /\ x.rewrite_checkpoint = s.rewrite_checkpoint
      /\ w.kind # "speculative" =>
           /\ x.ledger = s.ledger /\ x.positions = s.positions
           /\ x.text_kv_valid = s.text_kv_valid
      /\ w.kind = "speculative" =>
           ExtendedBy(x, s, w.tokens, k) /\ x.text_kv_valid = w.base_E + k
  BY <1>1, ExtendedRecord
<1> HIDE DEF x
<1>5. k \in 1..Len(w.tokens) /\ k \in Nat /\ k > 0 /\ Len(w.tokens) \in Nat
  BY <1>1 DEF VerdictFits
<1>6. /\ p.lifecycle = IF verdict.terminal THEN "Complete" ELSE "Active"
  BY <1>1 DEF ResolvedRequest, RequestRecords
<1>7. t.execution_frontier = t.text_kv_valid
  <2>1. LaneOK(options, t, p)
    BY ResolvedKeeps
  <2>2. Settled(options, t)
    BY <1>6, <2>1 DEF LaneOK, Decoding, Kept
  <2> QED BY <2>2 DEF Settled
<1>8. t.dflash_context_frontier = IF w.kind = "speculative" /\ verdict.terminal
                                    THEN w.base_E + k ELSE s.dflash_context_frontier
  BY <1>1, ResolvedDraftFrontier
<1>9. /\ y.draftCheckpoint = d.draftCheckpoint /\ y.round = d.round
      /\ y.draft = IF w.kind = "speculative" /\ verdict.terminal
                     THEN DraftAppend(d.draft, w.base_E, SubSeq(d.round, 1, k)) ELSE d.draft
  BY ResolvedDraftFields DEF Holds, DeviceTyped
<1>10. /\ d.draft \in Seq(Entry) /\ d.draftCheckpoint \in Seq(Entry) /\ d.round \in Seq(Entry)
       /\ Exactly(d.draft, s, s.dflash_context_frontier) /\ DraftCheckpoint(s, d)
  BY <1>1 DEF DraftHolds, Holds, DeviceTyped
<1>11. CASE w.kind = "begin"
  <2>1. s.dflash_context_frontier = s.text_kv_valid
    BY <1>11 DEF LaneOK, Begun, Backend
  <2>2. /\ t.ledger = s.ledger /\ t.positions = s.positions
        /\ t.dflash_context_frontier = s.dflash_context_frontier
        /\ t.rewrite_checkpoint = s.rewrite_checkpoint
        /\ t.execution_frontier = t.dflash_context_frontier /\ y.draft = d.draft
    BY <1>3, <1>4, <1>7, <1>8, <1>9, <1>11, <2>1
  <2>3. Exactly(y.draft, t, t.dflash_context_frontier) /\ DraftCheckpoint(t, y)
    BY <1>9, <1>10, <2>2 DEF Exactly, Follows, DraftCheckpoint
  <2>4. DraftWaits(t, y)
    <3>1. t.execution_frontier - t.dflash_context_frontier = 0
      BY <1>1, <2>1, <2>2
    <3>2. Len(y.round) >= 0
      BY <1>9, <1>10
    <3> QED BY <3>1, <3>2 DEF DraftWaits, Succeed
  <2> QED BY <1>6, <1>9, <1>10, <2>2, <2>3, <2>4 DEF DraftHolds
<1>12. CASE w.kind = "ordinary"
  BY <1>12 DEF LaneOK, OrdinaryRound, Backend
<1>13. CASE w.kind = "speculative"
  <2>1. /\ w.base_E = e /\ Len(s.ledger) = e + 1 /\ Len(s.positions) = e + 1
        /\ s.text_kv_valid = e /\ s.dflash_context_frontier = e
    <3>1. SpeculativeRound(options, s, w, q.remaining) /\ Len(s.ledger) = Len(s.positions)
      BY <1>13 DEF LaneOK
    <3> QED BY <3>1 DEF SpeculativeRound, Decoding, Settled, Backend
  <2>2. RoundHolds(s, w.tokens, d) /\ LastPosition(s)
    BY <1>1, <1>13 DEF Holds
  <2>3. ExtendedBy(t, s, w.tokens, k)
    BY <1>3, <1>4, <1>13 DEF ExtendedBy
  <2>4. t.execution_frontier = e + k /\ t.rewrite_checkpoint = s.rewrite_checkpoint
    BY <1>3, <1>4, <1>7, <1>13, <2>1
  <2>5. /\ Continues(t, s, e + 1)
        /\ \A j \in 1..k : RoundEntry(s, w.tokens, j) = <<t.ledger[e + j], t.positions[e + j]>>
    BY <1>1, <1>5, <2>1, <2>2, <2>3, ExtendedColumns
  <2>6. /\ Len(d.round) >= Len(w.tokens)
        /\ \A j \in 1..Len(w.tokens) : d.round[j] = RoundEntry(s, w.tokens, j)
    BY <2>2 DEF RoundHolds
  <2> HIDE DEF e, k
  <2>7. Succeed(d.round, t, e, k) /\ k \in 0..Len(d.round) /\ Len(d.round) >= k
    <3>1. \A j \in 1..k : j \in 1..Len(w.tokens)
      BY <1>5
    <3>2. Len(d.round) \in Nat
      BY <1>10
    <3> QED BY <1>5, <2>5, <2>6, <3>1, <3>2 DEF Succeed
  <2>8. e + 1 \in Nat /\ e \in 0..(e + 1)
    BY <1>1
  <2>9. Exactly(d.draft, t, e)
    BY <1>10, <2>1, <2>5, <2>8, ExactlyContinues
  <2>10. DraftCheckpoint(t, y)
    <3> SUFFICES ASSUME s.rewrite_checkpoint.valid
                 PROVE  Exactly(d.draftCheckpoint, t, s.rewrite_checkpoint.frontier)
      BY <1>9, <2>4 DEF DraftCheckpoint
    <3>1. s.rewrite_checkpoint.frontier \in 0..(e + 1)
      BY <1>1, <2>1
    <3>2. Exactly(d.draftCheckpoint, s, s.rewrite_checkpoint.frontier)
      BY <1>10 DEF DraftCheckpoint
    <3> QED BY <2>5, <2>8, <3>1, <3>2, ExactlyContinues
  <2>11. CASE verdict.terminal
    <3> DEFINE kept == SubSeq(d.round, 1, k)
    <3>1. kept \in Seq(Entry) /\ Len(kept) = k /\ \A i \in 1..k : kept[i] = d.round[i]
      BY <1>10, <2>7, RowPrefix
    <3>2. y.draft = DraftAppend(d.draft, e, kept) /\ t.dflash_context_frontier = e + k
      BY <1>8, <1>9, <1>13, <2>1, <2>11
    <3> HIDE DEF kept
    <3>3. Succeed(kept, t, e, Len(kept))
      BY <2>7, <3>1 DEF Succeed
    <3>4. Exactly(y.draft, t, e + Len(kept))
      BY <1>1, <1>10, <2>9, <3>1, <3>2, <3>3, DraftAppended
    <3>5. Exactly(y.draft, t, t.dflash_context_frontier) /\ y.draft \in Seq(Entry)
      BY <3>1, <3>2, <3>4 DEF Exactly, Follows
    <3> QED BY <1>6, <1>9, <1>10, <2>10, <2>11, <3>5 DEF DraftHolds
  <2>12. CASE ~ verdict.terminal
    <3>1. y.draft = d.draft /\ t.dflash_context_frontier = e
      BY <1>8, <1>9, <2>1, <2>12
    <3>2. t.execution_frontier - t.dflash_context_frontier = k
      BY <1>1, <1>5, <2>4, <3>1
    <3>3. DraftWaits(t, y)
      BY <1>9, <2>7, <3>1, <3>2 DEF DraftWaits
    <3> QED BY <1>6, <1>9, <1>10, <2>9, <2>10, <2>12, <3>1, <3>3 DEF DraftHolds
  <2> QED BY <2>11, <2>12
<1> QED BY <1>1, <1>11, <1>12, <1>13

(* A cleared lane promises nothing about its draft context.                *)
LEMMA ClearedDraft ==
  ASSUME NEW delta, NEW d, d.draft \in Seq(Entry), d.draftCheckpoint \in Seq(Entry)
  PROVE  DraftHolds([ClearedSequence EXCEPT !.rope_delta = delta], ClearedRequest, d)
<1> DEFINE c == ClearedSequence
           s == [c EXCEPT !.rope_delta = delta]
<1> HIDE DEF c
<1>1. c \in SequenceRecords /\ ~ c.rewrite_checkpoint.valid
  BY ClearedRecords DEF c
<1>2. s.rewrite_checkpoint = c.rewrite_checkpoint
  BY <1>1 DEF SequenceRecords
<1> HIDE DEF s
<1>3. ClearedRequest.lifecycle = "Empty"
  BY DEF ClearedRequest
<1>4. DraftHolds(s, ClearedRequest, d)
  BY <1>1, <1>2, <1>3 DEF DraftHolds, DraftCheckpoint
<1> QED BY <1>4 DEF s, c

(* Lanes are cleared.                                                      *)
LEMMA ClearingDraft ==
  ASSUME DraftLanes, UNCHANGED device, NEW lanes, ClearLanes(lanes)
  PROVE  DraftLanes'
<1>1. /\ sequence' = [l \in Lanes |-> IF l \in lanes
                                        THEN [ClearedSequence EXCEPT !.rope_delta =
                                                sequence[l].rope_delta]
                                        ELSE sequence[l]]
      /\ request' = [l \in Lanes |-> IF l \in lanes THEN ClearedRequest ELSE request[l]]
  BY DEF ClearLanes
<1>2. ASSUME NEW l \in Lanes
      PROVE  DraftHolds(sequence'[l], request'[l], device'[l])
  <2>1. DraftHolds(sequence[l], request[l], device[l]) /\ device'[l] = device[l]
    BY DEF DraftLanes
  <2>2. CASE l \in lanes
    <3>1. /\ sequence'[l] = [ClearedSequence EXCEPT !.rope_delta = sequence[l].rope_delta]
          /\ request'[l] = ClearedRequest
      BY <1>1, <2>2, Zenon
    <3>2. device[l].draft \in Seq(Entry) /\ device[l].draftCheckpoint \in Seq(Entry)
      BY <2>1 DEF DraftHolds
    <3>3. DraftHolds([ClearedSequence EXCEPT !.rope_delta = sequence[l].rope_delta],
                     ClearedRequest, device[l])
      BY <3>2, ClearedDraft, Zenon
    <3> QED BY <2>1, <3>1, <3>3, Zenon
  <2>3. CASE l \notin lanes
    <3>1. sequence'[l] = sequence[l] /\ request'[l] = request[l]
      BY <1>1, <2>3, Zenon
    <3> QED BY <2>1, <3>1, Zenon
  <2> QED BY <2>2, <2>3
<1> QED BY <1>2 DEF DraftLanes

(* A step of a staged prefill whose features reach its own lane.           *)
LEMMA AdvancePrefillDraft ==
  ASSUME Backend = "DFlash", ContentInv, DraftLanes, NEW l \in Lanes, NEW s \in SequenceRecords,
         NEW st \in PrefillRecords, NEW d, NEW remaining \in Nat,
         s.rewrite_checkpoint.valid => s.rewrite_checkpoint.frontier <= s.text_kv_valid,
         Staged(options, s, st, remaining),
         DeviceTyped(d), Resident(s, d), StagedHolds(s, st, d),
         d.draft \in Seq(Entry), d.draftCheckpoint \in Seq(Entry),
         st.cursor = 0 \/ Exactly(d.draft, s, st.cursor),
         DraftCheckpoint(s, d), DraftCaptured(s, st, d),
         AdvancePrefill(l, s, st, d, l, remaining)
  PROVE  DraftLanes'
<1>1. /\ sequence \in [Lanes -> SequenceRecords] /\ request \in [Lanes -> RequestRecords]
      /\ device = [k \in Lanes |-> device[k]]
      /\ \A k \in Lanes : DraftHolds(sequence[k], request[k], device[k])
  BY DEF ContentInv, LanesInv, DraftLanes
<1>2. (st.cursor = Len(st.prompt) => s.tail_hidden_valid) /\ Backed(s.kv)
  BY DEF Staged, BundleCovers, Backed
<1>3. PICK token \in Tokens :
        LET exact == st.cursor = Len(st.prompt)
            devices == [device EXCEPT ![l] = IF exact THEN ExactHitDevice(d, st, token)
                                                      ELSE ChunkDevice(BridgeMtp(d, st), st, token)]
        IN  /\ device' = IF Backend = "DFlash" /\ ~ exact
                           THEN FeedDraft(devices, l, st, ChunkColumns(d, st)) ELSE devices
            /\ sequence' = [sequence EXCEPT ![l] =
                              IF Samples(st) THEN FinishedSequence(s, st, token)
                                             ELSE PrefilledSequence(s, st)]
            /\ request' = [request EXCEPT ![l] = StagedRequest(st, token, remaining)]
  BY <1>2 DEF AdvancePrefill
<1> DEFINE e == IF st.cursor = Len(st.prompt) THEN ExactHitDevice(d, st, token)
                                              ELSE ChunkDevice(BridgeMtp(d, st), st, token)
           x == IF Samples(st) THEN FinishedSequence(s, st, token) ELSE PrefilledSequence(s, st)
           y == StagedRequest(st, token, remaining)
           devices == [device EXCEPT ![l] = e]
           fed == FeedDraft(devices, l, st, ChunkColumns(d, st))
<1>4. e.draft = d.draft /\ e.draftCheckpoint = d.draftCheckpoint /\ DOMAIN e = DeviceFields
  BY ChunkDraft DEF DeviceTyped
<1>5. /\ sequence' = [sequence EXCEPT ![l] = x] /\ request' = [request EXCEPT ![l] = y]
      /\ device' = IF st.cursor # Len(st.prompt) THEN fed ELSE devices
  BY <1>3
<1>6. \A v : DraftWrote(v, d, st) => DraftHolds(x, y, v)
  BY PrefillDraft
<1> HIDE DEF x, y, e
<1>7. /\ devices = [k \in Lanes |-> devices[k]] /\ devices[l] = e
      /\ \A k \in Lanes : k # l => devices[k] = device[k]
  BY <1>1
<1> HIDE DEF devices
<1>8. /\ DraftWrote(device'[l], d, st)
      /\ \A k \in Lanes : k # l => device'[k] = device[k]
  <2>1. CASE st.cursor = Len(st.prompt)
    BY <1>4, <1>5, <1>7, <2>1 DEF DraftWrote
  <2>2. CASE st.cursor # Len(st.prompt)
    <3>1. device' = fed
      BY <1>5, <2>2
    <3>2. /\ fed[l].draft = DraftAppend(e.draft, st.cursor, ChunkColumns(d, st))
          /\ fed[l].draftCheckpoint = IF ChunkEnd(st) = st.capture
                                        THEN fed[l].draft ELSE e.draftCheckpoint
          /\ \A k \in Lanes : k # l => fed[k] = devices[k]
      BY <1>4, <1>7, FedDraft
    <3> HIDE DEF fed
    <3> QED BY <1>4, <1>7, <2>2, <3>1, <3>2 DEF DraftWrote
  <2> QED BY <2>1, <2>2
<1>9. ASSUME NEW k \in Lanes
      PROVE  DraftHolds(sequence'[k], request'[k], device'[k])
  <2>1. CASE k = l
    <3>1. sequence'[l] = x /\ request'[l] = y
      BY <1>1, <1>5
    <3> QED BY <1>6, <1>8, <2>1, <3>1
  <2>2. CASE k # l
    <3>1. sequence'[k] = sequence[k] /\ request'[k] = request[k] /\ device'[k] = device[k]
      BY <1>1, <1>5, <1>8, <2>2
    <3> QED BY <1>1, <3>1
  <2> QED BY <2>1, <2>2
<1> QED BY <1>9 DEF DraftLanes

(* start_prefill_lane.                                                     *)
LEMMA StartPrefillLaneDraft ==
  ASSUME Backend = "DFlash", ContentInv, DraftLanes, ~ BlindStart, NEW l \in Lanes,
         StartPrefillLane(l)
  PROVE  DraftLanes'
<1>1. /\ options \in Setups /\ LaneOK(options, sequence[l], request[l])
      /\ request[l].lifecycle \in {"Empty", "Complete"}
      /\ Holds(sequence[l], request[l], device[l])
      /\ DraftHolds(sequence[l], request[l], device[l])
  BY DEF ContentInv, LanesInv, StartPrefillLane, Free, DraftLanes
<1>2. PICK p \in Prompts, allowed \in BOOLEAN :
        LET s == sequence[l]
            plan == ReusePath(p, s, allowed)
        IN  IF Reusable(s, plan)
              THEN AdvancePrefill(l, StartSequence(s, p, plan), StartPrefill(s, p, plan),
                                  StartDevice(device[l], p, plan), l, p.output)
              ELSE Throw({l})
  BY DEF StartPrefillLane
<1> DEFINE s == sequence[l]
           plan == ReusePath(p, s, allowed)
           t == StartSequence(s, p, plan)
           st == StartPrefill(s, p, plan)
           d == StartDevice(device[l], p, plan)
<1>3. Reusable(s, plan)
  BY <1>1, PlanFacts
<1>4. AdvancePrefill(l, t, st, d, l, p.output)
  BY <1>2, <1>3
<1>5. /\ t \in SequenceRecords /\ st \in PrefillRecords
      /\ t.rewrite_checkpoint.valid => t.rewrite_checkpoint.frontier <= t.text_kv_valid
      /\ Staged(options, t, st, p.output)
  BY <1>1, StartStaged
<1>6. p.output \in Nat
  BY <1>1, OptionsFacts
<1>7. SeesMedia(p, plan.base)
  BY <1>4 DEF BlindStart, StartPrefillLane
<1>8. DeviceTyped(d) /\ Resident(t, d) /\ StagedHolds(t, st, d)
  BY <1>1, <1>7, StartHolds
<1>9. DeviceTyped(device[l])
  BY <1>1 DEF Holds
<1>10. /\ d.draft \in Seq(Entry) /\ d.draftCheckpoint \in Seq(Entry)
       /\ st.cursor = 0 \/ Exactly(d.draft, t, st.cursor)
       /\ DraftCheckpoint(t, d) /\ DraftCaptured(t, st, d)
  BY <1>1, <1>9, StartDraft
<1> HIDE DEF t, st, d, plan, s
<1> QED BY <1>4, <1>5, <1>6, <1>8, <1>10, AdvancePrefillDraft

(* advance_prefill, the ingress frame still naming the lane.               *)
LEMMA AdvancePrefillLaneDraft ==
  ASSUME Backend = "DFlash", ContentInv, DraftLanes, ~ StrayFeed, NEW l \in Lanes,
         AdvancePrefillLane(l)
  PROVE  DraftLanes'
<1> DEFINE s == sequence[l]
           q == request[l]
           st == request[l].prefill
           r == request[l].remaining
           d == device[l]
<1>1. ingress = l
  BY DEF StrayFeed
<1>2. /\ LaneOK(options, s, q) /\ q.lifecycle = "Prefilling"
      /\ AdvancePrefill(l, s, st, d, l, r) /\ Holds(s, q, d) /\ DraftHolds(s, q, d)
  BY <1>1 DEF ContentInv, LanesInv, AdvancePrefillLane, DraftLanes
<1>3. /\ s \in SequenceRecords /\ st \in PrefillRecords /\ r \in Nat
      /\ s.rewrite_checkpoint.valid => s.rewrite_checkpoint.frontier <= s.text_kv_valid
      /\ Staged(options, s, st, r)
  BY <1>2 DEF LaneOK, RequestRecords
<1>4. DeviceTyped(d) /\ Resident(s, d) /\ StagedHolds(s, st, d)
  BY <1>2 DEF Holds
<1>5. /\ d.draft \in Seq(Entry) /\ d.draftCheckpoint \in Seq(Entry)
      /\ Exactly(d.draft, s, st.cursor)
      /\ DraftCheckpoint(s, d) /\ DraftCaptured(s, st, d)
  BY <1>2, <1>3 DEF DraftHolds, Staged
<1> HIDE DEF s, q, st, r, d
<1> QED BY <1>2, <1>3, <1>4, <1>5, AdvancePrefillDraft

(* decode_batch.                                                           *)
LEMMA DecodeBatchDraft ==
  ASSUME Backend = "DFlash", ContentInv, DraftLanes, DecodeBatch
  PROVE  DraftLanes'
<1>1. /\ LanesInv /\ options \in Setups
      /\ \A l \in Lanes : /\ LaneOK(options, sequence[l], request[l])
                          /\ DeviceTyped(device[l])
                          /\ DraftHolds(sequence[l], request[l], device[l])
  BY DEF ContentInv, LanesInv, DraftLanes, Holds
<1>2. PICK rounds : \A l \in Lanes :
        /\ l \in Active =>
             /\ RoundFits(options, sequence[l], request[l].remaining, rounds[l])
             /\ sequence'[l] = RoundSequence(sequence[l], rounds[l])
             /\ request'[l] = [request[l] EXCEPT !.lifecycle = "Pending",
                                                 !.pending = RoundPending(sequence[l], rounds[l])]
             /\ device'[l] = RoundDevice(sequence[l], device[l], rounds[l])
        /\ l \notin Active =>
             sequence'[l] = sequence[l] /\ request'[l] = request[l] /\ device'[l] = device[l]
  BY <1>1, RoundOnLanes
<1>3. ASSUME NEW l \in Lanes
      PROVE  DraftHolds(sequence'[l], request'[l], device'[l])
  <2>1. CASE l \in Active
    <3>1. request[l].lifecycle = "Active"
      BY <2>1 DEF Active
    <3>2. DraftHolds(RoundSequence(sequence[l], rounds[l]),
                     [request[l] EXCEPT !.lifecycle = "Pending",
                                        !.pending = RoundPending(sequence[l], rounds[l])],
                     RoundDevice(sequence[l], device[l], rounds[l]))
      BY <1>1, <3>1, RoundDraft
    <3> QED BY <1>2, <2>1, <3>2, Zenon
  <2>2. CASE l \notin Active
    BY <1>1, <1>2, <2>2, Zenon
  <2> QED BY <2>1, <2>2
<1> QED BY <1>3 DEF DraftLanes

(* Resolving pending lanes.                                                *)
LEMMA ResolveDraft ==
  ASSUME Backend = "DFlash", ContentInv, DraftLanes, NEW lanes, lanes \subseteq Lanes,
         \A l \in lanes : request[l].pending.kind # "none",
         NEW verdicts, \A l \in lanes : verdicts[l] \in Verdicts(l) \union {Cancelled},
         Resolve(lanes, verdicts)
  PROVE  DraftLanes'
<1>1. LanesInv /\ options \in Setups
  BY DEF ContentInv, LanesInv
<1>2. ASSUME NEW l \in Lanes
      PROVE  DraftHolds(sequence'[l], request'[l], device'[l])
  <2>1. /\ LaneOK(options, sequence[l], request[l])
        /\ Holds(sequence[l], request[l], device[l])
        /\ DraftHolds(sequence[l], request[l], device[l])
    BY DEF ContentInv, LanesInv, DraftLanes
  <2>2. /\ l \in lanes /\ ~ verdicts[l].cancelled =>
             /\ VerdictFits(verdicts[l], request[l].pending.tokens, request[l].remaining)
             /\ sequence'[l] = ResolvedSequence(sequence[l], request[l].pending, verdicts[l])
             /\ request'[l] = ResolvedRequest(request[l], verdicts[l])
             /\ device'[l] = ResolvedDevice(device[l], request[l].pending, verdicts[l])
        /\ l \in lanes /\ verdicts[l].cancelled =>
             /\ sequence'[l] = [ClearedSequence EXCEPT !.rope_delta = sequence[l].rope_delta]
             /\ request'[l] = ClearedRequest /\ device'[l] = device[l]
        /\ l \notin lanes =>
             sequence'[l] = sequence[l] /\ request'[l] = request[l] /\ device'[l] = device[l]
    BY <1>1, VerdictOnLanes, Zenon
  <2>3. CASE l \in lanes /\ ~ verdicts[l].cancelled
    <3>1. /\ VerdictFits(verdicts[l], request[l].pending.tokens, request[l].remaining)
          /\ sequence'[l] = ResolvedSequence(sequence[l], request[l].pending, verdicts[l])
          /\ request'[l] = ResolvedRequest(request[l], verdicts[l])
          /\ device'[l] = ResolvedDevice(device[l], request[l].pending, verdicts[l])
      BY <2>2, <2>3, Zenon
    <3>2. request[l].pending.kind # "none"
      BY <2>3
    <3> QED BY <1>1, <2>1, <3>1, <3>2, ResolvedDraft
  <2>4. CASE l \in lanes /\ verdicts[l].cancelled
    <3>1. /\ sequence'[l] = [ClearedSequence EXCEPT !.rope_delta = sequence[l].rope_delta]
          /\ request'[l] = ClearedRequest /\ device'[l] = device[l]
      BY <2>2, <2>4, Zenon
    <3>2. device[l].draft \in Seq(Entry) /\ device[l].draftCheckpoint \in Seq(Entry)
      BY <2>1 DEF DraftHolds
    <3>3. DraftHolds([ClearedSequence EXCEPT !.rope_delta = sequence[l].rope_delta],
                     ClearedRequest, device[l])
      BY <3>2, ClearedDraft, Zenon
    <3> QED BY <3>1, <3>3, Zenon
  <2>5. CASE l \notin lanes
    <3>1. sequence'[l] = sequence[l] /\ request'[l] = request[l] /\ device'[l] = device[l]
      BY <2>2, <2>5, Zenon
    <3> QED BY <2>1, <3>1
  <2> QED BY <2>3, <2>4, <2>5
<1> QED BY <1>2 DEF DraftLanes

(* resolve_prefill_lane and resolve_pending_batch.                         *)
LEMMA ResolutionDraft ==
  ASSUME Backend = "DFlash", ContentInv, DraftLanes,
         (\E l \in Lanes : ResolvePrefillLane(l)) \/ ResolvePendingBatch
  PROVE  DraftLanes'
<1>1. ASSUME NEW l \in Lanes, ResolvePrefillLane(l)
      PROVE  DraftLanes'
  <2>1. PICK verdict \in Verdicts(l) : Resolve({l}, [i \in {l} |-> verdict])
    BY <1>1 DEF ResolvePrefillLane
  <2>2. request[l].pending.kind = "begin"
    BY <1>1 DEF ResolvePrefillLane
  <2> DEFINE verdicts == [i \in {l} |-> verdict]
  <2>3. \A i \in {l} : verdicts[i] \in Verdicts(i) \union {Cancelled}
    OBVIOUS
  <2>4. \A i \in {l} : request[i].pending.kind # "none"
    BY <2>2
  <2> HIDE DEF verdicts
  <2> QED BY <2>1, <2>3, <2>4, ResolveDraft DEF verdicts
<1>2. ASSUME ResolvePendingBatch
      PROVE  DraftLanes'
  <2> DEFINE lanes == PendingOf({"ordinary", "speculative"})
  <2>1. PICK verdicts \in [lanes -> UNION {Verdicts(l) : l \in lanes} \union {Cancelled}] :
          /\ \A l \in lanes : verdicts[l] \in Verdicts(l) \union {Cancelled}
          /\ Resolve(lanes, verdicts)
    BY <1>2, Zenon DEF ResolvePendingBatch
  <2>2. lanes \subseteq Lanes /\ \A l \in lanes : request[l].pending.kind # "none"
    BY DEF PendingOf
  <2> HIDE DEF lanes
  <2> QED BY <2>1, <2>2, ResolveDraft
<1> QED BY <1>1, <1>2

(* One step of the program.                                                *)
LEMMA NextKeepsDraft ==
  ContentInv /\ DraftInv /\ [Next]_vars /\ [~ BlindStart]_vars /\ [~ StrayFeed]_vars => DraftInv'
<1>1. ASSUME DraftInv, UNCHANGED vars PROVE DraftInv'
  BY <1>1 DEF DraftInv, DraftLanes, vars
<1> SUFFICES ASSUME ContentInv, DraftInv, Next, ~ BlindStart, ~ StrayFeed,
                    options.backend = "DFlash"
             PROVE  DraftLanes'
  <2>1. ASSUME Next PROVE options' = options
    BY <2>1 DEF Next
  <2> QED BY <1>1, <2>1 DEF DraftInv
<1>2. Backend = "DFlash" /\ DraftLanes
  BY DEF DraftInv, Backend
<1>3. CASE \E l \in Lanes : StartPrefillLane(l)
  BY <1>2, <1>3, StartPrefillLaneDraft
<1>4. CASE \E l \in Lanes : AdvancePrefillLane(l)
  BY <1>2, <1>4, AdvancePrefillLaneDraft
<1>5. CASE DecodeBatch
  BY <1>2, <1>5, DecodeBatchDraft
<1>6. CASE (\E l \in Lanes : ResolvePrefillLane(l)) \/ ResolvePendingBatch
  BY <1>2, <1>6, ResolutionDraft
<1>7. CASE \E l \in Lanes : AbortLane(l) \/ EvictRetainedLane(l)
  <2>1. PICK l \in Lanes : AbortLane(l) \/ EvictRetainedLane(l)
    BY <1>7
  <2>2. ClearLanes({l}) /\ UNCHANGED device
    BY <2>1 DEF AbortLane, EvictRetainedLane
  <2> QED BY <1>2, <2>2, ClearingDraft
<1>8. CASE RoundFails
  <2>1. ClearLanes(PendingOf({"ordinary", "speculative"})) /\ UNCHANGED device
    BY <1>8 DEF RoundFails
  <2> QED BY <1>2, <2>1, ClearingDraft
<1> QED BY <1>3, <1>4, <1>5, <1>6, <1>7, <1>8 DEF Next

(* Every lane starts empty.                                                *)
LEMMA InitDraft == Init => DraftInv
<1> SUFFICES ASSUME Init, NEW l \in Lanes PROVE DraftHolds(sequence[l], request[l], device[l])
  BY DEF DraftInv, DraftLanes
<1>1. /\ request[l] = ClearedRequest /\ sequence[l] = ClearedSequence
      /\ device[l].draft = << >> /\ device[l].draftCheckpoint = << >>
  BY DEF Init
<1>2. << >> \in Seq(Entry)
  OBVIOUS
<1>3. ClearedSequence = [ClearedSequence EXCEPT !.rope_delta = 0]
  <2>1. ClearedSequence \in SequenceRecords /\ ClearedSequence.rope_delta = 0
    BY ClearedRecords
  <2> QED BY <2>1 DEF SequenceRecords
<1>4. DraftHolds([ClearedSequence EXCEPT !.rope_delta = 0], ClearedRequest, device[l])
  BY <1>1, <1>2, ClearedDraft, Zenon
<1> QED BY <1>1, <1>3, <1>4, Zenon

(* The context never gets ahead of the Text KV.                            *)
LEMMA DraftBehindText ==
  ASSUME LanesInv, DraftLanes, options.backend = "DFlash", NEW l \in Lanes,
         request[l].lifecycle # "Empty"
  PROVE  sequence[l].dflash_context_frontier <= sequence[l].text_kv_valid
<1> DEFINE s == sequence[l]
           q == request[l]
<1>1. /\ LaneOK(options, s, q) /\ s \in SequenceRecords /\ q \in RequestRecords
      /\ DraftHolds(s, q, device[l])
  BY DEF LanesInv, LaneOK, DraftLanes
<1>2. /\ s.text_kv_valid \in Nat /\ s.execution_frontier \in Nat
      /\ s.dflash_context_frontier \in Nat
  BY <1>1 DEF SequenceRecords
<1>3. /\ q.lifecycle \in Lifecycles
      /\ q.pending.kind \in {"none", "begin", "ordinary", "speculative"}
      /\ q.lifecycle = "Pending" <=> q.pending.kind # "none"
  BY <1>1 DEF LaneOK, RequestRecords, PendingRecords
<1>4. CASE q.lifecycle = "Prefilling"
  BY <1>1, <1>2, <1>4 DEF DraftHolds
<1>5. CASE q.lifecycle \in {"Active", "Complete"} \/ q.pending.kind = "speculative"
  <2>1. Settled(options, s)
    BY <1>1, <1>5 DEF LaneOK, Decoding, Kept, SpeculativeRound
  <2> QED BY <1>2, <2>1 DEF Settled
<1>6. CASE q.pending.kind = "begin"
  BY <1>1, <1>2, <1>6 DEF LaneOK, Begun
<1>7. q.pending.kind # "ordinary"
  BY <1>1 DEF LaneOK, OrdinaryRound
<1> QED BY <1>3, <1>4, <1>5, <1>6, <1>7 DEF Lifecycles

(* DraftInv says of each lane what BackendMatchesLedger says of DFlash.    *)
LEMMA DraftIsBackend ==
  ASSUME ContentInv, DraftInv, options.backend = "DFlash"
  PROVE  BackendMatchesLedger
<1>1. LanesInv /\ DraftLanes /\ Backend = "DFlash"
  BY DEF ContentInv, DraftInv, Backend
<1>2. ASSUME NEW l \in Lanes, request[l].lifecycle # "Empty"
      PROVE  LET s == sequence[l]
                 d == device[l]
                 n == s.dflash_context_frontier
                 waiting == s.execution_frontier - n
             IN  /\ d.draft = Identity(s, n)
                 /\ (request[l].lifecycle = "Active" /\ waiting > 0) =>
                      n + waiting = s.text_kv_valid
                        /\ d.draft \o Upto(d.round, waiting) = Identity(s, s.execution_frontier)
  <2> DEFINE s == sequence[l]
             d == device[l]
             n == s.dflash_context_frontier
             e == s.execution_frontier
             waiting == e - n
  <2>1. /\ s \in SequenceRecords /\ LaneOK(options, s, request[l])
        /\ DeviceTyped(d) /\ DraftHolds(s, request[l], d)
    BY <1>1 DEF ContentInv, LanesInv, LaneOK, DraftLanes, Holds
  <2>2. n <= s.text_kv_valid /\ s.text_kv_valid <= Len(s.ledger)
    BY <1>1, <1>2, DraftBehindText, ComputedIsValid DEF Backend
  <2>3. /\ n \in Nat /\ e \in Nat /\ s.text_kv_valid \in Nat /\ Len(s.ledger) \in Nat
        /\ Len(s.positions) = Len(s.ledger)
    BY <2>1 DEF SequenceRecords, LaneOK
  <2>4. Exactly(d.draft, s, n)
    BY <1>2, <2>1 DEF DraftHolds
  <2>5. ASSUME request[l].lifecycle = "Active"
        PROVE  s.text_kv_valid = e /\ DraftWaits(s, d)
    BY <2>1, <2>5 DEF LaneOK, Decoding, Settled, DraftHolds
  <2>6. d.round \in Seq(Entry)
    BY <2>1 DEF DeviceTyped
  <2> HIDE DEF s, d, n
  <2>7. d.draft = Identity(s, n)
    <3>1. Exactly(Identity(s, n), s, n)
      BY <2>1, <2>2, <2>3, IdentityIsExact
    <3> QED BY <2>3, <2>4, <3>1, SameColumns
  <2>8. ASSUME request[l].lifecycle = "Active", waiting > 0
        PROVE  /\ n + waiting = s.text_kv_valid
               /\ d.draft \o Upto(d.round, waiting) = Identity(s, e)
    <3> DEFINE b == Upto(d.round, waiting)
    <3>1. s.text_kv_valid = e /\ waiting \in Nat /\ n + waiting = e
      BY <2>3, <2>5, <2>8
    <3>2. Len(d.round) >= waiting /\ Succeed(d.round, s, n, waiting)
      BY <2>5, <2>8 DEF DraftWaits, n
    <3>3. b = [i \in 1..waiting |-> d.round[i]]
      BY <2>6, <3>1, <3>2 DEF Upto
    <3>4. b \in Seq(Entry) /\ Len(b) = waiting /\ \A i \in 1..waiting : b[i] = d.round[i]
      <4> HIDE DEF b, waiting
      <4>1. \A i \in 1..waiting : d.round[i] \in Entry
        BY <2>6, <3>1, <3>2
      <4> QED BY <3>1, <3>3, <4>1
    <3> HIDE DEF b, waiting
    <3>5. Succeed(b, s, n, waiting)
      BY <3>2, <3>4 DEF Succeed
    <3>6. Follows(d.draft \o b, s, n + waiting) /\ Len(d.draft \o b) = n + waiting
      <4>1. waiting \in 0..Len(b)
        BY <3>1, <3>4
      <4> QED BY <2>3, <2>4, <3>4, <3>5, <4>1, FollowsConcat
    <3> HIDE DEF e
    <3>7. Exactly(d.draft \o b, s, e)
      BY <3>1, <3>6 DEF Exactly
    <3>8. Exactly(Identity(s, e), s, e)
      BY <2>1, <2>2, <2>3, <3>1, IdentityIsExact
    <3>9. d.draft \o b = Identity(s, e)
      BY <2>3, <3>7, <3>8, SameColumns
    <3> QED BY <3>1, <3>9 DEF b
  <2> QED BY <2>7, <2>8 DEF s, d, n
<1>3. Backend # "Mtp"
  BY <1>1
<1> QED BY <1>2, <1>3, Zenon DEF BackendMatchesLedger

(* The same of the copy of the context that a checkpoint keeps.            *)
LEMMA DraftIsCheckpoint ==
  ASSUME ContentInv, DraftInv, TextCheckpointMatchesLedger, options.backend = "DFlash"
  PROVE  CheckpointMatchesLedger
<1>1. ASSUME NEW l \in Lanes, sequence[l].rewrite_checkpoint.valid
      PROVE  device[l].draftCheckpoint =
               Identity(sequence[l], sequence[l].rewrite_checkpoint.frontier)
  <2> DEFINE s == sequence[l]
             n == s.rewrite_checkpoint.frontier
  <2>1. /\ s \in SequenceRecords /\ LaneOK(options, s, request[l])
        /\ n <= s.text_kv_valid /\ Len(s.positions) = Len(s.ledger)
        /\ DraftCheckpoint(s, device[l])
    BY <1>1 DEF ContentInv, LanesInv, LaneOK, DraftInv, DraftLanes, DraftHolds
  <2>2. n \in Nat /\ s.text_kv_valid \in Nat /\ Len(s.ledger) \in Nat
    BY <2>1 DEF SequenceRecords, CheckpointRecords
  <2>3. request[l].lifecycle # "Empty"
    BY <1>1, <2>1 DEF LaneOK, Cleared
  <2>4. s.text_kv_valid <= Len(s.ledger)
    BY <2>3, ComputedIsValid DEF ContentInv
  <2>5. Exactly(device[l].draftCheckpoint, s, n)
    BY <1>1, <2>1 DEF DraftCheckpoint
  <2> HIDE DEF s, n
  <2>6. Exactly(Identity(s, n), s, n)
    BY <2>1, <2>2, <2>4, IdentityIsExact
  <2>7. device[l].draftCheckpoint = Identity(s, n)
    BY <2>2, <2>5, <2>6, SameColumns
  <2> QED BY <2>7 DEF s, n
<1>2. Backend # "Mtp"
  BY DEF Backend
<1> QED BY <1>1, <1>2, Zenon DEF TextCheckpointMatchesLedger, CheckpointMatchesLedger

(* The inductive invariant of the DFlash context: in a behaviour without a *)
(* blind start and a stray feed the context of every lane, its copy at the *)
(* checkpoint and the features of the last round that wait to be appended  *)
(* are those of the lane's ledger.                                         *)
THEOREM DraftInvariant ==
  Spec /\ [][~ BlindStart]_vars /\ [][~ StrayFeed]_vars => []DraftInv
BY InitDraft, NextKeepsDraft, ContentInvariant, PTL DEF Spec

(* In such a behaviour the backend of every lane, whichever it is, works   *)
(* on its lane's ledger, and so does the checkpoint that                   *)
(* start_prefill_lane may restore: chunks feed the draft model once and in *)
(* order, decode_batch appends what the last round left, and a terminal    *)
(* resolution appends the tokens that were kept and no others.             *)
THEOREM LaneDraft ==
  Spec /\ [][~ BlindStart]_vars /\ [][~ StrayFeed]_vars =>
    [](BackendMatchesLedger /\ CheckpointMatchesLedger)
<1>1. ContentInv /\ DraftInv /\ TextCheckpointMatchesLedger
        /\ (options.backend # "DFlash" => BackendMatchesLedger)
        /\ (options.backend # "DFlash" => CheckpointMatchesLedger) =>
      BackendMatchesLedger /\ CheckpointMatchesLedger
  BY DraftIsBackend, DraftIsCheckpoint
<1> QED BY <1>1, ContentInvariant, DraftInvariant, TextCheckpoint, LaneBackend, LaneCheckpoint, PTL

(* A program of one lane has no stray feed: the ingress frame names no     *)
(* other lane, whatever writes it between two chunks.                      *)
THEOREM OneLaneDraft ==
  ASSUME \A a, b \in Lanes : a = b
  PROVE  Spec /\ [][~ BlindStart]_vars => [](BackendMatchesLedger /\ CheckpointMatchesLedger)
<1>1. LanesInv => [~ StrayFeed]_vars
  BY DEF LanesInv, StrayFeed
<1> QED BY <1>1, LanesInvariant, LaneDraft, PTL

(* When prompts with media end with media, and so in particular when no    *)
(* prompt has any, start_prefill_lane never starts one blind: these hold   *)
(* in every behaviour.                                                     *)
THEOREM LanesWithMediaLast ==
  ASSUME MediaEndsPrompts
  PROVE  Spec => /\ []ContinuationMatchesLedger
                 /\ []TextCheckpointMatchesLedger
                 /\ [](options.backend # "DFlash" => CheckpointMatchesLedger)
                 /\ [](options.backend # "DFlash" => BackendMatchesLedger)
<1>1. LanesInv => [~ BlindStart]_vars
  BY MediaLastSees
<1> QED BY <1>1, LanesInvariant, LaneContinuation, TextCheckpoint, LaneCheckpoint, LaneBackend, PTL
=============================================================================
