----------------------------- MODULE OutputDecoder -----------------------------
(***************************************************************************)
(* OutputSession of the Qwen3.6 frontend (frontend/frontend.cpp): turns    *)
(* the tokens of each round into text for the reasoning and the content    *)
(* channel.  Text that may still become part of a code point, of the end-  *)
(* of-thinking marker or of a stop string is held back; a round is first   *)
(* previewed, which decides how many of its tokens are accepted, and then  *)
(* committed.                                                              *)
(*                                                                         *)
(* Text is a sequence of symbols.  "h" and "t" are the two bytes of a code *)
(* point, " " is white space and "?" the replacement character.            *)
(***************************************************************************)
EXTENDS ChannelDecoder

CONSTANTS
    StartsInReasoning,
    RoundTokens         \* bound: tokens of a round

ThinkClose == <<"<", ">">>  \* kThinkClose

VARIABLES
    state,      \* DecoderState
    finish,     \* "none", or why the output ended; "error" when preview threw
    published,  \* published[c]: the text handed out for channel c
    deltas,     \* the deltas of the last round
    history     \* the tokens accepted so far

vars == <<state, finish, published, deltas, history>>

-----------------------------------------------------------------------------
FeedContent(d, text, matching) ==
    LET kept == IF d.strip_content_leading THEN StripLeading(text) ELSE text
    IN  FeedChannel([d EXCEPT !.strip_content_leading = @ /\ kept = << >>],
                    "content", kept, matching)

LeaveReasoning(d, text, at, matching) ==
    LET fed == CloseChannel(FeedChannel(d, "reasoning", Begin(text, at - 1), matching),
                            "reasoning")
    IN  FeedContent([fed EXCEPT !.think_marker_pending = << >>, !.in_reasoning = FALSE,
                                !.strip_content_leading = TRUE],
                    From(text, at + Len(ThinkClose)), matching)

FeedDecodedText(d, text, matching) ==
    LET pending == d.think_marker_pending \o text
        at == Find(pending, ThinkClose)
        safe == Len(pending) - LongestSuffixPrefix(pending, ThinkClose, TRUE)
    IN  IF ~ d.in_reasoning THEN FeedContent(d, text, matching)
        ELSE IF at # 0 THEN LeaveReasoning(d, pending, at, matching)
        ELSE [FeedChannel(d, "reasoning", Begin(pending, safe), matching)
                EXCEPT !.think_marker_pending = From(pending, safe + 1)]

FeedTokenBytes(d, bytes) ==
    LET pending == d.utf8_pending \o bytes
        valid == Len(pending) - (IF Dangling(pending) THEN 1 ELSE 0)
    IN  FeedDecodedText([d EXCEPT !.utf8_pending = From(pending, valid + 1)],
                        Begin(pending, valid), TRUE)

FlushIncompleteUtf8(d) ==
    IF d.utf8_pending = << >> THEN d
    ELSE FeedDecodedText([d EXCEPT !.utf8_pending = << >>], <<"?">>, FALSE)

FlushMarker(d) ==
    IF d.in_reasoning
    THEN CloseChannel(FeedChannel(d, "reasoning", d.think_marker_pending, FALSE), "reasoning")
    ELSE CloseChannel(d, "content")

Terminalize(d) ==
    [FlushMarker(FlushIncompleteUtf8(d)) EXCEPT !.think_marker_pending = << >>]

-----------------------------------------------------------------------------
(* preview: the tokens of the round one by one until one of them ends the  *)
(* output; acc is the decoder with `accepted` and `finish`.                *)

(* Faulty variant: a token that may complete the marker is not counted.    *)
CountReasoningBeforeMarker(d) ==
    [d EXCEPT !.reasoning_tokens =
       @ + (IF d.in_reasoning /\ d.think_marker_pending = << >> THEN 1 ELSE 0)]

CountReasoning(d) ==
    [d EXCEPT !.reasoning_tokens = @ + (IF d.in_reasoning THEN 1 ELSE 0)]

(* A stop token is published or undone before the text is flushed.         *)
EndAtStopToken(before, fed) == Terminalize(IF PublishStopToken THEN fed ELSE before)

AcceptToken(before, fed, token, accepted) ==
    IF fed.match.found
      THEN [d |-> [fed EXCEPT !.out = fed.match.out], accepted |-> accepted,
            finish |-> "stop_string"]
    ELSE IF token \in StopTokens
      THEN [d |-> EndAtStopToken(before, fed), accepted |-> accepted, finish |-> "stop_token"]
    ELSE [d |-> fed, accepted |-> accepted, finish |-> "none"]

PreviewToken(acc, token) ==
    LET before == CountReasoning([acc.d EXCEPT !.match = NoMatch])
    IN  IF acc.finish # "none" THEN acc
        ELSE IF ~ ValidUtf8(before.utf8_pending \o Spelling[token])
          THEN [acc EXCEPT !.finish = "error"]
        ELSE AcceptToken(before, FeedTokenBytes(before, Spelling[token]), token,
                         acc.accepted + 1)

EndAtLimit(acc, full) ==
    IF acc.finish = "none" /\ full
    THEN [acc EXCEPT !.d = Terminalize(@), !.finish = "limit"] ELSE acc

Preview(tokens, remaining) ==
    LET start == [d |-> [state EXCEPT !.out = << >>], accepted |-> 0, finish |-> "none"]
    IN  EndAtLimit(FoldLeft(PreviewToken, start, tokens), Len(tokens) = remaining)

(* commit_preview: the previewed state is adopted and its output published *)
Commit(d) ==
    /\ state' = [d EXCEPT !.match = NoMatch]
    /\ deltas' = d.out
    /\ published' = [c \in Channels |-> published[c] \o ChannelText(d.out, c)]

(* The executor commits what was previewed, unless preview threw.          *)
Adopt(tokens, acc) ==
    /\ finish' = acc.finish
    /\ IF acc.finish = "error"
         THEN UNCHANGED <<state, deltas, published, history>>
         ELSE /\ Commit(acc.d)
              /\ history' = history \o Begin(tokens, acc.accepted)

Round(tokens) ==
    /\ finish = "none"
    /\ Len(tokens) <= Budget - Len(history)
    /\ Adopt(tokens, Preview(tokens, Budget - Len(history)))

(* preview_terminal: a cancellation or the context limit between rounds.   *)
EndBetweenRounds ==
    /\ finish = "none"
    /\ Commit(Terminalize([state EXCEPT !.out = << >>]))
    /\ finish' = "limit"
    /\ UNCHANGED history

Init ==
    /\ state = [utf8_pending |-> << >>, think_marker_pending |-> << >>,
                stop_pending |-> [c \in Channels |-> << >>],
                in_reasoning |-> StartsInReasoning, strip_content_leading |-> FALSE,
                decoded_bytes |-> 0, reasoning_tokens |-> 0,
                out |-> << >>, match |-> NoMatch]
    /\ finish = "none"
    /\ published = [c \in Channels |-> << >>]
    /\ deltas = << >>
    /\ history = << >>

Next ==
    \/ \E n \in 1..RoundTokens : \E tokens \in [1..n -> Vocabulary] : Round(tokens)
    \/ EndBetweenRounds

Spec == Init /\ [][Next]_vars

-----------------------------------------------------------------------------
(* The reference: what the whole text says, with no buffers.               *)

WholeText(n) == FoldLeft(LAMBDA text, t : text \o Spelling[t], << >>, Begin(history, n))
WithoutHalf(text) == IF Dangling(text) THEN Front(text) ELSE text
Decoded(n) == WithoutHalf(WholeText(n))

Closes(text) == StartsInReasoning /\ Find(text, ThinkClose) # 0

(* The two channels of a text that has come to its end, the marker at      *)
(* position `at` of it.                                                    *)
SplitAt(text, at) ==
    CASE ~ StartsInReasoning -> [reasoning |-> << >>, content |-> text]
      [] StartsInReasoning /\ at = 0 -> [reasoning |-> text, content |-> << >>]
      [] OTHER -> [reasoning |-> Begin(text, at - 1),
                   content |-> StripLeading(From(text, at + Len(ThinkClose)))]
Split(text) == SplitAt(text, Find(text, ThinkClose))

(* The channels of a text that may go on, without what may be a part of    *)
(* the marker.                                                             *)
SettledIn(text) ==
    IF StartsInReasoning /\ ~ Closes(text)
    THEN [reasoning |-> Begin(text, Len(text) - LongestSuffixPrefix(text, ThinkClose, TRUE)),
          content |-> << >>]
    ELSE Split(text)
Settled(n) == SettledIn(Decoded(n))

FindStop(channels, i) == Find(channels[StopStrings[i].channel], StopStrings[i].text)
StopsOf(channels) == {i \in DOMAIN StopStrings : FindStop(channels, i) # 0}
StopsIn(n) == StopsOf(Settled(n))

(* The text up to the earliest stop string.                                *)
CutAtStop(channels, stops) ==
    LET In(c) == {i \in stops : StopStrings[i].channel = c}
        channel == IF In("reasoning") # {} THEN "reasoning" ELSE "content"
        At(i) == FindStop(channels, i)
        first == CHOOSE i \in In(channel) :
                   \A j \in In(channel) : At(i) < At(j) \/ (At(i) = At(j) /\ i <= j)
        cut == Begin(channels[channel], At(first) - 1)
                 \o (IF StopStrings[first].include THEN StopStrings[first].text ELSE << >>)
    IN  IF channel = "reasoning" THEN [reasoning |-> cut, content |-> << >>]
                                 ELSE [channels EXCEPT !.content = cut]

(* Everything, with a replacement character for half a code point.         *)
Flushed(n) ==
    Split(Decoded(n) \o (IF Dangling(WholeText(n)) THEN <<"?">> ELSE << >>))

ReferenceOutput ==
    LET n == Len(history)
    IN  CASE finish = "stop_string" -> CutAtStop(Settled(n), StopsIn(n))
          [] finish = "stop_token" -> Flushed(IF PublishStopToken THEN n ELSE n - 1)
          [] OTHER -> Flushed(n)

(* Every variable has its type, and the held-back text of a channel is     *)
(* always short of a complete stop string.                                 *)
TypeOK ==
    /\ finish \in {"none", "error", "stop_string", "stop_token", "limit"}
    /\ \A c \in Channels : published[c] \in Seq(STRING)
    /\ history \in Seq(Vocabulary) /\ Len(history) <= Budget
    /\ state.reasoning_tokens <= Len(history)
    /\ finish = "none" =>
         \A i \in DOMAIN StopStrings :
           Find(state.stop_pending[StopStrings[i].channel], StopStrings[i].text) = 0

(* What has been published when the output ends is exactly what the whole  *)
(* text says, however the tokens were grouped into rounds and wherever the *)
(* marker, a stop string or a code point was cut by a token boundary.      *)
PublishedMatchesReference ==
    finish \in {"stop_string", "stop_token", "limit"} => published = ReferenceOutput

(* Nothing published ever has to be taken back: before the end each        *)
(* channel has published a prefix of its settled text.                     *)
NothingToRetract ==
    finish = "none" =>
      \A c \in Channels : IsPrefix(published[c], Settled(Len(history))[c])

(* The output ends at the first token that completes a stop string: no     *)
(* accepted token comes after it, and no earlier prefix had one.           *)
StopsAtFirstMatch ==
    finish # "error" =>
      \A n \in 0..Len(history) :
        StopsIn(n) # {} => finish = "stop_string" /\ n = Len(history)

(* A round publishes at most one delta per channel, reasoning first: the   *)
(* two places of PublishedOutput suffice and push_back never throws.       *)
AtMostOneDeltaPerChannel ==
    \/ Len(deltas) <= 1
    \/ Len(deltas) = 2 /\ deltas[1].channel = "reasoning" /\ deltas[2].channel = "content"

(* reasoning_tokens counts the accepted tokens up to and including the one *)
(* that completes the marker.                                              *)
ReasoningTokensAreExact ==
    finish # "error" =>
      state.reasoning_tokens =
        Cardinality({n \in 1..Len(history) : StartsInReasoning /\ ~ Closes(Decoded(n - 1))})
=============================================================================
