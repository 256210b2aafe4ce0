----------------------------- MODULE ChannelDecoder -----------------------------
(***************************************************************************)
(* What the output sessions of both frontends share: deltas per channel,   *)
(* stop strings that may span tokens, and UTF-8.  Text that may become     *)
(* part of a stop string is held back.  "h" and "t" are the two bytes of a *)
(* code point.                                                             *)
(***************************************************************************)
EXTENDS TextScan

CONSTANTS
    Vocabulary,         \* tokens; Spelling[t] is the text of token t
    Spelling,
    StopTokens,         \* policy.token_ids
    PublishStopToken,   \* policy.publish_stop_token
    StopStrings,        \* policy.strings, records [channel, text, include]
    Budget              \* effective output tokens of the request

ASSUME StopAssumption == \A i \in DOMAIN StopStrings : StopStrings[i].text # << >>
ASSUME BudgetAssumption == Budget > 0

Channels == {"reasoning", "content"}

(* valid_utf8_prefix_size; a byte out of place throws.                     *)
Dangling(text) == text # << >> /\ Last(text) = "h"
ValidUtf8(text) ==
    \A i \in DOMAIN text :
      /\ text[i] = "t" => i > 1 /\ text[i - 1] = "h"
      /\ text[i] = "h" => i = Len(text) \/ text[i + 1] = "t"

(* append_delta: neighbouring text of one channel is one delta.            *)
AppendDelta(out, channel, text) ==
    IF text = << >> THEN out
    ELSE IF out # << >> /\ Last(out).channel = channel
      THEN [out EXCEPT ![Len(out)].text = @ \o text]
      ELSE Append(out, [channel |-> channel, text |-> text])

-----------------------------------------------------------------------------
(* The decoder works on d: the DecoderState, the deltas emitted in this    *)
(* preview (out) and the best stop match of the current token (match).     *)

NoMatch == [found |-> FALSE, cut |-> 0, out |-> << >>]

StopHoldSize(text, channel) ==
    Max({0} \union
        {LongestSuffixPrefix(text, StopStrings[i].text, FALSE) :
           i \in {j \in DOMAIN StopStrings : StopStrings[j].channel = channel}})

(* The match of this token that starts first, ties by declaration order.   *)
BestMatch(d, channel, combined, start) ==
    LET found == {i \in DOMAIN StopStrings :
                    /\ StopStrings[i].channel = channel
                    /\ Find(combined, StopStrings[i].text) # 0}
        Cut(i) == start + Find(combined, StopStrings[i].text) - 1
        first == CHOOSE i \in found :
                   \A j \in found : Cut(i) < Cut(j) \/ (Cut(i) = Cut(j) /\ i <= j)
        text == Begin(combined, Cut(first) - start)
                  \o (IF StopStrings[first].include THEN StopStrings[first].text ELSE << >>)
    IN  IF found = {} \/ (d.match.found /\ d.match.cut <= Cut(first))
          THEN d.match
          ELSE [found |-> TRUE, cut |-> Cut(first), out |-> AppendDelta(d.out, channel, text)]

(* Faulty variant: stop strings are looked for in the new text only.       *)
FeedChannelForgetful(d, channel, text, matching) ==
    LET combined == d.stop_pending[channel] \o text
        safe == Len(combined) - StopHoldSize(combined, channel)
    IN  IF text = << >> THEN d
        ELSE [d EXCEPT
                !.match = IF matching THEN BestMatch(d, channel, text, d.decoded_bytes) ELSE @,
                !.out = AppendDelta(@, channel, Begin(combined, safe)),
                !.stop_pending[channel] = From(combined, safe + 1),
                !.decoded_bytes = @ + Len(text)]

FeedChannel(d, channel, text, matching) ==
    LET combined == d.stop_pending[channel] \o text
        safe == Len(combined) - StopHoldSize(combined, channel)
        start == d.decoded_bytes - Len(d.stop_pending[channel])
    IN  IF text = << >> THEN d
        ELSE [d EXCEPT
                !.match = IF matching THEN BestMatch(d, channel, combined, start) ELSE @,
                !.out = AppendDelta(@, channel, Begin(combined, safe)),
                !.stop_pending[channel] = From(combined, safe + 1),
                !.decoded_bytes = @ + Len(text)]

CloseChannel(d, channel) ==
    [d EXCEPT !.out = AppendDelta(@, channel, d.stop_pending[channel]),
              !.stop_pending[channel] = << >>]

ChannelText(out, channel) ==
    FoldLeft(LAMBDA text, delta : IF delta.channel = channel THEN text \o delta.text ELSE text,
             << >>, out)
=============================================================================
