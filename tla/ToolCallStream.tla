----------------------------- MODULE ToolCallStream -----------------------------
(***************************************************************************)
(* serve/tool_call_parser.cpp and the ServiceOutputSink of                 *)
(* serve/generation_service.cpp: the text of the content channel arrives   *)
(* in pieces of any size; the filter publishes what cannot be part of a    *)
(* tool call, and at the end the parser decides over the whole text        *)
(* whether it was one.                                                     *)
(*                                                                         *)
(* Text is a sequence of symbols.  The two opening markers have three      *)
(* symbols each, so that every piece of one can arrive alone; "Q" and "A"  *)
(* are the closing markers, "f" a well-formed function element, "i" a      *)
(* well-formed invoke element, " " white space.                            *)
(***************************************************************************)
EXTENDS TextScan

QwenOpen == <<"<", "q", ">">>
AtemOpen == <<"<", "a", ">">>
Opens == {QwenOpen, AtemOpen}

-----------------------------------------------------------------------------
(* parse_tool_call_output                                                  *)

StartsAt(text, pos, s) == IsPrefix(s, From(text, pos))

(* skip_ws; Len(text) + 1 at the end.                                      *)
SkipWs(text, pos) ==
    Min({i \in pos..Len(text) : text[i] # " "} \union {Len(text) + 1})

(* One <tool_call> block at pos: how many calls it holds and where it      *)
(* ends; no calls when it is malformed.                                    *)
QwenBlock(text, pos) ==
    LET begin == pos + Len(QwenOpen)
        closes == {i \in begin..Len(text) : text[i] = "Q"}
    IN  IF /\ StartsAt(text, pos, QwenOpen)
           /\ closes # {}
           /\ Trim(SubSeq(text, begin, Min(closes) - 1)) = <<"f">>
          THEN [calls |-> 1, next |-> Min(closes) + 1]
          ELSE [calls |-> 0, next |-> 0]

(* One <atem:function_calls> block: invocations up to the closing marker.  *)
AtemBlock(text, pos) ==
    LET begin == pos + Len(AtemOpen)
        stop == Min({i \in begin..Len(text) : text[i] \notin {" ", "i"}} \union {Len(text) + 1})
        calls == Cardinality({k \in begin..(stop - 1) : text[k] = "i"})
    IN  IF StartsAt(text, pos, AtemOpen) /\ stop <= Len(text) /\ text[stop] = "A"
          THEN [calls |-> calls, next |-> stop + 1]
          ELSE [calls |-> 0, next |-> 0]

(* The calls of a text that is nothing but blocks from `first` on, all in  *)
(* the format of the first, or 0.                                          *)
CallsFrom(text, first) ==
    LET Block(pos) == IF StartsAt(text, first, AtemOpen) THEN AtemBlock(text, pos)
                                                         ELSE QwenBlock(text, pos)
        Calls[pos \in 1..(Len(text) + 1)] ==
          LET at == SkipWs(text, pos)
              block == Block(at)
              rest == Calls[block.next]
          IN  IF at > Len(text) THEN 1
              ELSE IF block.calls = 0 \/ rest = 0 THEN 0
              ELSE block.calls + rest
    IN  IF Calls[first] = 0 THEN 0 ELSE Calls[first] - 1

(* The format whose marker comes first; 0 for a text without a marker.     *)
FirstMarker(text) ==
    Min({Len(text) + 1} \union UNION {Occurrences(text, open) : open \in Opens})

ToolCalls(text) ==
    IF FirstMarker(text) > Len(text) THEN 0 ELSE CallsFrom(text, FirstMarker(text))

(* content: the text before the calls, or all of it.                       *)
ParsedContent(text) ==
    IF ToolCalls(text) = 0 THEN text ELSE StripTrailing(Begin(text, FirstMarker(text) - 1))

-----------------------------------------------------------------------------
(* ToolCallStreamFilter, a record [pending, region, saw, visible]: visible *)
(* is what the last call returned.                                         *)

NewFilter == [pending |-> << >>, region |-> << >>, saw |-> FALSE, visible |-> << >>]

(* The part of the text that may be published: not the beginning of a      *)
(* marker, nor the white space before it.                                  *)
HeldMarker(text) == Max({LongestSuffixPrefix(text, open, FALSE) : open \in Opens})

(* Faulty variant: whatever looks like the beginning of a tag is held.     *)
SafeTextNoTags(text) ==
    IF Find(text, <<"<">>) # 0 THEN StripTrailing(Begin(text, Find(text, <<"<">>) - 1))
                               ELSE StripTrailing(text)

SafeText(text) == StripTrailing(Begin(text, Len(text) - HeldMarker(text)))

Feed(filter, text) ==
    LET pending == filter.pending \o text
        marker == FirstMarker(pending)
        before == StripTrailing(Begin(pending, marker - 1))
        safe == SafeText(pending)
    IN  IF filter.saw
          THEN [filter EXCEPT !.region = @ \o text, !.visible = << >>]
        ELSE IF marker <= Len(pending)
          THEN [pending |-> << >>, region |-> From(pending, Len(before) + 1), saw |-> TRUE,
                visible |-> before]
        ELSE [filter EXCEPT !.pending = From(pending, Len(safe) + 1), !.visible = safe]

Finish(filter, is_tool_call) ==
    [filter EXCEPT !.pending = << >>, !.region = << >>,
                   !.visible = IF is_tool_call THEN << >> ELSE filter.pending \o filter.region]
=============================================================================
