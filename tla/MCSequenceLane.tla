---------------------------- MODULE MCSequenceLane ----------------------------
(* Instances of SequenceLane for TLC.                                      *)
EXTENDS SequenceLane

PromptsOver(texts, outputs, capacity) ==
    UNION {[tokens : {t}, checkpoint : 0..Len(t), kind : {"turn"},
            output : {n \in outputs : Len(t) + n <= capacity + 1}] : t \in texts}

(* A prompt, its continuations and a rewritten ending.                     *)
TextPrompts == PromptsOver({<<"a">>, <<"a", "a">>, <<"a", "b", "a">>}, {2, 5}, 5)

(* Media in the last place, so that every suffix that is computed has it;  *)
(* MediaSuffix has the other case.                                         *)
MediaPrompts ==
    PromptsOver({<<"a", Media>>, <<"b">>, <<"a", Media, "b", Media>>,
                 <<"a", Media, "a", Media>>, <<"a", Media, "a", "b", Media>>}, {1, 3}, 7)

Setup(backend, capacity, draft_window, wide_window, prompts) ==
    [backend |-> backend, capacity |-> capacity, draft_window |-> draft_window,
     wide_window |-> wide_window, prompts |-> prompts]

(* No speculation, MTP, and DFlash with rounds of two widths.              *)
MCSetups == {Setup("None", 7, 1, 1, MediaPrompts),
             Setup("Mtp", 5, 2, 2, TextPrompts),
             Setup("DFlash", 5, 1, 3, TextPrompts)}

(* One short and one chunked prompt, for two lanes.                        *)
TwoLengths == {[tokens |-> <<"a">>, checkpoint |-> 0, kind |-> "turn", output |-> 3],
               [tokens |-> <<"a", "a", "a">>, checkpoint |-> 0, kind |-> "turn", output |-> 1]}
SharedIngress == {Setup("DFlash", 5, 1, 1, TwoLengths)}

(* A prompt with media and its continuation in plain text.                 *)
MediaSuffix == {Setup("None", 6, 1, 1, PromptsOver({<<"a", Media>>, <<"a", Media, "b">>}, {1, 2}, 6))}
=============================================================================
