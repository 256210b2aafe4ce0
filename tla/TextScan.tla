-------------------------------- MODULE TextScan --------------------------------
(***************************************************************************)
(* The string helpers of the output decoders and of the tool-call filter.  *)
(* Text is a sequence of symbols, " " is white space.                      *)
(***************************************************************************)
EXTENDS Naturals, Sequences, FiniteSets, FiniteSetsExt, SequencesExt

Begin(text, n) == SubSeq(text, 1, n)
From(text, n) == SubSeq(text, n, Len(text))

Occurrences(text, s) ==
    {i \in 1..Len(text) : IsPrefix(s, From(text, i))}

(* std::string::find, 0 for npos.                                          *)
Find(text, s) == IF Occurrences(text, s) = {} THEN 0 ELSE Min(Occurrences(text, s))

LongestSuffixPrefix(text, marker, complete) ==
    Max({n \in 0..Min({Len(text), Len(marker)}) :
           /\ complete \/ n < Len(marker)
           /\ IsSuffix(Begin(marker, n), text)})

(* isspace, and the leading run of it.                                     *)
StripLeading(text) ==
    LET solid == {i \in DOMAIN text : text[i] # " "}
    IN  IF solid = {} THEN << >> ELSE From(text, Min(solid))

(* The text without its trailing run of white space.                       *)
StripTrailing(text) ==
    LET solid == {i \in DOMAIN text : text[i] # " "}
    IN  IF solid = {} THEN << >> ELSE Begin(text, Max(solid))

Trim(text) == StripTrailing(StripLeading(text))
=============================================================================
