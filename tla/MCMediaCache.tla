----------------------------- MODULE MCMediaCache -----------------------------
(* Instances of MediaCache for TLC.                                        *)
EXTENDS MediaCache, TLC

CONSTANTS r1, r2, r3

UnitBytes == [k \in Keys |-> 1]

(* Two requests that share an image, prepared side by side; the second one *)
(* asks for it twice and may be stopped anywhere.                          *)
Shared ==
    [live_bytes |-> 4,
     parts      |-> r1 :> <<"a", "b">> @@ r2 :> <<"b", "b">>,
     signals    |-> r1 :> {} @@ r2 :> {"cancelled", "expired"}]

(* Different images compete for the bytes of one request.  The second      *)
(* request is too large, the third has an image that does not decode.      *)
Contended ==
    [live_bytes |-> 2,
     parts      |-> r1 :> <<"a", "b">> @@ r2 :> <<"c", "d", "e">> @@ r3 :> <<"a", "x">>,
     signals    |-> r1 :> {} @@ r2 :> {} @@ r3 :> {}]

(* A request beyond the limit that finds its first image in the cache: the *)
(* claims of its two tasks are within the limit, the bytes it holds are    *)
(* not, and only its deadline ends it.                                     *)
Oversized ==
    [live_bytes |-> 2,
     parts      |-> r1 :> <<"c">> @@ r2 :> <<"c", "d", "e">>,
     signals    |-> r1 :> {} @@ r2 :> {"expired"}]

MCSetups == {Shared, Contended, Oversized}
=============================================================================
