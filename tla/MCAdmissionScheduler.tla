------------------------- MODULE MCAdmissionScheduler -------------------------
(* Instances of AdmissionScheduler for TLC.                                *)
EXTENDS AdmissionScheduler

Shape(prompt, output, checkpoint) ==
    [prompt |-> prompt, output |-> output, checkpoint |-> checkpoint]

(* Pages of three tokens: a request of one page, one of two pages that     *)
(* runs long enough to be overtaken, one of two that ends early and can    *)
(* only borrow, a prompt of several steps with a rewrite checkpoint that   *)
(* needs four of the five pages, and one that does not fit the pool.       *)
MixedShapes ==
    {Shape(1, 3, 0), Shape(1, 5, 0), Shape(2, 3, 0), Shape(9, 3, 1), Shape(14, 3, 0)}

NoContinuations == {}

(* Pages of four tokens: one page, two pages and the whole pool of three.  *)
LiveShapes == {Shape(1, 4, 0), Shape(1, 7, 0), Shape(5, 8, 0)}

(* A conversation: requests extend the ones submitted before them, the     *)
(* second extends the third, which may overtake it, and the third and      *)
(* fourth rewrite what follows a checkpoint.                               *)
Conversation == {<<1, 2>>, <<1, 3>>, <<3, 2>>, <<3, 4>>}
Edits == {<<1, 4>>, <<2, 4>>, <<2, 3>>}
=============================================================================
