------------------------- MODULE MCSubmissionQueue -------------------------
(* Two worker threads, in one process or in a process each.                *)
EXTENDS SubmissionQueue, TLC

CONSTANTS u1, u2, w1, w2, i1, i2

OnePool  == [w \in {w1, w2} |-> i1]
TwoPools == w1 :> i1 @@ w2 :> i2

=============================================================================
