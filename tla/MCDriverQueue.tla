--------------------------- MODULE MCDriverQueue ---------------------------
(* Two workers, one bound to a single matter, and one item in each lane. *)
EXTENDS DriverQueue, TLC

CONSTANTS w1, w2, i1, i2

MCLane   == i1 :> "interactive" @@ i2 :> "run"
MCServes == w1 :> {i1, i2} @@ w2 :> {i2}
=============================================================================
