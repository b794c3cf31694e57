--------------------------- MODULE MCMultithread ----------------------------
(* Instances of Multithread for TLC. *)
EXTENDS Multithread

CONSTANTS w1, w2, w3
TwoWorkers == {w1, w2}
ThreeWorkers == {w1, w2, w3}
=============================================================================
