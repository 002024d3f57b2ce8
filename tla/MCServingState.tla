--------------------------- MODULE MCServingState ---------------------------
(* Small instances of ServingState: one or two routes, one consumer.       *)
EXTENDS ServingState

CONSTANTS w1, w2, c1
=============================================================================
