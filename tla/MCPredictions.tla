--------------------------- MODULE MCPredictions ---------------------------
(* A small instance of Predictions for TLC: two handlers, two places one   *)
(* of which is invalid, two weeks, one vector. *)
EXTENDS Predictions

CONSTANTS p1, p2

MCInvalid == {p2}
=============================================================================
