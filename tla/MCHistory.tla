----------------------------- MODULE MCHistory -----------------------------
(* A small instance of History for TLC. *)
EXTENDS History

(* With MaxLimit = 2: no limit, the largest one, one more. *)
MCLimits == {0, 2, 3}
=============================================================================
