----------------------------- MODULE MCDispatch -----------------------------
(* Small instances of Dispatch for TLC. *)
EXTENDS Dispatch

MCInvalid == -1

Ask(nodes, scores, n) ==
  [registered |-> TRUE, nodes |-> nodes, scores |-> scores, topN |-> n]

Two == <<"active", "inactive", "">>

(* As docker-compose.yml runs. *)
Three == <<"active", "active", "active">>

(* Ties inside a chunk and across chunks, the best two last in one chunk,   *)
(* fewer candidates than nodes, a rejected one, every kind of topN, and    *)
(* the early returns. *)
MCRequests ==
  {Ask(Two, <<1, 2, 3, 2, 3>>, 2), Ask(Two, <<1, 2, 2, 1>>, 3),
   Ask(Two, <<1, 2, 3>>, 0), Ask(Two, <<3>>, 5), Ask(Two, <<>>, 1),
   Ask(Two, <<2, MCInvalid, 1>>, 1), Ask(<<"inactive">>, <<1>>, 1),
   Ask(Three, <<2, 1, 1, 3>>, 2), Ask(Three, <<1, 2>>, 1),
   [registered |-> FALSE, nodes |-> <<>>, scores |-> <<1>>, topN |-> 1]}
=============================================================================
