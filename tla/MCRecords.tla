----------------------------- MODULE MCRecords -----------------------------
(* A small instance of Records for TLC: 32 byte values, two bytes to an    *)
(* int, so that it ends at 511 and an int64 at 524287. *)
EXTENDS Records

(* In byte order. *)
MCNames == <<"$db", "0", "1", "_id", "cached", "created_at", "cursor", "district",
             "documents", "find", "firstBatch", "input", "insert", "latency_ms",
             "limit", "ok", "request_id", "result", "risk_score", "sort",
             "week_start", "writeErrors">>

(* With MaxLimit = 2: no limit, the largest one, one more. *)
MCLimits == {0, 2, 3}

MCSaves == {<<1>>, <<0, 2>>}

Record(id, district, latency, time, week) ==
  [request_id |-> id, created_at |-> time, cached |-> latency = 7, latency_ms |-> latency,
   input |-> [district |-> district, week_start |-> week,
              features |-> IF latency = 7 THEN <<1>> ELSE <<>>],
   result |-> [district |-> district, risk_score |-> 9]]

Two(district, week, t, u) ==
  (<<1>> :> Record(<<1>>, district, 600, t, week))
    @@ (<<0, 2>> :> Record(<<0, 2>>, 25, 7, u, <<3>>))

(* Signs, the ends of the integers, texts that are empty or have zeros;    *)
(* times in both orders, apart by less than a millisecond, or not given. *)
MCInputs == {Two(-1, <<>>, 5, 900), Two(511, <<0, 3>>, 4, 5),
             Two(512, <<3>>, 0, 6), Two(25, <<3>>, 7, 4)}
=============================================================================
