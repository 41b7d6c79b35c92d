------------------------------ MODULE History ------------------------------
(***************************************************************************)
(* The history of predictions in MongoDB: calls of Store.SavePrediction    *)
(* insert a record, calls of Store.History read the newest ones, each over *)
(* a connection of its own with a deadline (internal/storage/mongo.go).    *)
(*                                                                         *)
(* MongoDB is external: it carries out a command, refuses it, or never     *)
(* sees it.  A command whose caller gave up may be carried out all the     *)
(* same.  A record is the call that saves it and its created_at, a time of *)
(* the caller's choice or the one of the call.  The bounds of              *)
(* FindPredictions, 100 and 20, and the 101 documents of a first batch are *)
(* constants.  Records implements this module, byte by byte.               *)
(***************************************************************************)
EXTENDS Integers, Sequences, FiniteSets

CONSTANTS Saves,        \* calls of SavePrediction
          Finds,        \* calls of History
          Limits,       \* the limits they may ask for
          MaxLimit,     \* 100
          DefaultLimit, \* 20
          FirstBatch,   \* 101
          Times         \* of a record, in milliseconds; 0 is one of them

VARIABLES stored,  \* the collection, in the order of its inserts
          pc,      \* of each call
          wire,    \* of each call: its command, and then the answer to it
          at,      \* created_at of each save
          limit,   \* of each find
          result,  \* of each find: the records it returned
          before   \* history variable: what was stored when a find was sent

vars == <<stored, pc, wire, at, limit, result, before>>

Calls == Saves \cup Finds
ToSet(s) == {s[i] : i \in DOMAIN s}
Least(S) == CHOOSE n \in S : \A k \in S : n <= k

Command == [command |-> TRUE]
OK      == [ok |-> 1]
(* "writeErrors": nothing was inserted, and ok is 1 nevertheless. *)
WriteErrors == [ok |-> 1, writeErrors |-> TRUE]
Refused == [ok |-> 0]

Effective(n) == IF n <= 0 \/ n > MaxLimit THEN DefaultLimit ELSE n

(* sort: {created_at: -1}; records of the same instant in any order. *)
NewestFirst(s) == \A i, j \in DOMAIN s : i < j => at[s[i]] >= at[s[j]]

(* MongoDB answers a find: the first records of the sorted collection. *)
Answers(n) ==
  LET len == Least({n, FirstBatch, Len(stored)})
  IN {[i \in 1..len |-> stored[idx[i]]] :
        idx \in {f \in [1..len -> DOMAIN stored] :
                   /\ \A i, j \in 1..len : f[i] = f[j] => i = j
                   /\ NewestFirst([i \in 1..len |-> stored[f[i]]])
                   /\ \A k \in DOMAIN stored \ {f[i] : i \in 1..len} :
                        \A i \in 1..len :
                          NewestFirst(<<stored[f[i]], stored[k]>>)}}

Init == /\ stored = <<>>
        /\ pc = [c \in Calls |-> "idle"]
        /\ wire = [c \in Calls |-> {}]
        /\ at = [c \in Saves |-> 0]
        /\ limit \in [Finds -> Limits]
        /\ result = [c \in Finds |-> <<>>]
        /\ before = [c \in Finds |-> {}]

----------------------------------------------------------------------------
(* SavePrediction and InsertPrediction: stamp the record and send it. *)
Save(c) == /\ pc[c] = "idle" /\ pc' = [pc EXCEPT ![c] = "waiting"]
           /\ \E t \in Times : at' = [at EXCEPT ![c] = t]
           /\ wire' = [wire EXCEPT ![c] = {Command}]
           /\ UNCHANGED <<stored, limit, result, before>>

(* FindPredictions: send the query. *)
Find(c) == /\ pc[c] = "idle" /\ pc' = [pc EXCEPT ![c] = "waiting"]
           /\ wire' = [wire EXCEPT ![c] = {Command}]
           /\ before' = [before EXCEPT ![c] = ToSet(stored)]
           /\ UNCHANGED <<stored, at, limit, result>>

(* MongoDB carries out a command, or refuses it. *)
Insert(c) == /\ wire[c] = {Command}
             /\ stored' = Append(stored, c)
             /\ wire' = [wire EXCEPT ![c] = IF pc[c] = "waiting" THEN {OK} ELSE {}]
             /\ UNCHANGED <<pc, at, limit, result, before>>

Query(c) == /\ wire[c] = {Command} /\ pc[c] = "waiting"
            /\ \E batch \in Answers(Effective(limit[c])) :
                 wire' = [wire EXCEPT ![c] = {[ok |-> 1, cursor |-> batch]}]
            /\ UNCHANGED <<stored, pc, at, limit, result, before>>

Refuse(c) == /\ wire[c] = {Command} /\ pc[c] = "waiting"
             /\ \E reply \in {Refused} \cup (IF c \in Saves THEN {WriteErrors} ELSE {}) :
                  wire' = [wire EXCEPT ![c] = {reply}]
             /\ UNCHANGED <<stored, pc, at, limit, result, before>>

(* InsertPrediction: ok = 1 is nil, anything else an error. *)
EndSave(c) == /\ pc[c] = "waiting"
              /\ \E reply \in wire[c] \ {Command} :
                   pc' = [pc EXCEPT ![c] = IF reply.ok = 1 THEN "saved" ELSE "failed"]
              /\ wire' = [wire EXCEPT ![c] = {}]
              /\ UNCHANGED <<stored, at, limit, result, before>>

(* An answer without a cursor is an empty history. *)
Records(reply) == IF "cursor" \in DOMAIN reply THEN reply.cursor ELSE <<>>

(* FindPredictions returns; ok is not looked at. *)
EndFind(c) == /\ pc[c] = "waiting"
              /\ \E reply \in wire[c] \ {Command} :
                   result' = [result EXCEPT ![c] = Records(reply)]
              /\ pc' = [pc EXCEPT ![c] = "found"]
              /\ wire' = [wire EXCEPT ![c] = {}]
              /\ UNCHANGED <<stored, at, limit, before>>

(* runCommand fails: no connection, a lost one, or the deadline.  The      *)
(* command may have been carried out, or be so later. *)
TimesOut(c) == /\ pc[c] = "waiting"
               /\ pc' = [pc EXCEPT ![c] = "failed"]
               /\ wire' = [wire EXCEPT ![c] = IF c \in Saves THEN @ \cap {Command} ELSE {}]
               /\ UNCHANGED <<stored, at, limit, result, before>>

Done == /\ \A c \in Calls : pc[c] \notin {"idle", "waiting"}
        /\ UNCHANGED vars

Next == \/ Done
        \/ \E c \in Saves : Save(c) \/ Insert(c) \/ EndSave(c)
        \/ \E c \in Finds : Find(c) \/ Query(c) \/ EndFind(c)
        \/ \E c \in Calls : Refuse(c) \/ TimesOut(c)

Spec == Init /\ [][Next]_vars

----------------------------------------------------------------------------
(* Properties.                                                             *)

Answered == {c \in Finds : pc[c] = "found" /\ result[c] # <<>>}

(* A history that is not empty is the newest records there are: each one   *)
(* once, in order, and a record that was stored before the query is        *)
(* missing only if as many newer ones as were asked for are there.  So the *)
(* bound on the limit keeps the answer within one batch: no cursor is ever *)
(* read on, which the client could not do. *)
RecentHistory ==
  \A c \in Answered :
    LET n == IF limit[c] \in 1..MaxLimit THEN limit[c] ELSE DefaultLimit IN
    /\ Len(result[c]) <= n
    /\ \A i, j \in DOMAIN result[c] : i < j =>
         result[c][i] # result[c][j] /\ at[result[c][i]] >= at[result[c][j]]
    /\ \A s \in before[c] \ ToSet(result[c]) :
         /\ Len(result[c]) = n
         /\ \A i \in DOMAIN result[c] : at[result[c][i]] >= at[s]

(* "GET /predictions/history ... Retorna predicciones guardadas": a        *)
(* history without records means that none had been stored. *)
EmptyMeansNone == \A c \in Finds : pc[c] = "found" /\ before[c] # {} => result[c] # <<>>
=============================================================================
