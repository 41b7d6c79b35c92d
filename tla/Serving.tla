------------------------------ MODULE Serving ------------------------------
(***************************************************************************)
(* One model replaces another while predictions are served: cmd/train      *)
(* rewrites models/model.json in place (ml.SaveJSON), each node runs the   *)
(* model it loaded when it started (ml.LoadModel, node.LoadPredictor),     *)
(* requests go to the nodes in turn (Registry.NextNode) and their answers  *)
(* stay in Redis until their TTL ends (RedisClient.SetJSON).               *)
(*                                                                         *)
(* Versions of the model are counted from 1.  Time is kept as ages; Delay  *)
(* is how long the steps of one request may take, by the deadlines of      *)
(* their connections.  Scores are a matter of Predictions and the turns of *)
(* Registry.  The registry never learns that a node is down.  The order of *)
(* the steps of POST /predict and restarts are external.  A definition     *)
(* named Bug... is one of the code with a mistake, to show that a property *)
(* can fail.                                                               *)
(***************************************************************************)
EXTENDS Integers

CONSTANTS Handlers, Keys,  \* goroutines; cache keys
          N,               \* number of nodes
          Versions,        \* number of models that are trained
          TTL, Delay

ASSUME ServingAssumption == {N, Versions, TTL, Delay} \subseteq Nat \ {0}

VARIABLES file, trained,     \* the model file; the newest version written to it
          node, cursor,      \* the version each node runs; the next node's turn
          cache,             \* an answer's version and age
          pc, key, got, age, \* of each handler; age of its node's answer
          gone               \* history variable: since when no node runs a version

vars == <<file, trained, node, cursor, cache, pc, key, got, age, gone>>

Node == 0 .. N - 1
Version == 1 .. Versions
None == 0
Down == 0
NoEntry == [version |-> None, age |-> 0]
Model(v, whole) == [version |-> v, whole |-> whole]
Long == TTL + Delay + 1

Init == /\ file = Model(1, TRUE) /\ trained = 1
        /\ node = [n \in Node |-> 1] /\ cursor = 0
        /\ cache = [k \in Keys |-> NoEntry]
        /\ pc = [h \in Handlers |-> "idle"]
        /\ key \in [Handlers -> Keys]
        /\ got = [h \in Handlers |-> None] /\ age = [h \in Handlers |-> 0]
        /\ gone = [v \in Version |-> IF v = 1 THEN 0 ELSE Long]

----------------------------------------------------------------------------
Requests == <<cursor, cache, pc, key, got, age>>

(* SaveJSON: os.Create empties the file. *)
Truncate == /\ file.whole /\ trained < Versions
            /\ trained' = trained + 1 /\ file' = Model(trained + 1, FALSE)
            /\ UNCHANGED <<node, gone, Requests>>

(* SaveJSON: enc.Encode.  It may fail, or be killed, with a part written:  *)
(* then the file stays as it is until the next training. *)
Encode == /\ ~file.whole
          /\ \/ file' = Model(trained, TRUE) /\ UNCHANGED trained
             \/ trained < Versions /\ trained' = trained + 1
                /\ file' = Model(trained + 1, FALSE)
          /\ UNCHANGED <<node, gone, Requests>>

(* What was read is used although it is not a whole document. *)
BugLoadModel(f) == f.version

(* LoadModel and LoadPredictor: a part of a document is an error. *)
LoadModel(f) == IF f.whole THEN f.version ELSE Down

Crash(n) == /\ node[n] # Down
            /\ node' = [node EXCEPT ![n] = Down]
            /\ UNCHANGED <<file, trained, gone, Requests>>

(* The node's process starts, and ends at once if there is no model. *)
Start(n) == /\ node[n] = Down
            /\ node' = [node EXCEPT ![n] = LoadModel(file)]
            /\ gone' = [v \in Version |-> IF v = node'[n] THEN 0 ELSE gone[v]]
            /\ UNCHANGED <<file, trained, Requests>>

----------------------------------------------------------------------------
Fleet == <<file, trained, node, gone>>
Goto(h, from, to) == pc[h] = from /\ pc' = [pc EXCEPT ![h] = to]

Ask(h) == /\ Goto(h, "idle", "lookup")
          /\ \E k \in Keys : key' = [key EXCEPT ![h] = k]
          /\ got' = [got EXCEPT ![h] = None] /\ age' = [age EXCEPT ![h] = 0]
          /\ UNCHANGED <<Fleet, cursor, cache>>

Hit(h) == /\ Goto(h, "lookup", "answered")
          /\ cache[key[h]] # NoEntry
          /\ got' = [got EXCEPT ![h] = cache[key[h]].version]
          /\ UNCHANGED <<Fleet, cursor, cache, key, age>>

(* No entry, or Redis does not answer. *)
Miss(h) == /\ Goto(h, "lookup", "node")
           /\ UNCHANGED <<Fleet, cursor, cache, key, got, age>>

(* NextNode and SendTCPRequest: the node whose turn it is answers or not;  *)
(* no other one is asked. *)
AskNode(h) == /\ cursor' = (cursor + 1) % N
              /\ \/ /\ Goto(h, "node", "fill") /\ node[cursor] # Down
                    /\ got' = [got EXCEPT ![h] = node[cursor]]
                 \/ Goto(h, "node", "answered") /\ UNCHANGED got
              /\ age' = [age EXCEPT ![h] = 0]
              /\ UNCHANGED <<Fleet, cache, key>>

(* SetJSON with SETEX, or Redis does not answer. *)
Fill(h) == /\ Goto(h, "fill", "answered")
           /\ \/ cache' = [cache EXCEPT ![key[h]] = [version |-> got[h], age |-> 0]]
              \/ UNCHANGED cache
           /\ UNCHANGED <<Fleet, cursor, key, got, age>>

Reuse(h) == /\ Goto(h, "answered", "idle")
            /\ UNCHANGED <<Fleet, cursor, cache, key, got, age>>

(* SET: the entries have no TTL. *)
BugOlder(entry) == entry

(* SETEX: an entry is gone when its TTL ends.  A TTL below one second,     *)
(* which SetJSON makes 300 of, is left out: it is configured in seconds. *)
Older(entry) == IF entry = NoEntry \/ entry.age + 1 >= TTL THEN NoEntry
                ELSE [entry EXCEPT !.age = @ + 1]

(* Time passes, but no request outlasts its deadlines. *)
Tick == /\ \A h \in Handlers : pc[h] # "idle" => age[h] < Delay
        /\ age' = [h \in Handlers |-> IF pc[h] = "idle" THEN 0 ELSE age[h] + 1]
        /\ cache' = [k \in Keys |-> Older(cache[k])]
        /\ gone' = [v \in Version |-> IF \E n \in Node : node[n] = v THEN 0
                                      ELSE IF gone[v] < Long THEN gone[v] + 1 ELSE Long]
        /\ UNCHANGED <<file, trained, node, cursor, pc, key, got>>

Handler(h) == Hit(h) \/ Miss(h) \/ AskNode(h) \/ Fill(h) \/ Reuse(h)

Next == \/ Truncate \/ Encode \/ Tick
        \/ \E n \in Node : Crash(n) \/ Start(n)
        \/ \E h \in Handlers : Ask(h) \/ Handler(h)

Spec == Init /\ [][Next]_vars

(* Requests run into their deadlines and time passes; nobody has to ask,   *)
(* to train or to restart a node. *)
FairSpec == Spec /\ WF_vars(Tick) /\ \A h \in Handlers : WF_vars(Handler(h))

----------------------------------------------------------------------------
(* Properties.                                                             *)

(* Every variable has its type, and a node runs only a model whose file    *)
(* was complete when it was read, however trainings end: it never runs the *)
(* version whose training is not finished. *)
TypeOK ==
  /\ file.version = trained /\ trained \in Version
  /\ \A n \in Node : node[n] \in 0..trained /\ (~file.whole => node[n] < trained)
  /\ cursor \in Node /\ key \in [Handlers -> Keys]
  /\ pc \in [Handlers -> {"idle", "lookup", "node", "fill", "answered"}]
  /\ got \in [Handlers -> 0..Versions] /\ age \in [Handlers -> 0..Delay]
  /\ gone \in [Version -> 0..Long]

(* A request is answered, from a node or from the cache, with a model that *)
(* some node ran no longer than TTL and the time of one request ago: an    *)
(* entry that outlives its model, or that a slow handler writes over one   *)
(* of a newer model, does not live longer than that. *)
StaleBounded ==
  [][\A h \in Handlers : pc[h] # "answered" /\ pc'[h] = "answered" /\ got'[h] # None
       => gone[got'[h]] < TTL + Delay]_vars

(* Once all nodes run one model for good, every answer comes from it. *)
FreshEventually ==
  \A v \in Version :
    <>[](\A n \in Node : node[n] = v)
      => <>[](\A h \in Handlers : pc[h] = "answered" => got[h] \in {None, v})
=============================================================================
