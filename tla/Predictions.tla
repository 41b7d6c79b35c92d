---------------------------- MODULE Predictions ----------------------------
(***************************************************************************)
(* POST /predict: handlers look a query up in Redis, ask a node for what   *)
(* is not there, cache its answer and record it (internal/storage,         *)
(* Predictor.Predict, SendTCPRequest).  The order is the one of            *)
(* docs/pc4/IMPLEMENTACION_FASE_5.md; the handler itself (internal/api) is *)
(* not in the repository and is external, like Redis and MongoDB.          *)
(*                                                                         *)
(* Any call over the network may fail or time out, and one that failed may *)
(* have been executed.  Which node answers is Registry's business; here    *)
(* all have one model, in Serving it changes: a score is a function of the *)
(* vector that is scored.  The records in MongoDB are those of History.  A *)
(* definition named Bug... is one of the code with a mistake, to show that *)
(* a property can fail.                                                    *)
(***************************************************************************)
EXTENDS Integers

CONSTANTS Handlers,   \* goroutines that serve POST /predict
          Place,      \* (district, community area, weekday, hour)
          Week,       \* week_start
          Vector,     \* full feature vectors that a query may bring along
          NoFeatures, \* a query without one
          Invalid     \* the places that buildFeatures rejects

ASSUME PredictionsAssumption == NoFeatures \notin Vector /\ Invalid \subseteq Place

VARIABLES pc, query, answer,  \* of each handler
          cache               \* Redis

vars == <<pc, query, answer, cache>>

Query == [place : Place, week : Week, features : Vector \cup {NoFeatures}]

Nothing == [nothing |-> TRUE]
Failed  == [failed |-> TRUE]

(* What buildFeatures makes the score of: the features that came along, or *)
(* base features of the place and the month of the week. *)
VectorOf(q) == IF q.features = NoFeatures THEN [place |-> q.place, week |-> q.week]
               ELSE [given |-> q.features]

(* A vector is scored whatever the place; the place is echoed unchecked. *)
Predict(q) == IF q.features = NoFeatures /\ q.place \in Invalid
              THEN Failed
              ELSE [place |-> q.place, scored |-> VectorOf(q)]

(* The key has no week. *)
BugCacheKey(q) == IF q.features = NoFeatures THEN [place |-> q.place]
                  ELSE [features |-> q.features]

(* "risk:district=..:week=..", or the hash of the features alone. *)
CacheKey(q) == IF q.features = NoFeatures THEN [place |-> q.place, week |-> q.week]
               ELSE [features |-> q.features]

Keys == {CacheKey(q) : q \in Query}

Init == /\ pc = [h \in Handlers |-> "idle"]
        /\ query \in [Handlers -> Query]
        /\ answer = [h \in Handlers |-> Nothing]
        /\ cache = [k \in Keys |-> Nothing]

----------------------------------------------------------------------------
Goto(h, from, to) == pc[h] = from /\ pc' = [pc EXCEPT ![h] = to]

(* A request comes in. *)
Ask(h) == /\ Goto(h, "idle", "lookup")
          /\ \E q \in Query : query' = [query EXCEPT ![h] = q]
          /\ answer' = [answer EXCEPT ![h] = Nothing]
          /\ UNCHANGED cache

(* GetCachedPrediction: the entry is there. *)
Hit(h) == /\ Goto(h, "lookup", "record")
          /\ cache[CacheKey(query[h])] # Nothing
          /\ answer' = [answer EXCEPT ![h] = [cached |-> TRUE,
                                              result |-> cache[CacheKey(query[h])]]]
          /\ UNCHANGED <<query, cache>>

(* Do fails: no connection, or the deadline. *)
RedisFails(h) == TRUE

(* No entry, or an error that is counted and otherwise ignored. *)
Miss(h) == /\ Goto(h, "lookup", "node")
           /\ cache[CacheKey(query[h])] = Nothing \/ RedisFails(h)
           /\ UNCHANGED <<query, answer, cache>>

(* SendTCPRequest, "predict". *)
NodeAnswers(h) == /\ Goto(h, "node", "fill")
                  /\ Predict(query[h]) # Failed
                  /\ answer' = [answer EXCEPT ![h] = [cached |-> FALSE,
                                                      result |-> Predict(query[h])]]
                  /\ UNCHANGED <<query, cache>>

(* A node that never answers is waited for. *)
BugNodeTimesOut(h) == FALSE

(* DialTimeout, or the deadline of the connection. *)
NodeTimesOut(h) == TRUE

(* The query is rejected, or no answer comes in time. *)
NodeFails(h) == /\ Goto(h, "node", "answered")
                /\ Predict(query[h]) = Failed \/ NodeTimesOut(h)
                /\ answer' = [answer EXCEPT ![h] = Failed]
                /\ UNCHANGED <<query, cache>>

(* SetCachedPrediction, with or without effect. *)
Fill(h) == /\ Goto(h, "fill", "record")
           /\ \/ cache' = [cache EXCEPT ![CacheKey(query[h])] = answer[h].result]
              \/ RedisFails(h) /\ UNCHANGED cache
           /\ UNCHANGED <<query, answer>>

(* SavePrediction, whose error does not change the answer. *)
Record(h) == /\ Goto(h, "record", "answered")
             /\ UNCHANGED <<query, answer, cache>>

(* The response is out; the goroutine takes another request. *)
Reuse(h) == /\ Goto(h, "answered", "idle")
            /\ UNCHANGED <<query, answer, cache>>

(* The TTL of SETEX ends. *)
Expire(k) == /\ cache[k] # Nothing
             /\ cache' = [cache EXCEPT ![k] = Nothing]
             /\ UNCHANGED <<pc, query, answer>>

Handler(h) == \/ Hit(h) \/ Miss(h) \/ NodeAnswers(h) \/ NodeFails(h)
              \/ Fill(h) \/ Record(h)

Next == \/ \E h \in Handlers : Ask(h) \/ Handler(h) \/ Reuse(h)
        \/ \E k \in Keys : Expire(k)

Spec == Init /\ [][Next]_vars

(* Deadlines expire; nothing is assumed of Redis, MongoDB or the nodes. *)
Deadlines(h) == Miss(h) \/ NodeFails(h) \/ Fill(h) \/ Record(h)
FairSpec == Spec /\ \A h \in Handlers : WF_vars(Deadlines(h))

----------------------------------------------------------------------------
(* Properties.                                                             *)

Given(h) == answer[h] \notin {Nothing, Failed}

(* Cached or not, an answer is the score of what was asked, whoever else   *)
(* asked before and whatever failed. *)
ScoreOfTheQuery ==
  \A h \in Handlers : Given(h) =>
    /\ answer[h].result.scored = VectorOf(query[h])
    /\ query[h].features = NoFeatures => answer[h].result.place = query[h].place

(* Every request is answered, whatever Redis, MongoDB or the node do. *)
EveryQueryAnswered == \A h \in Handlers : pc[h] = "lookup" ~> pc[h] = "answered"
=============================================================================
