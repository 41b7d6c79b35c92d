-------------------------- MODULE PredictionsProofs --------------------------
(* Theorems about the answers of POST /predict, for any number of handlers *)
(* and any places, weeks and vectors.                                      *)
EXTENDS Predictions, TLAPS

Result == {Predict(q) : q \in Query} \ {Failed}

Types ==
  /\ pc \in [Handlers -> {"idle", "lookup", "node", "fill", "record", "answered"}]
  /\ query \in [Handlers -> Query]
  /\ answer \in [Handlers -> {Nothing, Failed} \cup [cached : BOOLEAN, result : Result]]
  /\ cache \in [Keys -> Result \cup {Nothing}]
  /\ \A h \in Handlers : pc[h] = "fill" => answer[h].result \in Result

(* The result r is an answer to q. *)
Answers(r, q) == /\ r.scored = VectorOf(q)
                 /\ q.features = NoFeatures => r.place = q.place

(* An entry answers every query that looks it up, not only the one that    *)
(* filled it. *)
CacheIsRight == \A q \in Query :
  cache[CacheKey(q)] # Nothing => Answers(cache[CacheKey(q)], q)

(* What a handler returns, or is about to cache, answers its query. *)
HandlerIsRight == \A h \in Handlers :
  Given(h) \/ pc[h] = "fill" => Answers(answer[h].result, query[h])

IInv == Types /\ CacheIsRight /\ HandlerIsRight

(* The two forms of a key are never equal, and a key says all that the     *)
(* score depends on. *)
LEMMA KeyDecides ==
  ASSUME NEW q \in Query, NEW p \in Query, NEW r,
         CacheKey(q) = CacheKey(p), Answers(r, q)
  PROVE  Answers(r, p)
<1>1. CASE q.features = NoFeatures /\ p.features = NoFeatures
  <2>1. q.place = p.place /\ q.week = p.week
    BY <1>1 DEF CacheKey
  <2>2. QED  BY <1>1, <2>1 DEF Answers, VectorOf
<1>2. CASE q.features # NoFeatures /\ p.features # NoFeatures
  <2>1. q.features = p.features
    BY <1>2 DEF CacheKey
  <2>2. QED  BY <1>2, <2>1 DEF Answers, VectorOf
<1>3. ASSUME NEW u \in Query, NEW v \in Query,
             u.features = NoFeatures, v.features # NoFeatures
      PROVE  CacheKey(u) # CacheKey(v)
  <2>1. /\ DOMAIN CacheKey(u) = {"place", "week"}
        /\ DOMAIN CacheKey(v) = {"features"}
    BY <1>3 DEF CacheKey
  <2>2. "place" # "features"
    OBVIOUS
  <2>3. QED  BY <2>1, <2>2
<1>4. QED  BY <1>1, <1>2, <1>3

(* A node's answer is one to its query. *)
LEMMA NodeIsRight ==
  ASSUME NEW q \in Query, Predict(q) # Failed
  PROVE  Predict(q) \in Result /\ Answers(Predict(q), q)
BY DEF Result, Answers, Predict

(* The keys that are looked up are those of the cache. *)
LEMMA KeyOfQuery == ASSUME NEW q \in Query  PROVE CacheKey(q) \in Keys
BY DEF Keys

(* What the cache keeps is an answer to the query of its key, whoever      *)
(* stores it. *)
LEMMA TypesStep == Types /\ [Next]_vars => Types'
<1> SUFFICES ASSUME Types, [Next]_vars  PROVE Types'
  OBVIOUS
<1> USE DEF Types, Goto
<1>1. ASSUME NEW h \in Handlers, Ask(h)  PROVE Types'
  BY <1>1 DEF Ask
<1>2. ASSUME NEW h \in Handlers, Hit(h)  PROVE Types'
  <2>1. cache[CacheKey(query[h])] \in Result
    BY <1>2, KeyOfQuery DEF Hit
  <2>2. QED  BY <1>2, <2>1 DEF Hit
<1>3. ASSUME NEW h \in Handlers, Miss(h) \/ Record(h) \/ Reuse(h)  PROVE Types'
  BY <1>3 DEF Miss, Record, Reuse
<1>4. ASSUME NEW h \in Handlers, NodeAnswers(h)  PROVE Types'
  <2>1. Predict(query[h]) \in Result
    BY <1>4, NodeIsRight DEF NodeAnswers
  <2>2. QED  BY <1>4, <2>1 DEF NodeAnswers
<1>5. ASSUME NEW h \in Handlers, NodeFails(h)  PROVE Types'
  BY <1>5 DEF NodeFails
<1>6. ASSUME NEW h \in Handlers, Fill(h)  PROVE Types'
  BY <1>6, KeyOfQuery DEF Fill
<1>7. ASSUME NEW k \in Keys, Expire(k)  PROVE Types'
  BY <1>7 DEF Expire
<1>8. CASE UNCHANGED vars
  BY <1>8 DEF vars
<1>9. QED
  BY <1>1, <1>2, <1>3, <1>4, <1>5, <1>6, <1>7, <1>8 DEF Next, Handler

----------------------------------------------------------------------------
(* What an entry says is right for every query with its key: a fill by one *)
(* handler while another is about to look up changes nothing for it. *)
LEMMA CacheStep == IInv /\ [Next]_vars => CacheIsRight'
<1> SUFFICES ASSUME IInv, [Next]_vars, NEW p \in Query, cache'[CacheKey(p)] # Nothing
             PROVE  Answers(cache'[CacheKey(p)], p)
  BY DEF CacheIsRight, Answers, CacheKey, VectorOf
<1> DEFINE k == CacheKey(p)
<1>1. k \in Keys
  BY KeyOfQuery
<1>2. CASE cache'[k] = cache[k]
  BY <1>2 DEF IInv, CacheIsRight
<1>3. ASSUME NEW h \in Handlers, Fill(h), cache'[k] # cache[k]
      PROVE  Answers(cache'[k], p)
  <2>1. /\ k = CacheKey(query[h]) /\ cache'[k] = answer[h].result
        /\ query[h] \in Query /\ pc[h] = "fill"
    BY <1>1, <1>3 DEF Fill, Goto, IInv, Types
  <2>2. Answers(answer[h].result, query[h])
    BY <2>1 DEF IInv, HandlerIsRight
  <2>3. QED  BY <2>1, <2>2, KeyDecides
<1>4. ASSUME NEW l \in Keys, Expire(l)  PROVE cache'[k] = cache[k]
  BY <1>1, <1>4 DEF Expire, IInv, Types
<1>5. QED
  BY <1>2, <1>3, <1>4 DEF Next, Handler, Ask, Hit, Miss, NodeAnswers, NodeFails, Record,
     Reuse, vars

(* A handler gets its answer from a node that scored its query, or from an *)
(* entry that is right for it. *)
LEMMA HandlerStep == IInv /\ [Next]_vars => HandlerIsRight'
<1> SUFFICES ASSUME IInv, [Next]_vars  PROVE HandlerIsRight'
  OBVIOUS
<1> USE DEF IInv, Types, Goto
<1>1. ASSUME NEW h \in Handlers, Ask(h)  PROVE HandlerIsRight'
  BY <1>1 DEF Ask, HandlerIsRight, Given, Answers, VectorOf
<1>2. ASSUME NEW h \in Handlers, Hit(h)  PROVE HandlerIsRight'
  <2>1. Answers(cache[CacheKey(query[h])], query[h])
    BY <1>2 DEF Hit, CacheIsRight
  <2>2. answer'[h].result = cache[CacheKey(query[h])]
    BY <1>2 DEF Hit
  <2>3. QED  BY <1>2, <2>1, <2>2 DEF Hit, HandlerIsRight, Given, Answers, VectorOf
<1>3. ASSUME NEW h \in Handlers, NodeAnswers(h)  PROVE HandlerIsRight'
  <2>1. Answers(Predict(query[h]), query[h])
    BY <1>3, NodeIsRight DEF NodeAnswers
  <2>2. answer'[h].result = Predict(query[h])
    BY <1>3 DEF NodeAnswers
  <2>3. QED  BY <1>3, <2>1, <2>2 DEF NodeAnswers, HandlerIsRight, Given, Answers, VectorOf
<1>4. ASSUME NEW h \in Handlers, NodeFails(h)  PROVE HandlerIsRight'
  BY <1>4 DEF NodeFails, HandlerIsRight, Given, Answers, VectorOf
<1>5. ASSUME NEW h \in Handlers, Miss(h) \/ Fill(h) \/ Record(h) \/ Reuse(h)
      PROVE  HandlerIsRight'
  <2>1. /\ query' = query /\ answer' = answer
        /\ \A g \in Handlers : pc'[g] = "fill" => pc[g] = "fill"
    BY <1>5 DEF Miss, Fill, Record, Reuse
  <2>2. QED  BY <2>1 DEF HandlerIsRight, Given, Answers, VectorOf
<1>6. CASE UNCHANGED <<pc, query, answer>>
  BY <1>6 DEF HandlerIsRight, Given, Answers, VectorOf
<1>7. QED
  BY <1>1, <1>2, <1>3, <1>4, <1>5, <1>6 DEF Next, Handler, Expire, vars

(* The inductive invariant. *)
LEMMA AnswersInvariant == Spec => []IInv
<1>1. Init => IInv
  BY DEF Init, IInv, Types, CacheIsRight, HandlerIsRight, Given, Keys
<1>2. IInv /\ [Next]_vars => IInv'
  BY TypesStep, CacheStep, HandlerStep DEF IInv
<1>3. QED  BY <1>1, <1>2, PTL DEF Spec

(* Whoever filled the cache, and whatever failed, an answer is the score   *)
(* of the vector that was asked for, at its place. *)
THEOREM AnswersAreScores == Spec => []ScoreOfTheQuery
<1>1. IInv => ScoreOfTheQuery
  BY DEF IInv, HandlerIsRight, Answers, ScoreOfTheQuery
<1>2. QED  BY <1>1, AnswersInvariant, PTL
=============================================================================
