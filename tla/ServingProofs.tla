---------------------------- MODULE ServingProofs ----------------------------
(* Theorems about the replacement of a model in service, for any number of *)
(* nodes, handlers and versions, and for any TTL and deadline.             *)
EXTENDS Serving, TLAPS

Entry == [version : Version, age : 0 .. TTL - 1]

Types ==
  /\ TypeOK
  /\ file \in [version : Version, whole : BOOLEAN]
  /\ node \in [Node -> 0 .. Versions]
  /\ cache \in [Keys -> Entry \cup {NoEntry}]

(* How old the model behind an answer can be, wherever the answer is: in   *)
(* a node, in the hands of a handler, or in the cache. *)
Recent ==
  /\ \A n \in Node : node[n] # Down => gone[node[n]] = 0
  /\ \A h \in Handlers : pc[h] = "fill" => got[h] \in Version /\ gone[got[h]] <= age[h]
  /\ \A k \in Keys : cache[k] # NoEntry
                     => gone[cache[k].version] <= cache[k].age + Delay

(* A handler has no answer before it asks for one. *)
NothingYet == \A h \in Handlers : pc[h] \in {"lookup", "node"} => got[h] = None

IInv == Types /\ Recent /\ NothingYet

(* The numbers that the constants give. *)
LEMMA Numbers ==
  /\ N \in Nat \ {0} /\ Versions \in Nat \ {0} /\ TTL \in Nat \ {0} /\ Delay \in Nat \ {0}
  /\ Long = TTL + Delay + 1 /\ Long \in Nat /\ 1 \in Version /\ 0 \in Node
  /\ None = 0 /\ Down = 0
BY ServingAssumption DEF Long, Version, Node, None, Down

(* The turn of the next node. *)
LEMMA NextTurn == ASSUME cursor \in Node  PROVE (cursor + 1) % N \in Node
<1>1. ASSUME NEW k \in Nat, NEW M \in Nat \ {0}  PROVE k % M \in 0 .. M - 1
  OBVIOUS
<1>2. QED  BY <1>1, Numbers DEF Node

(* Time makes an entry one older, or ends it. *)
LEMMA OlderEntry ==
  ASSUME NEW e \in Entry \cup {NoEntry}
  PROVE  /\ Older(e) \in Entry \cup {NoEntry}
         /\ Older(e) # NoEntry
            => e # NoEntry /\ Older(e).version = e.version /\ Older(e).age = e.age + 1
BY Numbers DEF Older, Entry, NoEntry

----------------------------------------------------------------------------
(* The types.  A node never runs a version whose training is not finished, *)
(* because the version of the file that is not whole is newer than all     *)
(* that were loaded. *)
LEMMA TypesInit == Init => Types
BY Numbers DEF Init, Types, TypeOK, Model, NoEntry, Version

(* The types are kept; Recent bounds the ages. *)
LEMMA TypesStep == Types /\ Recent /\ [Next]_vars => Types'
<1> SUFFICES ASSUME Types, Recent, [Next]_vars  PROVE Types'
  OBVIOUS
<1> USE Numbers DEF Types, TypeOK
<1>1. CASE Truncate \/ Encode
  <2>1. /\ trained' \in Version /\ file'.version = trained'
        /\ file' \in [version : Version, whole : BOOLEAN]
        /\ trained' = trained \/ trained' = trained + 1
    <3>1. \/ trained' = trained /\ file' = [version |-> trained, whole |-> TRUE]
          \/ /\ trained < Versions /\ trained' = trained + 1
             /\ file' = [version |-> trained + 1, whole |-> FALSE]
      BY <1>1 DEF Truncate, Encode, Model
    <3>2. trained' \in Version /\ (trained' = trained \/ trained' = trained + 1)
      BY <3>1 DEF Version
    <3>3. \E b \in BOOLEAN : file' = [version |-> trained', whole |-> b]
      BY <3>1
    <3>4. QED  BY <3>2, <3>3
  <2>2. file'.whole \/ trained' = trained + 1
    BY <1>1 DEF Truncate, Encode, Model
  <2>3. node' = node /\ \A n \in Node : node[n] \in 0 .. trained
    BY <1>1 DEF Truncate, Encode
  <2>4. \A n \in Node : node[n] \in 0 .. trained' /\ (~file'.whole => node[n] < trained')
    BY <2>1, <2>2, <2>3 DEF Version
  <2>5. QED  BY <1>1, <2>1, <2>3, <2>4 DEF Truncate, Encode, Requests
<1>2. CASE Tick
  <2>1. age' \in [Handlers -> 0 .. Delay] /\ gone' \in [Version -> 0 .. Long]
    BY <1>2 DEF Tick
  <2>2. cache' \in [Keys -> Entry \cup {NoEntry}]
    BY <1>2, OlderEntry DEF Tick
  <2>3. QED  BY <1>2, <2>1, <2>2 DEF Tick
<1>3. ASSUME NEW n \in Node, Crash(n)  PROVE Types'
  <2>1. \A m \in Node : node'[m] \in 0 .. trained /\ (~file.whole => node'[m] < trained)
    BY <1>3 DEF Crash, Version
  <2>2. node' \in [Node -> 0 .. Versions]
    BY <1>3 DEF Crash
  <2>3. QED  BY <1>3, <2>1, <2>2 DEF Crash, Requests
<1>4. ASSUME NEW n \in Node, Start(n)  PROVE Types'
  <2>1. /\ LoadModel(file) \in 0 .. trained
        /\ ~file.whole => LoadModel(file) < trained
    BY DEF LoadModel, Version
  <2>2. gone' \in [Version -> 0 .. Long]
    BY <1>4 DEF Start
  <2>3. QED  BY <1>4, <2>1, <2>2 DEF Start, Requests, Version
<1>5. ASSUME NEW h \in Handlers, Ask(h)  PROVE Types'
  BY <1>5 DEF Ask, Goto, Fleet
<1>6. ASSUME NEW h \in Handlers, Hit(h)  PROVE Types'
  <2>1. key[h] \in Keys /\ cache[key[h]].version \in 0 .. Versions
    BY <1>6 DEF Hit, Entry, Version
  <2>2. QED  BY <1>6, <2>1 DEF Hit, Goto, Fleet
<1>7. ASSUME NEW h \in Handlers, Miss(h) \/ Reuse(h)  PROVE Types'
  BY <1>7 DEF Miss, Reuse, Goto, Fleet
<1>8. ASSUME NEW h \in Handlers, AskNode(h)  PROVE Types'
  BY <1>8, NextTurn DEF AskNode, Goto, Fleet
<1>9. ASSUME NEW h \in Handlers, Fill(h)  PROVE Types'
  <2>1. [version |-> got[h], age |-> 0] \in Entry
    BY <1>9 DEF Fill, Goto, Entry, Recent
  <2>2. QED  BY <1>9, <2>1 DEF Fill, Goto, Fleet
<1>10. CASE UNCHANGED vars
  BY <1>10 DEF vars
<1>11. QED
  BY <1>1, <1>2, <1>3, <1>4, <1>5, <1>6, <1>7, <1>8, <1>9, <1>10 DEF Next, Handler

----------------------------------------------------------------------------
(* The ages.                                                               *)

(* A version that no node runs ages with the answers that it gave. *)
LEMMA RecentStep == Types /\ Recent /\ [Next]_vars => Recent'
<1> SUFFICES ASSUME Types, Recent, [Next]_vars  PROVE Recent'
  OBVIOUS
<1> USE Numbers DEF Types, TypeOK, Recent
<1>1. CASE Truncate \/ Encode \/ UNCHANGED vars
  BY <1>1 DEF Truncate, Encode, Requests, vars
<1>2. CASE Tick
  <2>1. /\ gone' \in [Version -> 0 .. Long]
        /\ \A v \in Version : gone'[v] <= gone[v] + 1
        /\ \A n \in Node : node[n] \in Version => gone'[node[n]] = 0
    BY <1>2 DEF Tick
  <2>2. \A n \in Node : node'[n] # Down => gone'[node'[n]] = 0
    BY <1>2, <2>1 DEF Tick, Version
  <2>3. ASSUME NEW h \in Handlers, pc'[h] = "fill"
        PROVE  got'[h] \in Version /\ gone'[got'[h]] <= age'[h]
    <3>1. pc[h] = "fill" /\ got'[h] = got[h] /\ age'[h] = age[h] + 1
      BY <1>2, <2>3 DEF Tick
    <3>2. QED  BY <2>1, <3>1
  <2>4. ASSUME NEW k \in Keys, cache'[k] # NoEntry
        PROVE  gone'[cache'[k].version] <= cache'[k].age + Delay
    <3>1. /\ cache[k] # NoEntry /\ cache[k] \in Entry
          /\ cache'[k].version = cache[k].version /\ cache'[k].age = cache[k].age + 1
      BY <1>2, <2>4, OlderEntry DEF Tick
    <3>2. cache[k].version \in Version /\ cache[k].age \in Nat
      BY <3>1 DEF Entry
    <3>3. gone[cache[k].version] <= cache[k].age + Delay
      BY <3>1
    <3>4. QED  BY <2>1, <3>1, <3>2, <3>3
  <2>5. QED  BY <2>2, <2>3, <2>4
<1>3. ASSUME NEW n \in Node, Crash(n)  PROVE Recent'
  BY <1>3 DEF Crash, Requests
<1>4. ASSUME NEW n \in Node, Start(n)  PROVE Recent'
  <2>1. /\ gone' \in [Version -> 0 .. Long]
        /\ \A v \in Version : gone'[v] <= gone[v] /\ (v = node'[n] => gone'[v] = 0)
    BY <1>4 DEF Start
  <2>2. /\ pc' = pc /\ got' = got /\ age' = age /\ cache' = cache
        /\ \A m \in Node : m # n => node'[m] = node[m]
    BY <1>4 DEF Start, Requests
  <2>3. \A m \in Node : node'[m] # Down => node'[m] \in Version
    <3>1. Types'
      BY TypesStep
    <3>2. node' \in [Node -> 0 .. Versions]
      BY <3>1
    <3>3. QED  BY <3>2 DEF Version
  <2>4. \A m \in Node : node'[m] # Down => gone'[node'[m]] = 0
    BY <2>1, <2>2, <2>3
  <2>5. ASSUME NEW k \in Keys, cache[k] # NoEntry
        PROVE  gone'[cache[k].version] <= cache[k].age + Delay
    BY <2>1, <2>5 DEF Entry
  <2>6. QED  BY <2>1, <2>2, <2>4, <2>5
<1>5. ASSUME NEW h \in Handlers, Ask(h) \/ Hit(h) \/ Miss(h) \/ Reuse(h)
      PROVE  Recent'
  <2>1. /\ node' = node /\ gone' = gone /\ cache' = cache
        /\ \A g \in Handlers : pc'[g] = "fill"
                     => pc[g] = "fill" /\ got'[g] = got[g] /\ age'[g] = age[g]
    BY <1>5 DEF Ask, Hit, Miss, Reuse, Goto, Fleet
  <2>2. QED  BY <2>1
<1>6. ASSUME NEW h \in Handlers, AskNode(h)  PROVE Recent'
  <2>1. /\ node' = node /\ gone' = gone /\ cache' = cache
        /\ \A g \in Handlers \ {h} : pc'[g] = pc[g] /\ got'[g] = got[g] /\ age'[g] = age[g]
        /\ pc'[h] = "fill" => got'[h] = node[cursor] /\ node[cursor] # Down
        /\ age'[h] = 0
    BY <1>6 DEF AskNode, Goto, Fleet
  <2>2. node[cursor] # Down => node[cursor] \in Version /\ gone[node[cursor]] = 0
    BY DEF Version
  <2>3. QED  BY <2>1, <2>2
<1>7. ASSUME NEW h \in Handlers, Fill(h)  PROVE Recent'
  <2>1. /\ node' = node /\ gone' = gone /\ got' = got /\ age' = age
        /\ \A g \in Handlers : pc'[g] = "fill" => pc[g] = "fill"
    BY <1>7 DEF Fill, Goto, Fleet
  <2>2. ASSUME NEW k \in Keys, cache'[k] # NoEntry
        PROVE  gone[cache'[k].version] <= cache'[k].age + Delay
    <3>1. CASE cache'[k] = cache[k]
      BY <2>2, <3>1
    <3>2. CASE cache'[k] = [version |-> got[h], age |-> 0]
      BY <1>7, <3>2 DEF Fill, Goto
    <3>3. QED  BY <1>7, <3>1, <3>2 DEF Fill
  <2>3. QED  BY <2>1, <2>2
<1>8. QED
  BY <1>1, <1>2, <1>3, <1>4, <1>5, <1>6, <1>7 DEF Next, Handler

(* The inductive invariant. *)
LEMMA AgesInvariant == Spec => []IInv
<1>1. Init => IInv
  BY TypesInit, Numbers DEF Init, IInv, Recent, NothingYet
<1>2. IInv /\ [Next]_vars => NothingYet'
  <2> SUFFICES ASSUME IInv, [Next]_vars  PROVE NothingYet'
    OBVIOUS
  <2> USE DEF IInv, Types, TypeOK, NothingYet
  <2>1. ASSUME NEW h \in Handlers, Ask(h) \/ Handler(h)  PROVE NothingYet'
    BY <2>1 DEF Ask, Handler, Hit, Miss, AskNode, Fill, Reuse, Goto
  <2>2. CASE UNCHANGED <<pc, got>>
    BY <2>2
  <2>3. QED
    BY <2>1, <2>2 DEF Next, Truncate, Encode, Tick, Crash, Start, Requests, vars
<1>3. QED  BY <1>1, <1>2, TypesStep, RecentStep, PTL DEF Spec, IInv

(* Every variable keeps its type, and no node ever runs a model whose file *)
(* was not complete. *)
THEOREM NoHalfModel == Spec => []TypeOK
<1>1. IInv => TypeOK
  BY DEF IInv, Types
<1>2. QED  BY <1>1, AgesInvariant, PTL

(* No answer comes from a model that was replaced everywhere TTL and the   *)
(* time of a request ago, or longer. *)
THEOREM AnswersAreRecent == Spec => StaleBounded
<1>1. ASSUME IInv, [Next]_vars
      PROVE  [\A h \in Handlers : pc[h] # "answered" /\ pc'[h] = "answered" /\ got'[h] # None
              => gone[got'[h]] < TTL + Delay]_vars
  <2> SUFFICES ASSUME NEW h \in Handlers,
                      pc[h] # "answered", pc'[h] = "answered", got'[h] # None
               PROVE  gone[got'[h]] < TTL + Delay
    OBVIOUS
  <2> USE <1>1, Numbers DEF IInv, Types, TypeOK
  <2>1. CASE Hit(h)
    <3>1. /\ key[h] \in Keys /\ cache[key[h]] \in Entry
          /\ got'[h] = cache[key[h]].version
          /\ gone[cache[key[h]].version] <= cache[key[h]].age + Delay
      BY <2>1 DEF Hit, Recent
    <3>2. cache[key[h]].age \in 0 .. TTL - 1 /\ cache[key[h]].version \in Version
      BY <3>1 DEF Entry
    <3>3. QED  BY <3>1, <3>2
  <2>2. CASE Fill(h)
    <3>1. got'[h] = got[h] /\ got[h] \in Version /\ gone[got[h]] <= age[h]
      BY <2>2 DEF Fill, Goto, Recent
    <3>2. QED  BY <3>1
  <2>3. CASE AskNode(h)
    BY <2>3 DEF AskNode, Goto, NothingYet
  <2>4. ASSUME NEW g \in Handlers, Ask(g) \/ Handler(g), g # h  PROVE FALSE
    BY <2>4 DEF Ask, Handler, Hit, Miss, AskNode, Fill, Reuse, Goto
  <2>5. ~Ask(h) /\ ~Miss(h) /\ ~Reuse(h) /\ pc' # pc
    BY DEF Ask, Miss, Reuse, Goto
  <2>6. QED
    BY <2>1, <2>2, <2>3, <2>4, <2>5
       DEF Next, Handler, Truncate, Encode, Tick, Crash, Start, Requests, vars
<1>2. QED  BY <1>1, AgesInvariant, PTL DEF Spec, StaleBounded
=============================================================================
