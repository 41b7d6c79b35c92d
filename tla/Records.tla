------------------------------ MODULE Records ------------------------------
(***************************************************************************)
(* The calls of History byte by byte (internal/storage/mongo.go): a record *)
(* becomes a document and an OP_MSG, and is stored and read back, over     *)
(* connections that may break anywhere.                                    *)
(*                                                                         *)
(* A record has a field of each type that PredictionRecord has; texts are  *)
(* sequences of bytes, and a save is known by the request_id of its        *)
(* record.  MongoDB is external: it reads and writes the same format,      *)
(* wants the command's name first, adds an _id and sorts by created_at.  A *)
(* definition named Bug... is one of the code with a mistake, to show that *)
(* a property can fail.                                                    *)
(***************************************************************************)
EXTENDS Bson

CONSTANTS Saves, Finds, Limits, MaxLimit, DefaultLimit, FirstBatch, \* see History
          Inputs,     \* sets of records to save: functions of Saves
          Zero, Now,  \* the time that IsZero, and time.Now
          MaxMessage  \* 16 MiB

ASSUME RecordsAssumption ==
  /\ DefaultLimit \in 1..MaxLimit /\ MaxLimit < FirstBatch /\ Limits \subseteq Int
  /\ \A saved \in Inputs, c \in Saves : saved[c].request_id = c

VARIABLES saved,   \* the record of each save
          pc,      \* of each call
          request, \* of each call: the message that MongoDB has got and not
          reply,   \* dealt with, and the one that it has sent: as values
          stored,  \* documents in MongoDB
          limit,   \* of each find
          found,   \* of each find: what FindPredictions returned
          before   \* history variable: who was stored when a find was sent

vars == <<saved, pc, request, reply, stored, limit, found, before>>

Calls == Saves \cup Finds

Value(t, v) == [t |-> t, v |-> v]
Field(k, v) == [key |-> k, value |-> v]

(* predictionRecordToBSON *)
RecordToBSON(r) ==
  [request_id |-> Value("string", r.request_id),
   created_at |-> Value("date", IF r.created_at = Zero THEN Now ELSE r.created_at),
   cached     |-> Value("bool", r.cached),
   latency_ms |-> Value("int64", r.latency_ms),
   input  |-> Value("doc", [district   |-> Value("int", r.input.district),
                            week_start |-> Value("string", r.input.week_start)]),
   result |-> Value("doc", [district   |-> Value("int", r.result.district),
                            risk_score |-> Value("double", r.result.risk_score)])]

(* A number of any width, or zero. *)
AsInt(doc, k) == IF k \in DOMAIN doc /\ doc[k].t \in {"int", "int64", "double"}
                 THEN doc[k].v ELSE 0

(* bsonToPredictionRecord; the fields are those that it wrote. *)
BSONToRecord(d) ==
  [request_id |-> d.request_id.v,
   created_at |-> d.created_at.v, cached |-> d.cached.v,
   latency_ms |-> AsInt(d, "latency_ms"),
   input  |-> [district |-> AsInt(d.input.v, "district"),
               week_start |-> d.input.v.week_start.v, features |-> <<>>],
   result |-> [district |-> AsInt(d.result.v, "district"),
               risk_score |-> AsInt(d.result.v, "risk_score")]]

OpMsg == 13  \* 2013

(* Header (length, request, response, opcode), flags, kind 0, body. *)
BuildOPMsg(body) ==
  Bytes(5 * Width + 1 + Len(body), Width) \o Bytes(1, Width) \o Bytes(0, Width)
    \o Bytes(OpMsg, Width) \o Bytes(0, Width) \o <<0>> \o body

ReadOPMsg(b) ==
  LET length == Signed(SubSeq(b, 1, Width))
      opcode == Signed(SubSeq(b, 3 * Width + 1, 4 * Width))
  IN IF \/ Len(b) < 4 * Width
        \/ length \notin 5 * Width + 1 .. Min({Len(b), MaxMessage})
        \/ opcode # OpMsg \/ b[5 * Width + 1] # 0
     THEN Err ELSE Decode(SubSeq(b, 5 * Width + 2, length))

Nothing == Value("none", <<>>)

(* The bytes of a message. *)
Message(value) == BuildOPMsg(Encode(value))

InsertCommand(r) ==
  Value("ordered", <<Field("insert", Value("string", <<1>>)),
                     Field("documents", Value("array", <<Value("doc", RecordToBSON(r))>>))>>)

(* A limit above the largest one is sent as it is. *)
BugEffective(n) == IF n <= 0 THEN DefaultLimit ELSE n

Effective(n) == IF n <= 0 \/ n > MaxLimit THEN DefaultLimit ELSE n

FindCommand(c) ==
  Value("ordered", <<Field("find", Value("string", <<1>>)),
                     Field("sort", Value("ordered", <<Field("created_at", Value("int", -1))>>)),
                     Field("limit", Value("int", Effective(limit[c])))>>)

Init == /\ saved \in Inputs /\ limit \in [Finds -> Limits]
        /\ pc = [c \in Calls |-> "idle"]
        /\ request = [c \in Calls |-> Nothing] /\ reply = [c \in Calls |-> Nothing]
        /\ stored = <<>>
        /\ found = [c \in Finds |-> <<>>] /\ before = [c \in Finds |-> {}]

----------------------------------------------------------------------------
(* The calls.                                                              *)

Ids(docs) == [i \in DOMAIN docs |-> docs[i].request_id.v]

(* runCommand, up to the answer. *)
Send(c, command) == /\ pc[c] = "idle" /\ pc' = [pc EXCEPT ![c] = "waiting"]
                    /\ request' = [request EXCEPT ![c] = command]
                    /\ UNCHANGED <<saved, reply, stored, limit, found>>

Save(c) == Send(c, InsertCommand(saved[c])) /\ UNCHANGED before

Find(c) == /\ Send(c, FindCommand(c))
           /\ before' = [before EXCEPT ![c] = Range(Ids(stored))]

(* The connection is not read to its end. *)
BugHangUp(c) == UNCHANGED <<saved, request, reply, stored, limit, before>>

(* The call is over, and its connection closed; what MongoDB has of an     *)
(* insert it may still carry out. *)
HangUp(c) == /\ request' = [request EXCEPT ![c] = IF c \in Saves THEN @ ELSE Nothing]
             /\ reply' = [reply EXCEPT ![c] = Nothing]
             /\ UNCHANGED <<saved, stored, limit, before>>

(* runCommand fails: no connection, a lost one, or the deadline. *)
TimesOut(c) == /\ pc[c] = "waiting" /\ pc' = [pc EXCEPT ![c] = "failed"]
               /\ HangUp(c) /\ UNCHANGED found

(* What readOPMsg makes of a reply, which may end after any byte. *)
Arrived(c) ==
  LET message == Message(reply[c])
  IN IF reply[c].t = "none" THEN {}
     ELSE {ReadOPMsg(SubSeq(message, 1, n)) : n \in 0..Len(message)}

EndSave(c) ==
  /\ pc[c] = "waiting"
  /\ \E answer \in Arrived(c) :
       pc' = [pc EXCEPT ![c] = IF answer # Err /\ AsInt(answer, "ok") = 1
                               THEN "saved" ELSE "failed"]
  /\ HangUp(c) /\ UNCHANGED found

(* The cursor is looked for, and not ok. *)
EndFind(c) ==
  /\ pc[c] = "waiting"
  /\ \E answer \in Arrived(c) :
       IF answer = Err THEN pc' = [pc EXCEPT ![c] = "failed"] /\ UNCHANGED found
       ELSE LET batch == IF "cursor" \in DOMAIN answer THEN answer.cursor.v.firstBatch.v
                         ELSE <<>>
            IN /\ found' = [found EXCEPT ![c] = [i \in DOMAIN batch |->
                                                   BSONToRecord(batch[i].v)]]
               /\ pc' = [pc EXCEPT ![c] = "found"]
  /\ HangUp(c)

----------------------------------------------------------------------------
(* MongoDB.                                                                *)

(* The name of a command is its first key. *)
Understands(c, name) ==
  LET message == Message(request[c])
  IN /\ request[c].t # "none" /\ ReadOPMsg(message) # Err
     /\ Names[message[6 * Width + 3]] = name

Command(c) == ReadOPMsg(Message(request[c]))

Answer(c, doc) ==
  /\ request' = [request EXCEPT ![c] = Nothing]
  /\ reply' = [reply EXCEPT ![c] = IF pc[c] = "waiting" THEN Value("doc", doc) ELSE Nothing]
  /\ UNCHANGED <<saved, pc, limit, found, before>>

Ok(n) == "ok" :> Value("double", n)

Insert(c) ==
  /\ Understands(c, "insert")
  /\ Answer(c, Ok(1))
  /\ LET docs == Command(c).documents.v
     IN stored' = stored \o [i \in DOMAIN docs |-> docs[i].v]

Sorted(docs, way) ==
  \A i, j \in DOMAIN docs : i < j => way * docs[i].created_at.v <= way * docs[j].created_at.v

Query(c) ==
  /\ Understands(c, "find") /\ pc[c] = "waiting"
  /\ LET command == Command(c)
         Document(d) == Value("doc", ("_id" :> Value("oid", [i \in 1..OidWidth |-> i])) @@ d)
     IN \E p \in Permutations(DOMAIN stored) :
          LET docs == [i \in DOMAIN stored |-> stored[p[i]]]
              batch == [i \in 1..Min({Len(docs), command.limit.v, FirstBatch}) |->
                          Document(docs[i])]
          IN /\ Sorted(docs, command.sort.v.created_at.v)
             /\ Answer(c, Ok(1) @@ ("cursor" :> Value("doc",
                            "firstBatch" :> Value("array", batch))))
  /\ UNCHANGED stored

(* Nothing is done; the error of a write leaves ok at 1. *)
Refuse(c) ==
  /\ request[c].t # "none" /\ pc[c] = "waiting"
  /\ \/ Answer(c, Ok(0))
     \/ c \in Saves /\ Answer(c, Ok(1) @@ ("writeErrors" :> Value("bool", TRUE)))
  /\ UNCHANGED stored

Done == /\ \A c \in Calls : pc[c] \notin {"idle", "waiting"}
        /\ UNCHANGED vars

Next == \/ \E c \in Saves : Save(c) \/ Insert(c) \/ EndSave(c)
        \/ \E c \in Finds : Find(c) \/ Query(c) \/ EndFind(c)
        \/ \E c \in Calls : Refuse(c) \/ TimesOut(c)
        \/ Done

Spec == Init /\ [][Next]_vars

----------------------------------------------------------------------------
(* Properties.                                                             *)

(* What a document is a step of History: bytes are read, and a record is   *)
(* its request_id and its milliseconds. *)
Meaning(answer) ==
  LET ok == [ok |-> AsInt(answer, "ok")] IN
  IF "cursor" \in DOMAIN answer
  THEN LET batch == answer.cursor.v.firstBatch.v
       IN ok @@ [cursor |-> Ids([i \in DOMAIN batch |-> batch[i].v])]
  ELSE IF "writeErrors" \in DOMAIN answer THEN ok @@ [writeErrors |-> TRUE] ELSE ok

Created(c) == (IF saved[c].created_at = Zero THEN Now ELSE saved[c].created_at) \div Milli

H == INSTANCE History WITH
       Times  <- {0} \cup {((IF t = Zero THEN Now ELSE t) \div Milli) :
                            t \in {in[c].created_at : in \in Inputs, c \in Saves}},
       stored <- Ids(stored),
       wire   <- [c \in Calls |-> IF request[c].t # "none" THEN {[command |-> TRUE]}
                                  ELSE IF reply[c].t = "none" THEN {}
                                  ELSE {Meaning(reply[c].v)}],
       at     <- [c \in Saves |-> IF pc[c] = "idle" THEN 0 ELSE Created(c)],
       result <- [c \in Finds |-> [i \in DOMAIN found[c] |-> found[c][i].request_id]]

(* Over the bytes the calls do what History says, and nothing else: in     *)
(* particular a reply that ends early is an error, never a shorter answer. *)
ImplementsHistory == H!Spec

(* The newest records, each one once, and no more than were asked for; see *)
(* History. *)
RecentHistory == H!RecentHistory

Wrapped(n) == LET half == Base^Width \div 2 IN ((n + half) % (2 * half)) - half

(* What is kept of a record: int keeps 32 bits and its sign, a time its    *)
(* milliseconds, an input no features. *)
Kept(r) ==
  [r EXCEPT !.created_at = ((IF @ = Zero THEN Now ELSE @) \div Milli) * Milli,
            !.input.district = Wrapped(@), !.input.features = <<>>,
            !.result.district = Wrapped(@)]

(* MongoDB can read every command, whose name comes first whatever its     *)
(* other keys are; and each record that a history returns is what is kept  *)
(* of the one that was saved, whatever its fields are. *)
RoundTrip ==
  /\ \A c \in Calls :
       request[c].t # "none" => Understands(c, IF c \in Saves THEN "insert" ELSE "find")
  /\ \A c \in Finds : \A i \in DOMAIN found[c] :
       LET r == found[c][i] IN r.request_id \in Saves /\ r = Kept(saved[r.request_id])
=============================================================================
