------------------------------ MODULE Dispatch ------------------------------
(***************************************************************************)
(* DispatchTopRequest (internal/cluster/dispatcher.go) with the TCP client *)
(* (client.go) and the ML nodes that serve it (internal/node): the         *)
(* candidates are dealt out to the active nodes, one goroutine per chunk   *)
(* asks one node over its own connection, and the answers are merged when  *)
(* all goroutines are done.  Nodes crash and restart at any time, a        *)
(* deadline may expire at any time before the answer was read.             *)
(*                                                                         *)
(* A candidate is its position in the request.  All nodes load the same    *)
(* model, so its score is a property of the request; Invalid stands for an *)
(* input that Predict rejects.  A definition named Bug... is one of the    *)
(* code with a mistake, to show that a property can fail.                  *)
(***************************************************************************)
EXTENDS Integers, Sequences, FiniteSets, SequencesExt

CONSTANTS Requests,   \* what the dispatcher may be called with
          Invalid,    \* the score of a candidate that Predict rejects
          MaxCrashes  \* bound on the crashes of a behaviour

(* A request is [registered, nodes, scores, topN]: whether the registry    *)
(* exists, the Status of each of its nodes, the score of each candidate.   *)
Unset == ""  \* the Status of a node that was given none

ASSUME DispatchAssumption ==
  /\ \A r \in Requests : /\ r.registered \in BOOLEAN
                         /\ r.nodes \in Seq({Unset, "active", "inactive"})
                         /\ r.scores \in Seq(Nat \cup {Invalid})
                         /\ r.topN \in Int
  /\ Invalid \in Int \ Nat
  /\ MaxCrashes \in Nat

VARIABLES request,  \* never changed
          pc,       \* where DispatchTopRequest is
          forked,   \* chunks the loop has gone through
          used,     \* the nodes it reports as used
          task,     \* where the goroutine of each chunk is
          partial,  \* what that goroutine is about to put in the channel
          conn,     \* where the node's side of each connection is
          reply,    \* what the node wrote on it
          up,       \* the nodes that run
          crashes,
          out,      \* the channel of partials
          wg,
          all,      \* the results merged so far
          outcome

callVars == <<pc, forked, used>>
netVars  == <<conn, reply, up, crashes>>
joinVars == <<out, wg, all, outcome>>
vars == <<request, pc, forked, used, task, partial, conn, reply, up, crashes,
          out, wg, all, outcome>>

Nodes == DOMAIN request.nodes

(* The numbers of a finite set in increasing order, as a loop that appends *)
(* the ones it selects leaves them. *)
InOrder(S) == [r \in 1 .. Cardinality(S) |->
                 CHOOSE n \in S : Cardinality({m \in S : m < n}) = r - 1]

(* ActiveNodes: the registry's list without the nodes marked otherwise. *)
ActiveNodes == InOrder({n \in Nodes : request.nodes[n] \in {Unset, "active"}})
Parts == Len(ActiveNodes)
Tasks == 1 .. Parts

topN == IF request.topN <= 0 \/ request.topN > Len(request.scores)
        THEN Len(request.scores) ELSE request.topN

(* SplitCandidates deals the candidates out one by one. *)
Dealt(n, parts, i) == InOrder({k \in 1 .. n : (k - 1) % parts = i - 1})

BugSplitCandidates(n, parts) ==
  LET size == (n + parts - 1) \div parts
  IN  [i \in 1 .. parts |-> InOrder({k \in 1 .. n : (k - 1) \div size = i - 1})]

SplitCandidates(n, parts) == [i \in 1 .. parts |-> Dealt(n, parts, i)]

Chunks == SplitCandidates(Len(request.scores), Parts)

(* PredictBatch: results i and j change places if j is the better one. *)
Exchange(s, i, j) ==
  IF s[j].score > s[i].score
  THEN [k \in DOMAIN s |-> CASE k = i -> s[j] [] k = j -> s[i] [] OTHER -> s[k]]
  ELSE s

(* The inner loop, j from i + 1 on. *)
Sweep(s, i) ==
  LET upTo[j \in i .. Len(s)] == IF j = i THEN s ELSE Exchange(upTo[j - 1], i, j)
  IN  upTo[Len(s)]

ExchangeSort(s) ==
  LET swept[i \in 0 .. Len(s)] == IF i = 0 THEN s ELSE Sweep(swept[i - 1], i)
  IN  swept[Len(s)]

Truncate(s, n) == IF n > 0 /\ n < Len(s) THEN SubSeq(s, 1, n) ELSE s

Failure == [ok |-> FALSE, results |-> <<>>]

(* The batch is cut before it is sorted. *)
BugPredictBatch(chunk, node, n) ==
  IF \E k \in Range(chunk) : request.scores[k] = Invalid
  THEN Failure
  ELSE [ok |-> TRUE,
        results |-> ExchangeSort(Truncate([j \in DOMAIN chunk |->
          [of |-> chunk[j], score |-> request.scores[chunk[j]], node |-> node]], n))]

(* One candidate that Predict rejects fails the batch. *)
PredictBatch(chunk, node, n) ==
  IF \E k \in Range(chunk) : request.scores[k] = Invalid
  THEN Failure
  ELSE [ok |-> TRUE,
        results |-> Truncate(ExchangeSort([j \in DOMAIN chunk |->
          [of |-> chunk[j], score |-> request.scores[chunk[j]], node |-> node]]), n)]

Init == /\ request \in Requests
        /\ pc = "call"
        /\ forked = 0
        /\ used = <<>>
        /\ task = [i \in Tasks |-> "none"]
        /\ partial = [i \in Tasks |-> Failure]
        /\ conn = [i \in Tasks |-> "none"]
        /\ reply = [i \in Tasks |-> Failure]
        /\ up \in SUBSET Nodes
        /\ crashes = 0
        /\ out = <<>>
        /\ wg = 0
        /\ all = <<>>
        /\ outcome = "pending"

----------------------------------------------------------------------------
(* DispatchTopRequest.                                                     *)

(* No registry, or no active node in it: an early return. *)
Refuse == /\ pc = "call"
          /\ ~request.registered \/ Parts = 0
          /\ pc' = "return"
          /\ outcome' = "error"
          /\ UNCHANGED <<request, forked, used, task, partial, netVars, out, wg, all>>

Split == /\ pc = "call"
         /\ request.registered /\ Parts > 0
         /\ pc' = "fork"
         /\ UNCHANGED <<request, forked, used, task, partial, netVars, joinVars>>

NodeOf(i) == ActiveNodes[i]

(* One turn of the loop; the goroutines forked before already run. *)
Fork == /\ pc = "fork"
        /\ forked < Parts
        /\ forked' = forked + 1
        /\ IF Chunks[forked + 1] = <<>>
           THEN UNCHANGED <<used, task, wg>>
           ELSE /\ used' = Append(used, NodeOf(forked + 1))
                /\ task' = [task EXCEPT ![forked + 1] = "dial"]
                /\ wg' = wg + 1
        /\ UNCHANGED <<request, pc, partial, netVars, out, all, outcome>>

(* wg.Wait() does not wait. *)
BugWait == /\ pc = "fork"
           /\ forked = Parts
           /\ pc' = "collect"
           /\ UNCHANGED <<request, forked, used, task, partial, netVars, joinVars>>

(* wg.Wait(); close(out) *)
Wait == /\ pc = "fork"
        /\ forked = Parts
        /\ wg = 0
        /\ pc' = "collect"
        /\ UNCHANGED <<request, forked, used, task, partial, netVars, joinVars>>

(* A failed partial is skipped. *)
BugCollect == /\ pc = "collect"
              /\ out # <<>>
              /\ all' = all \o Head(out).results
              /\ out' = Tail(out)
              /\ UNCHANGED <<request, callVars, task, partial, netVars, wg, outcome>>

(* One turn of "for p := range out"; the first error ends the call. *)
Collect == /\ pc = "collect"
           /\ out # <<>>
           /\ IF Head(out).ok
              THEN /\ all' = all \o Head(out).results
                   /\ out' = Tail(out)
                   /\ UNCHANGED <<pc, outcome>>
              ELSE /\ pc' = "return"
                   /\ outcome' = "error"
                   /\ UNCHANGED <<all, out>>
           /\ UNCHANGED <<request, forked, used, task, partial, netVars, wg>>

(* sort.Slice is not stable: any descending arrangement may come out. *)
Descending(s) == \A i, j \in DOMAIN s : i < j => s[i].score >= s[j].score
Arrangements(s) == {t \in {[i \in DOMAIN s |-> s[f[i]]] : f \in Bijection(DOMAIN s, DOMAIN s)} :
                      Descending(t)}

Merge == /\ pc = "collect"
         /\ out = <<>>
         /\ \E sorted \in Arrangements(all) :
              all' = IF topN < Len(all) THEN SubSeq(sorted, 1, topN) ELSE sorted
         /\ pc' = "return"
         /\ outcome' = "ok"
         /\ UNCHANGED <<request, forked, used, task, partial, netVars, out, wg>>

Dispatcher == Refuse \/ Split \/ Fork \/ Wait \/ Collect \/ Merge

----------------------------------------------------------------------------
(* The goroutine of chunk i: SendTCPRequest, then out <- partial.          *)

(* Connected, and the request written: the node's handler takes over. *)
Dial(i) == /\ task[i] = "dial"
           /\ NodeOf(i) \in up
           /\ task' = [task EXCEPT ![i] = "await"]
           /\ conn' = [conn EXCEPT ![i] = "serving"]
           /\ UNCHANGED <<request, callVars, partial, reply, up, crashes, joinVars>>

(* Connection refused, or broken before the answer was read. *)
Unreachable(i) == \/ task[i] = "dial" /\ NodeOf(i) \notin up
                  \/ task[i] = "await" /\ conn[i] = "broken"

(* Nothing was set to expire while the answer is awaited. *)
BugTimedOut(i) == task[i] = "dial"

(* DialTimeout, or the connection's deadline. *)
TimedOut(i) == task[i] \in {"dial", "await"}

SendFails(i) == /\ Unreachable(i) \/ TimedOut(i)
                /\ task' = [task EXCEPT ![i] = "push"]
                /\ partial' = [partial EXCEPT ![i] = Failure]
                /\ UNCHANGED <<request, callVars, netVars, joinVars>>

(* A response is decoded; Status "error" makes an error of it. *)
ReadReply(i) == /\ task[i] = "await"
                /\ conn[i] = "replied"
                /\ task' = [task EXCEPT ![i] = "push"]
                /\ partial' = [partial EXCEPT ![i] = reply[i]]
                /\ UNCHANGED <<request, callVars, netVars, joinVars>>

(* make(chan partial, len(chunks)) *)
OutCap == Parts

Push(i) == /\ task[i] = "push"
           /\ Len(out) < OutCap
           /\ out' = Append(out, partial[i])
           /\ task' = [task EXCEPT ![i] = "pushed"]
           /\ UNCHANGED <<request, callVars, partial, netVars, wg, all, outcome>>

WgDone(i) == /\ task[i] = "pushed"
             /\ task' = [task EXCEPT ![i] = "exited"]
             /\ wg' = wg - 1
             /\ UNCHANGED <<request, callVars, partial, netVars, out, all, outcome>>

Sender(i) == Dial(i) \/ SendFails(i) \/ ReadReply(i) \/ Push(i) \/ WgDone(i)

----------------------------------------------------------------------------
(* The nodes.                                                              *)

(* handleConnection: decode, PredictBatch, write.  If the client has gone  *)
(* the answer is written to nobody. *)
HandleConnection(i) ==
  /\ conn[i] = "serving"
  /\ reply' = [reply EXCEPT ![i] = PredictBatch(Chunks[i], NodeOf(i), topN)]
  /\ conn' = [conn EXCEPT ![i] = "replied"]
  /\ UNCHANGED <<request, callVars, task, partial, up, crashes, joinVars>>

(* What the node was serving is lost; the registry does not learn of it. *)
Crash(n) == /\ n \in up
            /\ crashes < MaxCrashes
            /\ crashes' = crashes + 1
            /\ up' = up \ {n}
            /\ conn' = [i \in Tasks |-> IF NodeOf(i) = n /\ conn[i] = "serving"
                                        THEN "broken" ELSE conn[i]]
            /\ UNCHANGED <<request, callVars, task, partial, reply, joinVars>>

(* LoadPredictor succeeds and the node listens again. *)
Restart(n) == /\ n \notin up
              /\ up' = up \cup {n}
              /\ UNCHANGED <<request, callVars, task, partial, conn, reply,
                             crashes, joinVars>>

Node(n) == Crash(n) \/ Restart(n)

Terminated == pc = "return" /\ UNCHANGED vars

Next == \/ Dispatcher
        \/ \E i \in Tasks : Sender(i) \/ HandleConnection(i)
        \/ \E n \in Nodes : Node(n)
        \/ Terminated

Spec == Init /\ [][Next]_vars

MaxParts == Max({Len(r.nodes) : r \in Requests})

(* The coordinator's goroutines run when they can, and deadlines expire.   *)
(* Nothing is assumed of the nodes: a node may hang for ever. *)
FairSpec == Spec /\ WF_vars(Dispatcher)
                 /\ \A i \in 1 .. MaxParts : WF_vars(i \in Tasks /\ Sender(i))

----------------------------------------------------------------------------
(* Properties.                                                             *)

(* "divide ... en chunks lo mas balanceados posible", "cada nodo calcula   *)
(* scores de una parte distinta del lote": every candidate is in one chunk *)
(* and no node gets two more than another. *)
PartsAreFair ==
  Parts > 0 =>
    /\ \A k \in DOMAIN request.scores :
         Cardinality({p \in Tasks \X DOMAIN request.scores :
                        p[2] \in DOMAIN Chunks[p[1]] /\ Chunks[p[1]][p[2]] = k}) = 1
    /\ \A i, j \in Tasks : Len(Chunks[i]) <= Len(Chunks[j]) + 1

(* An answer is given only if every chunk was scored: a node that crashed, *)
(* hung or rejected a candidate turns the call into an error, never into   *)
(* the best of the rest; and the nodes reported as used are those that     *)
(* took part, each once. *)
AllOrNothing ==
  outcome = "ok" =>
    LET busy == {i \in Tasks : Chunks[i] # <<>>} IN
    /\ \A i \in busy : partial[i].ok /\ conn[i] = "replied"
    /\ IsInjective(used) /\ Range(used) = {NodeOf(i) : i \in busy}

(* The channel is read after wg.Wait only: no sender may block on it, and  *)
(* none may be left when it is closed. *)
SendersNeverBlock ==
  /\ \A i \in Tasks : task[i] = "push" => Len(out) < OutCap
  /\ pc \in {"collect", "return"} => \A i \in Tasks : task[i] \in {"none", "exited"}

(* The dispatcher answers, whatever the nodes do: it never waits for a     *)
(* dead or hung node longer than the deadline. *)
Termination == <>(pc = "return")

(* "la API consolida ... y devuelve el top N global". *)
Global == INSTANCE TopN WITH
  status <- IF outcome = "pending" THEN "asked" ELSE outcome,
  answer <- IF outcome = "ok" THEN all ELSE <<>>

(* The merged partial tops are the top of all candidates. *)
ImplementsTopN == Global!Spec
=============================================================================
