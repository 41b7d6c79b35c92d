------------------------------ MODULE Registry ------------------------------
(***************************************************************************)
(* Registry.NextNode (internal/cluster/roundrobin.go): the API's request   *)
(* handlers share one registry of ML nodes and take turns on its mutex.    *)
(* Under the mutex a caller tries the nodes one by one, from where the     *)
(* last caller stopped, and takes the first one that is not marked         *)
(* inactive.  The statuses never change after NewRegistry.                 *)
(*                                                                         *)
(* picks is history: how often each node was returned.  A definition named *)
(* Bug... is one of the code with a mistake, to show that a property can   *)
(* fail.                                                                   *)
(***************************************************************************)
EXTENDS Integers, FiniteSets

CONSTANTS N,        \* len(r.nodes); nodes are numbered from 0
          Callers,  \* goroutines that handle requests
          MaxNext   \* bound on r.next, an int that only grows

Nobody == [nobody |-> TRUE]

ASSUME RegistryAssumption == N \in Nat /\ MaxNext \in Nat /\ Nobody \notin Callers

Node == 0 .. N - 1

VARIABLES status,  \* the Status of each node
          next,    \* r.next
          holder,  \* who is in NextNode with the mutex, or nobody
          tries,   \* the loop variable i
          answer,  \* what the last call of each caller returned
          picks

vars == <<status, next, holder, tries, answer, picks>>

Failed == -1
None   == -2

Unset == ""   \* the Status of a node that was given none

Active == {n \in Node : status[n] \in {Unset, "active"}}

Init == /\ status \in [Node -> {Unset, "active", "inactive"}]
        /\ next = 0
        /\ holder = Nobody
        /\ tries = 0
        /\ answer = [c \in Callers |-> None]
        /\ picks = [n \in Node |-> 0]

(* r.mu.Lock() *)
Enter(c) == /\ holder = Nobody
            /\ next + N <= MaxNext
            /\ holder' = c
            /\ tries' = 0
            /\ answer' = [answer EXCEPT ![c] = None]
            /\ UNCHANGED <<status, next, picks>>

Idx == next % N

(* r.next moves only when a node is returned. *)
BugSkip(c) == /\ holder = c
              /\ tries < N
              /\ status[Idx] = "inactive"
              /\ tries' = tries + 1
              /\ UNCHANGED <<status, next, holder, answer, picks>>

(* One turn of the loop, on a node that is not active. *)
Skip(c) == /\ holder = c
           /\ tries < N
           /\ status[Idx] = "inactive"
           /\ next' = next + 1
           /\ tries' = tries + 1
           /\ UNCHANGED <<status, holder, answer, picks>>

(* r.next moves only past the inactive nodes. *)
BugTake(c) == /\ holder = c
              /\ tries < N
              /\ Idx \in Active
              /\ answer' = [answer EXCEPT ![c] = Idx]
              /\ picks' = [picks EXCEPT ![Idx] = picks[Idx] + 1]
              /\ holder' = Nobody
              /\ UNCHANGED <<status, next, tries>>

(* One turn of the loop, on an active node: it is returned. *)
Take(c) == /\ holder = c
           /\ tries < N
           /\ Idx \in Active
           /\ next' = next + 1
           /\ answer' = [answer EXCEPT ![c] = Idx]
           /\ picks' = [picks EXCEPT ![Idx] = picks[Idx] + 1]
           /\ holder' = Nobody
           /\ UNCHANGED <<status, tries>>

(* ErrNoActiveNodes, after the loop or because there is no node. *)
GiveUp(c) == /\ holder = c
             /\ tries = N
             /\ answer' = [answer EXCEPT ![c] = Failed]
             /\ holder' = Nobody
             /\ UNCHANGED <<status, next, tries, picks>>

(* No request to serve. *)
Idle == holder = Nobody /\ UNCHANGED vars

Next == \/ \E c \in Callers : Enter(c) \/ Skip(c) \/ Take(c) \/ GiveUp(c)
        \/ Idle

Spec == Init /\ [][Next]_vars

----------------------------------------------------------------------------
(* Properties.                                                             *)

(* "distribucion por round-robin": however the callers interleave and      *)
(* wherever the inactive nodes are, no active node is ever two turns ahead *)
(* of another. *)
Balanced == \A m, n \in Active : picks[m] <= picks[n] + 1

(* No call fails while a node is active, and an inactive node is never     *)
(* returned. *)
ErrorMeansNone ==
  /\ \A c \in Callers : answer[c] = Failed => Active = {}
  /\ \A n \in Node \ Active : picks[n] = 0
=============================================================================
