--------------------------- MODULE RegistryProofs ---------------------------
(* Theorems about the round robin, for any number of nodes and callers.   *)
EXTENDS Registry, TLAPS

Types ==
  /\ status \in [Node -> {Unset, "active", "inactive"}]
  /\ next \in Nat
  /\ holder \in Callers \cup {Nobody}
  /\ tries \in 0 .. N
  /\ answer \in [Callers -> Node \cup {Failed, None}]
  /\ picks \in [Node -> Nat]

(* The nodes before the index have had one turn more than the others. *)
InTurn ==
  \E round \in 0 .. next : \A n \in Node :
     picks[n] = IF n \notin Active THEN 0 ELSE IF n < Idx THEN round + 1 ELSE round

(* How many turns of the loop come before the one on n. *)
Ahead(n) == IF n >= Idx THEN n - Idx ELSE n - Idx + N

(* The caller in the loop reaches every active node before it gives up. *)
StillToCome == holder # Nobody => \A n \in Active : tries + Ahead(n) < N

NoFalseError == \A c \in Callers : answer[c] = Failed => Active = {}

IInv == Types /\ (N > 0 => InTurn) /\ StillToCome /\ NoFalseError

(* A number with quotient q and remainder r. *)
LEMMA Remainder ==
  ASSUME NEW M \in Nat \ {0}, NEW k \in Nat,
         NEW q \in Nat, NEW r \in 0 .. M - 1, k = M * q + r
  PROVE  k % M = r
OBVIOUS

(* The index goes to the next node, and from the last one to the first. *)
LEMMA IndexStep ==
  ASSUME NEW M \in Nat \ {0}, NEW k \in Nat
  PROVE  /\ k % M \in 0 .. M - 1
         /\ (k + 1) % M = IF k % M = M - 1 THEN 0 ELSE (k % M) + 1
<1> DEFINE q == k \div M
           r == k % M
<1>1. q \in Nat /\ r \in 0 .. M - 1 /\ k = M * q + r
  OBVIOUS
<1>2. CASE r = M - 1
  <2>1. k + 1 = M * (q + 1) + 0 /\ q + 1 \in Nat /\ k + 1 \in Nat /\ 0 \in 0 .. M - 1
    BY <1>1, <1>2
  <2>2. (k + 1) % M = 0
    BY <2>1, Remainder
  <2>3. QED  BY <1>1, <1>2, <2>2
<1>3. CASE r # M - 1
  <2>1. k + 1 = M * q + (r + 1) /\ k + 1 \in Nat /\ r + 1 \in 0 .. M - 1
    BY <1>1, <1>3
  <2>2. (k + 1) % M = r + 1
    BY <1>1, <2>1, Remainder
  <2>3. QED  BY <1>1, <1>3, <2>2
<1>4. QED  BY <1>2, <1>3

----------------------------------------------------------------------------
(* A node without a status is active, as in NextNode. *)
LEMMA UnsetIsNotInactive == Unset # "inactive"
  BY Zenon DEF Unset

(* The statuses never change, so the active nodes are the same for ever.   *)
LEMMA ActiveNodes ==
  /\ Active \subseteq Node
  /\ [Next]_vars => Active' = Active /\ status' = status
<1>1. [Next]_vars => status' = status
  BY DEF Next, Enter, Skip, Take, GiveUp, Idle, vars
<1>2. QED  BY <1>1 DEF Active, Node

(* A turn of the loop moves the index on by one. *)
LEMMA TurnOfTheLoop ==
  ASSUME Types, NEW c \in Callers, Skip(c) \/ Take(c)
  PROVE  /\ N \in Nat \ {0} /\ Idx \in Node
         /\ Idx' = IF Idx = N - 1 THEN 0 ELSE Idx + 1
         /\ next' = next + 1
<1>1. N \in Nat \ {0} /\ next \in Nat /\ next' = next + 1
  BY RegistryAssumption DEF Types, Skip, Take
<1>2. QED  BY <1>1, IndexStep DEF Idx, Node

(* The types. *)
LEMMA TypesHold == (Init => Types) /\ (Types /\ [Next]_vars => Types')
<1> USE RegistryAssumption
<1>1. Init => Types
  BY DEF Init, Types, Node
<1>2. ASSUME Types, [Next]_vars  PROVE Types'
  <2>1. ASSUME NEW c \in Callers, Enter(c)  PROVE Types'
    BY <1>2, <2>1 DEF Types, Enter
  <2>2. ASSUME NEW c \in Callers, Skip(c)  PROVE Types'
    BY <1>2, <2>2 DEF Types, Skip
  <2>3. ASSUME NEW c \in Callers, Take(c)  PROVE Types'
    <3>1. Idx \in Node
      BY <1>2, <2>3, TurnOfTheLoop
    <3>2. QED  BY <1>2, <2>3, <3>1 DEF Types, Take
  <2>4. ASSUME NEW c \in Callers, GiveUp(c)  PROVE Types'
    BY <1>2, <2>4 DEF Types, GiveUp
  <2>5. CASE UNCHANGED vars
    BY <1>2, <2>5 DEF Types, vars
  <2>6. QED  BY <1>2, <2>1, <2>2, <2>3, <2>4, <2>5 DEF Next, Idle
<1>3. QED  BY <1>1, <1>2

----------------------------------------------------------------------------
(* The turns.                                                              *)

(* Passing an inactive node leaves every count what it was; returning a    *)
(* node gives it the turn that the index has just gone past. *)
LEMMA InTurnStep ==
  ASSUME Types, N > 0, InTurn, [Next]_vars  PROVE InTurn'
<1> USE RegistryAssumption
<1>1. Active' = Active /\ Active \subseteq Node /\ next \in Nat
  BY ActiveNodes DEF Types
<1>2. PICK round \in 0 .. next : \A n \in Node :
        picks[n] = IF n \notin Active THEN 0
                   ELSE IF n < Idx THEN round + 1 ELSE round
  BY DEF InTurn
<1>3. ASSUME NEW c \in Callers, Skip(c) \/ Take(c)  PROVE InTurn'
  <2>1. /\ N \in Nat \ {0} /\ Idx \in Node /\ next' = next + 1
        /\ Idx' = IF Idx = N - 1 THEN 0 ELSE Idx + 1
    BY <1>3, TurnOfTheLoop
  <2>2. \A n \in Node : picks'[n] = IF n = Idx /\ n \in Active THEN picks[n] + 1
                                                               ELSE picks[n]
    <3>1. CASE Skip(c)
      BY <1>3, <3>1, UnsetIsNotInactive DEF Skip, Active, Node
    <3>2. CASE Take(c)
      BY <1>3, <3>2, <2>1 DEF Take, Types
    <3>3. QED  BY <1>3, <3>1, <3>2
  <2>3. CASE Idx = N - 1
    <3>1. round + 1 \in 0 .. next'
      BY <1>1, <2>1
    <3>2. \A n \in Node : picks'[n] = IF n \notin Active' THEN 0
                       ELSE IF n < Idx' THEN (round + 1) + 1 ELSE round + 1
      BY <1>1, <1>2, <2>1, <2>2, <2>3 DEF Node
    <3>3. QED  BY <3>1, <3>2 DEF InTurn
  <2>4. CASE Idx # N - 1
    <3>1. round \in 0 .. next'
      BY <1>1, <2>1
    <3>2. \A n \in Node : picks'[n] = IF n \notin Active' THEN 0
                       ELSE IF n < Idx' THEN round + 1 ELSE round
      BY <1>1, <1>2, <2>1, <2>2, <2>4 DEF Node
    <3>3. QED  BY <3>1, <3>2 DEF InTurn
  <2>5. QED  BY <2>3, <2>4
<1>4. CASE UNCHANGED <<next, picks>>
  BY <1>1, <1>2, <1>4 DEF InTurn, Idx
<1>5. QED  BY <1>3, <1>4 DEF Next, Enter, GiveUp, Idle, vars

(* Each turn of the loop brings the others one nearer; the node the index  *)
(* goes past was inactive, or ends the call. *)
LEMMA StillToComeStep ==
  ASSUME Types, StillToCome, [Next]_vars  PROVE StillToCome'
<1> USE RegistryAssumption
<1>1. Active' = Active /\ Active \subseteq Node /\ next \in Nat
  BY ActiveNodes DEF Types
<1>2. ASSUME NEW c \in Callers, Enter(c)  PROVE StillToCome'
  <2>1. SUFFICES ASSUME NEW n \in Active  PROVE (tries + Ahead(n))' < N
    BY <1>1 DEF StillToCome
  <2>2. n \in Node /\ N \in Nat \ {0} /\ Idx \in Node /\ Idx' = Idx /\ tries' = 0
    BY <1>1, <1>2, IndexStep DEF Enter, Idx, Node
  <2>3. QED  BY <2>2 DEF Ahead, Node
<1>3. ASSUME NEW c \in Callers, Skip(c)  PROVE StillToCome'
  <2>1. SUFFICES ASSUME NEW n \in Active  PROVE (tries + Ahead(n))' < N
    BY <1>1 DEF StillToCome
  <2>2. /\ N \in Nat \ {0} /\ Idx \in Node /\ n \in Node /\ tries \in Nat
        /\ Idx' = IF Idx = N - 1 THEN 0 ELSE Idx + 1
        /\ tries' = tries + 1 /\ n # Idx /\ tries + Ahead(n) < N
    BY <1>1, <1>3, TurnOfTheLoop, UnsetIsNotInactive DEF Skip, Active, StillToCome, Types
  <2>3. QED  BY <2>2 DEF Ahead, Node
<1>4. ASSUME NEW c \in Callers, Take(c) \/ GiveUp(c)  PROVE StillToCome'
  BY <1>4 DEF Take, GiveUp, StillToCome
<1>5. CASE UNCHANGED vars
  BY <1>1, <1>5 DEF vars, StillToCome, Ahead, Idx
<1>6. QED  BY <1>2, <1>3, <1>4, <1>5 DEF Next, Idle

(* A caller that has made N turns has met no active node. *)
LEMMA NoFalseErrorStep ==
  ASSUME Types, StillToCome, NoFalseError, [Next]_vars  PROVE NoFalseError'
<1> USE RegistryAssumption
<1>1. Active' = Active /\ Active \subseteq Node /\ next \in Nat
  BY ActiveNodes DEF Types
<1>2. ASSUME NEW c \in Callers, Enter(c)  PROVE NoFalseError'
  BY <1>1, <1>2 DEF Types, Enter, NoFalseError, Failed, None
<1>3. ASSUME NEW c \in Callers, Take(c)  PROVE NoFalseError'
  <2>1. Idx # Failed
    BY <1>3, TurnOfTheLoop DEF Node, Failed
  <2>2. QED  BY <1>1, <1>3, <2>1 DEF Types, Take, NoFalseError
<1>4. ASSUME NEW c \in Callers, GiveUp(c)  PROVE NoFalseError'
  <2>1. ASSUME NEW n \in Active  PROVE FALSE
    <3>1. n \in Node /\ N \in Nat \ {0} /\ Idx \in Node
      BY <1>1, IndexStep DEF Idx, Node
    <3>2. tries = N /\ tries + Ahead(n) < N
      BY <1>4 DEF GiveUp, StillToCome
    <3>3. QED  BY <3>1, <3>2 DEF Ahead, Node
  <2>2. QED  BY <1>1, <2>1 DEF NoFalseError
<1>5. CASE UNCHANGED answer
  BY <1>1, <1>5 DEF NoFalseError
<1>6. QED  BY <1>2, <1>3, <1>4, <1>5 DEF Next, Skip, Idle, vars

(* The inductive invariant. *)
LEMMA TurnsInvariant == Spec => []IInv
<1>1. Init => IInv
  <2> SUFFICES ASSUME Init  PROVE IInv
    OBVIOUS
  <2>1. N > 0 => InTurn
    <3> SUFFICES ASSUME N > 0  PROVE InTurn
      OBVIOUS
    <3>1. Idx = 0 /\ next = 0
      BY RegistryAssumption, Remainder DEF Init, Idx
    <3>2. QED  BY <3>1 DEF Init, InTurn, Node
  <2>2. QED  BY <2>1, TypesHold DEF Init, IInv, StillToCome, NoFalseError, Failed, None
<1>2. IInv /\ [Next]_vars => IInv'
  BY TypesHold, InTurnStep, StillToComeStep, NoFalseErrorStep DEF IInv
<1>3. QED  BY <1>1, <1>2, PTL DEF Spec

(* No active node is ever two turns ahead of another: the order of the     *)
(* callers does not matter, and neither does where the inactive nodes are. *)
THEOREM RoundRobinIsBalanced == Spec => []Balanced
<1>1. IInv => Balanced
  <2> SUFFICES ASSUME IInv, NEW m \in Active, NEW n \in Active
               PROVE  picks[m] <= picks[n] + 1
    BY DEF Balanced
  <2>1. m \in Node /\ n \in Node /\ N > 0
    BY RegistryAssumption, ActiveNodes DEF Node
  <2>2. PICK round \in 0 .. next : \A k \in Node :
          picks[k] = IF k \notin Active THEN 0
                     ELSE IF k < Idx THEN round + 1 ELSE round
    BY <2>1 DEF IInv, InTurn
  <2>3. QED  BY <2>1, <2>2 DEF IInv, Types
<1>2. QED  BY <1>1, TurnsInvariant, PTL

(* ErrNoActiveNodes is returned only when no node is active, and a node    *)
(* marked inactive is never returned. *)
THEOREM ErrorsAreTrue == Spec => []ErrorMeansNone
<1>1. IInv => ErrorMeansNone
  <2> SUFFICES ASSUME IInv, NEW n \in Node \ Active  PROVE picks[n] = 0
    BY DEF IInv, NoFalseError, ErrorMeansNone
  <2>1. N > 0
    BY RegistryAssumption DEF Node
  <2>2. QED  BY <2>1 DEF IInv, InTurn
<1>2. QED  BY <1>1, TurnsInvariant, PTL
=============================================================================
