-------------------------------- MODULE TopN --------------------------------
(***************************************************************************)
(* What DispatchTopRequest promises: one call, one answer.  The answer is  *)
(* an error, or the topN best of ALL the candidates, best first; it never  *)
(* is the best of those candidates that happened to be scored.             *)
(***************************************************************************)
EXTENDS Integers, Sequences, Functions

CONSTANT Invalid  \* the score of a candidate no node accepts

VARIABLES request,  \* .scores: the score of each candidate, .topN
          status,   \* "asked", then "ok" or "error"
          answer    \* the results of an "ok": [of |-> candidate, score |-> score]

Candidates == DOMAIN request.scores

Limit == IF request.topN <= 0 \/ request.topN > Len(request.scores)
         THEN Len(request.scores) ELSE request.topN

IsTop(results) ==
  LET chosen == {r.of : r \in Range(results)}
  IN  /\ Len(results) = Limit
      /\ chosen \subseteq Candidates
      /\ IsInjective([i \in DOMAIN results |-> results[i].of])
      /\ \A i \in DOMAIN results : results[i].score = request.scores[results[i].of]
      /\ \A i, j \in DOMAIN results : i < j => results[i].score >= results[j].score
      /\ \A k \in Candidates \ chosen : \A r \in Range(results) : r.score >= request.scores[k]

Init == status = "asked" /\ answer = <<>>

Answer == /\ status = "asked"
          /\ \A k \in Candidates : request.scores[k] # Invalid
          /\ status' = "ok"
          /\ IsTop(answer')
          /\ UNCHANGED request

Fail == /\ status = "asked"
        /\ status' = "error"
        /\ UNCHANGED <<request, answer>>

Next == Answer \/ Fail

Spec == Init /\ [][Next]_<<request, status, answer>>
=============================================================================
