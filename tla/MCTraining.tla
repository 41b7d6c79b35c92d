----------------------------- MODULE MCTraining -----------------------------
(* Small instances of Training for TLC. *)
EXTENDS Training

Train(n, workers, epochs) == [n |-> n, workers |-> workers, epochs |-> epochs]

(* Samples that divide evenly among the workers, that do not, that leave a *)
(* worker without a chunk (4 samples, 3 workers: 2 + 2), fewer samples     *)
(* than workers, none at all; one worker; the defaults; enough epochs for  *)
(* the reports of every fifth one. *)
MCCalls == {Train(4, 2, 2), Train(5, 3, 2), Train(4, 3, 2), Train(2, 3, 1), Train(7, 4, 1),
            Train(0, 3, 2), Train(0, 1, 2), Train(3, 1, 7), Train(3, 0, 6), Train(2, 1, 0)}
=============================================================================
