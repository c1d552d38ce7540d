------------------------------ MODULE MCTraining ------------------------------
(* Two workers, served by themselves or by one model rank. *)
EXTENDS TrainingCoordinator
CONSTANTS w1, w2, r1
TwoWorkers == {w1, w2}
OneRank == {r1}
ToOneRank == [w \in TwoWorkers |-> r1]
=============================================================================
