------------------------------ MODULE MCAnswers ------------------------------
(***************************************************************************)
(* Answers to those who ask for decisions: the remote controller of one    *)
(* seat of a game, and the inference of a training run.  They share        *)
(* nothing but that duty, so a behaviour here is one of either while the   *)
(* other is at rest.                                                       *)
(***************************************************************************)
EXTENDS RemoteAI, Inference

AnswersInit == Init /\ InferenceInit
AnswersNext ==
  \/ InferenceInit /\ Next /\ UNCHANGED inferenceVars
  \/ Init /\ InferenceNext /\ UNCHANGED vars
\* Nothing of an inference that is at rest is due.
AnswersSpec ==
  AnswersInit /\ [][AnswersNext]_<<vars, inferenceVars>> /\ Fairness
=============================================================================
