--------------------------- MODULE CheckpointRegister ---------------------------
(***************************************************************************)
(* What a run directory promises whoever trains in it: one register, the   *)
(* latest checkpoint, that always holds a state some training reached, and *)
(* an archive of earlier ones.  Only a training changes them, to its own   *)
(* state, and one that starts does so from a state they hold.              *)
(*                                                                         *)
(* A training state is the sequence of the updates it went through.        *)
(***************************************************************************)
EXTENDS Naturals, Sequences, SequencesExt

VARIABLES
  up,       \* a training runs
  line,     \* its state
  latest,   \* what loading the latest checkpoint gives
  archive   \* the states of the archived checkpoints that load

registerVars == <<up, line, latest, archive>>

Missing == [state |-> "missing", line |-> <<>>]
Whole(l) == [state |-> "whole", line |-> l]

RegisterInit == ~up /\ line = <<>> /\ latest = Missing /\ archive = {}

Start ==
  /\ ~up /\ up'
  /\ \/ latest = Missing /\ line' = <<>>
     \/ latest.state = "whole" /\ line' = latest.line
     \/ line' \in archive
  /\ UNCHANGED <<latest, archive>>
Learn ==
  /\ up /\ up' /\ Len(line') = Len(line) + 1 /\ IsPrefix(line, line')
  /\ UNCHANGED <<latest, archive>>
Commit == up /\ latest' = Whole(line) /\ UNCHANGED <<up, line, archive>>
Rearchive ==
  up /\ archive' \subseteq archive \union {line} /\ UNCHANGED <<up, line, latest>>
End == up /\ ~up' /\ line' = <<>> /\ UNCHANGED <<latest, archive>>

RegisterNext == Start \/ Learn \/ Commit \/ Rearchive \/ End
RegisterSpec == RegisterInit /\ [][RegisterNext]_registerVars
=============================================================================
