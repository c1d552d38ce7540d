---------------------------- MODULE MCRunDirectory ----------------------------
(***************************************************************************)
(* The two protocols of a run directory: the control of the process that   *)
(* trains in it, and its checkpoints.  They share no file and no variable, *)
(* so a behaviour here is one of either while the other is at rest.        *)
(***************************************************************************)
EXTENDS Checkpoints, TrainingControl

DirectoryInit == Init /\ ControlInit
DirectoryNext ==
  \/ ControlInit /\ Next /\ UNCHANGED controlVars
  \/ Init /\ ControlNext /\ UNCHANGED vars
\* Nothing of the control is due while it is at rest.
DirectorySpec ==
  DirectoryInit /\ [][DirectoryNext]_<<vars, controlVars>> /\ Fairness
=============================================================================
