------------------------------- MODULE MCServer -------------------------------
(***************************************************************************)
(* The server: one room with its seats and sockets, and the application    *)
(* with its rooms, its task group and its end.  Each module has its own    *)
(* view of the other (close and session there are the environment of a     *)
(* room here), so a behaviour is one of either while the other is at rest. *)
(***************************************************************************)
EXTENDS GameRoom

CONSTANTS Rooms

\* Who awaits a close can be told from nobody doing so.
ASSUME CloserAssumption == None \notin {"handler", "cleanup", "main", "nobody"}

VARIABLES
  web, main, aborting, registry, created, idle, lives, starting, sessions, closers,
  cleanup, hand, asks, dispatcher, stop, closed, refused, abandoned

App == INSTANCE Application WITH
  lifecycle <- lives, session <- sessions, closer <- closers

appVars == <<web, main, aborting, registry, created, idle, lives, starting, sessions,
             closers, cleanup, hand, asks, dispatcher, stop, closed, refused,
             abandoned>>

ServerInit == Init /\ App!Init
ServerNext ==
  \/ App!Init /\ Next /\ UNCHANGED appVars
  \/ Init /\ App!Next /\ UNCHANGED vars
\* Nothing of an application that is not booted is due.
ServerSpec == ServerInit /\ [][ServerNext]_<<vars, appVars>> /\ App!Fairness

SharedServicesLast == App!SharedServicesLast
AskersResume == App!AskersResume
RoomsReclaimed == App!RoomsReclaimed
=============================================================================
