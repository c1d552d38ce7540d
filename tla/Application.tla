------------------------------ MODULE Application ------------------------------
(***************************************************************************)
(* The server process (web/lifespan.py, state.py, tasks.py, game_api.py,   *)
(* game_runtime/registry.py, game_ai/service.py and                        *)
(* policy_model/inference/runtime.py).  The lifespan owns one TaskGroup;   *)
(* its children are the session of each room, the cleanup loop and the     *)
(* dispatcher of the inference runtime that all rooms share.  When a child *)
(* fails, the group cancels the others and, once, the lifespan itself.     *)
(*                                                                         *)
(* A room is seen here as module GameRoom has it, without its seats, and a *)
(* session as module Session has it, without its players: it serves a      *)
(* close, asks the runtime for the decision of a bot, or fails.            *)
(***************************************************************************)
EXTENDS Naturals, Sequences

CONSTANTS Rooms, None

VARIABLES
  web,        \* uvicorn takes requests
  main,       \* where the lifespan is
  aborting,   \* TaskGroup._aborting
  \* the rooms
  registry,   \* the rooms in GameRegistry._values
  created,    \* the order it keeps them in, that of their creation
  idle,       \* the rooms nobody asked for in _GAME_MAX_AGE_SECONDS
  lifecycle,  \* GameRoom._lifecycle, "none" before the room is created
  starting,   \* the rooms whose session.start has not returned
  session,    \* the task of each room's session
  closer,     \* who awaits the close in the session's mailbox
  cleanup,    \* the cleanup loop: "asleep", "closing" or "ended"
  hand,       \* the expired rooms it has still to close, in that order
  \* the inference runtime
  asks,       \* the decision each session awaits
  dispatcher, \* its task, "none" before the first decision
  stop,       \* the call of runtime.close()
  closed,     \* InferenceRuntime._closed
  \* history
  refused,    \* the sessions that asked a closed runtime
  abandoned   \* the rooms the cleanup loop had when it was cancelled

life == <<web, main, aborting>>
rooms == <<registry, created, idle, lifecycle, starting>>
ai == <<dispatcher, stop, closed>>
history == <<refused, abandoned>>
vars == <<life, rooms, session, closer, cleanup, hand, asks, ai, history>>

Init ==
  /\ web = FALSE /\ main = "off" /\ aborting = FALSE
  /\ registry = {} /\ created = <<>> /\ idle = {}
  /\ lifecycle = [r \in Rooms |-> "none"]
  /\ starting = {} /\ session = [r \in Rooms |-> "none"]
  /\ closer = [r \in Rooms |-> None] /\ cleanup = "ended" /\ hand = {}
  /\ asks = [r \in Rooms |-> "none"]
  /\ dispatcher = "none" /\ stop = "none" /\ closed = FALSE
  /\ refused = {} /\ abandoned = {}

Live == {r \in Rooms : session[r] \in {"running", "cancelling"}}
Quietly(r) == asks' = [asks EXCEPT ![r] = "none"]
\* ApplicationTasks.create_task: the group is bound, and takes children.
TasksOpen == main \in {"serving", "closing"} /\ ~aborting
---------------------------------------------------------------------------
(* The TaskGroup *)

\* A child failed: all others are cancelled, and the lifespan too if nothing
\* has cancelled it before.  Whoever awaits the close of a session that ends
\* before it serves it waits on.  running are the sessions that go on.
Abort(running) ==
  /\ aborting' = TRUE
  /\ session' = [r \in Rooms |-> IF r \in running THEN "cancelling"
                                 ELSE IF session[r] = "running" THEN "failed"
                                 ELSE session[r]]
  /\ dispatcher' = IF dispatcher \in {"idle", "busy"} THEN "cancelled" ELSE dispatcher
  /\ cleanup' = "ended" /\ hand' = {}
  /\ abandoned' = abandoned \union hand
                    \union {r \in Rooms : closer[r] = "cleanup"}
  /\ closer' = [r \in Rooms |-> IF closer[r] = "cleanup" THEN "nobody" ELSE closer[r]]
  /\ main' = IF aborting \/ main \in {"joining", "stopped"} THEN main
             ELSE IF main = "serving" THEN "cancelled" ELSE "joining"
Running == {r \in Rooms : session[r] = "running"}

\* An assertion ends a session: module Session says of some which.
Fails(r) ==
  /\ session[r] = "running" /\ Abort(Running \ {r}) /\ Quietly(r)
SessionFails(r) ==
  Fails(r) /\ UNCHANGED <<web, rooms, stop, closed, refused>>
\* A cancelled session ends when its players have.
SessionCancelled(r) ==
  /\ session[r] = "cancelling" /\ session' = [session EXCEPT ![r] = "cancelled"]
  /\ Quietly(r)
  /\ UNCHANGED <<life, rooms, closer, cleanup, hand, ai, history>>
---------------------------------------------------------------------------
(* Requests *)

Boot ==
  /\ main = "off" /\ main' = "serving" /\ web' = TRUE /\ cleanup' = "asleep"
  /\ UNCHANGED <<aborting, rooms, session, closer, hand, asks, ai, history>>
CreateGame(r) ==
  /\ web /\ lifecycle[r] = "none"
  /\ lifecycle' = [lifecycle EXCEPT ![r] = "lobby"]
  /\ registry' = registry \union {r} /\ created' = Append(created, r)
  /\ UNCHANGED <<life, idle, starting, session, closer, cleanup, hand, asks, ai, history>>
\* Nobody asks for the room for an hour, whether it plays or not: frames do not
\* count.
Ages(r) ==
  /\ main = "serving" /\ r \in registry \ idle /\ r \notin starting
  /\ idle' = idle \union {r}
  /\ UNCHANGED <<life, registry, created, lifecycle, starting, session, closer,
                 cleanup, hand, asks, ai, history>>
\* A list of the games counts as asking for each.
ListGames ==
  /\ web /\ idle # {} /\ idle' = {}
  /\ UNCHANGED <<life, registry, created, lifecycle, starting, session, closer,
                 cleanup, hand, asks, ai, history>>
\* So does a request for a seat of it, or another WebSocket.
SeatRequest(r) ==
  /\ web /\ r \in idle /\ idle' = idle \ {r}
  /\ UNCHANGED <<life, registry, created, lifecycle, starting, session, closer,
                 cleanup, hand, asks, ai, history>>
\* The first WebSocket of a full room; without a group the handler fails, and
\* leaves a frozen roster.
WebsocketGame(r) ==
  /\ web /\ r \in registry /\ lifecycle[r] = "lobby" /\ session[r] = "none"
  /\ idle' = idle \ {r}
  /\ IF TasksOpen
     THEN /\ session' = [session EXCEPT ![r] = "running"]
          /\ starting' = starting \union {r}
     ELSE /\ session' = [session EXCEPT ![r] = "unstarted"] /\ UNCHANGED starting
  /\ UNCHANGED <<life, registry, created, lifecycle, closer, cleanup, hand, asks, ai,
                 history>>
\* The room becomes active whatever became of it during the start: "reopened" is
\* active too, with no registry that knows it.
Started(r) ==
  /\ r \in starting /\ session[r] # "cancelling" /\ starting' = starting \ {r}
  /\ lifecycle' = [lifecycle EXCEPT ![r] =
                     IF session[r] # "running" THEN @
                     ELSE IF @ = "closed" THEN "reopened" ELSE "active"]
  /\ UNCHANGED <<life, registry, created, idle, session, closer, cleanup, hand, asks,
                 ai, history>>
---------------------------------------------------------------------------
(* Closing rooms *)

\* GameRoom.close and Session.close: an unstarted room asserts that its roster
\* is not frozen; a session that is done gives its exception.
CloseRaises(r) ==
  \/ lifecycle[r] = "lobby" /\ session[r] # "none"
  \/ lifecycle[r] = "active" /\ session[r] \in {"failed", "cancelled"}
CloseWaits(r) == lifecycle[r] = "active" /\ session[r] \in {"running", "cancelling"}
Close(r, who) ==
  /\ lifecycle' = [lifecycle EXCEPT ![r] = "closed"]
  /\ closer' = [closer EXCEPT ![r] = IF CloseWaits(r) THEN who ELSE @]
\* The session takes the close from its mailbox; a closer that was cancelled
\* has cancelled the future it sets.
ServeClose(r) ==
  /\ session[r] = "running" /\ closer[r] \notin {None, "nobody"}
  /\ session' = [session EXCEPT ![r] = "ended"]
  /\ closer' = [closer EXCEPT ![r] = None] /\ Quietly(r)
  /\ UNCHANGED <<life, rooms, cleanup, hand, ai, history>>
ServeNobody(r) ==
  /\ session[r] = "running" /\ closer[r] = "nobody" /\ SessionFails(r)

DeleteGame(r) ==
  /\ web /\ r \in registry
  /\ registry' = registry \ {r} /\ idle' = idle \ {r}
  /\ Close(r, "handler")
  /\ UNCHANGED <<life, created, starting, session, cleanup, hand, asks, ai, history>>

Place(r) == CHOOSE i \in DOMAIN created : created[i] = r
Eldest(some) == CHOOSE r \in some : \A s \in some : Place(r) <= Place(s)
\* Slip: it forgets all but the first.
ExpiredFirst == {Eldest(idle)}
Expired == registry \intersect idle
\* _cleanup_loop wakes: the expired rooms leave the registry together, and are
\* closed in turn.  (No close raises here: a start takes less than an hour, and
\* the loop does not outlive a failure.)
Cleanup ==
  /\ cleanup = "asleep" /\ idle # {} /\ cleanup' = "closing" /\ hand' = Expired
  /\ registry' = registry \ idle /\ idle' = {}
  /\ UNCHANGED <<life, created, lifecycle, starting, session, closer, asks, ai, history>>
CleanupWaits == \E r \in Rooms : closer[r] = "cleanup"
CleanupCloses ==
  LET r == Eldest(hand) IN
  /\ cleanup = "closing" /\ ~CleanupWaits /\ hand # {}
  /\ hand' = hand \ {r} /\ Close(r, "cleanup")
  /\ UNCHANGED <<life, registry, created, idle, starting, session, cleanup, asks, ai,
                 history>>
CleanupSleeps ==
  /\ cleanup = "closing" /\ ~CleanupWaits /\ hand = {} /\ cleanup' = "asleep"
  /\ UNCHANGED <<life, rooms, session, closer, hand, asks, ai, history>>
---------------------------------------------------------------------------
(* Decisions *)

\* AIController.decide asserts that the runtime does not refuse.
Refuses == closed \/ (dispatcher = "none" /\ ~TasksOpen)
\* InferenceRuntime.decide
Decide(r) ==
  /\ session[r] = "running" /\ asks[r] = "none"
  /\ IF Refuses
     THEN /\ Fails(r) /\ refused' = refused \union {r}
          /\ UNCHANGED <<web, rooms, stop, closed>>
     ELSE /\ asks' = [asks EXCEPT ![r] = "queued"]
          /\ dispatcher' = IF dispatcher = "none" THEN "idle" ELSE dispatcher
          /\ UNCHANGED <<life, rooms, session, closer, cleanup, hand, stop, closed,
                         history>>
Queued == {r \in Rooms : asks[r] = "queued"}
\* Slip: a stop overtakes the decisions queued with it.
StopFirst == IF stop = "queued" THEN {} ELSE Queued
Batch == Queued
\* _dispatch takes whatever is queued.
Gather ==
  /\ dispatcher = "idle" /\ (Queued # {} \/ stop = "queued")
  /\ dispatcher' = "busy"
  /\ asks' = [r \in Rooms |-> IF r \in Batch THEN "active" ELSE asks[r]]
  /\ stop' = IF stop = "queued" THEN "active" ELSE stop
  /\ UNCHANGED <<life, rooms, session, closer, cleanup, hand, closed, history>>
\* sample_actions: an action for every request of the batch.
Decided == {r \in Rooms : asks[r] = "active"}
\* The worker thread returned: the futures that still wait are set, then the
\* stop.
Answer ==
  /\ dispatcher = "busy"
  /\ asks' = [r \in Rooms |-> IF r \in Decided THEN "none" ELSE asks[r]]
  /\ dispatcher' = IF stop = "active" THEN "ended" ELSE "idle"
  /\ stop' = IF stop = "active" THEN "done" ELSE stop
  /\ UNCHANGED <<life, rooms, session, closer, cleanup, hand, closed, history>>
\* The executor raises: the dispatcher fails, and with it each call it has.
DispatcherFails ==
  /\ dispatcher = "busy" /\ Abort(Running)
  /\ asks' = [r \in Rooms |-> "none"]
  /\ stop' = IF stop \in {"queued", "active"} THEN "done" ELSE stop
  /\ UNCHANGED <<web, rooms, closed, refused>>
---------------------------------------------------------------------------
(* The end of the lifespan *)

\* uvicorn stops: it lets the requests that run return first.
Shutdown ==
  /\ web /\ starting = {} /\ \A r \in Rooms : closer[r] # "handler"
  /\ web' = FALSE
  /\ UNCHANGED <<main, aborting, rooms, session, closer, cleanup, hand, asks, ai,
                 history>>
\* The finally clause: the cleanup loop is cancelled wherever it is.
BeginClose ==
  /\ main = "cancelled" \/ (main = "serving" /\ ~web)
  /\ main' = "closing" /\ cleanup' = "ended" /\ hand' = {}
  /\ closer' = [r \in Rooms |-> IF closer[r] = "cleanup" THEN "nobody" ELSE closer[r]]
  /\ abandoned' = abandoned \union hand
                    \union {r \in Rooms : closer[r] = "cleanup"}
  /\ UNCHANGED <<web, aborting, rooms, session, asks, ai, refused>>
MainWaits == \E r \in Rooms : closer[r] = "main"
\* ServerState.close
CloseRoom ==
  LET r == Eldest(registry) IN
  /\ main = "closing" /\ registry # {} /\ ~MainWaits /\ ~CloseRaises(r)
  /\ registry' = registry \ {r} /\ Close(r, "main") /\ idle' = idle \ {r}
  /\ UNCHANGED <<life, created, starting, session, cleanup, hand, asks, ai, history>>
\* An exception leaves the group at once: it aborts what is left.
CloseRoomRaises ==
  LET r == Eldest(registry) IN
  /\ main = "closing" /\ registry # {} /\ ~MainWaits /\ CloseRaises(r)
  /\ lifecycle' = [lifecycle EXCEPT ![r] = "closed"] /\ registry' = registry \ {r}
  /\ aborting' = TRUE /\ main' = "joining" /\ idle' = idle \ {r}
  /\ session' = [s \in Rooms |-> IF s \in Running THEN "cancelling" ELSE session[s]]
  /\ dispatcher' = IF dispatcher \in {"idle", "busy"} THEN "cancelled" ELSE dispatcher
  /\ UNCHANGED <<web, created, starting, closer, cleanup, hand, asks, stop, closed,
                 history>>
\* Slip: the services first.
RoomsOrNot == main = "closing" /\ ~MainWaits
RoomsClosed == main = "closing" /\ ~MainWaits /\ registry = {}
\* AIService.close, InferenceRuntime.close
CloseService ==
  /\ RoomsClosed /\ ~closed /\ closed' = TRUE
  /\ stop' = IF dispatcher \in {"idle", "busy"} THEN "queued" ELSE "done"
  /\ UNCHANGED <<life, rooms, session, closer, cleanup, hand, asks, dispatcher, history>>
\* The dispatcher stopped, or its exception ends the close.
Closed ==
  /\ main = "closing" /\ closed /\ registry = {} /\ stop = "done"
  /\ dispatcher \notin {"idle", "busy"} /\ main' = "joining"
  /\ UNCHANGED <<web, aborting, rooms, session, closer, cleanup, hand, asks, ai, history>>
\* The group is left when all its children are done.
Join ==
  /\ main = "joining" /\ Live = {} /\ cleanup = "ended"
  /\ dispatcher \notin {"idle", "busy"} /\ main' = "stopped"
  /\ UNCHANGED <<web, aborting, rooms, session, closer, cleanup, hand, asks, ai, history>>
---------------------------------------------------------------------------
Request(r) ==
  CreateGame(r) \/ Ages(r) \/ SeatRequest(r) \/ WebsocketGame(r) \/ DeleteGame(r)
Task(r) ==
  Started(r) \/ SessionCancelled(r) \/ ServeClose(r) \/ ServeNobody(r)
Loop == CleanupCloses \/ CleanupSleeps
Lifespan ==
  BeginClose \/ CloseRoom \/ CloseRoomRaises \/ CloseService \/ Closed \/ Join
Next ==
  \/ Boot \/ ListGames \/ Cleanup \/ Shutdown
  \/ \E r \in Rooms : Request(r) \/ Task(r) \/ Decide(r) \/ SessionFails(r)
  \/ Gather \/ Answer \/ DispatcherFails \/ Loop \/ Lifespan

\* The event loop runs what is ready, and the worker thread returns; nobody
\* need make a request, and nothing need fail.
Fairness ==
  /\ \A r \in Rooms : WF_vars(Task(r))
  /\ WF_vars(Gather) /\ WF_vars(Answer \/ DispatcherFails)
  /\ WF_vars(Loop) /\ WF_vars(Lifespan)
Spec == Init /\ [][Next]_vars /\ Fairness
---------------------------------------------------------------------------
(* Properties *)

TypeOK ==
  /\ main \in {"off", "serving", "cancelled", "closing", "joining", "stopped"}
  /\ {web, aborting, closed} \subseteq BOOLEAN
  /\ created \in Seq(Rooms)
  /\ registry \union hand \union idle \union starting
       \union refused \union abandoned \subseteq Rooms
  /\ lifecycle \in [Rooms -> {"none", "lobby", "active", "closed", "reopened"}]
  /\ session \in [Rooms -> {"none", "unstarted", "running", "cancelling",
                            "ended", "failed", "cancelled"}]
  /\ closer \in [Rooms -> {None, "handler", "cleanup", "main", "nobody"}]
  /\ cleanup \in {"asleep", "closing", "ended"}
  /\ asks \in [Rooms -> {"none", "queued", "active"}]
  /\ dispatcher \in {"none", "idle", "busy", "ended", "cancelled"}
  /\ stop \in {"none", "queued", "active", "done"}

\* Whoever asks for a decision comes out of the await, whatever becomes of the
\* dispatcher, the runtime or the group in the meantime.
AskersResume == \A r \in Rooms : asks[r] # "none" ~> asks[r] = "none"

\* A room that left the registry, deleted or expired with others, is closed
\* while the server serves, and the session of a closed room ends, unless it
\* closed during its start.
RoomsReclaimed == \A r \in Rooms :
  /\ (lifecycle[r] \in {"lobby", "active"} /\ r \notin registry) ~>
       (lifecycle[r] = "closed" \/ main # "serving")
  /\ (lifecycle[r] = "closed" /\ r \notin starting) ~> (r \notin Live)

\* The shared services outlive the games: a session that finds the runtime
\* closed is one that the cleanup loop had taken and left, or whose room was
\* closed during its start.
SharedServicesLast ==
  \A r \in refused : r \in abandoned \/ lifecycle[r] = "reopened"

\* "Stop game tasks before closing their shared services": the lifespan that
\* begins to stop does stop.
ShutdownEnds == (main = "closing") ~> (main = "stopped")
=============================================================================
