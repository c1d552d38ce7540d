------------------------------ MODULE GameRoom ------------------------------
(***************************************************************************)
(* One room (server/game_runtime/_room.py, _roster.py, player/_human.py)   *)
(* and the WebSocket handlers that call it (web/game_connection.py).  Each *)
(* handler is a task: connect_seat suspends while a session starts and     *)
(* while the transport it replaces is closed, and everything else may run  *)
(* in between.  The Session is seen from outside: start() and close().     *)
(***************************************************************************)
EXTENDS FiniteSets, Naturals

CONSTANTS
  Users, Seats,
  Transports,   \* one per WebSocket handler
  None, Bot     \* an empty seat, a seat of a bot

ASSUME DistinctAssumption ==
  None \notin Users \cup Transports /\ Bot \notin Users \cup {None}

VARIABLES
  lifecycle,   \* GameRoom._lifecycle: "Lobby", "Active" or "Closed"
  players,     \* SeatRoster._players: the user or bot of each seat
  frozen,      \* SeatRoster._frozen
  session,     \* "none", "starting", "running", "crashed" or "closed"
  transport,   \* HumanPlayer._connection of each seat
  handler,     \* where the handler of each transport is
  claim,       \* the user and seat of each handler
  closer,      \* the call of close(): "open", "waiting", "returned", "raised"
  told         \* transports closed by the server

roomVars == <<lifecycle, players, frozen, session>>
vars == <<roomVars, transport, handler, claim, closer, told>>

Occupants == Users \cup {None, Bot}
Unclaimed == [user |-> None, seat |-> None]
Complete == \A s \in Seats : players[s] # None
\* Slip: any human seat will do.
OwnsAnyHuman(u, s) == players[s] \in Users
\* SeatRoster.human
Owns(u, s) == players[s] = u
---------------------------------------------------------------------------
(* The lobby: SeatRoster behind _lobby_rejection *)

\* Slip: the frozen roster is not consulted.
OpenWhileStarting == lifecycle = "Lobby"

Open == lifecycle = "Lobby" /\ ~frozen

\* occupy: a user holds one seat, and gives up the old one for another.
Occupy(u, s) ==
  /\ Open /\ players[s] = None
  /\ players' = [t \in Seats |-> IF t = s THEN u
                                 ELSE IF players[t] = u THEN None ELSE players[t]]
  /\ UNCHANGED <<lifecycle, frozen, session, transport, handler, claim, closer, told>>

Vacate(u, s) ==
  /\ Open /\ Owns(u, s)
  /\ players' = [players EXCEPT ![s] = None]
  /\ UNCHANGED <<lifecycle, frozen, session, transport, handler, claim, closer, told>>

FillBots(u) ==
  /\ Open /\ \E s \in Seats : Owns(u, s)
  /\ players' = [s \in Seats |-> IF players[s] = None THEN Bot ELSE players[s]]
  /\ UNCHANGED <<lifecycle, frozen, session, transport, handler, claim, closer, told>>
---------------------------------------------------------------------------
(* connect_seat, one step per await *)

\* HumanPlayer.connect of handler t: replace what is there, or attach.
Attach(t, s) ==
  IF transport[s] = None
  THEN transport' = [transport EXCEPT ![s] = t]
       /\ handler' = [handler EXCEPT ![t] = "connected"] /\ UNCHANGED told
  ELSE told' = told \cup {transport[s]}
       /\ handler' = [handler EXCEPT ![t] = "replacing"] /\ UNCHANGED transport

\* The first WebSocket of a full lobby freezes the roster and starts the session.
Connect(t, u, s) ==
  /\ handler[t] = "idle"
  /\ claim' = [claim EXCEPT ![t] = [user |-> u, seat |-> s]]
  /\ \/ /\ lifecycle = "Active" /\ Owns(u, s)
        /\ Attach(t, s)
        /\ UNCHANGED roomVars
     \/ /\ Open /\ Owns(u, s) /\ Complete
        /\ frozen' = TRUE /\ session' = "starting"
        /\ handler' = [handler EXCEPT ![t] = "starting"]
        /\ UNCHANGED <<lifecycle, players, transport, told>>
     \/ /\ \/ lifecycle = "Closed" \/ ~Owns(u, s)
           \/ lifecycle = "Lobby" /\ (frozen \/ ~Complete)
        /\ handler' = [handler EXCEPT ![t] = "gone"]
        /\ told' = told \cup {t}
        /\ UNCHANGED <<roomVars, transport>>
  /\ UNCHANGED closer

\* session.start returns: the room is active, and the human is attached.
Started(t) ==
  /\ handler[t] = "starting" /\ session = "running"
  /\ lifecycle' = "Active"
  /\ Attach(t, claim[t].seat)
  /\ UNCHANGED <<players, frozen, session, claim, closer>>

\* session.start raises, and the handler dies with it.
StartRaises(t) ==
  /\ handler[t] = "starting" /\ session = "crashed"
  /\ handler' = [handler EXCEPT ![t] = "gone"]
  /\ UNCHANGED <<roomVars, transport, claim, closer, told>>

\* The close of the replaced transport returns: the new one takes its place.
Replaced(t) ==
  /\ handler[t] = "replacing"
  /\ transport' = [transport EXCEPT ![claim[t].seat] = t]
  /\ handler' = [handler EXCEPT ![t] = "connected"]
  /\ UNCHANGED <<roomVars, claim, closer, told>>

\* Slip: a stale socket detaches its successor.
DetachAnybody(t) ==
  IF lifecycle # "Closed" THEN transport' = [transport EXCEPT ![claim[t].seat] = None]
  ELSE UNCHANGED transport
\* receive_json ends, because the client left or the server closed the
\* socket: disconnect_seat detaches the transport if it is the current one.
Detach(t) ==
  IF lifecycle # "Closed" /\ transport[claim[t].seat] = t
  THEN transport' = [transport EXCEPT ![claim[t].seat] = None]
  ELSE UNCHANGED transport
Leave(t) ==
  /\ handler[t] = "connected"
  /\ handler' = [handler EXCEPT ![t] = "gone"]
  /\ Detach(t)
  /\ UNCHANGED <<roomVars, claim, closer, told>>

\* Slip: the lifecycle is not consulted.
HeardAfterClose(t) == handler[t] = "connected" /\ transport[claim[t].seat] = t
\* HumanPlayer.receive asserts that its player runs, and the assertion ends
\* the handler; any other frame changes nothing here.
Heard(t) ==
  /\ handler[t] = "connected" /\ lifecycle # "Closed"
  /\ transport[claim[t].seat] = t
FrameFails(t) ==
  /\ Heard(t) /\ session # "running"
  /\ handler' = [handler EXCEPT ![t] = "failed"]
  /\ Detach(t)
  /\ UNCHANGED <<roomVars, claim, closer, told>>
---------------------------------------------------------------------------
(* The session and the close of the room *)

SessionRuns ==
  /\ session = "starting" /\ session' = "running"
  /\ UNCHANGED <<lifecycle, players, frozen, transport, handler, claim, closer, told>>

\* The players end: every HumanPlayer detaches and closes its transport.
PlayersEnd ==
  /\ transport' = [s \in Seats |-> None]
  /\ told' = told \cup ({transport[s] : s \in Seats} \ {None})

\* An assertion ends the session, as in module Session.
SessionCrashes ==
  /\ session \in {"starting", "running"}
  /\ session' = "crashed" /\ PlayersEnd
  /\ UNCHANGED <<lifecycle, players, frozen, handler, claim, closer>>

\* close: once; close_unstarted asserts that the roster is not frozen.
Close ==
  /\ closer = "open" /\ lifecycle # "Closed"
  /\ lifecycle' = "Closed"
  /\ IF lifecycle = "Active"
     THEN /\ closer' = IF session = "crashed" THEN "raised" ELSE "waiting"
          /\ UNCHANGED players
     ELSE IF frozen THEN closer' = "raised" /\ UNCHANGED players
     ELSE closer' = "returned" /\ players' = [s \in Seats |-> None]
  /\ UNCHANGED <<frozen, session, transport, handler, claim, told>>

SessionCloses ==
  /\ closer = "waiting" /\ session = "running"
  /\ session' = "closed" /\ closer' = "returned" /\ PlayersEnd
  /\ UNCHANGED <<lifecycle, players, frozen, handler, claim>>
---------------------------------------------------------------------------
Init ==
  /\ lifecycle = "Lobby" /\ players = [s \in Seats |-> None] /\ frozen = FALSE
  /\ session = "none" /\ transport = [s \in Seats |-> None]
  /\ handler = [t \in Transports |-> "idle"]
  /\ claim = [t \in Transports |-> Unclaimed]
  /\ closer = "open" /\ told = {}

Handler(t) ==
  \/ \E u \in Users, s \in Seats : Connect(t, u, s)
  \/ Started(t) \/ StartRaises(t) \/ Replaced(t)
  \/ Leave(t) \/ FrameFails(t)

Lobby ==
  \/ \E u \in Users, s \in Seats : Occupy(u, s) \/ Vacate(u, s)
  \/ \E u \in Users : FillBots(u)

Next ==
  \/ Lobby
  \/ \E t \in Transports : Handler(t)
  \/ SessionRuns \/ SessionCrashes \/ Close \/ SessionCloses

Spec == Init /\ [][Next]_vars
---------------------------------------------------------------------------
(* Properties *)

TypeOK ==
  /\ lifecycle \in {"Lobby", "Active", "Closed"}
  /\ players \in [Seats -> Occupants] /\ frozen \in BOOLEAN
  /\ session \in {"none", "starting", "running", "crashed", "closed"}
  /\ transport \in [Seats -> Transports \cup {None}]
  /\ handler \in [Transports -> {"idle", "starting", "replacing", "connected",
                                 "failed", "gone"}]
  /\ claim \in [Transports -> {Unclaimed} \cup [user : Users, seat : Seats]]
  /\ closer \in {"open", "waiting", "returned", "raised"}
  /\ told \subseteq Transports

\* Only the owner of a seat is attached to it, and a user holds one seat.
OwnersAttached ==
  /\ \A s \in Seats : transport[s] # None =>
       LET c == claim[transport[s]] IN c.seat = s /\ players[s] = c.user
  /\ \A s, t \in Seats : players[s] = players[t] /\ players[s] \in Users => s = t

\* Of all first connections one starts the session, and a session that exists
\* has four players who stay: the roster it was given never changes again.
StartedOnce ==
  /\ \A t, u \in Transports :
       handler[t] = "starting" /\ handler[u] = "starting" => t = u
  /\ session # "none" => frozen /\ Complete

\* A handler that ends detaches no transport but its own: after a takeover the
\* old WebSocket may end whenever it likes.
StaleEndsAlone ==
  [][\A s \in Seats :
       transport[s] # None /\ transport'[s] = None =>
         session' # session \/ handler'[transport[s]] # "connected"]_vars

\* A frame from the attached transport finds its player running, closed and
\* half-closed rooms included: the assertion in HumanPlayer.receive fails only
\* where one of the session failed before.
FramesFindPlayer ==
  (\E t \in Transports : handler[t] = "failed") => session = "crashed"

\* A closed room stays closed.
ClosedForGood == [][lifecycle = "Closed" => lifecycle' = "Closed"]_vars
=============================================================================
