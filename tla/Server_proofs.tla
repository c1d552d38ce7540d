----------------------------- MODULE Server_proofs -----------------------------
(***************************************************************************)
(* What holds of a room for any users, seats and sockets, and of the       *)
(* application for any number of rooms.                                    *)
(***************************************************************************)
EXTENDS MCServer, SequenceTheorems, WellFoundedInduction, TLAPS

---------------------------------------------------------------------------
(* A room *)

\* A lobby that is not frozen has no session and nobody attached; nobody is
\* attached before the session runs either.
LobbyQuiet ==
  /\ ~frozen => /\ session = "none" /\ lifecycle # "Active"
                /\ \A t \in Transports : handler[t] \in {"idle", "gone"}
  /\ session # "none" => frozen /\ Complete
  /\ session \in {"none", "starting"} =>
       /\ lifecycle # "Active"
       /\ \A t \in Transports : handler[t] \in {"idle", "gone", "starting"}
       /\ \A s \in Seats : transport[s] = None

\* A handler that is under way owns the seat it claimed, and so does the one a
\* seat is attached to.
ClaimsHold ==
  /\ \A t \in Transports : handler[t] \in {"starting", "replacing"} =>
       claim[t].seat \in Seats /\ players[claim[t].seat] = claim[t].user
  /\ \A s \in Seats : transport[s] # None =>
       /\ handler[transport[s]] # "idle"
       /\ claim[transport[s]].seat = s /\ players[s] = claim[transport[s]].user
  /\ \A s, t \in Seats : players[s] = players[t] /\ players[s] \in Users => s = t

\* The one handler that starts the session is gone from there before the room
\* is active, hence before close() has a session to close.
StarterFirst ==
  /\ \A t, u \in Transports :
       handler[t] = "starting" /\ handler[u] = "starting" => t = u
  /\ (\E t \in Transports : handler[t] = "starting") =>
       lifecycle # "Active" /\ closer # "waiting" /\ session \notin {"none", "closed"}
  /\ closer = "waiting" \/ session = "closed" => lifecycle = "Closed"
  /\ closer = "waiting" => session \notin {"none", "starting"}

RoomInv == TypeOK /\ LobbyQuiet /\ ClaimsHold /\ StarterFirst /\ FramesFindPlayer

LEMMA InitRoom == Init => RoomInv
  BY DistinctAssumption
  DEF Init, RoomInv, TypeOK, LobbyQuiet, ClaimsHold, StarterFirst, FramesFindPlayer,
      Complete, Occupants, Unclaimed

LEMMA LobbyRoom ==
  ASSUME RoomInv, NEW u \in Users, NEW s \in Seats,
         Occupy(u, s) \/ Vacate(u, s) \/ FillBots(u)
  PROVE  RoomInv'
BY DistinctAssumption
DEF RoomInv, TypeOK, LobbyQuiet, ClaimsHold, StarterFirst, FramesFindPlayer, Complete,
    Occupants, Open, Owns, Occupy, Vacate, FillBots

\* Attaching a handler to a seat it owns keeps the claims.
LEMMA AttachRoom ==
  ASSUME RoomInv, NEW t \in Transports, NEW s \in Seats, Attach(t, s),
         claim'[t].seat = s, players[s] = claim'[t].user,
         claim' \in [Transports -> {Unclaimed} \cup [user : Users, seat : Seats]],
         \A u \in Transports \ {t} : claim'[u] = claim[u],
         handler[t] = "idle" \/ claim' = claim, UNCHANGED players
  PROVE  /\ transport' \in [Seats -> Transports \cup {None}]
         /\ handler' \in [Transports -> {"idle", "starting", "replacing", "connected",
                                        "failed", "gone"}]
         /\ told' \subseteq Transports
         /\ ClaimsHold'
BY DistinctAssumption DEF RoomInv, TypeOK, ClaimsHold, Attach, Unclaimed

LEMMA ConnectRoom ==
  ASSUME RoomInv, NEW t \in Transports, NEW u \in Users, NEW s \in Seats, Connect(t, u, s)
  PROVE  RoomInv'
<1>0. /\ claim' \in [Transports -> {Unclaimed} \cup [user : Users, seat : Seats]]
      /\ claim'[t] = [user |-> u, seat |-> s]
      /\ \A v \in Transports \ {t} : claim'[v] = claim[v]
      /\ handler[t] = "idle" /\ closer' = closer
  BY DEF Connect, RoomInv, TypeOK
<1>1. CASE lifecycle = "Active" /\ Owns(u, s) /\ Attach(t, s) /\ UNCHANGED roomVars
  <2>1. /\ TypeOK' /\ ClaimsHold'
    BY <1>0, <1>1, AttachRoom DEF RoomInv, TypeOK, Owns, roomVars
  <2>2. \A v \in Transports :
        handler'[v] = handler[v] \/ (v = t /\ handler'[v] \in {"connected", "replacing"})
    BY <1>1 DEF Attach, RoomInv, TypeOK
  <2> QED
    BY <1>0, <1>1, <2>1, <2>2
    DEF RoomInv, LobbyQuiet, StarterFirst, FramesFindPlayer, Complete, roomVars
<1>2. CASE /\ Open /\ Owns(u, s) /\ Complete
           /\ frozen' = TRUE /\ session' = "starting"
           /\ handler' = [handler EXCEPT ![t] = "starting"]
           /\ UNCHANGED <<lifecycle, players, transport, told>>
  BY <1>0, <1>2
  DEF RoomInv, TypeOK, LobbyQuiet, ClaimsHold, StarterFirst, FramesFindPlayer, Complete, Open, Owns
<1>3. CASE /\ handler' = [handler EXCEPT ![t] = "gone"]
           /\ told' = told \cup {t}
           /\ UNCHANGED <<roomVars, transport>>
  BY <1>0, <1>3
  DEF RoomInv, TypeOK, LobbyQuiet, ClaimsHold, StarterFirst, FramesFindPlayer, Complete, roomVars
<1> QED
  BY <1>1, <1>2, <1>3 DEF Connect

LEMMA StartedRoom ==
  ASSUME RoomInv, NEW t \in Transports, Started(t)
  PROVE  RoomInv'
<1>1. /\ claim[t].seat \in Seats /\ players[claim[t].seat] = claim[t].user
      /\ claim' = claim /\ players' = players
  BY DEF Started, RoomInv, ClaimsHold
<1>2. TypeOK' /\ ClaimsHold'
  BY <1>1, AttachRoom DEF Started, RoomInv, TypeOK
<1>3. \A v \in Transports :
        handler'[v] = handler[v] \/ (v = t /\ handler'[v] \in {"connected", "replacing"})
  BY DEF Started, Attach, RoomInv, TypeOK
<1>4. handler'[t] # "starting"
  BY DEF Started, Attach, RoomInv, TypeOK
<1> QED
  BY <1>2, <1>3, <1>4
  DEF Started, RoomInv, LobbyQuiet, StarterFirst, FramesFindPlayer, Complete

LEMMA HandlerRoom ==
  ASSUME RoomInv, NEW t \in Transports,
         StartRaises(t) \/ Replaced(t) \/ Leave(t) \/ FrameFails(t)
  PROVE  RoomInv'
<1>1. CASE StartRaises(t)
  BY <1>1 DEF StartRaises, RoomInv, TypeOK, LobbyQuiet, ClaimsHold, StarterFirst,
              FramesFindPlayer, Complete, roomVars
<1>2. CASE Replaced(t)
  BY <1>2, DistinctAssumption
  DEF Replaced, RoomInv, TypeOK, LobbyQuiet, ClaimsHold, StarterFirst,
      FramesFindPlayer, Complete, roomVars
<1>3. CASE Leave(t)
  BY <1>3, DistinctAssumption
  DEF Leave, Detach, RoomInv, TypeOK, LobbyQuiet, ClaimsHold, StarterFirst,
      FramesFindPlayer, Complete, roomVars
<1>4. CASE FrameFails(t)
  BY <1>4, DistinctAssumption
  DEF FrameFails, Heard, Detach, RoomInv, TypeOK, LobbyQuiet, ClaimsHold, StarterFirst,
      FramesFindPlayer, Complete, roomVars
<1> QED
  BY <1>1, <1>2, <1>3, <1>4

LEMMA SessionRoom ==
  ASSUME RoomInv, SessionRuns \/ SessionCrashes \/ Close \/ SessionCloses
  PROVE  RoomInv'
<1>1. CASE SessionRuns
  BY <1>1 DEF SessionRuns, RoomInv, TypeOK, LobbyQuiet, ClaimsHold, StarterFirst,
              FramesFindPlayer, Complete
<1>2. CASE SessionCrashes
  BY <1>2, DistinctAssumption
  DEF SessionCrashes, PlayersEnd, RoomInv, TypeOK, LobbyQuiet, ClaimsHold, StarterFirst,
      FramesFindPlayer, Complete
<1>3. CASE Close
  BY <1>3, DistinctAssumption
  DEF Close, RoomInv, TypeOK, LobbyQuiet, ClaimsHold, StarterFirst,
      FramesFindPlayer, Complete, Occupants
<1>4. CASE SessionCloses
  BY <1>4, DistinctAssumption
  DEF SessionCloses, PlayersEnd, RoomInv, TypeOK, LobbyQuiet, ClaimsHold, StarterFirst,
      FramesFindPlayer, Complete
<1> QED
  BY <1>1, <1>2, <1>3, <1>4

LEMMA StepRoom == RoomInv /\ [Next]_vars => RoomInv'
<1> SUFFICES ASSUME RoomInv, [Next]_vars PROVE RoomInv'
  OBVIOUS
<1>1. CASE UNCHANGED vars
  BY <1>1 DEF vars, roomVars, RoomInv, TypeOK, LobbyQuiet, ClaimsHold, StarterFirst,
              FramesFindPlayer, Complete
<1>2. ASSUME NEW t \in Transports, Handler(t) PROVE RoomInv'
  BY <1>2, ConnectRoom, StartedRoom, HandlerRoom DEF Handler
<1>3. CASE Lobby
  <2>1. ASSUME NEW u \in Users, NEW s \in Seats, Occupy(u, s) \/ Vacate(u, s)
        PROVE  RoomInv'
    BY <2>1, LobbyRoom
  <2>2. ASSUME NEW u \in Users, FillBots(u) PROVE RoomInv'
    <3>1. PICK s \in Seats : Owns(u, s)
      BY <2>2 DEF FillBots
    <3> QED
      BY <2>2, LobbyRoom
  <2> QED
    BY <1>3, <2>1, <2>2 DEF Lobby
<1> QED
  BY <1>1, <1>2, <1>3, SessionRoom DEF Next

\* Every reachable state of a room has its type.
THEOREM RoomTyped == Spec => []TypeOK
<1>1. RoomInv => TypeOK
  BY DEF RoomInv
<1> QED
  BY <1>1, InitRoom, StepRoom, PTL DEF Spec

\* Whatever handlers are interrupted at their awaits, a seat is attached to a
\* socket of its owner only (GameRoom.connect_seat, HumanPlayer.connect).
THEOREM OwnersStayAttached == Spec => []OwnersAttached
<1>1. RoomInv => OwnersAttached
  BY DEF RoomInv, ClaimsHold, OwnersAttached
<1> QED
  BY <1>1, InitRoom, StepRoom, PTL DEF Spec

\* However many first connections race, one starts the session, with a complete
\* roster that stays (SeatRoster.freeze_players).
THEOREM SessionStartedOnce == Spec => []StartedOnce
<1>1. RoomInv => StartedOnce
  BY DEF RoomInv, LobbyQuiet, StarterFirst, StartedOnce
<1> QED
  BY <1>1, InitRoom, StepRoom, PTL DEF Spec

\* The assertion of HumanPlayer.receive fails in a crashed session only.
THEOREM FramesFindTheirPlayer == Spec => []FramesFindPlayer
<1>1. RoomInv => FramesFindPlayer
  BY DEF RoomInv
<1> QED
  BY <1>1, InitRoom, StepRoom, PTL DEF Spec

\* A seat loses its socket with the handler of that socket or with the session,
\* never through the handler of a socket that was replaced
\* (GameRoom.disconnect_seat, HumanPlayer.disconnect).
THEOREM StaleHandlersEndAlone == Spec => StaleEndsAlone
<1>1. ASSUME TypeOK, [Next]_vars,
             NEW s \in Seats, transport[s] # None, transport'[s] = None
      PROVE  session' # session \/ handler'[transport[s]] # "connected"
  <2>1. CASE SessionCrashes \/ SessionCloses
    BY <2>1 DEF SessionCrashes, SessionCloses
  <2>2. ASSUME NEW t \in Transports, Leave(t) \/ FrameFails(t)
        PROVE  handler'[transport[s]] # "connected"
    BY <1>1, <2>2 DEF Leave, FrameFails, Detach, TypeOK
  <2>3. ASSUME NEW t \in Transports, NEW seat \in Seats, Attach(t, seat) PROVE FALSE
    BY <1>1, <2>3, DistinctAssumption DEF Attach, TypeOK
  <2>4. ASSUME NEW t \in Transports, Replaced(t) PROVE FALSE
    BY <1>1, <2>4, DistinctAssumption DEF Replaced, TypeOK
  <2>5. ASSUME UNCHANGED transport PROVE FALSE
    BY <1>1, <2>5
  <2>6. ASSUME NEW t \in Transports, Started(t) PROVE FALSE
    BY <1>1, <2>6, DistinctAssumption DEF Started, Attach, TypeOK
  <2>7. ASSUME NEW t \in Transports, Handler(t)
        PROVE  handler'[transport[s]] # "connected"
    BY <2>2, <2>3, <2>4, <2>5, <2>6, <2>7 DEF Handler, Connect, StartRaises
  <2>8. CASE Lobby
    BY <2>5, <2>8 DEF Lobby, Occupy, Vacate, FillBots
  <2>9. CASE SessionRuns \/ Close \/ UNCHANGED vars
    BY <2>5, <2>9 DEF SessionRuns, Close, vars
  <2> QED
    BY <1>1, <2>1, <2>7, <2>8, <2>9 DEF Next
<1>2. TypeOK /\ [Next]_vars =>
        [\A s \in Seats :
           transport[s] # None /\ transport'[s] = None =>
             session' # session \/ handler'[transport[s]] # "connected"]_vars
  BY <1>1
<1> QED
  BY <1>2, RoomTyped, PTL DEF Spec, StaleEndsAlone
---------------------------------------------------------------------------
(* The application: the shared services outlive the games.  A session that *)
(* runs can be reached by whoever ends the lifespan, through the registry, *)
(* the cleanup loop's hand or the close it has before it, unless the loop  *)
(* was cancelled with it or its room was closed during the start.  So when *)
(* the lifespan has emptied the registry and closes the services, no other *)
(* session runs; and once the task group aborts, none runs at all.         *)

Runs(r) == sessions[r] = "running"
Ends == {"closing", "joining", "stopped"}

AppTypes ==
  /\ web \in BOOLEAN /\ aborting \in BOOLEAN /\ closed \in BOOLEAN
  /\ main \in {"off", "serving", "cancelled"} \union Ends
  /\ lives \in [Rooms -> {"none", "lobby", "active", "closed", "reopened"}]
  /\ sessions \in [Rooms -> {"none", "unstarted", "running", "cancelling",
                             "ended", "failed", "cancelled"}]
  /\ closers \in [Rooms -> {None, "handler", "cleanup", "main", "nobody"}]
  /\ created \in Seq(Rooms)

\* Whose room is in the registry or in the loop's hand has not been closed.
Registered ==
  /\ registry \subseteq Rooms /\ hand \subseteq Rooms /\ registry \intersect hand = {}
  /\ cleanup # "closing" => hand = {}
  /\ \A r \in registry \union hand :
       lives[r] \in {"lobby", "active"} /\ \E i \in DOMAIN created : created[i] = r
  /\ \A r \in Rooms : Runs(r) =>
       lives[r] # "none" /\ (lives[r] = "lobby" => r \in starting)
  /\ \A r \in starting : lives[r] # "reopened"

\* What the end of the lifespan has behind it.
Ending ==
  /\ main = "off" => ~web /\ cleanup = "ended" /\ \A r \in Rooms : ~Runs(r)
  /\ aborting => \A r \in Rooms : ~Runs(r)
  /\ main = "cancelled" => aborting
  /\ main \in {"joining", "stopped"} => aborting \/ closed
  /\ main \in Ends =>
       /\ aborting \/ ~web
       /\ hand = {} /\ cleanup = "ended" /\ \A r \in Rooms : closers[r] # "cleanup"
  /\ ~web => starting = {} /\ \A r \in Rooms : closers[r] # "handler"
  /\ closed =>
       /\ main \in Ends
       /\ aborting \/ (registry = {} /\ \A r \in Rooms : closers[r] # "main")

Reachable(r) ==
  \/ r \in registry \union hand
  \/ closers[r] \in {"handler", "cleanup", "main"}
  \/ lives[r] = "closed" /\ r \in starting
Lost(r) == r \in abandoned \/ lives[r] = "reopened"

AppInv ==
  /\ AppTypes /\ Registered /\ Ending
  /\ \A r \in Rooms : Runs(r) => Reachable(r) \/ Lost(r)
  /\ refused \subseteq Rooms /\ SharedServicesLast

LEMMA EldestIn ==
  ASSUME AppInv, NEW some \in SUBSET (registry \union hand), some # {}
  PROVE  App!Eldest(some) \in some
<1> DEFINE places == {App!Place(r) : r \in some}
<1>1. \A r \in some : App!Place(r) \in Nat
  BY DEF App!Place, AppInv, AppTypes, Registered
<1>2. places \subseteq Nat /\ places # {}
  BY <1>1
<1>3. IsWellFoundedOn(OpToRel(<, Nat), Nat)
  BY NatLessThanWellFounded
<1>4. PICK least \in places : \A n \in places : least <= n
  <2>1. PICK m \in places : \A n \in places : ~(<<n, m>> \in OpToRel(<, Nat))
    BY <1>2, <1>3, WFMin
  <2>2. m \in Nat /\ \A n \in places : n \in Nat
    BY <1>2, <2>1
  <2>3. ASSUME NEW n \in places PROVE m <= n
    <3>1. n \in Nat /\ m \in Nat
      BY <2>2
    <3>2. ~(<<n, m>> \in OpToRel(<, Nat))
      BY <2>1
    <3>3. ~(n < m)
      BY <3>1, <3>2 DEF OpToRel
    <3> QED
      BY <3>1, <3>3
  <2> QED
    BY <2>1, <2>3
<1>5. \E r \in some : \A s \in some : App!Place(r) <= App!Place(s)
  BY <1>4
<1> QED
  BY <1>5 DEF App!Eldest

LEMMA InitApp == App!Init => AppInv
<1> SUFFICES ASSUME App!Init PROVE AppInv
  OBVIOUS
<1>1. AppTypes
  <2>1. <<>> \in Seq(Rooms)
    OBVIOUS
  <2> QED
    BY <2>1 DEF App!Init, AppTypes, Ends
<1>2. Registered /\ \A r \in Rooms : ~Runs(r)
  BY DEF App!Init, Registered, Runs
<1>3. Ending
  BY <1>2, CloserAssumption DEF App!Init, Ending, Ends
<1> QED
  BY <1>1, <1>2, <1>3 DEF App!Init, AppInv, SharedServicesLast, App!SharedServicesLast

\* What a failed child and the end of the lifespan do to the rooms.
LEMMA AbortApp ==
  ASSUME AppInv, NEW running \in SUBSET Rooms, App!Abort(running),
         UNCHANGED <<web, registry, created, lives, starting, closed>>,
         refused' \subseteq refused \union {r \in Rooms : Lost(r)}
  PROVE  AppInv'
<1>1. \A r \in Rooms : ~Runs(r)'
  BY DEF App!Abort, Runs, AppInv, AppTypes
<1>2. AppTypes'
  BY DEF App!Abort, AppInv, AppTypes, Ends
<1>3. Registered'
  BY <1>1 DEF App!Abort, AppInv, Registered
<1>4. Ending'
  BY <1>1, CloserAssumption DEF App!Abort, AppInv, AppTypes, Ending, Ends
<1>5. abandoned \subseteq abandoned'
  BY DEF App!Abort
<1> QED
  BY <1>1, <1>2, <1>3, <1>4, <1>5 DEF AppInv, Lost, SharedServicesLast, App!SharedServicesLast

\* Nothing that runs changes, nor what it is reached by.
LEMMA SameApp ==
  ASSUME AppInv, UNCHANGED <<web, main, aborting, registry, created, lives, starting,
                             sessions, closers, hand, cleanup, closed, refused,
                             abandoned>>
  PROVE  AppInv'
  BY DEF AppInv, AppTypes, Registered, Ending, Runs, Reachable, Lost, SharedServicesLast,
         App!SharedServicesLast

LEMMA SessionApp ==
  ASSUME AppInv, NEW r \in Rooms,
         App!SessionFails(r) \/ App!SessionCancelled(r) \/ App!ServeClose(r) \/ App!ServeNobody(r)
  PROVE  AppInv'
<1>1. CASE App!SessionFails(r) \/ App!ServeNobody(r)
  BY <1>1, AbortApp
  DEF App!SessionFails, App!ServeNobody, App!Fails, App!rooms, App!Running
<1>2. CASE App!SessionCancelled(r) \/ App!ServeClose(r)
  <2>1. /\ UNCHANGED <<web, main, aborting, registry, created, lives, starting, hand,
                       cleanup, closed, refused, abandoned>>
        /\ \/ sessions' = [sessions EXCEPT ![r] = "cancelled"] /\ UNCHANGED closers
           \/ /\ sessions' = [sessions EXCEPT ![r] = "ended"]
              /\ closers' = [closers EXCEPT ![r] = None]
    BY <1>2 DEF App!SessionCancelled, App!ServeClose, App!life, App!rooms, App!ai, App!history
  <2>2. AppTypes'
    BY <2>1 DEF AppInv, AppTypes
  <2>3. \A s \in Rooms : Runs(s)' => Runs(s) /\ closers'[s] = closers[s]
    BY <2>1 DEF Runs, AppInv, AppTypes
  <2>4. \A s \in Rooms : closers'[s] \in {closers[s], None}
    BY <2>1 DEF AppInv, AppTypes
  <2>5. Registered' /\ Ending'
    BY <2>1, <2>3, <2>4, CloserAssumption DEF AppInv, Registered, Ending
  <2> QED
    BY <2>1, <2>2, <2>3, <2>5 DEF AppInv, Reachable, Lost, SharedServicesLast,
       App!SharedServicesLast
<1> QED
  BY <1>1, <1>2

LEMMA DecideApp ==
  ASSUME AppInv, NEW r \in Rooms, App!Decide(r)
  PROVE  AppInv'
<1>1. Runs(r) /\ ~aborting
  BY DEF App!Decide, Runs, AppInv, Ending
<1>2. CASE App!Refuses
  <2>1. closed
    BY <1>1, <1>2 DEF App!Refuses, App!TasksOpen, AppInv, AppTypes, Ending, Ends
  <2>2. Lost(r)
    BY <1>1, <2>1 DEF AppInv, Ending, Reachable
  <2> QED
    BY <1>2, <2>2, AbortApp DEF App!Decide, App!Fails, App!rooms, App!Running
<1>3. CASE ~App!Refuses
  BY <1>3, SameApp DEF App!Decide, App!life, App!rooms, App!history
<1> QED
  BY <1>2, <1>3

\* A room that is taken out of the registry or the hand is closed, and waits for
\* its session if that runs.
LEMMA CloseApp ==
  ASSUME AppInv, NEW r \in registry \union hand, NEW who \in {"handler", "cleanup", "main"},
         App!Close(r, who), registry' = registry \ {r}, hand' = hand \ {r},
         who = "handler" => web,
         who = "cleanup" => main \notin Ends,
         who = "main" => ~closed \/ aborting,
         UNCHANGED <<web, main, aborting, created, starting, sessions, cleanup, closed,
                     refused, abandoned>>
  PROVE  AppInv'
<1>1. /\ r \in Rooms /\ lives[r] \in {"lobby", "active"}
      /\ lives' = [lives EXCEPT ![r] = "closed"]
      /\ closers' = [closers EXCEPT ![r] = IF App!CloseWaits(r) THEN who ELSE @]
  BY DEF App!Close, AppInv, Registered
<1>2. AppTypes'
  BY <1>1 DEF AppInv, AppTypes
<1>3. Registered'
  BY <1>1 DEF AppInv, AppTypes, Registered, Runs
<1>4. Ending'
  BY <1>1 DEF AppInv, AppTypes, Ending, Runs
<1>5. ASSUME NEW s \in Rooms, Runs(s)' PROVE (Reachable(s) \/ Lost(s))'
  <2>1. CASE s = r
    BY <1>1, <1>5, <2>1 DEF AppInv, AppTypes, Registered, Runs, Reachable, App!CloseWaits
  <2>2. CASE s # r
    BY <1>1, <1>5, <2>2 DEF AppInv, AppTypes, Runs, Reachable, Lost
  <2> QED
    BY <2>1, <2>2
<1>6. SharedServicesLast'
  BY <1>1 DEF AppInv, AppTypes, SharedServicesLast, App!SharedServicesLast
<1> QED
  BY <1>2, <1>3, <1>4, <1>5, <1>6 DEF AppInv

LEMMA RequestApp ==
  ASSUME AppInv, NEW r \in Rooms, App!Request(r)
  PROVE  AppInv'
<1>1. CASE App!Ages(r) \/ App!SeatRequest(r)
  BY <1>1, SameApp DEF App!Ages, App!SeatRequest, App!life, App!ai, App!history
<1>2. CASE App!CreateGame(r)
  <2>1. /\ web /\ lives[r] = "none" /\ lives' = [lives EXCEPT ![r] = "lobby"]
        /\ registry' = registry \union {r} /\ created' = Append(created, r)
        /\ UNCHANGED <<web, main, aborting, starting, sessions, closers, hand, cleanup,
                       closed, refused, abandoned>>
    BY <1>2 DEF App!CreateGame, App!life, App!ai, App!history
  <2>2. created' \in Seq(Rooms) /\ \A s \in Rooms :
          (s = r \/ \E i \in DOMAIN created : created[i] = s) =>
             \E i \in DOMAIN created' : created'[i] = s
    <3>1. created \in Seq(Rooms) /\ DOMAIN created = 1..Len(created) /\ Len(created) \in Nat
      BY DEF AppInv, AppTypes
    <3>2. /\ created' \in Seq(Rooms) /\ DOMAIN created' = 1..(Len(created) + 1)
          /\ created'[Len(created) + 1] = r
          /\ \A i \in 1..Len(created) : created'[i] = created[i]
      BY <2>1, <3>1
    <3> QED
      BY <3>1, <3>2
  <2>3. AppTypes'
    BY <2>1, <2>2 DEF AppInv, AppTypes
  <2>4. Registered'
    <3>1. r \notin hand
      BY <2>1 DEF AppInv, Registered
    <3>2. ~Runs(r)
      BY <2>1 DEF AppInv, Registered
    <3> QED
      BY <2>1, <2>2, <3>1, <3>2 DEF AppInv, AppTypes, Registered, Runs
  <2>5. Ending'
    BY <2>1 DEF AppInv, Ending, Runs
  <2> QED
    BY <2>1, <2>3, <2>4, <2>5
    DEF AppInv, AppTypes, Runs, Reachable, Lost, SharedServicesLast, App!SharedServicesLast
<1>3. CASE App!WebsocketGame(r)
  <2>1. /\ web /\ r \in registry
        /\ \/ /\ main \in {"serving", "closing"} /\ ~aborting
              /\ sessions' = [sessions EXCEPT ![r] = "running"]
              /\ starting' = starting \union {r}
           \/ sessions' = [sessions EXCEPT ![r] = "unstarted"] /\ UNCHANGED starting
        /\ UNCHANGED <<web, main, aborting, registry, created, lives, closers, hand, cleanup,
                       closed, refused, abandoned>>
    BY <1>3 DEF App!WebsocketGame, App!TasksOpen, App!life, App!ai, App!history
  <2>2. AppTypes'
    BY <2>1 DEF AppInv, AppTypes
  <2>3. Registered'
    BY <2>1 DEF AppInv, AppTypes, Registered, Runs
  <2>4. Ending'
    BY <2>1 DEF AppInv, AppTypes, Ending, Ends, Runs
  <2> QED
    BY <2>1, <2>2, <2>3, <2>4
    DEF AppInv, AppTypes, Runs, Reachable, Lost, SharedServicesLast, App!SharedServicesLast
<1>4. CASE App!DeleteGame(r)
  <2> QED
    BY <1>4, CloseApp DEF App!DeleteGame, App!life, App!ai, App!history, AppInv, Registered
<1> QED
  BY <1>1, <1>2, <1>3, <1>4 DEF App!Request

LEMMA StartedApp ==
  ASSUME AppInv, NEW r \in Rooms, App!Started(r)
  PROVE  AppInv'
<1>1. /\ r \in starting /\ starting' = starting \ {r}
      /\ lives' = [lives EXCEPT ![r] = IF ~Runs(r) THEN lives[r]
                                       ELSE IF lives[r] = "closed" THEN "reopened"
                                       ELSE "active"]
      /\ UNCHANGED <<web, main, aborting, registry, created, sessions, closers, hand,
                     cleanup, closed, refused, abandoned>>
  BY DEF App!Started, App!life, App!ai, App!history, Runs, AppInv, AppTypes
<1>2. AppTypes'
  BY <1>1 DEF AppInv, AppTypes
<1>3. Registered'
  BY <1>1 DEF AppInv, AppTypes, Registered, Runs
<1>4. Ending'
  BY <1>1 DEF AppInv, Ending, Runs
<1>5. lives[r] # "reopened"
  BY <1>1 DEF AppInv, Registered
<1>6. \A s \in Rooms : Runs(s)' => Runs(s) /\ (Reachable(s) \/ Lost(s))'
  BY <1>1, <1>5 DEF AppInv, AppTypes, Runs, Reachable, Lost
<1>7. SharedServicesLast'
  BY <1>1, <1>5 DEF AppInv, AppTypes, SharedServicesLast, App!SharedServicesLast
<1> QED
  BY <1>1, <1>2, <1>3, <1>4, <1>6, <1>7 DEF AppInv

LEMMA CleanupApp ==
  ASSUME AppInv, App!Cleanup \/ App!CleanupCloses \/ App!CleanupSleeps
  PROVE  AppInv'
<1>1. main \notin Ends
  BY DEF App!Cleanup, App!CleanupCloses, App!CleanupSleeps, AppInv, Ending
<1>2. CASE App!Cleanup
  <2>1. /\ cleanup' = "closing" /\ hand' = registry \intersect idle 
        /\ registry' = registry \ idle
        /\ UNCHANGED <<web, main, aborting, created, lives, starting, sessions, closers,
                       closed, refused, abandoned>>
    BY <1>2 DEF App!Cleanup, App!Expired, App!life, App!ai, App!history
  <2>2. hand = {}
    BY <1>2 DEF App!Cleanup, AppInv, Registered
  <2>3. AppTypes' /\ Registered'
    BY <2>1 DEF AppInv, AppTypes, Registered, Runs
  <2>4. Ending'
    BY <1>1, <1>2, <2>1 DEF App!Cleanup, AppInv, Ending, Runs
  <2> QED
    BY <2>1, <2>2, <2>3, <2>4
    DEF AppInv, Runs, Reachable, Lost, SharedServicesLast, App!SharedServicesLast
<1>3. CASE App!CleanupCloses
  <2>1. App!Eldest(hand) \in hand
    BY <1>3, EldestIn DEF App!CleanupCloses
  <2> QED
    BY <1>1, <1>3, <2>1, CloseApp
    DEF App!CleanupCloses, App!life, App!ai, App!history, AppInv, Registered
<1>4. CASE App!CleanupSleeps
  <2>1. UNCHANGED <<web, main, aborting, registry, created, lives, starting, sessions,
                    closers, hand, closed, refused, abandoned>>
    BY <1>4 DEF App!CleanupSleeps, App!life, App!rooms, App!ai, App!history
  <2>2. AppTypes' /\ Registered' /\ Ending'
    BY <1>1, <1>4, <2>1
    DEF App!CleanupSleeps, AppInv, AppTypes, Registered, Ending, Runs
  <2> QED
    BY <2>1, <2>2
    DEF AppInv, Runs, Reachable, Lost, SharedServicesLast, App!SharedServicesLast
<1> QED
  BY <1>2, <1>3, <1>4

\* The end of the lifespan.
LEMMA LifespanApp ==
  ASSUME AppInv, App!Boot \/ App!Shutdown \/ App!Lifespan
  PROVE  AppInv'
<1>1. CASE App!Boot
  <2>1. /\ main = "off" /\ main' = "serving" /\ web' = TRUE /\ cleanup' = "asleep"
        /\ UNCHANGED <<aborting, registry, created, lives, starting, sessions, closers,
                       hand, closed, refused, abandoned>>
    BY <1>1 DEF App!Boot, App!rooms, App!ai, App!history
  <2>2. hand = {}
    BY <1>1 DEF App!Boot, AppInv, Registered, Ending
  <2>3. AppTypes' /\ Registered' /\ Ending'
    BY <2>1, <2>2 DEF AppInv, AppTypes, Registered, Ending, Ends, Runs
  <2> QED
    BY <2>1, <2>3 DEF AppInv, Ending, Runs, SharedServicesLast, App!SharedServicesLast
<1>2. CASE App!Shutdown
  <2>1. /\ web /\ web' = FALSE /\ starting = {} /\ \A r \in Rooms : closers[r] # "handler"
        /\ UNCHANGED <<main, aborting, registry, created, lives, starting, sessions, closers,
                       hand, cleanup, closed, refused, abandoned>>
    BY <1>2 DEF App!Shutdown, App!rooms, App!ai, App!history
  <2>2. AppTypes' /\ Registered' /\ Ending'
    BY <2>1 DEF AppInv, AppTypes, Registered, Ending, Runs
  <2> QED
    BY <2>1, <2>2
    DEF AppInv, Runs, Reachable, Lost, SharedServicesLast, App!SharedServicesLast
<1>3. CASE App!BeginClose
  <2>1. /\ main = "cancelled" \/ (main = "serving" /\ ~web)
        /\ main' = "closing" /\ cleanup' = "ended" /\ hand' = {}
        /\ closers' = [r \in Rooms |-> IF closers[r] = "cleanup" THEN "nobody" ELSE closers[r]]
        /\ abandoned' = (abandoned \union hand) \union {r \in Rooms : closers[r] = "cleanup"}
        /\ UNCHANGED <<web, aborting, registry, created, lives, starting, sessions, closed,
                       refused>>
    BY <1>3 DEF App!BeginClose, App!rooms, App!ai
  <2>2. AppTypes'
    BY <2>1 DEF AppInv, AppTypes, Ends
  <2>3. Registered'
    BY <2>1 DEF AppInv, Registered, Runs
  <2>4. Ending'
    BY <2>1, CloserAssumption DEF AppInv, AppTypes, Ending, Ends, Runs
  <2>5. \A r \in Rooms : Runs(r)' => (Reachable(r) \/ Lost(r))'
    BY <2>1 DEF AppInv, AppTypes, Registered, Runs, Reachable, Lost
  <2> QED
    BY <2>1, <2>2, <2>3, <2>4, <2>5
    DEF AppInv, SharedServicesLast, App!SharedServicesLast
<1>4. CASE App!CloseRoom
  <2>1. App!Eldest(registry) \in registry
    BY <1>4, EldestIn DEF App!CloseRoom
  <2>2. ~closed \/ aborting
    BY <1>4 DEF App!CloseRoom, AppInv, Ending
  <2> QED
    BY <1>4, <2>1, <2>2, CloseApp
    DEF App!CloseRoom, App!life, App!ai, App!history, AppInv, Registered
<1>5. CASE App!CloseRoomRaises
  <2> DEFINE r == App!Eldest(registry)
  <2>1. r \in registry /\ r \in Rooms
    BY <1>5, EldestIn DEF App!CloseRoomRaises, AppInv, Registered
  <2>2. /\ aborting' = TRUE /\ main' = "joining" /\ main = "closing"
        /\ lives' = [lives EXCEPT ![r] = "closed"] /\ registry' = registry \ {r}
        /\ sessions' = [s \in Rooms |-> IF Runs(s) THEN "cancelling" ELSE sessions[s]]
        /\ UNCHANGED <<web, created, starting, closers, hand, cleanup, closed, refused,
                       abandoned>>
    BY <1>5 DEF App!CloseRoomRaises, App!Running, App!history, Runs
  <2>3. \A s \in Rooms : ~Runs(s)'
    BY <2>2 DEF Runs
  <2>4. AppTypes'
    BY <2>1, <2>2 DEF AppInv, AppTypes, Ends
  <2>5. lives[r] # "reopened"
    BY <2>1 DEF AppInv, Registered
  <2>6. Registered' /\ Ending'
    BY <2>1, <2>2, <2>3 DEF AppInv, AppTypes, Registered, Ending, Ends
  <2>7. \A s \in Rooms : lives[s] = "reopened" => lives'[s] = "reopened"
    BY <2>1, <2>2, <2>5 DEF AppInv, AppTypes
  <2> HIDE DEF r
  <2> QED
    BY <2>2, <2>3, <2>4, <2>6, <2>7
    DEF AppInv, SharedServicesLast, App!SharedServicesLast
<1>6. CASE App!CloseService \/ App!Closed \/ App!Join
  <2>1. /\ UNCHANGED <<web, aborting, registry, created, lives, starting, sessions, closers,
                       hand, cleanup, refused, abandoned>>
        /\ \/ /\ main = "closing" /\ registry = {} /\ closed' = TRUE /\ UNCHANGED main
              /\ \A r \in Rooms : closers[r] # "main"
           \/ /\ closed /\ main = "closing" /\ main' = "joining" /\ UNCHANGED closed
           \/ /\ main = "joining" /\ main' = "stopped" /\ UNCHANGED closed
    BY <1>6 DEF App!CloseService, App!Closed, App!Join, App!RoomsClosed, App!MainWaits,
                App!life, App!rooms, App!ai, App!history
  <2>2. AppTypes' /\ Registered'
    BY <2>1 DEF AppInv, AppTypes, Registered, Ends, Runs
  <2>3. Ending'
    BY <2>1 DEF AppInv, AppTypes, Ending, Ends, Runs
  <2> QED
    BY <2>1, <2>2, <2>3
    DEF AppInv, Runs, Reachable, Lost, SharedServicesLast, App!SharedServicesLast
<1> QED
  BY <1>1, <1>2, <1>3, <1>4, <1>5, <1>6 DEF App!Lifespan

LEMMA StepApp ==
  ASSUME AppInv, [App!Next]_(App!vars)
  PROVE  AppInv'
<1>1. CASE UNCHANGED App!vars
  BY <1>1, SameApp DEF App!vars, App!life, App!rooms, App!ai, App!history
<1>2. CASE App!ListGames \/ App!Gather \/ App!Answer
  BY <1>2, SameApp DEF App!ListGames, App!Gather, App!Answer, App!life, App!rooms, App!ai,
                       App!history
<1>3. CASE App!DispatcherFails
  BY <1>3, AbortApp DEF App!DispatcherFails, App!rooms, App!Running
<1> QED
  BY <1>1, <1>2, <1>3, LifespanApp, CleanupApp, RequestApp, StartedApp, SessionApp, DecideApp
  DEF App!Next, App!Task, App!Loop

\* The shared services outlive the games: whatever fails, expires or is closed
\* while the server stops, a session that finds the inference runtime closed is
\* one that the cleanup loop had taken and left, or whose room was closed
\* during its start (web/state.py, ServerState.close).
THEOREM ServicesOutliveGames == ServerSpec => []SharedServicesLast
<1>1. ServerInit => AppInv
  BY InitApp DEF ServerInit
<1>2. AppInv /\ [ServerNext]_<<vars, appVars>> => AppInv'
  <2> SUFFICES ASSUME AppInv, [ServerNext]_<<vars, appVars>> PROVE AppInv'
    OBVIOUS
  <2>1. CASE UNCHANGED appVars
    BY <2>1, SameApp DEF appVars
  <2>2. CASE App!Next
    BY <2>2, StepApp
  <2> QED
    BY <2>1, <2>2 DEF ServerNext
<1>3. AppInv => SharedServicesLast
  BY DEF AppInv
<1> QED
  BY <1>1, <1>2, <1>3, PTL DEF ServerSpec
============================================================================
