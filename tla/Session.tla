------------------------------- MODULE Session -------------------------------
(***************************************************************************)
(* The runtime around one game (server/game_runtime/_session.py): a server *)
(* task that owns the game and consumes one mailbox, and a task per seat   *)
(* (player/_human.py, game_bots/_player.py) fed by a channel of one view.  *)
(*                                                                         *)
(* A step is what a task does from one point where it may suspend to the   *)
(* next.  The game itself is Table: who may move, and that legal commands  *)
(* turn it.                                                                *)
(***************************************************************************)
EXTENDS Naturals, Sequences, FiniteSets

CONSTANTS
  Order,     \* the seats in the order of SeatMap.items()
  Humans,    \* seats of HumanPlayers; BotPlayers have the others
  Flaky,     \* bots whose policy may answer DecisionUnavailable
  MaxSeq,    \* bound: the game is over once seq is MaxSeq
  MaxFrames  \* bound: frames sent by humans

Seats == {Order[i] : i \in DOMAIN Order}
Bots == Seats \ Humans

ASSUME SeatsAssumption ==
  /\ Order \in Seq(Nat) /\ Order # <<>>
  /\ \A i, j \in DOMAIN Order : Order[i] = Order[j] => i = j
ASSUME PlayersAssumption == Humans \subseteq Seats /\ Flaky \subseteq Bots
ASSUME BoundAssumption == MaxSeq \in Nat \ {0, 1} /\ MaxFrames \in Nat

VARIABLES
  game,         \* _state, as Table sees it
  seq,          \* _seq
  mailbox,      \* _messages
  sends,        \* the seats the handler in progress has still to send a view to
  error,        \* whether it sends them the error of a rejected command
  ready,        \* _ready_seats
  initialized,  \* _initialized_seats
  failure,      \* whether _failure is set
  task,         \* the root task: "running", "stopped" or "crashed"
  channel,      \* the queue of each seat, of at most one view
  pc,           \* where the task of each seat is
  view,         \* the view each seat took last
  settled,      \* bots that have posted player_initialized
  starter,      \* the call of start()
  closer,       \* the call of close()
  frames        \* frames the humans may still send

T == INSTANCE Table

serverVars == <<game, seq, sends, error, ready, initialized, failure, task>>
playerVars == <<pc, view, settled>>
callVars == <<starter, closer, frames>>
vars == <<serverVars, mailbox, channel, playerVars, callVars>>

Released == ready = Seats        \* all waiters of player_ready are completed
View == [seq : Nat, failed : BOOLEAN, error : BOOLEAN,
         action : {"next_round", "turn", "none"}]
NoView == [seq |-> 0, failed |-> FALSE, error |-> FALSE, action |-> "none"]
\* The view _send puts: the error of a failure displaces the one of a command.
CurrentView(s) == [seq |-> seq, failed |-> failure, error |-> error /\ ~failure,
                   action |-> T!Awaits(game, s)]

Kinds == {"ready", "initialized", "view", "command", "failure", "close"}
\* A message; a command carries the sequence it was decided on and whether it
\* confirms a round or moves in it.
Message(kind, s, q, action) == [kind |-> kind, seat |-> s, seq |-> q, action |-> action]
Note(kind, s) == Message(kind, s, 0, "none")
\* Slip: a command carries the sequence of now, not of its decision.
SubmissionOfNow(s, q, action) == Message("command", s, seq, action)
Submission(s, q, action) == Message("command", s, q, action)
---------------------------------------------------------------------------
(* The server task: _serve *)

\* Views are sent in the order of the seats; _send skips those not ready.
Place(s) == CHOOSE i \in DOMAIN Order : Order[i] = s
ToReady(seats) == seats \cap ready

\* An assertion failed: the root's TaskGroup cancels every player.
Crash ==
  /\ task' = "crashed" /\ sends' = {}
  /\ pc' = [s \in Seats |-> "ended"]
  /\ UNCHANGED <<game, seq, ready, initialized, failure, closer>>

ServeReady(m) ==
  IF m.seat \in ready THEN Crash
  ELSE /\ ready' = ready \cup {m.seat}
       /\ UNCHANGED <<game, seq, sends, initialized, failure, task, pc, closer>>

ServeInitialized(m) ==
  IF m.seat \notin ready \/ m.seat \in initialized THEN Crash
  ELSE /\ initialized' = initialized \cup {m.seat}
       /\ UNCHANGED <<game, seq, sends, ready, failure, task, pc, closer>>

ServeView(m) ==
  /\ sends' = ToReady({m.seat})
  /\ UNCHANGED <<game, seq, ready, initialized, failure, task, pc, closer>>

\* _receive: a failed game, a stale sequence and a rejected command are all
\* answered with the current view.  Cards and frames of humans may be illegal;
\* the command of a bot fits the state it was decided on.
Accepts(m) == ~failure /\ m.seq = seq /\ T!Awaits(game, m.seat) # "none"
              /\ T!Awaits(game, m.seat) = m.action
\* A command on the current state that does not move it is answered with the
\* reason, a stale one with no error.
Rejectable(m) == m.kind = "command" /\ ~failure /\ m.seq = seq
ServeCommand(m) ==
  \/ /\ Accepts(m)
     /\ game' \in IF seq + 1 < MaxSeq THEN T!Moves(game, m.seat) ELSE {T!Finished}
     /\ seq' = seq + 1
     /\ sends' = ToReady(Seats)
     /\ UNCHANGED <<ready, initialized, failure, task, pc, closer>>
  \/ /\ ~Accepts(m) \/ m.seat \in Humans
     /\ sends' = ToReady({m.seat})
     /\ UNCHANGED <<game, seq, ready, initialized, failure, task, pc, closer>>

\* _fail
ServeFailure(m) ==
  IF failure THEN Crash
  ELSE /\ failure' = TRUE
       /\ sends' = ToReady(Seats)
       /\ UNCHANGED <<game, seq, ready, initialized, task, pc, closer>>

\* Slip: the caller of close is never told.
ServeCloseUnanswered ==
  /\ task' = "stopped" /\ pc' = [s \in Seats |-> "ended"]
  /\ UNCHANGED <<game, seq, sends, ready, initialized, failure, closer>>
\* The future of close() is completed, _serve returns, the players are cancelled.
ServeClose ==
  /\ task' = "stopped" /\ closer' = "returned"
  /\ pc' = [s \in Seats |-> "ended"]
  /\ UNCHANGED <<game, seq, sends, ready, initialized, failure>>

Serve ==
  /\ task = "running" /\ sends = {} /\ mailbox # <<>>
  /\ mailbox' = Tail(mailbox)
  /\ LET m == Head(mailbox)
     IN /\ \/ m.kind = "ready" /\ ServeReady(m)
           \/ m.kind = "initialized" /\ ServeInitialized(m)
           \/ m.kind = "view" /\ ServeView(m)
           \/ m.kind = "command" /\ ServeCommand(m)
           \/ m.kind = "failure" /\ ServeFailure(m)
           \/ m.kind = "close" /\ ServeClose
        /\ error' = (Rejectable(m) /\ UNCHANGED seq)
  /\ UNCHANGED <<channel, view, settled, starter, frames>>

\* Slip: a view for a seat that left is dropped.
SendOrDrop(s) ==
  /\ task = "running" /\ s \in sends
  /\ \A r \in sends : Place(s) <= Place(r)
  /\ channel' = [channel EXCEPT ![s] = IF @ = <<>> THEN <<CurrentView(s)>> ELSE @]
  /\ sends' = sends \ {s}
  /\ error' = FALSE
  /\ UNCHANGED <<game, seq, ready, initialized, failure, task, mailbox,
                 playerVars, callVars>>
\* _send, to one seat after the other: the put waits while the channel of the
\* seat is full, and with it the server.  The state cannot change meanwhile:
\* only the server changes it.  An error goes to the one seat it concerns.
Send(s) ==
  /\ task = "running" /\ s \in sends
  /\ \A r \in sends : Place(s) <= Place(r)
  /\ channel[s] = <<>>
  /\ channel' = [channel EXCEPT ![s] = <<CurrentView(s)>>]
  /\ sends' = sends \ {s}
  /\ error' = FALSE
  /\ UNCHANGED <<game, seq, ready, initialized, failure, task, mailbox,
                 playerVars, callVars>>
---------------------------------------------------------------------------
(* The player tasks *)

Post(messages) == mailbox' = mailbox \o messages
Take(s) ==
  /\ pc[s] = "inbox" /\ channel[s] # <<>>
  /\ channel' = [channel EXCEPT ![s] = <<>>]
  /\ view' = [view EXCEPT ![s] = Head(channel[s])]

\* run: join the barrier.
Join(s) ==
  /\ pc[s] = "created"
  /\ Post(<<Note("ready", s)>>)
  /\ pc' = [pc EXCEPT ![s] = "barrier"]
  /\ UNCHANGED <<serverVars, channel, view, settled, callVars>>

\* player_ready returns: a human has nothing to settle, a bot asks for a view.
Leave(s) ==
  /\ pc[s] = "barrier" /\ Released
  /\ Post(<<IF s \in Humans THEN Note("initialized", s) ELSE Note("view", s)>>)
  /\ pc' = [pc EXCEPT ![s] = "inbox"]
  /\ UNCHANGED <<serverVars, channel, view, settled, callVars>>

\* A human's view goes to the transport, or nowhere without one.
HumanTake(s) ==
  /\ Take(s)
  /\ \/ UNCHANGED pc
     \/ starter = "returned" /\ pc' = [pc EXCEPT ![s] = "sending"]
  /\ UNCHANGED <<serverVars, mailbox, settled, callVars>>

HumanSent(s) ==
  /\ pc[s] = "sending"
  /\ pc' = [pc EXCEPT ![s] = "inbox"]
  /\ UNCHANGED <<serverVars, mailbox, channel, view, settled, callVars>>

\* HumanPlayer.receive, from a connected transport: sequence 0 asks for a view,
\* any other frame is submitted as it is.
HumanFrame(s) ==
  /\ starter = "returned" /\ pc[s] \in {"inbox", "sending"} /\ frames > 0
  /\ \E q \in 0..seq, action \in {"next_round", "turn"} :
       Post(<<IF q = 0 THEN Note("view", s) ELSE Submission(s, q, action)>>)
  /\ frames' = frames - 1
  /\ UNCHANGED <<serverVars, channel, playerVars, starter, closer>>

\* A bot settles on the first view that asks for no confirmation.
Settles(s, v) == s \notin settled /\ (v.failed \/ v.action # "next_round")

\* BotPlayer.run: confirm rounds at once, decide on everything else.
BotTake(s) ==
  /\ Take(s)
  /\ LET v == Head(channel[s])
     IN /\ settled' = IF Settles(s, v) THEN settled \cup {s} ELSE settled
        /\ Post((IF Settles(s, v) THEN <<Note("initialized", s)>> ELSE <<>>) \o
                (IF ~v.failed /\ v.action = "next_round"
                 THEN <<Submission(s, v.seq, v.action)>> ELSE <<>>))
        /\ pc' = IF ~v.failed /\ v.action = "turn"
                 THEN [pc EXCEPT ![s] = "deciding"] ELSE pc
  /\ UNCHANGED <<serverVars, callVars>>

\* The policy answers with a command, or is unavailable.
BotDecide(s) ==
  /\ pc[s] = "deciding"
  /\ \/ Post(<<Submission(s, view[s].seq, view[s].action)>>)
     \/ s \in Flaky /\ Post(<<Note("failure", s)>>)
  /\ pc' = [pc EXCEPT ![s] = "inbox"]
  /\ UNCHANGED <<serverVars, channel, view, settled, callVars>>
---------------------------------------------------------------------------
(* The callers: start() and close() *)

StartReturns ==
  /\ starter = "waiting"
  /\ \/ initialized = Seats /\ starter' = "returned"
     \/ task = "crashed" /\ starter' = "raised"
  /\ UNCHANGED <<serverVars, mailbox, channel, playerVars, closer, frames>>

\* close() posts its request behind everything else, unless the task is done.
Close ==
  /\ starter = "returned" /\ closer = "open"
  /\ IF task = "running"
     THEN closer' = "waiting" /\ Post(<<Message("close", Order[1], 0, "none")>>)
     ELSE closer' = "raised" /\ UNCHANGED mailbox
  /\ UNCHANGED <<serverVars, channel, playerVars, starter, frames>>
---------------------------------------------------------------------------
Init ==
  /\ game = T!Start /\ seq = 1
  /\ mailbox = <<>> /\ sends = {} /\ error = FALSE /\ ready = {} /\ initialized = {}
  /\ failure = FALSE /\ task = "running"
  /\ channel = [s \in Seats |-> <<>>]
  /\ pc = [s \in Seats |-> "created"] /\ view = [s \in Seats |-> NoView]
  /\ settled = {}
  /\ starter = "waiting" /\ closer = "open" /\ frames = MaxFrames

HumanStep(s) == HumanTake(s) \/ HumanSent(s)
BotStep(s) == BotTake(s) \/ BotDecide(s)
Player(s) ==
  \/ Join(s) \/ Leave(s)
  \/ s \in Humans /\ (HumanStep(s) \/ HumanFrame(s))
  \/ s \in Bots /\ BotStep(s)

Next ==
  \/ Serve
  \/ \E s \in Seats : Send(s) \/ Player(s)
  \/ StartReturns \/ Close

Spec == Init /\ [][Next]_vars

\* The event loop runs every task that can go on, and the transport of a human
\* takes or refuses a view in finite time; nothing is assumed of the frames.
Fairness ==
  /\ WF_vars(Serve) /\ WF_vars(\E s \in Seats : Send(s)) /\ WF_vars(StartReturns)
  /\ \A s \in Seats : WF_vars(Join(s)) /\ WF_vars(Leave(s))
  /\ \A s \in Humans : WF_vars(HumanTake(s)) /\ WF_vars(HumanSent(s))
  /\ \A s \in Bots : WF_vars(BotTake(s)) /\ WF_vars(BotDecide(s))

FairSpec == Spec /\ Fairness
---------------------------------------------------------------------------
(* Properties *)

TypeOK ==
  /\ game \in T!Games /\ seq \in Nat
  /\ mailbox \in Seq([kind : Kinds, seat : Seats, seq : Nat,
                      action : {"next_round", "turn", "none"}])
  /\ sends \subseteq Seats /\ ready \subseteq Seats
  /\ initialized \subseteq Seats /\ settled \subseteq Seats
  /\ failure \in BOOLEAN /\ error \in BOOLEAN /\ task \in {"running", "stopped", "crashed"}
  /\ channel \in [Seats -> Seq(View)]
  /\ \A s \in Seats : Len(channel[s]) <= 1
  /\ pc \in [Seats -> {"created", "barrier", "inbox", "sending", "deciding", "ended"}]
  /\ view \in [Seats -> View]
  /\ starter \in {"waiting", "returned", "raised"}
  /\ closer \in {"open", "waiting", "returned", "raised"}
  /\ frames \in Nat

\* No assertion of _serve or _fail fails: seats join and settle once, after
\* the barrier, and a failure is reported once.
NeverCrashes == task # "crashed"

\* A command a bot submitted under the current sequence fits the current game,
\* whatever was accepted, resent or broadcast since the bot saw it: the check
\* of the sequence in _receive is all a stale decision meets.
DecisionsFit ==
  \A i \in DOMAIN mailbox :
    LET m == mailbox[i]
    IN m.kind = "command" /\ m.seat \in Bots /\ m.seq = seq =>
         T!Awaits(game, m.seat) = m.action

\* Once nothing is under way every seat has seen the current state, and no bot
\* is awaited unless the game failed: no view that a bot must act on is lost.
Quiet ==
  /\ task = "running" /\ mailbox = <<>> /\ sends = {}
  /\ \A s \in Seats : channel[s] = <<>> /\ pc[s] = "inbox"
NobodyForgotten ==
  Quiet =>
    /\ \A s \in Seats : view[s].seq = seq
    /\ failure \/ \A s \in Bots : T!Awaits(game, s) = "none"

\* The first view of a seat shows the state the game starts with or, to one
\* that asked for no view before, the first to be broadcast.
FirstShown(w) == w.seq = 1 \/ (w.seq = 2 /\ ~w.failed)
\* The view after v shows the next state, or the same one again, now failed or
\* with another error; none comes after a failed one.
Follows(v, w) ==
  IF v = NoView THEN FirstShown(w)
  ELSE /\ ~v.failed
       /\ \/ w.seq = v.seq + 1 /\ ~w.failed /\ ~w.error
          \/ w.seq = v.seq /\ w.action = v.action

\* Every seat sees the states in order and skips none.  A state shown again
\* differs only in its status and, to a human whose command was rejected, in
\* the error: a bot gets nothing new under a sequence but the failure, as
\* RemoteAIController.observe demands.
ViewsContiguous ==
  [][\A s \in Seats : view'[s] # view[s] =>
       /\ Follows(view[s], view'[s])
       /\ view'[s].error => s \in Humans]_vars

\* start() comes back: the bots settle although no human can act before.
StartComesBack == <>(starter # "waiting")

\* A bot whose turn it is moves, or the game fails or is closed.
BotsMove ==
  \A s \in Bots, n \in 1..MaxSeq :
    seq = n /\ T!Awaits(game, s) # "none" ~> seq > n \/ failure \/ task # "running"

\* A failure ends the waiting of every seat: all get to see it.
FailureSeen ==
  failure ~> task # "running" \/ \A s \in Seats : view[s].failed

\* close() comes back, however many messages and blocked sends are before it,
\* unless the root crashes first: then nobody answers it any more.
CloseComesBack == closer = "waiting" ~> closer = "returned" \/ task = "crashed"
---------------------------------------------------------------------------
\* Decisions fit the game they are given to, and no assertion of the root
\* fails unless a bot has reported that it cannot decide.
DecisionsKept == DecisionsFit /\ (task = "crashed" => failure)

\* Every seat, human or bot, is shown every state from its first view on, in
\* order, the newest one at last, and none twice with other contents but for
\* the failure of the game and the error of a human's rejected command.
ViewsDelivered == [][NobodyForgotten']_vars /\ ViewsContiguous

\* Nobody waits for ever: bots move, a failure reaches every seat, and the two
\* calls that wait for the root, start and close, return.
NobodyWaitsForever ==
  BotsMove /\ FailureSeen /\ StartComesBack /\ CloseComesBack
=============================================================================
