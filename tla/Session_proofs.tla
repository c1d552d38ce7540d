---------------------------- MODULE Session_proofs ----------------------------
(***************************************************************************)
(* What holds of the session root and its players for any number of seats, *)
(* humans among them, states of the game and stray frames.                 *)
(***************************************************************************)
EXTENDS Session, SequenceTheorems, TLAPS

Messages == [kind : Kinds, seat : Seats, seq : Nat,
             action : {"next_round", "turn", "none"}]

---------------------------------------------------------------------------
(* The mailbox and the channels *)

LEMMA Mailbox ==
  ASSUME TypeOK
  PROVE  /\ mailbox \in Seq(Messages) /\ Len(mailbox) \in Nat
         /\ DOMAIN mailbox = 1..Len(mailbox)
         /\ \A i \in DOMAIN mailbox : mailbox[i] \in Messages
<1>1. mailbox \in Seq(Messages)
  BY DEF TypeOK, Messages
<1> QED
  BY <1>1, ElementOfSeq

\* Serving a message leaves the ones behind it, one place further on.
LEMMA Served ==
  ASSUME TypeOK, mailbox # <<>>, mailbox' = Tail(mailbox)
  PROVE  /\ 1 \in DOMAIN mailbox /\ Head(mailbox) = mailbox[1] /\ Head(mailbox) \in Messages
         /\ mailbox' \in Seq(Messages)
         /\ \A i \in DOMAIN mailbox' :
              i + 1 \in DOMAIN mailbox /\ i + 1 # 1 /\ mailbox'[i] = mailbox[i + 1]
         /\ \A i \in DOMAIN mailbox : i = 1 \/ \E j \in DOMAIN mailbox' : mailbox'[j] = mailbox[i]
<1>1. mailbox \in Seq(Messages) /\ Len(mailbox) \in Nat /\ DOMAIN mailbox = 1..Len(mailbox)
  BY Mailbox
<1>2. Len(mailbox) > 0
  BY <1>1
<1>3. /\ Tail(mailbox) \in Seq(Messages) /\ Len(Tail(mailbox)) = Len(mailbox) - 1
      /\ \A i \in 1..Len(Tail(mailbox)) : Tail(mailbox)[i] = mailbox[i + 1]
  BY <1>1, <1>2
<1>4. DOMAIN mailbox' = 1..(Len(mailbox) - 1)
  BY <1>3
<1>5. 1 \in DOMAIN mailbox /\ Head(mailbox) = mailbox[1] /\ mailbox[1] \in Messages
  BY <1>1, <1>2, Mailbox
<1>6. ASSUME NEW i \in DOMAIN mailbox, i # 1
      PROVE  \E j \in DOMAIN mailbox' : mailbox'[j] = mailbox[i]
  <2>1. i - 1 \in DOMAIN mailbox' /\ mailbox'[i - 1] = mailbox[i]
    BY <1>1, <1>3, <1>4, <1>6
  <2> QED
    BY <2>1
<1>7. ASSUME NEW i \in DOMAIN mailbox'
      PROVE  i + 1 \in DOMAIN mailbox /\ i + 1 # 1 /\ mailbox'[i] = mailbox[i + 1]
  BY <1>1, <1>3, <1>4, <1>7
<1> QED
  BY <1>3, <1>5, <1>6, <1>7

\* Posting leaves the messages where they are, and adds its own.
LEMMA Posted ==
  ASSUME TypeOK, NEW ms \in Seq(Messages), Post(ms)
  PROVE  /\ mailbox' \in Seq(Messages) /\ DOMAIN mailbox' = 1..(Len(mailbox) + Len(ms))
         /\ \A i \in DOMAIN mailbox : i \in DOMAIN mailbox' /\ mailbox'[i] = mailbox[i]
         /\ \A i \in DOMAIN mailbox' : i \in DOMAIN mailbox \/
              \E k \in DOMAIN ms : i = Len(mailbox) + k /\ mailbox'[i] = ms[k]
         /\ \A k \in DOMAIN ms : Len(mailbox) + k \in DOMAIN mailbox' \ DOMAIN mailbox
                                 /\ mailbox'[Len(mailbox) + k] = ms[k]
<1>1. mailbox \in Seq(Messages) /\ Len(mailbox) \in Nat /\ DOMAIN mailbox = 1..Len(mailbox)
      /\ Len(ms) \in Nat /\ DOMAIN ms = 1..Len(ms)
  BY Mailbox
<1>2. mailbox' = mailbox \o ms
  BY DEF Post
<1>3. /\ mailbox' \in Seq(Messages) /\ Len(mailbox') = Len(mailbox) + Len(ms)
      /\ \A i \in 1..(Len(mailbox) + Len(ms)) :
           mailbox'[i] = IF i <= Len(mailbox) THEN mailbox[i] ELSE ms[i - Len(mailbox)]
  BY <1>1, <1>2, ConcatProperties
<1>4. DOMAIN mailbox' = 1..(Len(mailbox) + Len(ms))
  BY <1>3
<1>5. ASSUME NEW i \in DOMAIN mailbox
      PROVE  i \in DOMAIN mailbox' /\ mailbox'[i] = mailbox[i]
  BY <1>1, <1>3, <1>4, <1>5
<1>6. ASSUME NEW k \in DOMAIN ms
      PROVE  /\ Len(mailbox) + k \in DOMAIN mailbox' \ DOMAIN mailbox
             /\ mailbox'[Len(mailbox) + k] = ms[k]
  BY <1>1, <1>3, <1>4, <1>6
<1>7. ASSUME NEW i \in DOMAIN mailbox', i \notin DOMAIN mailbox
      PROVE  \E k \in DOMAIN ms : i = Len(mailbox) + k /\ mailbox'[i] = ms[k]
  <2>1. i - Len(mailbox) \in DOMAIN ms /\ i = Len(mailbox) + (i - Len(mailbox))
    BY <1>1, <1>4, <1>7
  <2> QED
    BY <1>6, <2>1
<1> QED
  BY <1>3, <1>4, <1>5, <1>6, <1>7

\* One message.
LEMMA PostedOne ==
  ASSUME TypeOK, NEW m \in Messages, Post(<<m>>)
  PROVE  /\ mailbox' \in Seq(Messages)
         /\ \A i \in DOMAIN mailbox : i \in DOMAIN mailbox' /\ mailbox'[i] = mailbox[i]
         /\ \E k \in DOMAIN mailbox' \ DOMAIN mailbox :
              mailbox'[k] = m /\ DOMAIN mailbox' = DOMAIN mailbox \cup {k}
<1>1. <<m>> \in Seq(Messages) /\ DOMAIN <<m>> = {1} /\ <<m>>[1] = m /\ Len(<<m>>) = 1
  OBVIOUS
<1>2. Len(mailbox) \in Nat /\ DOMAIN mailbox = 1..Len(mailbox)
  BY Mailbox
<1>3. /\ mailbox' \in Seq(Messages) /\ DOMAIN mailbox' = 1..(Len(mailbox) + 1)
      /\ \A i \in DOMAIN mailbox : i \in DOMAIN mailbox' /\ mailbox'[i] = mailbox[i]
      /\ mailbox'[Len(mailbox) + 1] = m
  BY <1>1, Posted
<1>4. Len(mailbox) + 1 \in DOMAIN mailbox' \ DOMAIN mailbox
      /\ DOMAIN mailbox' = DOMAIN mailbox \cup {Len(mailbox) + 1}
  BY <1>2, <1>3
<1> QED
  BY <1>3, <1>4

\* What a seat that takes its view finds, and leaves.
LEMMA Taken ==
  ASSUME TypeOK, NEW s \in Seats, Take(s)
  PROVE  /\ pc[s] = "inbox" /\ channel[s] # <<>> /\ Head(channel[s]) = channel[s][1]
         /\ channel[s][1] \in View /\ view'[s] = channel[s][1] /\ channel'[s] = <<>>
         /\ \A r \in Seats \ {s} : channel'[r] = channel[r] /\ view'[r] = view[r]
         /\ channel' \in [Seats -> Seq(View)] /\ view' \in [Seats -> View]
         /\ \A r \in Seats : Len(channel'[r]) <= 1
<1>1. channel \in [Seats -> Seq(View)] /\ view \in [Seats -> View]
      /\ \A r \in Seats : Len(channel[r]) <= 1
  BY DEF TypeOK
<1>2. channel[s] \in Seq(View) /\ channel[s] # <<>>
  BY <1>1 DEF Take
<1>3. Head(channel[s]) = channel[s][1] /\ 1 \in 1..Len(channel[s])
  BY <1>2
<1>4. channel[s][1] \in View
  BY <1>2, <1>3, ElementOfSeq
<1> QED
  BY <1>1, <1>2, <1>3, <1>4 DEF Take

---------------------------------------------------------------------------
(* Types *)

LEMMA InitType == Init => TypeOK
<1> SUFFICES ASSUME Init PROVE TypeOK
  OBVIOUS
<1>1. T!Start \in T!Games
  BY DEF T!Start, T!Games
<1>2. NoView \in View
  BY DEF NoView, View
<1>3. /\ channel \in [Seats -> Seq(View)] /\ \A s \in Seats : Len(channel[s]) <= 1
      /\ view \in [Seats -> View]
      /\ pc \in [Seats -> {"created", "barrier", "inbox", "sending", "deciding", "ended"}]
  BY <1>2 DEF Init
<1>4. game \in T!Games /\ seq \in Nat /\ mailbox \in Seq(Messages)
      /\ sends \subseteq Seats /\ ready \subseteq Seats /\ initialized \subseteq Seats
      /\ settled \subseteq Seats
  BY <1>1 DEF Init
<1>5. failure \in BOOLEAN /\ error \in BOOLEAN /\ task \in {"running", "stopped", "crashed"}
      /\ starter \in {"waiting", "returned", "raised"}
      /\ closer \in {"open", "waiting", "returned", "raised"} /\ frames \in Nat
  BY BoundAssumption, Zenon DEF Init
<1> QED
  BY <1>3, <1>4, <1>5 DEF TypeOK, Messages

LEMMA MovesType ==
  ASSUME TypeOK, NEW s \in Seats, NEW g \in T!Moves(game, s) \cup {T!Finished}
  PROVE  g \in T!Games
<1>1. game \in T!Games
  BY DEF TypeOK
<1>2. T!Start \in T!Games /\ T!Finished \in T!Games /\ (\A t \in Seats : T!Turn(t) \in T!Games)
      /\ [action |-> "next_round", seats |-> game.seats \ {s}] \in T!Games
  BY <1>1 DEF T!Start, T!Finished, T!Turn, T!Games
<1>3. T!Awaits(game, s) \in {"next_round", "turn", "none"}
  BY <1>1 DEF T!Awaits, T!Games
<1> QED
  BY <1>2, <1>3 DEF T!Moves

LEMMA CurrentViewType ==
  ASSUME TypeOK, NEW s \in Seats
  PROVE  CurrentView(s) \in View
<1>1. T!Awaits(game, s) \in {"next_round", "turn", "none"}
  BY DEF TypeOK, T!Games, T!Awaits
<1> QED
  BY <1>1 DEF TypeOK, CurrentView, View

\* Only a command that did not move the game leaves an error.
LEMMA ErrorType == ASSUME Serve PROVE error' = (Rejectable(Head(mailbox)) /\ seq' = seq)
  BY DEF Serve

LEMMA ServeType == ASSUME TypeOK, Serve PROVE TypeOK'
<1>1. /\ Head(mailbox) \in Messages /\ mailbox' \in Seq(Messages)
      /\ UNCHANGED <<channel, view, settled, starter, frames>>
  BY Served DEF Serve
<1> DEFINE m == Head(mailbox)
<1>2. m.seat \in Seats
  BY <1>1 DEF Messages
<1> USE DEF ToReady
<1> HIDE DEF m
<1>0. error' \in BOOLEAN
  BY ErrorType
<1>3. CASE Crash
  BY <1>0, <1>1, <1>3 DEF Crash, TypeOK, Messages
<1>4. CASE ServeReady(m) /\ ~Crash
  BY <1>0, <1>1, <1>2, <1>4 DEF ServeReady, TypeOK, Messages
<1>5. CASE ServeInitialized(m) /\ ~Crash
  BY <1>0, <1>1, <1>2, <1>5 DEF ServeInitialized, TypeOK, Messages
<1>6. CASE ServeView(m)
  BY <1>0, <1>1, <1>2, <1>6 DEF ServeView, TypeOK, Messages
<1>7. CASE ServeCommand(m)
  <2>1. game' \in T!Games
    BY <1>2, <1>7, MovesType DEF ServeCommand, TypeOK
  <2>2. seq' \in Nat
    BY <1>7 DEF ServeCommand, TypeOK
  <2>3. sends' \subseteq Seats
        /\ UNCHANGED <<ready, initialized, failure, task, pc, closer>>
    BY <1>2, <1>7 DEF ServeCommand, TypeOK
  <2> QED
    BY <1>0, <1>1, <2>1, <2>2, <2>3 DEF TypeOK, Messages
<1>8. CASE ServeFailure(m) /\ ~Crash
  <2>1. failure' \in BOOLEAN /\ sends' \subseteq Seats
        /\ UNCHANGED <<game, seq, ready, initialized, task, pc, closer>>
    BY <1>8 DEF ServeFailure, TypeOK
  <2> QED
    BY <1>0, <1>1, <2>1 DEF TypeOK, Messages
<1>9. CASE ServeClose
  BY <1>0, <1>1, <1>9 DEF ServeClose, TypeOK, Messages
<1> QED
  BY <1>3, <1>4, <1>5, <1>6, <1>7, <1>8, <1>9 DEF Serve, m

LEMMA SendType == ASSUME TypeOK, NEW s \in Seats, Send(s) PROVE TypeOK'
<1>1. CurrentView(s) \in View
  BY CurrentViewType
<1>2. /\ channel' \in [Seats -> Seq(View)] /\ \A r \in Seats : Len(channel'[r]) <= 1
      /\ sends' \subseteq Seats
  BY <1>1 DEF Send, TypeOK
<1> QED
  BY <1>2 DEF Send, TypeOK, playerVars, callVars

LEMMA PlayerType == ASSUME TypeOK, NEW s \in Seats, Player(s) PROVE TypeOK'
<1> USE DEF serverVars, callVars
<1>0. view[s] \in View /\ view[s].seq \in Nat /\ view[s].action \in {"next_round", "turn", "none"}
  BY DEF TypeOK, View
<1>1. Note("ready", s) \in Messages /\ Note("initialized", s) \in Messages
      /\ Note("view", s) \in Messages /\ Note("failure", s) \in Messages
  BY DEF Note, Message, Messages, Kinds
<1>2. \A q \in Nat, a \in {"next_round", "turn", "none"} : Submission(s, q, a) \in Messages
  BY DEF Submission, Message, Messages, Kinds
<1>3. CASE Join(s)
  BY <1>1, <1>3, PostedOne DEF Join, TypeOK, Messages
<1>4. CASE Leave(s)
  BY <1>1, <1>4, PostedOne DEF Leave, TypeOK, Messages
<1>5. CASE HumanTake(s)
  BY <1>5, Taken DEF HumanTake, TypeOK
<1>6. CASE HumanSent(s)
  BY <1>6 DEF HumanSent, TypeOK
<1>7. CASE HumanFrame(s)
  <2>1. PICK q \in 0..seq, a \in {"next_round", "turn"} :
          Post(<<IF q = 0 THEN Note("view", s) ELSE Submission(s, q, a)>>)
    BY <1>7 DEF HumanFrame
  <2>2. (IF q = 0 THEN Note("view", s) ELSE Submission(s, q, a)) \in Messages
    BY <1>1, <1>2 DEF TypeOK
  <2>3. mailbox' \in Seq(Messages)
    BY <2>1, <2>2, PostedOne
  <2> QED
    BY <1>7, <2>3 DEF HumanFrame, TypeOK, Messages, playerVars
<1>8. CASE BotTake(s)
  <2> DEFINE v == Head(channel[s])
             ms == (IF Settles(s, v) THEN <<Note("initialized", s)>> ELSE <<>>) \o
                   (IF ~v.failed /\ v.action = "next_round"
                    THEN <<Submission(s, v.seq, v.action)>> ELSE <<>>)
  <2>1. v \in View /\ v.seq \in Nat /\ v.action \in {"next_round", "turn", "none"}
    BY <1>8, Taken DEF BotTake, View
  <2>2. Submission(s, v.seq, v.action) \in Messages
    BY <1>2, <2>1
  <2>3. ms \in Seq(Messages)
    BY <1>1, <2>2
  <2>4. Post(ms) /\ settled' \in {settled, settled \cup {s}}
        /\ pc' \in {pc, [pc EXCEPT ![s] = "deciding"]}
    BY <1>8, Zenon DEF BotTake
  <2> HIDE DEF ms
  <2>5. mailbox' \in Seq(Messages)
    BY <2>3, <2>4, Posted
  <2> QED
    BY <1>8, <2>4, <2>5, Taken DEF BotTake, TypeOK, Messages
<1>9. CASE BotDecide(s)
  <2>1. \E m \in Messages : Post(<<m>>)
    BY <1>0, <1>1, <1>2, <1>9 DEF BotDecide
  <2>2. mailbox' \in Seq(Messages)
    BY <2>1, PostedOne
  <2> QED
    BY <1>9, <2>2 DEF BotDecide, TypeOK, Messages
<1> QED
  BY <1>3, <1>4, <1>5, <1>6, <1>7, <1>8, <1>9 DEF Player, HumanStep, BotStep

LEMMA CallType == ASSUME TypeOK, StartReturns \/ Close PROVE TypeOK'
<1>1. CASE StartReturns
  BY <1>1 DEF StartReturns, TypeOK, serverVars, playerVars
<1>2. CASE Close
  <2>1. Message("close", Order[1], 0, "none") \in Messages
    <3>1. Order[1] \in Seats
      BY SeatsAssumption DEF Seats
    <3> QED
      BY <3>1 DEF Message, Messages, Kinds
  <2>2. mailbox' \in Seq(Messages)
    BY <1>2, <2>1, PostedOne, Mailbox DEF Close
  <2> QED
    BY <1>2, <2>2 DEF Close, TypeOK, Messages, serverVars, playerVars
<1> QED
  BY <1>1, <1>2

LEMMA StepType == ASSUME TypeOK, [Next]_vars PROVE TypeOK'
<1>1. CASE UNCHANGED vars
  BY <1>1 DEF vars, serverVars, playerVars, callVars, TypeOK
<1> QED
  BY <1>1, ServeType, SendType, PlayerType, CallType DEF Next

\* Whatever the players do, the session keeps to its types.
THEOREM SessionTypes == Spec => []TypeOK
  BY InitType, StepType, PTL DEF Spec
---------------------------------------------------------------------------
(* Seats join once and settle once.  A message of a seat that joins or     *)
(* settles is the only one of its kind, and it is in the mailbox only      *)
(* after the seat's task did its part and before the root took note: so    *)
(* the assertions of the root on these messages hold, and only a second    *)
(* report of a failure can crash it.                                       *)

Settled(s) ==
  IF s \in Humans THEN pc[s] \notin {"created", "barrier"} ELSE s \in settled
\* A message that may be in the mailbox.
Due(m) ==
  /\ m.kind = "ready" => m.seat \notin ready /\ pc[m.seat] # "created"
  /\ m.kind = "initialized" => m.seat \notin initialized /\ Settled(m.seat)
  /\ m.kind # "ready" => Released
Alike(m, n) == m.kind \in {"ready", "initialized"} /\ n.kind = m.kind /\ n.seat = m.seat

JoinedOnce ==
  /\ initialized \subseteq ready
  /\ starter = "returned" => Released
  /\ \A s \in ready : pc[s] # "created"
  /\ \A s \in initialized : Settled(s)
  /\ \A s \in Seats : pc[s] \in {"inbox", "sending", "deciding"} => Released
  /\ \A i \in DOMAIN mailbox : Due(mailbox[i])
  /\ \A i, j \in DOMAIN mailbox : Alike(mailbox[i], mailbox[j]) => i = j
  /\ task = "crashed" => failure

LEMMA InitJoined == Init => JoinedOnce
  BY SeatsAssumption DEF Init, JoinedOnce, Released, Seats

\* The messages left by a step of the root.
LEMMA ServedDue ==
  ASSUME TypeOK, JoinedOnce, Serve,
         ASSUME NEW n \in Messages, Due(n), ~Alike(Head(mailbox), n) PROVE Due(n)'
  PROVE  /\ \A i \in DOMAIN mailbox' : Due(mailbox[i])'
         /\ \A i, j \in DOMAIN mailbox' : Alike(mailbox'[i], mailbox'[j]) => i = j
<1>1. /\ 1 \in DOMAIN mailbox /\ Head(mailbox) = mailbox[1]
      /\ mailbox' \in Seq(Messages)
      /\ \A i \in DOMAIN mailbox' :
           i + 1 \in DOMAIN mailbox /\ i + 1 # 1 /\ mailbox'[i] = mailbox[i + 1]
  BY Served DEF Serve
<1>2. DOMAIN mailbox' \subseteq Nat
  BY <1>1, LenProperties
<1>3. ASSUME NEW i \in DOMAIN mailbox' PROVE Due(mailbox[i])'
  <2>1. /\ mailbox[i + 1] \in Messages /\ mailbox'[i] = mailbox[i + 1]
        /\ Due(mailbox[i + 1]) /\ ~Alike(Head(mailbox), mailbox[i + 1])
    BY <1>1, Mailbox DEF JoinedOnce
  <2> DEFINE n == mailbox[i + 1]
  <2>2. PICK k \in Messages : k = n /\ Due(k) /\ ~Alike(Head(mailbox), k)
    BY <2>1
  <2>3. Due(k)' /\ mailbox'[i] = k
    BY <2>1, <2>2
  <2> QED
    BY <2>3 DEF Due, Settled, Released
<1>4. ASSUME NEW i \in DOMAIN mailbox', NEW j \in DOMAIN mailbox',
             Alike(mailbox'[i], mailbox'[j])
      PROVE  i = j
  BY <1>1, <1>2, <1>4 DEF JoinedOnce
<1> QED
  BY <1>3, <1>4

LEMMA ServeJoined == ASSUME TypeOK, JoinedOnce, Serve PROVE JoinedOnce'
<1> DEFINE m == Head(mailbox)
<1>1. m \in Messages /\ Due(m) /\ m.seat \in Seats
      /\ UNCHANGED <<channel, view, settled, starter, frames>>
  BY Served DEF Serve, JoinedOnce, Messages
<1>2. pc \in [Seats -> {"created", "barrier", "inbox", "sending", "deciding", "ended"}]
      /\ ready \subseteq Seats
  BY DEF TypeOK
<1> HIDE DEF m
<1>3. CASE Crash /\ failure
  <2>1. pc' = [s \in Seats |-> "ended"] /\ failure' /\ ready' = ready /\ initialized' = initialized
    BY <1>3 DEF Crash
  <2>2. ASSUME NEW n \in Messages, Due(n) PROVE Due(n)'
    BY <1>1, <2>1, <2>2 DEF Due, Settled, Messages, Released
  <2>3. \A s \in initialized : Settled(s)'
    BY <1>1, <1>2, <2>1 DEF JoinedOnce, Settled
  <2>4. (\A i \in DOMAIN mailbox' : Due(mailbox[i])')
        /\ \A i, j \in DOMAIN mailbox' : Alike(mailbox'[i], mailbox'[j]) => i = j
    BY <2>2, ServedDue
  <2> QED
    BY <1>1, <1>2, <2>1, <2>3, <2>4 DEF JoinedOnce, Released
<1>4. CASE ServeReady(m) /\ m.kind = "ready"
  <2>1. m.seat \notin ready /\ pc[m.seat] # "created"
    BY <1>1, <1>4 DEF Due
  <2>2. ready' = ready \cup {m.seat} /\ UNCHANGED <<initialized, failure, task, pc>>
    BY <1>4, <2>1 DEF ServeReady
  <2>3. Released => Released'
    BY <1>1, <1>2, <2>2 DEF Released
  <2>4. ASSUME NEW n \in Messages, Due(n), ~Alike(m, n) PROVE Due(n)'
    BY <1>1, <1>4, <2>2, <2>3, <2>4 DEF Due, Settled, Alike
  <2>5. (\A i \in DOMAIN mailbox' : Due(mailbox[i])')
        /\ \A i, j \in DOMAIN mailbox' : Alike(mailbox'[i], mailbox'[j]) => i = j
    BY <2>4, ServedDue DEF m
  <2> QED
    BY <1>1, <2>1, <2>2, <2>3, <2>5 DEF JoinedOnce, Settled
<1>5. CASE ServeInitialized(m) /\ m.kind = "initialized"
  <2>1. m.seat \notin initialized /\ Settled(m.seat) /\ Released /\ m.seat \in ready
    BY <1>1, <1>5 DEF Due, Released
  <2>2. initialized' = initialized \cup {m.seat} /\ UNCHANGED <<ready, failure, task, pc>>
    BY <1>5, <2>1 DEF ServeInitialized
  <2>3. ASSUME NEW n \in Messages, Due(n), ~Alike(m, n) PROVE Due(n)'
    BY <1>1, <1>5, <2>2, <2>3 DEF Due, Settled, Alike, Released
  <2>4. (\A i \in DOMAIN mailbox' : Due(mailbox[i])')
        /\ \A i, j \in DOMAIN mailbox' : Alike(mailbox'[i], mailbox'[j]) => i = j
    BY <2>3, ServedDue DEF m
  <2> QED
    BY <1>1, <2>1, <2>2, <2>4 DEF JoinedOnce, Settled, Released
<1>6. CASE UNCHANGED <<ready, initialized, task, pc>> /\ (failure => failure')
  <2>1. ASSUME NEW n \in Messages, Due(n) PROVE Due(n)'
    BY <1>1, <1>6, <2>1 DEF Due, Settled, Released
  <2>2. (\A i \in DOMAIN mailbox' : Due(mailbox[i])')
        /\ \A i, j \in DOMAIN mailbox' : Alike(mailbox'[i], mailbox'[j]) => i = j
    BY <2>1, ServedDue
  <2> QED
    BY <1>1, <1>6, <2>2 DEF JoinedOnce, Settled, Released
<1>7. CASE ServeView(m) \/ ServeCommand(m) \/ (ServeFailure(m) /\ ~failure)
  BY <1>6, <1>7 DEF ServeView, ServeCommand, ServeFailure
<1>8. CASE ServeClose
  <2>1. /\ pc' = [s \in Seats |-> "ended"] /\ UNCHANGED <<ready, initialized, failure>>
        /\ task' = "stopped"
    BY <1>8 DEF ServeClose
  <2>2. ASSUME NEW n \in Messages, Due(n) PROVE Due(n)'
    BY <1>1, <2>1, <2>2 DEF Due, Settled, Messages, Released
  <2>3. \A s \in initialized : Settled(s)'
    BY <1>1, <1>2, <2>1 DEF JoinedOnce, Settled
  <2>4. (\A i \in DOMAIN mailbox' : Due(mailbox[i])')
        /\ \A i, j \in DOMAIN mailbox' : Alike(mailbox'[i], mailbox'[j]) => i = j
    BY <2>2, ServedDue
  <2> QED
    BY <1>1, <1>2, <2>1, <2>3, <2>4 DEF JoinedOnce, Released
<1> QED
  BY <1>3, <1>4, <1>5, <1>7, <1>8 DEF Serve, ServeFailure, m

\* A step of a player or a caller that posts nothing.
LEMMA SilentJoined ==
  ASSUME TypeOK, JoinedOnce, UNCHANGED <<ready, initialized, task, failure, mailbox, settled>>,
         starter' = "returned" => starter = "returned" \/ initialized = Seats,
         \A s \in Seats : pc'[s] = pc[s] \/ (pc[s] # "created" /\ pc[s] # "barrier"
                                             /\ pc'[s] # "created" /\ pc'[s] # "barrier"
                                             /\ Released)
  PROVE  JoinedOnce'
<1>1. ready \subseteq Seats /\ initialized \subseteq Seats
      /\ \A i \in DOMAIN mailbox : mailbox[i] \in Messages /\ mailbox[i].seat \in Seats
  BY Mailbox DEF TypeOK, Messages
<1>2. Released' <=> Released
  BY DEF Released
<1>3. \A i \in DOMAIN mailbox' : Due(mailbox[i])'
  BY <1>1, <1>2 DEF JoinedOnce, Due, Settled
<1>4. \A i, j \in DOMAIN mailbox' : Alike(mailbox'[i], mailbox'[j]) => i = j
  BY DEF JoinedOnce
<1>5. initialized = Seats => Released
  BY <1>1 DEF JoinedOnce, Released
<1>6. \A s \in initialized' : Settled(s)'
  BY <1>1 DEF JoinedOnce, Settled
<1>7. (\A s \in ready' : pc'[s] # "created")
      /\ \A s \in Seats : pc'[s] \in {"inbox", "sending", "deciding"} => Released'
  BY <1>1, <1>2 DEF JoinedOnce
<1> QED
  BY <1>2, <1>3, <1>4, <1>5, <1>6, <1>7 DEF JoinedOnce

\* A step of a seat that posts: what it posts is due, and nothing like it is
\* in the mailbox.
LEMMA PostJoined ==
  ASSUME TypeOK, JoinedOnce, NEW s \in Seats, NEW ms \in Seq(Messages), Post(ms),
         UNCHANGED <<ready, initialized, task, failure, starter>>,
         \A r \in Seats : pc'[r] = pc[r] \/ (r = s /\ pc'[s] # "created"),
         pc'[s] = "barrier" => pc[s] = "created",
         pc'[s] \in {"inbox", "sending", "deciding"} => Released,
         settled' \in {settled, settled \cup {s}},
         \A k \in DOMAIN ms : Due(ms[k])',
         \A k, l \in DOMAIN ms : Alike(ms[k], ms[l]) => k = l,
         \A k \in DOMAIN ms, i \in DOMAIN mailbox : ~Alike(ms[k], mailbox[i])
  PROVE  JoinedOnce'
<1>1. ready \subseteq Seats /\ initialized \subseteq Seats
      /\ \A i \in DOMAIN mailbox : mailbox[i] \in Messages /\ mailbox[i].seat \in Seats
  BY Mailbox DEF TypeOK, Messages
<1>2. Released' <=> Released
  BY DEF Released
<1>3. \A r \in Seats : Settled(r) => Settled(r)'
  BY DEF Settled
<1>4. /\ \A i \in DOMAIN mailbox : i \in DOMAIN mailbox' /\ mailbox'[i] = mailbox[i]
      /\ \A i \in DOMAIN mailbox' : i \in DOMAIN mailbox \/
           \E k \in DOMAIN ms : i = Len(mailbox) + k /\ mailbox'[i] = ms[k]
  BY Posted
<1>5. ASSUME NEW i \in DOMAIN mailbox PROVE Due(mailbox[i])'
  BY <1>1, <1>2, <1>3, <1>4, <1>5 DEF JoinedOnce, Due
<1>6. \A i \in DOMAIN mailbox' : Due(mailbox[i])'
  <2>1. SUFFICES ASSUME NEW k \in DOMAIN ms, NEW i, mailbox'[i] = ms[k] PROVE Due(mailbox[i])'
    BY <1>4, <1>5
  <2>2. Due(ms[k])'
    OBVIOUS
  <2> QED
    BY <2>1, <2>2 DEF Due, Settled
<1>7. ASSUME NEW i \in DOMAIN mailbox', NEW j \in DOMAIN mailbox',
             Alike(mailbox'[i], mailbox'[j])
      PROVE  i = j
  <2>1. CASE i \in DOMAIN mailbox /\ j \in DOMAIN mailbox
    BY <1>4, <1>7, <2>1 DEF JoinedOnce
  <2>2. CASE i \notin DOMAIN mailbox /\ j \in DOMAIN mailbox
    <3>1. PICK k \in DOMAIN ms : mailbox'[i] = ms[k]
      BY <1>4, <2>2
    <3> QED
      BY <1>4, <1>7, <2>2, <3>1
  <2>3. CASE i \in DOMAIN mailbox /\ j \notin DOMAIN mailbox
    <3>1. PICK k \in DOMAIN ms : mailbox'[j] = ms[k]
      BY <1>4, <2>3
    <3>2. Alike(mailbox'[j], mailbox'[i])
      BY <1>7 DEF Alike
    <3> QED
      BY <1>4, <2>3, <3>1, <3>2
  <2>4. CASE i \notin DOMAIN mailbox /\ j \notin DOMAIN mailbox
    <3>1. PICK k \in DOMAIN ms : i = Len(mailbox) + k /\ mailbox'[i] = ms[k]
      BY <1>4, <2>4
    <3>2. PICK l \in DOMAIN ms : j = Len(mailbox) + l /\ mailbox'[j] = ms[l]
      BY <1>4, <2>4
    <3> QED
      BY <1>7, <3>1, <3>2
  <2> QED
    BY <2>1, <2>2, <2>3, <2>4
<1>8. \A r \in initialized' : Settled(r)'
  BY <1>1, <1>3 DEF JoinedOnce
<1>9. (\A r \in ready' : pc'[r] # "created")
      /\ \A r \in Seats : pc'[r] \in {"inbox", "sending", "deciding"} => Released'
  BY <1>1, <1>2 DEF JoinedOnce
<1> QED
  BY <1>2, <1>6, <1>7, <1>8, <1>9 DEF JoinedOnce

LEMMA PlayerJoined == ASSUME TypeOK, JoinedOnce, NEW s \in Seats, Player(s) PROVE JoinedOnce'
<1> USE DEF serverVars, callVars
<1>0. pc \in [Seats -> {"created", "barrier", "inbox", "sending", "deciding", "ended"}]
      /\ \A i \in DOMAIN mailbox : mailbox[i] \in Messages /\ Due(mailbox[i])
  BY Mailbox DEF TypeOK, JoinedOnce
<1>1. Note("ready", s) \in Messages /\ Note("initialized", s) \in Messages
      /\ Note("view", s) \in Messages /\ Note("failure", s) \in Messages
  BY DEF Note, Message, Messages, Kinds
<1>2. \A q \in Nat, a \in {"next_round", "turn", "none"} : Submission(s, q, a) \in Messages
  BY DEF Submission, Message, Messages, Kinds
<1>3. /\ \A m \in Messages : <<m>> \in Seq(Messages) /\ DOMAIN <<m>> = {1} /\ <<m>>[1] = m
      /\ view[s].seq \in Nat /\ view[s].action \in {"next_round", "turn", "none"}
  BY DEF TypeOK, View
<1>4. CASE Join(s)
  <2> DEFINE m == Note("ready", s)
  <2>1. m.kind = "ready" /\ m.seat = s /\ m \in Messages
    BY <1>1 DEF Note, Message
  <2>2. pc[s] = "created" /\ pc'[s] = "barrier" /\ \A r \in Seats \ {s} : pc'[r] = pc[r]
    BY <1>0, <1>4 DEF Join
  <2>3. s \notin ready
    BY <2>2 DEF JoinedOnce
  <2>4. \A i \in DOMAIN mailbox : ~Alike(m, mailbox[i])
    BY <1>0, <2>1, <2>2 DEF Due, Alike
  <2>5. Due(m)'
    BY <1>4, <2>1, <2>2, <2>3 DEF Due, Join
  <2>6. Post(<<m>>) /\ UNCHANGED <<ready, initialized, task, failure, starter, settled>>
    BY <1>4 DEF Join
  <2> HIDE DEF m
  <2>7. <<m>> \in Seq(Messages) /\ DOMAIN <<m>> = {1} /\ <<m>>[1] = m
    BY <1>3, <2>1
  <2> QED
    BY <2>2, <2>4, <2>5, <2>6, <2>7, PostJoined
<1>5. CASE Leave(s)
  <2> DEFINE m == IF s \in Humans THEN Note("initialized", s) ELSE Note("view", s)
  <2>1. /\ m.kind = (IF s \in Humans THEN "initialized" ELSE "view") /\ m.seat = s
        /\ m \in Messages
    BY <1>1 DEF Note, Message
  <2>2. pc[s] = "barrier" /\ pc'[s] = "inbox" /\ (\A r \in Seats \ {s} : pc'[r] = pc[r])
        /\ Released
    BY <1>0, <1>5 DEF Leave
  <2>3. s \in Humans => s \notin initialized
    BY <2>2 DEF JoinedOnce, Settled
  <2>4. \A i \in DOMAIN mailbox : ~Alike(m, mailbox[i])
    BY <1>0, <2>1, <2>2 DEF Due, Alike, Settled
  <2>6. Post(<<m>>) /\ UNCHANGED <<ready, initialized, task, failure, starter, settled>>
    BY <1>5 DEF Leave
  <2> HIDE DEF m
  <2>5. Due(m)'
    BY <2>1, <2>2, <2>3, <2>6 DEF Due, Settled, Released
  <2>7. <<m>> \in Seq(Messages) /\ DOMAIN <<m>> = {1} /\ <<m>>[1] = m
    BY <1>3, <2>1
  <2> QED
    BY <2>2, <2>4, <2>5, <2>6, <2>7, PostJoined
<1>6. CASE HumanTake(s) \/ HumanSent(s)
  <2>1. pc[s] \in {"inbox", "sending"} /\ pc'[s] \in {"inbox", "sending"}
        /\ \A r \in Seats \ {s} : pc'[r] = pc[r]
    BY <1>0, <1>6 DEF HumanTake, Take, HumanSent
  <2>2. Released
    BY <2>1 DEF JoinedOnce
  <2>3. UNCHANGED <<ready, initialized, task, failure, mailbox, settled, starter>>
    BY <1>6 DEF HumanTake, HumanSent
  <2> QED
    BY <2>1, <2>2, <2>3, SilentJoined
<1>7. CASE HumanFrame(s)
  <2>1. PICK q \in 0..seq, a \in {"next_round", "turn"} :
          Post(<<IF q = 0 THEN Note("view", s) ELSE Submission(s, q, a)>>)
    BY <1>7 DEF HumanFrame
  <2> DEFINE m == IF q = 0 THEN Note("view", s) ELSE Submission(s, q, a)
  <2>2. m \in Messages /\ m.kind \in {"view", "command"}
    <3>1. q \in Nat
      BY DEF TypeOK
    <3>2. Submission(s, q, a) \in Messages /\ Submission(s, q, a).kind = "command"
          /\ Note("view", s).kind = "view"
      BY <1>2, <3>1 DEF Submission, Note, Message
    <3> QED
      BY <1>1, <3>2
  <2>3. UNCHANGED <<ready, initialized, task, failure, starter, settled, pc>> /\ Released
    BY <1>7 DEF HumanFrame, playerVars, JoinedOnce
  <2>4. Post(<<m>>)
    BY <2>1
  <2> HIDE DEF m
  <2>5. Due(m)' /\ \A i \in DOMAIN mailbox : ~Alike(m, mailbox[i])
    BY <2>2, <2>3 DEF Due, Alike, Released
  <2>6. <<m>> \in Seq(Messages) /\ DOMAIN <<m>> = {1} /\ <<m>>[1] = m
    BY <1>3, <2>2
  <2>7. pc'[s] = "barrier" => pc[s] = "created"
    BY <1>7, <2>3 DEF HumanFrame
  <2> QED
    BY <2>3, <2>4, <2>5, <2>6, <2>7, PostJoined, SilentJoined DEF HumanFrame, JoinedOnce
<1>8. CASE s \in Bots /\ BotTake(s)
  <2> DEFINE v == Head(channel[s])
             posts == (IF Settles(s, v) THEN <<Note("initialized", s)>> ELSE <<>>) \o
                      (IF ~v.failed /\ v.action = "next_round"
                       THEN <<Submission(s, v.seq, v.action)>> ELSE <<>>)
  <2>1. v.seq \in Nat /\ v.action \in {"next_round", "turn", "none"}
    BY <1>8, Taken DEF BotTake, View
  <2>2. PICK i1 \in Messages, c1 \in Messages :
          /\ i1 = Note("initialized", s) /\ i1.kind = "initialized" /\ i1.seat = s
          /\ c1 = Submission(s, v.seq, v.action) /\ c1.kind = "command"
    BY <1>1, <1>2, <2>1 DEF Note, Submission, Message
  <2>3. /\ Post(posts) /\ settled' = IF Settles(s, v) THEN settled \cup {s} ELSE settled
        /\ UNCHANGED <<ready, initialized, task, failure, starter>>
        /\ pc[s] = "inbox" /\ pc' \in {pc, [pc EXCEPT ![s] = "deciding"]}
    BY <1>8, Zenon DEF BotTake, Take
  <2>4. Released /\ Released'
    BY <2>3 DEF JoinedOnce, Released
  <2>5. Settles(s, v) => s \notin settled
    BY DEF Settles
  <2>6. s \notin Humans
    BY <1>8 DEF Bots
  <2>7. PICK ms \in Seq(Messages) :
        /\ ms = posts
        /\ \A k \in DOMAIN ms : (ms[k] = i1 /\ Settles(s, v)) \/ ms[k] = c1
        /\ \A k, l \in DOMAIN ms : ms[k] = i1 /\ ms[l] = i1 /\ i1 # c1 => k = l
    <3> HIDE DEF v
    <3>1. posts \in Seq(Messages)
      BY <2>2
    <3>2. /\ \A k \in DOMAIN posts : (posts[k] = i1 /\ Settles(s, v)) \/ posts[k] = c1
          /\ \A k, l \in DOMAIN posts : posts[k] = i1 /\ posts[l] = i1 /\ i1 # c1 => k = l
      BY <2>2
    <3> HIDE DEF posts
    <3> QED
      BY <3>1, <3>2
  <2> HIDE DEF posts, v
  <2>8. i1 # c1
    BY <2>2
  <2>9. Settles(s, v) => Due(i1)' /\ \A i \in DOMAIN mailbox : ~Alike(i1, mailbox[i])
    BY <1>0, <2>2, <2>3, <2>4, <2>5, <2>6 DEF Due, Alike, Settled, JoinedOnce
  <2>10. Due(c1)' /\ \A i \in DOMAIN mailbox : ~Alike(c1, mailbox[i])
    BY <2>2, <2>4 DEF Due, Alike
  <2>11. \A k \in DOMAIN ms : Due(ms[k])'
    <3>1. SUFFICES ASSUME NEW k \in DOMAIN ms PROVE Due(ms[k])'
      OBVIOUS
    <3>2. (ms[k] = i1 /\ Settles(s, v)) \/ ms[k] = c1
      BY <2>7
    <3> QED
      BY <2>9, <2>10, <3>2 DEF Due
  <2>12. \A k \in DOMAIN ms, i \in DOMAIN mailbox : ~Alike(ms[k], mailbox[i])
    BY <2>7, <2>9, <2>10
  <2>13. \A k, l \in DOMAIN ms : Alike(ms[k], ms[l]) => k = l
    BY <2>2, <2>7, <2>8 DEF Alike
  <2>14. /\ pc'[s] \in {"inbox", "deciding"} /\ \A r \in Seats \ {s} : pc'[r] = pc[r]
    BY <1>0, <2>3
  <2>15. Post(ms) /\ settled' \in {settled, settled \cup {s}}
    BY <2>3, <2>7
  <2> QED
    BY <2>3, <2>4, <2>11, <2>12, <2>13, <2>14, <2>15, PostJoined
<1>9. CASE BotDecide(s)
  <2>1. PICK m \in Messages : Post(<<m>>) /\ m.kind \in {"command", "failure"}
    <3>1. /\ Submission(s, view[s].seq, view[s].action) \in Messages
          /\ Submission(s, view[s].seq, view[s].action).kind = "command"
          /\ Note("failure", s).kind = "failure"
      BY <1>2, <1>3 DEF Submission, Note, Message
    <3> QED
      BY <1>1, <1>9, <3>1 DEF BotDecide
  <2>2. pc[s] = "deciding" /\ pc'[s] = "inbox" /\ (\A r \in Seats \ {s} : pc'[r] = pc[r])
        /\ UNCHANGED <<ready, initialized, task, failure, starter, settled>>
    BY <1>0, <1>9 DEF BotDecide
  <2>3. Released /\ Released'
    BY <2>2 DEF JoinedOnce, Released
  <2>4. Due(m)' /\ \A i \in DOMAIN mailbox : ~Alike(m, mailbox[i])
    BY <2>1, <2>3 DEF Due, Alike
  <2>5. <<m>> \in Seq(Messages) /\ DOMAIN <<m>> = {1} /\ <<m>>[1] = m
    BY <1>3
  <2> QED
    BY <2>1, <2>2, <2>3, <2>4, <2>5, PostJoined
<1> QED
  BY <1>4, <1>5, <1>6, <1>7, <1>8, <1>9 DEF Player, HumanStep, BotStep

LEMMA StepJoined == ASSUME TypeOK, JoinedOnce, [Next]_vars PROVE JoinedOnce'
<1>1. CASE UNCHANGED vars \/ StartReturns \/ \E s \in Seats : Send(s)
  <2>1. UNCHANGED <<ready, initialized, task, failure, mailbox, settled, pc>>
        /\ (starter' = "returned" => starter = "returned" \/ initialized = Seats)
    BY <1>1 DEF vars, serverVars, playerVars, callVars, StartReturns, Send
  <2> QED
    BY <2>1, SilentJoined
<1>2. CASE Close
  <2>1. UNCHANGED <<ready, initialized, task, failure, settled, pc, starter>>
    BY <1>2 DEF Close, serverVars, playerVars
  <2>2. CASE UNCHANGED mailbox
    BY <2>1, <2>2, SilentJoined
  <2>3. CASE Post(<<Message("close", Order[1], 0, "none")>>)
    <3> DEFINE m == Message("close", Order[1], 0, "none")
    <3>1. Order[1] \in Seats
      BY SeatsAssumption DEF Seats
    <3>2. m \in Messages /\ m.kind = "close"
      BY <3>1 DEF Message, Messages, Kinds
    <3>3. Released /\ Released'
      BY <1>2, <2>1 DEF Close, JoinedOnce, Released
    <3>4. Post(<<m>>)
      BY <2>3
    <3> HIDE DEF m
    <3>5. Due(m)' /\ \A i \in DOMAIN mailbox : ~Alike(m, mailbox[i])
      BY <3>2, <3>3 DEF Due, Alike
    <3>6. <<m>> \in Seq(Messages) /\ DOMAIN <<m>> = {1} /\ <<m>>[1] = m
      BY <3>2
    <3>7. PICK s \in Seats : TRUE
      BY <3>1
    <3>8. \A i \in DOMAIN mailbox : i \in DOMAIN mailbox' /\ mailbox'[i] = mailbox[i]
      BY <3>2, <3>4, PostedOne
    <3>9. PICK k \in DOMAIN mailbox' \ DOMAIN mailbox :
            mailbox'[k] = m /\ DOMAIN mailbox' = DOMAIN mailbox \cup {k}
      BY <3>2, <3>4, PostedOne
    <3>10. \A i \in DOMAIN mailbox' : Due(mailbox[i])'
      BY <2>1, <3>2, <3>3, <3>5, <3>8, <3>9 DEF JoinedOnce, Due, Settled
    <3>11. \A i, j \in DOMAIN mailbox' : Alike(mailbox'[i], mailbox'[j]) => i = j
      BY <3>2, <3>8, <3>9 DEF JoinedOnce, Alike
    <3> QED
      BY <2>1, <3>3, <3>10, <3>11 DEF JoinedOnce, Settled
  <2> QED
    BY <1>2, <2>2, <2>3 DEF Close
<1> QED
  BY <1>1, <1>2, ServeJoined, PlayerJoined DEF Next
---------------------------------------------------------------------------
(* A decision is taken on a view, travels with the sequence of that view,  *)
(* and the sequence names the state: every accepted command moves it on.   *)
(* So what a seat was shown under the current sequence is still true.      *)

Fits(s, q, action) == q <= seq /\ (q = seq => action = T!Awaits(game, s))
ViewFits(s, v) == Fits(s, v.seq, v.action)
StateNamed ==
  /\ seq > 0
  /\ \A s \in Bots : ViewFits(s, view[s]) /\ (channel[s] # <<>> => ViewFits(s, channel[s][1]))
  /\ \A i \in DOMAIN mailbox :
       mailbox[i].kind = "command" /\ mailbox[i].seat \in Bots =>
         Fits(mailbox[i].seat, mailbox[i].seq, mailbox[i].action)

LEMMA InitNamed == Init => StateNamed
  BY DEF Init, StateNamed, ViewFits, Fits, NoView, Bots

\* The state and its name change together.
Renamed == UNCHANGED <<game, seq>> \/ seq' = seq + 1
LEMMA FitsStill ==
  ASSUME TypeOK, Renamed, NEW s, NEW q \in Nat, NEW action, Fits(s, q, action)
  PROVE  Fits(s, q, action)'
<1>1. CASE UNCHANGED <<game, seq>>
  BY <1>1 DEF Fits, T!Awaits
<1>2. CASE seq' = seq + 1
  BY <1>2 DEF Fits, TypeOK
<1> QED
  BY <1>1, <1>2 DEF Renamed

LEMMA ServeRenamed == ASSUME TypeOK, Serve PROVE Renamed
  BY DEF Serve, ServeReady, ServeInitialized, ServeView, ServeCommand, ServeFailure, ServeClose,
     Crash, Renamed

LEMMA MessagesStill ==
  ASSUME TypeOK, StateNamed, Renamed, NEW i \in DOMAIN mailbox, NEW n, n = mailbox[i],
         n.kind = "command", n.seat \in Bots
  PROVE  Fits(n.seat, n.seq, n.action)'
<1>1. n.seq \in Nat /\ Fits(n.seat, n.seq, n.action)
  BY Mailbox DEF Messages, StateNamed
<1> QED
  BY <1>1, FitsStill

LEMMA ViewsStill ==
  ASSUME TypeOK, StateNamed, Renamed, NEW s \in Bots
  PROVE  /\ Fits(s, view[s].seq, view[s].action) /\ view[s].seq \in Nat
         /\ \A q \in Nat : \A a : q = view[s].seq /\ a = view[s].action => Fits(s, q, a)'
         /\ channel[s] # <<>> =>
              /\ channel[s][1].seq \in Nat
              /\ \A q \in Nat : \A a :
                   q = channel[s][1].seq /\ a = channel[s][1].action => Fits(s, q, a)'
<1>1. s \in Seats
  BY DEF Bots
<1>2. view[s] \in View /\ view[s].seq \in Nat
  BY <1>1 DEF TypeOK, View
<1>3. channel[s] # <<>> => channel[s][1] \in View
  <2>1. SUFFICES ASSUME channel[s] # <<>> PROVE channel[s][1] \in View
    OBVIOUS
  <2>2. channel[s] \in Seq(View)
    BY <1>1 DEF TypeOK
  <2>3. 1 \in 1..Len(channel[s])
    BY <2>1, <2>2
  <2> QED
    BY <2>2, <2>3, ElementOfSeq
<1>4. channel[s] # <<>> => channel[s][1].seq \in Nat
  BY <1>3 DEF View
<1>5. Fits(s, view[s].seq, view[s].action)
      /\ (channel[s] # <<>> => Fits(s, channel[s][1].seq, channel[s][1].action))
  BY DEF StateNamed, ViewFits
<1> QED
  BY <1>2, <1>4, <1>5, FitsStill

\* A step that takes messages away at most, and shows nothing new.
LEMMA OldNamed ==
  ASSUME TypeOK, StateNamed, Renamed, UNCHANGED <<channel, view>>,
         \A i \in DOMAIN mailbox' : \E j \in DOMAIN mailbox : mailbox'[i] = mailbox[j]
  PROVE  StateNamed'
<1>1. seq' > 0
  BY DEF StateNamed, Renamed, TypeOK
<1>2. ASSUME NEW s \in Bots
      PROVE  ViewFits(s, view[s])' /\ (channel[s] # <<>> => ViewFits(s, channel[s][1]))'
  BY ViewsStill DEF ViewFits, Fits
<1>3. ASSUME NEW i \in DOMAIN mailbox',
             mailbox'[i].kind = "command", mailbox'[i].seat \in Bots
      PROVE  Fits(mailbox[i].seat, mailbox[i].seq, mailbox[i].action)'
  <2>1. PICK j \in DOMAIN mailbox : mailbox'[i] = mailbox[j]
    OBVIOUS
  <2>2. PICK n : n = mailbox[j]
    OBVIOUS
  <2>3. Fits(n.seat, n.seq, n.action)'
    BY <1>3, <2>1, <2>2, MessagesStill
  <2> QED
    BY <2>1, <2>2, <2>3 DEF Fits
<1> QED
  BY <1>1, <1>2, <1>3 DEF StateNamed

LEMMA SendNamed == ASSUME TypeOK, StateNamed, NEW s \in Seats, Send(s) PROVE StateNamed'
<1>1. UNCHANGED <<game, seq, mailbox, view>> /\ channel' = [channel EXCEPT ![s] = <<CurrentView(s)>>]
  BY DEF Send, playerVars
<1>2. channel'[s] = <<CurrentView(s)>> /\ (\A r \in Seats \ {s} : channel'[r] = channel[r])
  BY <1>1 DEF TypeOK
<1>3. channel'[s][1].seq = seq /\ channel'[s][1].action = T!Awaits(game, s) /\ seq \in Nat
  BY <1>2 DEF CurrentView, TypeOK
<1>4. \A r, q, a : Fits(r, q, a)' <=> Fits(r, q, a)
  BY <1>1 DEF Fits, T!Awaits
<1>5. Fits(s, seq, T!Awaits(game, s))
  BY DEF Fits, TypeOK
<1>6. \A r \in Bots : ViewFits(r, view[r])' /\ (channel[r] # <<>> => ViewFits(r, channel[r][1]))'
  <2>1. SUFFICES ASSUME NEW r \in Bots
                 PROVE  /\ ViewFits(r, view[r])'
                        /\ channel'[r] # <<>> => ViewFits(r, channel[r][1])'
    OBVIOUS
  <2>2. r \in Seats
    BY DEF Bots
  <2>3. ViewFits(r, view[r])'
    BY <1>1 DEF StateNamed, ViewFits, Fits, T!Awaits
  <2>4. CASE r # s
    BY <1>1, <1>2, <2>2, <2>3, <2>4 DEF StateNamed, ViewFits, Fits, T!Awaits
  <2>5. CASE r = s
    BY <1>1, <1>2, <1>3, <1>5, <2>3, <2>5 DEF ViewFits, Fits, T!Awaits
  <2> QED
    BY <2>4, <2>5
<1> QED
  BY <1>1, <1>4, <1>6 DEF StateNamed, Fits, T!Awaits

\* A seat that takes a view and posts what fits.
LEMMA TakeNamed ==
  ASSUME TypeOK, StateNamed, UNCHANGED <<game, seq>>, NEW s \in Seats,
         Take(s) \/ UNCHANGED <<channel, view>>,
         \A i \in DOMAIN mailbox' :
           \/ \E j \in DOMAIN mailbox : mailbox'[i] = mailbox[j]
           \/ /\ mailbox'[i].kind = "command" /\ mailbox'[i].seat \in Bots
              => Fits(mailbox'[i].seat, mailbox'[i].seq, mailbox'[i].action)
  PROVE  StateNamed'
<1>1. \A r, q, a : Fits(r, q, a)' <=> Fits(r, q, a)
  BY DEF Fits, T!Awaits
<1>2. ASSUME NEW r \in Bots
      PROVE  ViewFits(r, view[r])' /\ (channel[r] # <<>> => ViewFits(r, channel[r][1]))'
  <2>1. r \in Seats
    BY DEF Bots
  <2>2. CASE UNCHANGED <<channel[r], view[r]>>
    BY <2>2 DEF StateNamed, ViewFits, Fits, T!Awaits
  <2>3. CASE Take(s) /\ r = s
    BY <2>3, Taken DEF StateNamed, ViewFits, Fits, T!Awaits
  <2> QED
    BY <2>1, <2>2, <2>3, Taken
<1>3. ASSUME NEW i \in DOMAIN mailbox',
             mailbox'[i].kind = "command", mailbox'[i].seat \in Bots
      PROVE  Fits(mailbox[i].seat, mailbox[i].seq, mailbox[i].action)'
  <2>1. Fits(mailbox'[i].seat, mailbox'[i].seq, mailbox'[i].action)
    BY <1>3 DEF StateNamed
  <2> QED
    BY <2>1 DEF Fits, T!Awaits
<1> QED
  BY <1>2, <1>3 DEF StateNamed

LEMMA PlayerNamed == ASSUME TypeOK, StateNamed, NEW s \in Seats, Player(s) PROVE StateNamed'
<1> USE DEF serverVars, callVars
<1>0. pc \in [Seats -> {"created", "barrier", "inbox", "sending", "deciding", "ended"}]
      /\ view[s].seq \in Nat /\ view[s].action \in {"next_round", "turn", "none"}
  BY DEF TypeOK, View
<1>1. Note("ready", s) \in Messages /\ Note("initialized", s) \in Messages
      /\ Note("view", s) \in Messages /\ Note("failure", s) \in Messages
      /\ \A k \in {"ready", "initialized", "view", "failure"} : Note(k, s).kind = k
  BY DEF Note, Message, Messages, Kinds
<1>2. \A q \in Nat, a \in {"next_round", "turn", "none"} :
        /\ Submission(s, q, a) \in Messages
        /\ Submission(s, q, a).seat = s /\ Submission(s, q, a).seq = q
        /\ Submission(s, q, a).action = a
  BY DEF Submission, Message, Messages, Kinds
\* A message that is no command, or a command that fits.
<1> DEFINE Fine(m) == m.kind = "command" /\ m.seat \in Bots => Fits(m.seat, m.seq, m.action)
<1>3. ASSUME NEW m \in Messages, Post(<<m>>), Fine(m)
      PROVE  \A i \in DOMAIN mailbox' :
               (\E j \in DOMAIN mailbox : mailbox'[i] = mailbox[j]) \/ Fine(mailbox'[i])
  <2>1. PICK k \in DOMAIN mailbox' \ DOMAIN mailbox :
          mailbox'[k] = m /\ DOMAIN mailbox' = DOMAIN mailbox \cup {k}
    BY <1>3, PostedOne
  <2>2. \A i \in DOMAIN mailbox : mailbox'[i] = mailbox[i]
    BY <1>3, PostedOne
  <2> QED
    BY <1>3, <2>1, <2>2
<1>4. CASE Join(s)
  BY <1>1, <1>3, <1>4, TakeNamed DEF Join
<1>5. CASE Leave(s)
  BY <1>1, <1>3, <1>5, TakeNamed DEF Leave
<1>6. CASE HumanTake(s) \/ HumanSent(s)
  BY <1>6, TakeNamed DEF HumanTake, HumanSent
<1>7. CASE s \in Humans /\ HumanFrame(s)
  <2>1. PICK q \in 0..seq, a \in {"next_round", "turn"} :
          Post(<<IF q = 0 THEN Note("view", s) ELSE Submission(s, q, a)>>)
    BY <1>7 DEF HumanFrame
  <2>2. q \in Nat
    BY DEF TypeOK
  <2>3. PICK m \in Messages : Post(<<m>>) /\ Fine(m)
    <3>1. s \notin Bots
      BY <1>7 DEF Bots
    <3>2. Submission(s, q, a) \in Messages /\ Submission(s, q, a).seat = s
          /\ Note("view", s) \in Messages /\ Note("view", s).kind = "view"
      BY <1>1, <1>2, <2>2
    <3>3. CASE q = 0
      BY <2>1, <3>2, <3>3
    <3>4. CASE q # 0
      BY <2>1, <3>1, <3>2, <3>4
    <3> QED
      BY <3>3, <3>4
  <2> QED
    BY <1>3, <1>7, <2>3, TakeNamed DEF HumanFrame, playerVars
<1>8. CASE s \in Bots /\ BotTake(s)
  <2> DEFINE v == Head(channel[s])
             posts == (IF Settles(s, v) THEN <<Note("initialized", s)>> ELSE <<>>) \o
                      (IF ~v.failed /\ v.action = "next_round"
                       THEN <<Submission(s, v.seq, v.action)>> ELSE <<>>)
  <2>1. v.seq \in Nat /\ v.action \in {"next_round", "turn", "none"} /\ channel[s] # <<>>
        /\ v = channel[s][1] /\ Take(s)
    BY <1>8, Taken DEF BotTake, View
  <2>2. PICK i1 \in Messages, c1 \in Messages :
          /\ i1 = Note("initialized", s) /\ i1.kind = "initialized"
          /\ c1 = Submission(s, v.seq, v.action) /\ c1.seat = s /\ c1.seq = v.seq
          /\ c1.action = v.action
    BY <1>1, <1>2, <2>1
  <2>3. Post(posts) /\ UNCHANGED <<game, seq>>
    BY <1>8, Zenon DEF BotTake
  <2>4. Fine(i1) /\ Fine(c1)
    BY <1>8, <2>1, <2>2 DEF StateNamed, ViewFits
  <2> HIDE DEF v, Fine
  <2>5. posts \in Seq(Messages) /\ \A k \in DOMAIN posts : posts[k] = i1 \/ posts[k] = c1
    BY <2>2
  <2> HIDE DEF posts
  <2>6. PICK ms \in Seq(Messages) : Post(ms) /\ \A k \in DOMAIN ms : Fine(ms[k])
    BY <2>3, <2>4, <2>5
  <2>7. \A i \in DOMAIN mailbox' :
          (\E j \in DOMAIN mailbox : mailbox'[i] = mailbox[j]) \/ Fine(mailbox'[i])
    BY <2>6, Posted
  <2> QED
    BY <2>1, <2>3, <2>7, TakeNamed DEF Fine
<1>9. CASE s \in Bots /\ BotDecide(s)
  <2>1. Fits(s, view[s].seq, view[s].action)
    BY <1>9 DEF StateNamed, ViewFits
  <2>2. PICK m \in Messages : Post(<<m>>) /\ Fine(m)
    <3>1. Submission(s, view[s].seq, view[s].action) \in Messages
          /\ Fine(Submission(s, view[s].seq, view[s].action))
      BY <1>0, <1>2, <2>1
    <3>2. Note("failure", s) \in Messages /\ Fine(Note("failure", s))
      BY <1>1
    <3> QED
      BY <1>9, <3>1, <3>2 DEF BotDecide
  <2> QED
    BY <1>3, <1>9, <2>2, TakeNamed DEF BotDecide
<1> QED
  BY <1>4, <1>5, <1>6, <1>7, <1>8, <1>9 DEF Player, HumanStep, BotStep

LEMMA StepNamed == ASSUME TypeOK, StateNamed, [Next]_vars PROVE StateNamed'
<1>1. CASE UNCHANGED vars \/ StartReturns
  BY <1>1, OldNamed DEF vars, serverVars, playerVars, callVars, StartReturns, Renamed
<1>2. CASE Serve
  <2>1. \A i \in DOMAIN mailbox' : \E j \in DOMAIN mailbox : mailbox'[i] = mailbox[j]
    BY <1>2, Served DEF Serve
  <2> QED
    BY <1>2, <2>1, ServeRenamed, OldNamed DEF Serve
<1>3. CASE Close
  <2>1. UNCHANGED <<game, seq, channel, view>>
    BY <1>3 DEF Close, serverVars, playerVars
  <2>2. Message("close", Order[1], 0, "none") \in Messages
        /\ Message("close", Order[1], 0, "none").kind = "close"
    BY SeatsAssumption DEF Message, Messages, Kinds, Seats
  <2>3. PICK s \in Seats : TRUE
    BY SeatsAssumption DEF Seats
  <2>4. \A i \in DOMAIN mailbox' :
          (\E j \in DOMAIN mailbox : mailbox'[i] = mailbox[j]) \/ mailbox'[i].kind = "close"
    <3>1. CASE UNCHANGED mailbox
      BY <3>1
    <3>2. CASE Post(<<Message("close", Order[1], 0, "none")>>)
      BY <2>2, <3>2, PostedOne
    <3> QED
      BY <1>3, <3>1, <3>2 DEF Close
  <2> QED
    BY <2>1, <2>3, <2>4, TakeNamed
<1> QED
  BY <1>1, <1>2, <1>3, SendNamed, PlayerNamed DEF Next

\* A decision of a bot meets the game it was made on or is told from it by its
\* sequence, whatever was accepted in between, and the root crashes only over
\* a failure that was reported before (_session.py, _receive and _fail).
THEOREM DecisionsHold == Spec => []DecisionsKept
<1> DEFINE Inv == TypeOK /\ JoinedOnce /\ StateNamed
<1>1. Init => Inv
  BY InitType, InitJoined, InitNamed
<1>2. Inv /\ [Next]_vars => Inv'
  BY StepType, StepJoined, StepNamed
<1>3. Inv => DecisionsKept
  BY Mailbox DEF DecisionsKept, DecisionsFit, StateNamed, JoinedOnce, Fits
<1> QED
  BY <1>1, <1>2, <1>3, PTL DEF Spec
---------------------------------------------------------------------------
(* The root sends every state to every seat before it takes the next       *)
(* message, and waits while a channel is full.  So the newest view a seat  *)
(* has is of the current state, or that state is the one after it and the  *)
(* root is about to send it; and a bot that was shown its turn is deciding *)
(* or has its command or its failure in the mailbox.                       *)

Newest(s) == IF channel[s] = <<>> THEN view[s] ELSE channel[s][1]
\* The same state: only the error of a rejected command may differ.
ShowsNow(v, s) ==
  /\ v.seq = seq /\ v.failed = failure /\ v.action = T!Awaits(game, s)
  /\ v.failed => ~v.error
Shown(s) ==
  /\ Newest(s) # NoView =>
       s \in ready /\ (ShowsNow(Newest(s), s) \/ (s \in sends /\ Follows(Newest(s), CurrentView(s))))
  /\ Newest(s) = NoView /\ s \in sends => FirstShown(CurrentView(s))
  /\ channel[s] # <<>> => view[s] = channel[s][1] \/ Follows(view[s], channel[s][1])
  /\ s \in Bots => ~Newest(s).error /\ ~view[s].error
InOrder ==
  /\ sends \subseteq ready /\ \A s \in Seats : Shown(s)
  /\ error => \A s \in sends : s \notin Bots
\* Bots are asked for what they submit.
BotsAsked ==
  /\ \A b \in Bots : pc[b] = "deciding" => view[b].action # "none"
  /\ \A i \in DOMAIN mailbox :
       mailbox[i].kind = "command" /\ mailbox[i].seat \in Bots => mailbox[i].action # "none"

\* The bot has an answer on its way.
Answering(b) ==
  \/ pc[b] = "deciding"
  \/ \E i \in DOMAIN mailbox : /\ mailbox[i].kind = "command"
                               /\ mailbox[i].seat = b /\ mailbox[i].seq = seq
  \/ \E i \in DOMAIN mailbox : mailbox[i].kind = "failure"
AsksForAView(b) ==
  \E i \in DOMAIN mailbox : mailbox[i].kind = "view" /\ mailbox[i].seat = b
Moved == seq > 1 \/ failure
NoneForgotten ==
  /\ seq > 0 /\ (~Moved => game = T!Start)
  /\ Moved => Released
  /\ Moved /\ task = "running" => \A s \in Seats : Newest(s) # NoView \/ s \in sends
  /\ task = "running" => \A b \in Bots :
       /\ pc[b] \in {"inbox", "deciding"} =>
            Newest(b) # NoView \/ b \in sends \/ AsksForAView(b)
       /\ ~failure /\ view[b].seq = seq /\ T!Awaits(game, b) # "none" => Answering(b)

LEMMA InitOrder == Init => InOrder /\ NoneForgotten /\ BotsAsked
<1> SUFFICES ASSUME Init PROVE InOrder /\ NoneForgotten /\ BotsAsked
  OBVIOUS
<1>1. /\ sends = {} /\ ready = {} /\ seq = 1 /\ ~failure /\ game = T!Start /\ mailbox = <<>>
      /\ ~error
      /\ \A s \in Seats : channel[s] = <<>> /\ view[s] = NoView /\ pc[s] = "created"
  BY DEF Init
<1>2. \A s \in Seats : Newest(s) = NoView /\ Shown(s) /\ view[s].seq # seq
  BY <1>1 DEF Newest, Shown, NoView
<1> QED
  BY <1>1, <1>2 DEF InOrder, NoneForgotten, BotsAsked, Moved, Bots

\* What a bot submits is what it was asked for.
LEMMA StepAsked ==
  ASSUME TypeOK, BotsAsked, [Next]_vars
  PROVE  BotsAsked'
<1> USE DEF serverVars, playerVars, callVars
<1>0. /\ \A b \in Bots : b \in Seats
      /\ pc \in [Seats -> {"created", "barrier", "inbox", "sending", "deciding", "ended"}]
  BY DEF Bots, TypeOK
<1> DEFINE Fine(m) == m.kind = "command" /\ m.seat \in Bots => m.action # "none"
<1>1. ASSUME \A i \in DOMAIN mailbox' :
               (\E j \in DOMAIN mailbox : mailbox'[i] = mailbox[j]) \/ Fine(mailbox'[i]),
             \A b \in Bots : pc'[b] = "deciding" =>
               (pc[b] = "deciding" /\ view'[b] = view[b]) \/ view'[b].action # "none"
      PROVE  BotsAsked'
  BY <1>1 DEF BotsAsked
<1>2. ASSUME NEW m \in Messages, Post(<<m>>), Fine(m)
      PROVE  \A i \in DOMAIN mailbox' :
               (\E j \in DOMAIN mailbox : mailbox'[i] = mailbox[j]) \/ Fine(mailbox'[i])
  <2>1. PICK k \in DOMAIN mailbox' \ DOMAIN mailbox :
          mailbox'[k] = m /\ DOMAIN mailbox' = DOMAIN mailbox \cup {k}
    BY <1>2, PostedOne
  <2>2. \A i \in DOMAIN mailbox : mailbox'[i] = mailbox[i]
    BY <1>2, PostedOne
  <2> QED
    BY <1>2, <2>1, <2>2
<1>3. CASE UNCHANGED vars \/ StartReturns \/ \E s \in Seats : Send(s)
  BY <1>1, <1>3 DEF vars, StartReturns, Send
<1>4. CASE Serve
  <2>1. \A i \in DOMAIN mailbox' : \E j \in DOMAIN mailbox : mailbox'[i] = mailbox[j]
    BY <1>4, Served DEF Serve
  <2>2. UNCHANGED view /\ (pc' = pc \/ pc' = [s \in Seats |-> "ended"])
    BY <1>4 DEF Serve, ServeReady, ServeInitialized, ServeView, ServeCommand, ServeFailure,
       ServeClose, Crash
  <2> QED
    BY <1>0, <1>1, <2>1, <2>2
<1>5. CASE Close
  <2>1. Message("close", Order[1], 0, "none") \in Messages
        /\ Fine(Message("close", Order[1], 0, "none"))
    BY SeatsAssumption DEF Message, Messages, Kinds, Seats
  <2>2. UNCHANGED <<pc, view>>
    BY <1>5 DEF Close
  <2>3. CASE UNCHANGED mailbox
    BY <1>1, <2>2, <2>3
  <2> QED
    BY <1>1, <1>2, <1>5, <2>1, <2>2, <2>3 DEF Close
<1>6. ASSUME NEW s \in Seats, Player(s) PROVE BotsAsked'
  <2>0. view[s].seq \in Nat /\ view[s].action \in {"next_round", "turn", "none"}
    BY DEF TypeOK, View
  <2>1. \A k \in {"ready", "initialized", "view", "failure"} :
          Note(k, s) \in Messages /\ Fine(Note(k, s))
    BY DEF Note, Message, Messages, Kinds
  <2>2. \A q \in Nat, a \in {"next_round", "turn", "none"} :
          /\ Submission(s, q, a) \in Messages
          /\ Submission(s, q, a).seat = s /\ Submission(s, q, a).action = a
    BY DEF Submission, Message, Messages, Kinds
  <2> HIDE DEF Fine
  <2>3. CASE Join(s)
    BY <1>0, <1>1, <1>2, <2>1, <2>3 DEF Join
  <2>4. CASE Leave(s)
    BY <1>0, <1>1, <1>2, <2>1, <2>4 DEF Leave
  <2>5. CASE s \in Humans /\ (HumanTake(s) \/ HumanSent(s))
    <3>1. /\ UNCHANGED mailbox
          /\ \A b \in Bots : pc'[b] = pc[b] /\ view'[b] = view[b]
      BY <1>0, <2>5, Taken DEF HumanTake, HumanSent, Bots
    <3> QED
      BY <1>1, <3>1
  <2>6. CASE s \in Humans /\ HumanFrame(s)
    <3>1. PICK q \in 0..seq, a \in {"next_round", "turn"} :
            Post(<<IF q = 0 THEN Note("view", s) ELSE Submission(s, q, a)>>)
      BY <2>6 DEF HumanFrame
    <3>2. q \in Nat /\ s \notin Bots
      BY <2>6 DEF TypeOK, Bots
    <3>3. Submission(s, q, a) \in Messages /\ Fine(Submission(s, q, a))
      BY <2>2, <3>2 DEF Fine
    <3>4. PICK m \in Messages : Post(<<m>>) /\ Fine(m)
      BY <2>1, <3>1, <3>3
    <3> QED
      BY <1>1, <1>2, <2>6, <3>4 DEF HumanFrame
  <2>7. CASE s \in Bots /\ BotTake(s)
    <3> DEFINE v == Head(channel[s])
               posts == (IF Settles(s, v) THEN <<Note("initialized", s)>> ELSE <<>>) \o
                        (IF ~v.failed /\ v.action = "next_round"
                         THEN <<Submission(s, v.seq, v.action)>> ELSE <<>>)
    <3>1. /\ v.seq \in Nat /\ v.action \in {"next_round", "turn", "none"}
          /\ view'[s] = v /\ \A r \in Seats \ {s} : view'[r] = view[r]
      BY <2>7, Taken DEF BotTake, View
    <3>2. PICK i1 \in Messages, c1 \in Messages :
            /\ i1 = Note("initialized", s) /\ Fine(i1)
            /\ c1 = Submission(s, v.seq, v.action) /\ c1.action = v.action
      BY <2>1, <2>2, <3>1
    <3>3. Post(posts) /\ pc' = (IF ~v.failed /\ v.action = "turn"
                                THEN [pc EXCEPT ![s] = "deciding"] ELSE pc) /\ pc[s] = "inbox"
      BY <2>7, Zenon DEF BotTake, Take
    <3> HIDE DEF v
    <3>4. posts \in Seq(Messages)
          /\ \A k \in DOMAIN posts : posts[k] = i1 \/ (posts[k] = c1 /\ v.action = "next_round")
      BY <3>2
    <3>5. v.action = "next_round" => Fine(c1)
      BY <3>2 DEF Fine
    <3> HIDE DEF posts
    <3>6. PICK ms \in Seq(Messages) : Post(ms) /\ \A k \in DOMAIN ms : Fine(ms[k])
      BY <3>2, <3>3, <3>4, <3>5
    <3>7. \A i \in DOMAIN mailbox' :
            (\E j \in DOMAIN mailbox : mailbox'[i] = mailbox[j]) \/ Fine(mailbox'[i])
      BY <3>6, Posted
    <3>8. \A b \in Bots : pc'[b] = "deciding" =>
            (pc[b] = "deciding" /\ view'[b] = view[b]) \/ view'[b].action # "none"
      BY <1>0, <3>1, <3>3
    <3> QED
      BY <1>1, <3>7, <3>8
  <2>8. CASE s \in Bots /\ BotDecide(s)
    <3>1. pc[s] = "deciding" /\ UNCHANGED view /\ pc' = [pc EXCEPT ![s] = "inbox"]
      BY <2>8 DEF BotDecide
    <3>2. Submission(s, view[s].seq, view[s].action) \in Messages
          /\ Fine(Submission(s, view[s].seq, view[s].action))
      BY <2>0, <2>2, <2>8, <3>1 DEF BotsAsked, Fine
    <3>3. PICK m \in Messages : Post(<<m>>) /\ Fine(m)
      BY <2>1, <2>8, <3>2 DEF BotDecide
    <3> QED
      BY <1>0, <1>1, <1>2, <3>1, <3>3
  <2> QED
    BY <1>6, <2>3, <2>4, <2>5, <2>6, <2>7, <2>8 DEF Player, HumanStep, BotStep
<1> QED
  BY <1>3, <1>4, <1>5, <1>6 DEF Next

\* A command of a bot is taken or out of date, and no error answers it.
LEMMA BotsTaken ==
  ASSUME TypeOK, StateNamed, BotsAsked, Serve, error'
  PROVE  Head(mailbox).seat \in Humans /\ sends' = ToReady({Head(mailbox).seat})
<1> DEFINE m == Head(mailbox)
<1>1. /\ 1 \in DOMAIN mailbox /\ m = mailbox[1] /\ m \in Messages /\ m.seat \in Seats
  BY Served DEF Serve, Messages
<1>2. Rejectable(m) /\ seq' = seq
  BY ErrorType
<1>3. m.kind = "command" /\ ~failure /\ m.seq = seq
  BY <1>2 DEF Rejectable
<1>4. m.seat \in Bots => Accepts(m)
  BY <1>1, <1>3 DEF StateNamed, BotsAsked, Fits, Accepts
<1> HIDE DEF m
<1>5. ServeCommand(m)
  BY <1>3 DEF Serve, m
<1>6. sends' = ToReady({m.seat}) /\ (~Accepts(m) \/ m.seat \in Humans)
  BY <1>2, <1>5 DEF ServeCommand, TypeOK
<1> QED
  BY <1>1, <1>4, <1>6 DEF Bots, m

\* Who is shown what does not change while state, channels and views do not.
LEMMA StillInOrder ==
  ASSUME InOrder, UNCHANGED <<game, seq, failure, error, channel, view, sends>>,
         ready \subseteq ready'
  PROVE  InOrder'
<1>1. \A s : CurrentView(s)' = CurrentView(s) /\ Newest(s)' = Newest(s)
             /\ T!Awaits(game, s)' = T!Awaits(game, s)
  BY DEF CurrentView, Newest, T!Awaits
<1>2. ASSUME NEW s \in Seats PROVE Shown(s)'
  <2>1. Shown(s)
    BY DEF InOrder
  <2> QED
    BY <1>1, <2>1 DEF Shown, ShowsNow, Follows, FirstShown
<1> QED
  BY <1>2 DEF InOrder

\* The root answers with the state as it is, or sends a new one to all.
LEMMA ServedInOrder ==
  ASSUME TypeOK, InOrder, NoneForgotten, task = "running", sends = {},
         UNCHANGED <<channel, view>>, ready \subseteq ready', sends' \subseteq ready',
         error' => \A s \in sends' : s \notin Bots,
         \/ UNCHANGED <<game, seq, failure>>
         \/ sends' = ready /\ ready' = ready /\ ~failure /\ ~error'
            /\ \/ seq' = seq + 1 /\ ~failure'
               \/ UNCHANGED <<game, seq>> /\ failure'
  PROVE  InOrder'
<1>1. ASSUME NEW s \in Seats PROVE Shown(s)'
  <2>1. Shown(s) /\ Newest(s)' = Newest(s)
    BY DEF InOrder, Newest
  <2>2. Newest(s) # NoView => s \in ready /\ ShowsNow(Newest(s), s)
    BY <2>1 DEF Shown
  <2>3. Newest(s) = NoView => seq = 1 /\ ~failure
    BY DEF NoneForgotten, Moved, TypeOK
  <2>4. /\ CurrentView(s)'.seq = seq' /\ CurrentView(s)'.failed = failure'
        /\ CurrentView(s)'.error = (error' /\ ~failure')
        /\ CurrentView(s)'.action = T!Awaits(game, s)'
    BY DEF CurrentView
  <2>5. Newest(s)' = NoView /\ s \in sends' => FirstShown(CurrentView(s))'
    BY <2>1, <2>3, <2>4 DEF FirstShown
  <2>6. ASSUME Newest(s) # NoView
        PROVE  /\ s \in ready'
               /\ \/ ShowsNow(Newest(s), s)'
                  \/ s \in sends' /\ Follows(Newest(s), CurrentView(s))'
    <3>1. CASE UNCHANGED <<game, seq, failure>>
      BY <2>1, <2>2, <2>6, <3>1 DEF ShowsNow, T!Awaits
    <3>2. CASE sends' = ready /\ ~failure /\ ~error' /\ seq' = seq + 1 /\ ~failure'
      BY <2>1, <2>2, <2>4, <2>6, <3>2 DEF ShowsNow, Follows
    <3>3. CASE sends' = ready /\ ~failure /\ UNCHANGED <<game, seq>>
      BY <2>1, <2>2, <2>4, <2>6, <3>3 DEF ShowsNow, Follows, T!Awaits
    <3> QED
      BY <3>1, <3>2, <3>3
  <2>7. channel'[s] # <<>> => (view[s] = channel[s][1] \/ Follows(view[s], channel[s][1]))'
    BY <2>1 DEF Shown, Follows, FirstShown
  <2>8. s \in Bots => ~Newest(s)'.error /\ ~view'[s].error
    BY <2>1 DEF Shown
  <2> QED
    BY <2>1, <2>5, <2>6, <2>7, <2>8 DEF Shown
<1> QED
  BY <1>1 DEF InOrder

LEMMA ServeOrder ==
  ASSUME TypeOK, StateNamed, BotsAsked, InOrder, NoneForgotten, Serve
  PROVE  InOrder'
<1>1. sends = {} /\ task = "running" /\ UNCHANGED <<channel, view>>
  BY DEF Serve
<1>2. ready \subseteq Seats
  BY DEF TypeOK
<1>3. error' => \A s \in sends' : s \notin Bots
  BY BotsTaken DEF Bots, ToReady
<1>4. error' => UNCHANGED seq /\ ~failure
  BY ErrorType DEF Rejectable
<1> DEFINE m == Head(mailbox)
<1>5. m.kind # "command" => ~error'
  BY ErrorType DEF Rejectable
<1> HIDE DEF m
<1>6. CASE UNCHANGED <<game, seq, failure>> /\ sends' \in {{}, ToReady({m.seat})}
           /\ ready \subseteq ready'
  BY <1>1, <1>3, <1>6, ServedInOrder DEF ToReady
<1>7. CASE Crash \/ ServeReady(m) \/ ServeInitialized(m) \/ ServeView(m) \/ ServeClose
  BY <1>1, <1>6, <1>7 DEF Crash, ServeReady, ServeInitialized, ServeView, ServeClose
<1>8. CASE ServeCommand(m)
  <2>1. CASE ~failure /\ seq' = seq + 1 /\ sends' = ToReady(Seats) /\ UNCHANGED <<ready, failure>>
    <3>1. ~error'
      BY <1>4, <2>1 DEF TypeOK
    <3> QED
      BY <1>1, <1>2, <2>1, <3>1, ServedInOrder DEF ToReady
  <2>2. CASE sends' = ToReady({m.seat}) /\ UNCHANGED <<game, seq, failure, ready>>
    BY <1>6, <2>2
  <2> QED
    BY <1>8, <2>1, <2>2 DEF ServeCommand, Accepts
<1>9. CASE m.kind = "failure" /\ ServeFailure(m) /\ ~failure
  BY <1>1, <1>2, <1>5, <1>9, ServedInOrder DEF ServeFailure, ToReady
<1> QED
  BY <1>7, <1>8, <1>9 DEF Serve, ServeFailure, m

LEMMA CurrentIsOne == ASSUME TypeOK, seq > 0, NEW s PROVE CurrentView(s) # NoView
  BY DEF CurrentView, NoView

LEMMA SendOrder ==
  ASSUME TypeOK, InOrder, seq > 0, NEW s \in Seats, Send(s)
  PROVE  /\ InOrder' /\ Newest(s)' # NoView
         /\ \A r \in Seats \ {s} : Newest(r)' = Newest(r)
<1>1. /\ UNCHANGED <<game, seq, failure, ready, view>> /\ error' = FALSE
      /\ channel' = [channel EXCEPT ![s] = <<CurrentView(s)>>]
      /\ sends' = sends \ {s} /\ channel[s] = <<>> /\ s \in sends
  BY DEF Send, playerVars
<1>2. channel'[s] = <<CurrentView(s)>> /\ (\A r \in Seats \ {s} : channel'[r] = channel[r])
  BY <1>1 DEF TypeOK
<1>3. \A r : /\ CurrentView(r)'.seq = CurrentView(r).seq
             /\ CurrentView(r)'.failed = CurrentView(r).failed
             /\ CurrentView(r)'.action = CurrentView(r).action
             /\ ~CurrentView(r)'.error
             /\ T!Awaits(game, r)' = T!Awaits(game, r)
  BY <1>1 DEF CurrentView, T!Awaits
<1>4. Newest(s)' = CurrentView(s) /\ (\A r \in Seats \ {s} : Newest(r)' = Newest(r))
  BY <1>1, <1>2 DEF Newest
<1>5. ASSUME NEW r \in Seats \ {s} PROVE Shown(r)'
  <2>1. Shown(r) /\ channel'[r] = channel[r] /\ (r \in sends' <=> r \in sends)
    BY <1>1, <1>2 DEF InOrder
  <2>2. Follows(Newest(r), CurrentView(r)) => Follows(Newest(r), CurrentView(r))'
    BY <1>3, <1>4 DEF Follows, FirstShown
  <2>3. FirstShown(CurrentView(r)) => FirstShown(CurrentView(r))'
    BY <1>3 DEF FirstShown
  <2>4. ShowsNow(Newest(r), r) => ShowsNow(Newest(r), r)'
    BY <1>1, <1>3, <1>4 DEF ShowsNow
  <2>5. channel'[r] # <<>> => (view[r] = channel[r][1] \/ Follows(view[r], channel[r][1]))'
    BY <1>1, <2>1 DEF Shown, Follows, FirstShown
  <2> QED
    BY <1>1, <1>4, <2>1, <2>2, <2>3, <2>4, <2>5 DEF Shown
<1>6. Shown(s)'
  <2>1. Newest(s) = view[s] /\ Shown(s) /\ s \in ready /\ (error => s \notin Bots)
    BY <1>1 DEF Newest, InOrder
  <2>2. /\ CurrentView(s).seq = seq /\ CurrentView(s).failed = failure
        /\ CurrentView(s).error = (error /\ ~failure)
        /\ CurrentView(s).action = T!Awaits(game, s)
    BY DEF CurrentView
  <2>3. view[s] = CurrentView(s) \/ Follows(view[s], CurrentView(s))
    <3>1. CASE view[s] = NoView
      BY <1>1, <2>1, <3>1 DEF Shown, Follows
    <3>2. CASE view[s] # NoView /\ ShowsNow(view[s], s) /\ ~failure
      BY <2>2, <3>2 DEF ShowsNow, Follows
    <3>3. CASE ShowsNow(view[s], s) /\ failure
      <4>1. view[s] \in View /\ CurrentView(s) \in View
        BY CurrentViewType DEF TypeOK
      <4>2. \A v, w \in View : /\ v.seq = w.seq /\ v.failed = w.failed
                              /\ v.action = w.action /\ ~v.error /\ ~w.error => v = w
        BY DEF View
      <4>3. ~view[s].error /\ ~CurrentView(s).error
        BY <2>2, <3>3 DEF ShowsNow
      <4>4. view[s] = CurrentView(s)
        BY <2>2, <3>3, <4>1, <4>2, <4>3 DEF ShowsNow
      <4> QED
        BY <4>4
    <3> QED
      BY <2>1, <3>1, <3>2, <3>3 DEF Shown, TypeOK
  <2>4. channel'[s][1] = CurrentView(s)
    BY <1>2
  <2>5. (view[s] = channel[s][1] \/ Follows(view[s], channel[s][1]))'
    BY <1>1, <2>3, <2>4 DEF Follows, FirstShown
  <2>6. ShowsNow(Newest(s), s)'
    BY <1>1, <1>3, <1>4, <2>2 DEF ShowsNow
  <2>7. s \in Bots => ~Newest(s)'.error /\ ~view'[s].error
    BY <1>1, <1>4, <2>1, <2>2 DEF Shown
  <2>8. s \notin sends' /\ s \in ready'
    BY <1>1, <2>1
  <2> QED
    BY <2>5, <2>6, <2>7, <2>8 DEF Shown
<1>7. CurrentView(s) # NoView
  BY CurrentIsOne
<1> QED
  BY <1>1, <1>4, <1>5, <1>6, <1>7 DEF InOrder

\* To take a view is to have it as the newest still.
LEMMA TakeOrder ==
  ASSUME TypeOK, InOrder, NEW s \in Seats, Take(s),
         UNCHANGED <<game, seq, failure, error, sends, ready>>
  PROVE  /\ InOrder' /\ \A r \in Seats : Newest(r)' = Newest(r)
         /\ view'[s] = Newest(s)
         /\ view'[s] = view[s] \/ Follows(view[s], view'[s])
         /\ s \in Bots => ~view'[s].error
<1>1. \A r : CurrentView(r)' = CurrentView(r) /\ T!Awaits(game, r)' = T!Awaits(game, r)
  BY DEF CurrentView, T!Awaits
<1>2. /\ view'[s] = channel[s][1] /\ channel'[s] = <<>> /\ channel[s] # <<>>
      /\ \A r \in Seats \ {s} : channel'[r] = channel[r] /\ view'[r] = view[r]
  BY Taken
<1>3. \A r \in Seats : Newest(r)' = Newest(r)
  BY <1>2 DEF Newest
<1>4. ASSUME NEW r \in Seats PROVE Shown(r)'
  <2>1. Shown(r) /\ Newest(r)' = Newest(r)
    BY <1>3 DEF InOrder
  <2>2. (Follows(Newest(r), CurrentView(r)) => Follows(Newest(r), CurrentView(r))')
        /\ (FirstShown(CurrentView(r)) => FirstShown(CurrentView(r))')
        /\ (ShowsNow(Newest(r), r) => ShowsNow(Newest(r), r)')
    BY <1>1, <2>1 DEF Follows, FirstShown, ShowsNow
  <2>3. channel'[r] # <<>> => (view[r] = channel[r][1] \/ Follows(view[r], channel[r][1]))'
    BY <1>2, <2>1 DEF Shown, Follows, FirstShown
  <2>4. r \in Bots => ~view'[r].error
    BY <1>2, <2>1 DEF Shown, Newest
  <2> QED
    BY <2>1, <2>2, <2>3, <2>4 DEF Shown
<1>5. Shown(s) /\ view'[s] = Newest(s)
  BY <1>2 DEF InOrder, Newest
<1> QED
  BY <1>2, <1>3, <1>4, <1>5 DEF InOrder, Shown

LEMMA PlayerTakes ==
  ASSUME TypeOK, NEW s \in Seats, Player(s)
  PROVE  /\ UNCHANGED <<game, seq, failure, error, sends, ready, task>>
         /\ Take(s) \/ UNCHANGED <<channel, view>>
<1> USE DEF serverVars, callVars, playerVars
<1>1. CASE Join(s) \/ Leave(s)
  BY <1>1 DEF Join, Leave
<1>2. CASE HumanTake(s) \/ HumanSent(s) \/ HumanFrame(s)
  BY <1>2 DEF HumanTake, HumanSent, HumanFrame
<1>3. CASE BotTake(s) \/ BotDecide(s)
  BY <1>3 DEF BotTake, BotDecide
<1> QED
  BY <1>1, <1>2, <1>3 DEF Player, HumanStep, BotStep

LEMMA StepOrder ==
  ASSUME TypeOK, StateNamed, BotsAsked, InOrder, NoneForgotten, [Next]_vars
  PROVE  /\ InOrder'
         /\ \A s \in Seats : view'[s] # view[s] =>
              /\ Follows(view[s], view'[s])
              /\ view'[s].error => s \in Humans
<1>1. CASE UNCHANGED vars \/ StartReturns \/ Close
  <2>1. UNCHANGED <<game, seq, failure, error, sends, ready, channel, view>>
    BY <1>1 DEF vars, serverVars, playerVars, callVars, StartReturns, Close
  <2>2. InOrder'
    BY <2>1, StillInOrder
  <2> QED
    BY <2>1, <2>2
<1>2. CASE Serve
  <2>1. UNCHANGED view
    BY <1>2 DEF Serve
  <2> QED
    BY <1>2, <2>1, ServeOrder
<1>3. ASSUME NEW s \in Seats, Send(s)
      PROVE  InOrder' /\ UNCHANGED view
  BY <1>3, SendOrder DEF StateNamed, Send, playerVars
<1>4. ASSUME NEW s \in Seats, Player(s)
      PROVE  /\ InOrder'
             /\ \A r \in Seats : view'[r] # view[r] =>
                  /\ Follows(view[r], view'[r])
                  /\ view'[r].error => r \in Humans
  <2>1. CASE Take(s)
    <3>1. \A r \in Seats \ {s} : view'[r] = view[r]
      BY <2>1, Taken
    <3> QED
      BY <1>4, <2>1, <3>1, PlayerTakes, TakeOrder DEF Bots
  <2>2. CASE UNCHANGED <<channel, view>>
    BY <1>4, <2>2, PlayerTakes, StillInOrder
  <2> QED
    BY <1>4, <2>1, <2>2, PlayerTakes
<1> QED
  BY <1>1, <1>2, <1>3, <1>4 DEF Next

\* Nobody is shown a failure that has not happened.
LEMMA ShownRunning ==
  ASSUME InOrder, ~failure, NEW s \in Seats, Newest(s) # NoView
  PROVE  ~Newest(s).failed
  BY DEF InOrder, Shown, ShowsNow, Follows

\* What keeps an answer, or a request for a view, on its way.
LEMMA StillAnswering ==
  ASSUME NEW b, UNCHANGED seq, pc[b] = "deciding" => pc'[b] = "deciding",
         \A i \in DOMAIN mailbox : \E j \in DOMAIN mailbox' : mailbox'[j] = mailbox[i]
  PROVE  (Answering(b) => Answering(b)') /\ (AsksForAView(b) => AsksForAView(b)')
<1>1. ASSUME Answering(b) PROVE Answering(b)'
  <2>1. CASE pc[b] = "deciding"
    BY <2>1 DEF Answering
  <2>2. CASE \E i \in DOMAIN mailbox : /\ mailbox[i].kind = "command"
                                       /\ mailbox[i].seat = b /\ mailbox[i].seq = seq
    BY <2>2 DEF Answering
  <2>3. CASE \E i \in DOMAIN mailbox : mailbox[i].kind = "failure"
    BY <2>3 DEF Answering
  <2> QED
    BY <1>1, <2>1, <2>2, <2>3 DEF Answering
<1>2. ASSUME AsksForAView(b) PROVE AsksForAView(b)'
  BY <1>2 DEF AsksForAView
<1> QED
  BY <1>1, <1>2

\* Steps that leave the state and its failure alone, take nothing from the
\* mailbox and change what one seat was shown or does.
LEMMA SameState ==
  ASSUME TypeOK, NoneForgotten, UNCHANGED <<game, seq, failure, task>>, ready \subseteq ready',
         Released => Released',
         \A s \in Seats : Newest(s) # NoView \/ s \in sends =>
           Newest(s)' # NoView \/ s \in sends',
         \A b \in Bots : pc'[b] \in {"inbox", "deciding"} =>
           \/ pc[b] \in {"inbox", "deciding"} /\ (AsksForAView(b) => AsksForAView(b)')
           \/ AsksForAView(b)',
         \A b \in Bots : ~failure /\ view'[b].seq = seq /\ T!Awaits(game, b) # "none" =>
           \/ Answering(b)'
           \/ view'[b] = view[b] /\ (Answering(b) => Answering(b)')
  PROVE  NoneForgotten'
<1>1. (\A b : T!Awaits(game, b)' = T!Awaits(game, b)) /\ Moved' = Moved
  BY DEF T!Awaits, Moved
<1>2. \A b \in Bots : b \in Seats
  BY DEF Bots
<1>3. ASSUME task' = "running", NEW b \in Bots, pc'[b] \in {"inbox", "deciding"}
      PROVE  Newest(b)' # NoView \/ b \in sends' \/ AsksForAView(b)'
  BY <1>2, <1>3 DEF NoneForgotten
<1>4. ASSUME task' = "running", NEW b \in Bots, ~failure', view'[b].seq = seq',
             T!Awaits(game, b)' # "none"
      PROVE  Answering(b)'
  <2>1. task = "running" /\ ~failure /\ view'[b].seq = seq /\ T!Awaits(game, b) # "none"
    BY <1>1, <1>4
  <2>2. CASE view'[b] = view[b] /\ (Answering(b) => Answering(b)')
    BY <2>1, <2>2 DEF NoneForgotten
  <2> QED
    BY <2>1, <2>2
<1>5. /\ seq' > 0 /\ (~Moved' => game' = T!Start) /\ (Moved' => Released')
  BY <1>1 DEF NoneForgotten
<1>6. Moved' /\ task' = "running" => \A s \in Seats : Newest(s)' # NoView \/ s \in sends'
  BY <1>1 DEF NoneForgotten
<1> QED
  BY <1>3, <1>4, <1>5, <1>6 DEF NoneForgotten

LEMMA PlayerForgotten ==
  ASSUME TypeOK, JoinedOnce, StateNamed, InOrder, NoneForgotten, NEW s \in Seats, Player(s)
  PROVE  NoneForgotten'
<1>0. /\ UNCHANGED <<game, seq, failure, error, sends, ready, task>>
      /\ Released' = Released
      /\ pc \in [Seats -> {"created", "barrier", "inbox", "sending", "deciding", "ended"}]
      /\ view[s].seq \in Nat /\ view[s].action \in {"next_round", "turn", "none"}
      /\ \A b \in Bots : b \in Seats
  BY PlayerTakes DEF TypeOK, View, Released, Bots
<1>1. \A r \in Seats : Newest(r)' = Newest(r)
  <2>1. CASE Take(s)
    BY <1>0, <2>1, TakeOrder
  <2>2. CASE UNCHANGED <<channel, view>>
    BY <2>2 DEF Newest
  <2> QED
    BY <2>1, <2>2, PlayerTakes
<1>2. Note("ready", s) \in Messages /\ Note("initialized", s) \in Messages
      /\ Note("view", s) \in Messages /\ Note("failure", s) \in Messages
      /\ \A k \in {"ready", "initialized", "view", "failure"} :
           Note(k, s).kind = k /\ Note(k, s).seat = s
  BY DEF Note, Message, Messages, Kinds
<1>3. \A q \in Nat, a \in {"next_round", "turn", "none"} :
        /\ Submission(s, q, a) \in Messages /\ Submission(s, q, a).kind = "command"
        /\ Submission(s, q, a).seat = s /\ Submission(s, q, a).seq = q
  BY DEF Submission, Message, Messages, Kinds
\* Everything that is posted stays.
<1>4. ASSUME NEW m \in Messages, Post(<<m>>)
      PROVE  /\ \A i \in DOMAIN mailbox : \E j \in DOMAIN mailbox' : mailbox'[j] = mailbox[i]
             /\ \E j \in DOMAIN mailbox' : mailbox'[j] = m
  BY <1>4, PostedOne
\* Other seats go on as they did, unless this one is a bot.
<1>5. ASSUME \A i \in DOMAIN mailbox : \E j \in DOMAIN mailbox' : mailbox'[j] = mailbox[i],
             \A r \in Seats \ {s} : pc'[r] = pc[r] /\ view'[r] = view[r],
             s \in Bots =>
               /\ pc'[s] \in {"inbox", "deciding"} =>
                    pc[s] \in {"inbox", "deciding"} \/ AsksForAView(s)'
               /\ ~failure /\ view'[s].seq = seq /\ T!Awaits(game, s) # "none" =>
                    \/ Answering(s)'
                    \/ view'[s] = view[s] /\ (pc[s] = "deciding" => pc'[s] = "deciding")
      PROVE  NoneForgotten'
  <2>1. \A b \in Bots : pc'[b] \in {"inbox", "deciding"} =>
          \/ pc[b] \in {"inbox", "deciding"} /\ (AsksForAView(b) => AsksForAView(b)')
          \/ AsksForAView(b)'
    <3>1. SUFFICES ASSUME NEW b \in Bots, pc'[b] \in {"inbox", "deciding"}
                   PROVE  \/ pc[b] \in {"inbox", "deciding"} /\ (AsksForAView(b) => AsksForAView(b)')
                          \/ AsksForAView(b)'
      OBVIOUS
    <3>2. AsksForAView(b) => AsksForAView(b)'
      BY <1>5 DEF AsksForAView
    <3> QED
      BY <1>0, <1>5, <3>1, <3>2
  <2>2. \A b \in Bots : ~failure /\ view'[b].seq = seq /\ T!Awaits(game, b) # "none" =>
          \/ Answering(b)'
          \/ view'[b] = view[b] /\ (Answering(b) => Answering(b)')
    <3>1. SUFFICES ASSUME NEW b \in Bots, ~failure, view'[b].seq = seq,
                          T!Awaits(game, b) # "none"
                   PROVE  \/ Answering(b)'
                          \/ view'[b] = view[b] /\ (Answering(b) => Answering(b)')
      OBVIOUS
    <3>2. b \in Seats
      BY <1>0
    <3>3. CASE pc[b] = "deciding" => pc'[b] = "deciding"
      <4>1. Answering(b) => Answering(b)'
        BY <1>0, <1>5, <3>3, StillAnswering
      <4>2. view'[b] = view[b] \/ (b = s /\ Answering(b)')
        BY <1>5, <3>1, <3>2
      <4> QED
        BY <4>1, <4>2
    <3>4. CASE ~(pc[b] = "deciding" => pc'[b] = "deciding")
      BY <1>5, <3>1, <3>2, <3>4
    <3> QED
      BY <3>3, <3>4
  <2> QED
    BY <1>0, <1>1, <2>1, <2>2, SameState
<1>6. CASE Join(s)
  <2>1. Post(<<Note("ready", s)>>) /\ UNCHANGED view /\ pc' = [pc EXCEPT ![s] = "barrier"]
        /\ pc[s] = "created"
    BY <1>6 DEF Join
  <2>2. pc'[s] = "barrier" /\ \A r \in Seats \ {s} : pc'[r] = pc[r]
    BY <1>0, <2>1
  <2> QED
    BY <1>2, <1>4, <1>5, <2>1, <2>2
<1>7. CASE Leave(s)
  <2>1. pc[s] = "barrier" /\ pc'[s] = "inbox" /\ UNCHANGED view
        /\ \A r \in Seats \ {s} : pc'[r] = pc[r]
    BY <1>0, <1>7 DEF Leave
  <2>2. PICK m \in Messages : Post(<<m>>) /\ (s \in Bots => m = Note("view", s))
    BY <1>2, <1>7 DEF Leave, Bots
  <2>3. s \in Bots => AsksForAView(s)'
    BY <1>2, <1>4, <2>2 DEF AsksForAView
  <2> QED
    BY <1>4, <1>5, <2>1, <2>2, <2>3
<1>8. CASE s \in Humans /\ (HumanTake(s) \/ HumanSent(s))
  <2>1. UNCHANGED mailbox /\ \A r \in Seats \ {s} : pc'[r] = pc[r] /\ view'[r] = view[r]
    BY <1>0, <1>8, Taken DEF HumanTake, HumanSent
  <2> QED
    BY <1>5, <1>8, <2>1 DEF Bots
<1>9. CASE s \in Humans /\ HumanFrame(s)
  <2>1. PICK q \in 0..seq, a \in {"next_round", "turn"} :
          Post(<<IF q = 0 THEN Note("view", s) ELSE Submission(s, q, a)>>)
    BY <1>9 DEF HumanFrame
  <2>2. q \in Nat
    BY DEF TypeOK
  <2>3. PICK m \in Messages : Post(<<m>>)
    BY <1>2, <1>3, <2>1, <2>2
  <2>4. UNCHANGED <<pc, view>>
    BY <1>9 DEF HumanFrame, playerVars
  <2> QED
    BY <1>4, <1>5, <1>9, <2>3, <2>4 DEF Bots
<1>10. CASE s \in Bots /\ BotTake(s)
  <2> DEFINE v == Head(channel[s])
             posts == (IF Settles(s, v) THEN <<Note("initialized", s)>> ELSE <<>>) \o
                      (IF ~v.failed /\ v.action = "next_round"
                       THEN <<Submission(s, v.seq, v.action)>> ELSE <<>>)
  <2>1. /\ v.seq \in Nat /\ v.action \in {"next_round", "turn", "none"} /\ pc[s] = "inbox"
        /\ view'[s] = v /\ \A r \in Seats \ {s} : view'[r] = view[r]
    BY <1>10, Taken DEF BotTake, View
  <2>2. PICK i1 \in Messages, c1 \in Messages :
          /\ i1 = Note("initialized", s) /\ c1 = Submission(s, v.seq, v.action)
          /\ c1.kind = "command" /\ c1.seat = s /\ c1.seq = v.seq
    BY <1>2, <1>3, <2>1
  <2>3. Post(posts) /\ pc' = (IF ~v.failed /\ v.action = "turn"
                              THEN [pc EXCEPT ![s] = "deciding"] ELSE pc)
    BY <1>10, Zenon DEF BotTake
  <2>4. /\ \A r \in Seats \ {s} : pc'[r] = pc[r]
        /\ ~v.failed /\ v.action = "turn" => pc'[s] = "deciding"
    BY <1>0, <2>3
  <2> HIDE DEF v
  <2>5. /\ posts \in Seq(Messages)
        /\ ~v.failed /\ v.action = "next_round" => \E k \in DOMAIN posts : posts[k] = c1
    <3>1. posts \in Seq(Messages)
      BY <2>2
    <3>2. ASSUME ~v.failed, v.action = "next_round"
          PROVE  \E k \in DOMAIN posts : posts[k] = c1
      <4>1. PICK ps : ps = posts
        OBVIOUS
      <4>2. ps = (IF Settles(s, v) THEN <<i1>> ELSE <<>>) \o <<c1>>
        BY <2>2, <3>2, <4>1
      <4>3. CASE Settles(s, v)
        <5>1. ps = <<i1>> \o <<c1>> /\ <<i1>> \in Seq(Messages) /\ <<c1>> \in Seq(Messages)
          BY <4>2, <4>3
        <5>2. Len(<<i1>>) = 1 /\ Len(<<c1>>) = 1 /\ <<c1>>[1] = c1
          OBVIOUS
        <5>3. 2 \in DOMAIN ps /\ ps[2] = c1
          BY <5>1, <5>2, ConcatProperties
        <5> QED
          BY <4>1, <5>3
      <4>4. CASE ~Settles(s, v)
        <5>1. ps = <<>> \o <<c1>> /\ <<c1>> \in Seq(Messages)
          BY <4>2, <4>4
        <5>2. 1 \in DOMAIN ps /\ ps[1] = c1
          BY <5>1
        <5> QED
          BY <4>1, <5>2
      <4> QED
        BY <4>3, <4>4
    <3> QED
      BY <3>1, <3>2
  <2> HIDE DEF posts
  <2>6. /\ \A i \in DOMAIN mailbox : \E j \in DOMAIN mailbox' : mailbox'[j] = mailbox[i]
        /\ ~v.failed /\ v.action = "next_round" => \E j \in DOMAIN mailbox' : mailbox'[j] = c1
    BY <2>3, <2>5, Posted
  <2>7. ASSUME ~failure, view'[s].seq = seq, T!Awaits(game, s) # "none"
        PROVE  Answering(s)'
    <3>1. v.seq = seq /\ ~v.failed /\ v.action = T!Awaits(game, s)
      <4>1. channel[s] # <<>> /\ v = channel[s][1] /\ v = Newest(s)
        BY <1>10, Taken DEF BotTake, Newest, v
      <4>2. v.seq = seq /\ v # NoView
        BY <2>1, <2>7 DEF StateNamed, NoView
      <4> QED
        BY <1>10, <2>7, <4>1, <4>2, ShownRunning DEF StateNamed, ViewFits, Fits
    <3>2. CASE v.action = "turn"
      BY <2>4, <3>1, <3>2 DEF Answering
    <3>3. CASE v.action = "next_round"
      BY <1>0, <2>2, <2>6, <3>1, <3>3 DEF Answering
    <3> QED
      BY <2>1, <2>7, <3>1, <3>2, <3>3
  <2> QED
    BY <1>5, <2>1, <2>4, <2>6, <2>7
<1>11. CASE s \in Bots /\ BotDecide(s)
  <2>1. pc[s] = "deciding" /\ UNCHANGED view /\ \A r \in Seats \ {s} : pc'[r] = pc[r]
    BY <1>0, <1>11 DEF BotDecide
  <2>2. PICK m \in Messages :
          /\ Post(<<m>>)
          /\ \/ m.kind = "command" /\ m.seat = s /\ m.seq = view[s].seq
             \/ m.kind = "failure"
    BY <1>0, <1>2, <1>3, <1>11 DEF BotDecide
  <2>3. view[s].seq = seq => Answering(s)'
    <3>1. \E j \in DOMAIN mailbox' : mailbox'[j] = m
      BY <1>4, <2>2
    <3> QED
      BY <1>0, <2>2, <3>1 DEF Answering
  <2> QED
    BY <1>4, <1>5, <2>1, <2>2, <2>3
<1> QED
  BY <1>6, <1>7, <1>8, <1>9, <1>10, <1>11 DEF Player, HumanStep, BotStep

LEMMA ServeForgotten ==
  ASSUME TypeOK, JoinedOnce, StateNamed, InOrder, NoneForgotten, Serve
  PROVE  NoneForgotten'
<1> DEFINE m == Head(mailbox)
<1>0. /\ sends = {} /\ task = "running" /\ UNCHANGED <<channel, view>>
      /\ \A b \in Bots : b \in Seats
      /\ ready \subseteq Seats
      /\ \A r : Newest(r)' = Newest(r)
  BY DEF Serve, Newest, Bots, TypeOK
<1>1. /\ 1 \in DOMAIN mailbox /\ m = mailbox[1] /\ m \in Messages /\ Due(m)
      /\ \A i \in DOMAIN mailbox :
           mailbox[i] = m \/ \E j \in DOMAIN mailbox' : mailbox'[j] = mailbox[i]
  BY Served DEF Serve, JoinedOnce
<1>2. m.seat \in Seats /\ m.kind \in Kinds
  BY <1>1 DEF Messages
<1>3. m.kind = "command" /\ m.seat \in Bots => Fits(m.seat, m.seq, m.action)
  BY <1>1 DEF StateNamed
<1> HIDE DEF m
<1>4. CASE task' # "running"
  <2>1. UNCHANGED <<game, seq, failure, ready>>
    BY <1>1, <1>4 DEF Serve, ServeReady, ServeInitialized, ServeView, ServeCommand, ServeFailure,
       ServeClose, Crash
  <2> QED
    BY <1>4, <2>1 DEF NoneForgotten, Moved, Released
\* The state is a new one, and sent to everybody.
<1>5. CASE UNCHANGED <<ready, task, pc>> /\ sends' = ready /\ Released
           /\ (seq' = seq + 1 \/ failure')
           /\ (seq' = seq + 1 \/ UNCHANGED <<game, seq>>)
  <2>1. \A b \in Bots : b \in sends'
    BY <1>0, <1>5 DEF Released
  <2>2. Released' /\ Moved' /\ seq' > 0
    BY <1>5 DEF Released, Moved, NoneForgotten, TypeOK
  <2>3. ASSUME NEW b \in Bots, ~failure' PROVE view'[b].seq # seq'
    <3>1. seq' = seq + 1 /\ view'[b] = view[b] /\ view[b].seq <= seq
      BY <1>0, <1>5, <2>3 DEF StateNamed, ViewFits, Fits
    <3> QED
      BY <1>0, <3>1 DEF TypeOK, View
  <2>4. \A s \in Seats : s \in sends'
    BY <1>5 DEF Released
  <2> QED
    BY <2>1, <2>2, <2>3, <2>4 DEF NoneForgotten
\* The state is the old one.
<1>6. ASSUME UNCHANGED <<game, seq, failure, task, pc>>, ready \subseteq ready', ready' \subseteq Seats,
             m.kind = "view" /\ m.seat \in Bots => m.seat \in sends',
             m.kind # "failure" \/ failure,
             m.kind = "command" /\ m.seat \in Bots /\ m.seq = seq => failure \/ T!Awaits(game, m.seat) = "none"
      PROVE  NoneForgotten'
  <2>1. Released => Released'
    BY <1>6 DEF Released
  <2>2. \A b : T!Awaits(game, b)' = T!Awaits(game, b)
    BY <1>6 DEF T!Awaits
  <2>3. ASSUME NEW b \in Bots, pc'[b] \in {"inbox", "deciding"}
        PROVE  Newest(b)' # NoView \/ b \in sends' \/ AsksForAView(b)'
    <3>1. Newest(b) # NoView \/ AsksForAView(b)
      BY <1>0, <1>6, <2>3 DEF NoneForgotten
    <3>2. CASE AsksForAView(b)
      <4>1. PICK i \in DOMAIN mailbox : mailbox[i].kind = "view" /\ mailbox[i].seat = b
        BY <3>2 DEF AsksForAView
      <4> QED
        BY <1>1, <1>6, <4>1 DEF AsksForAView
    <3> QED
      BY <1>0, <3>1, <3>2
  <2>4. ASSUME NEW b \in Bots, ~failure', view'[b].seq = seq', T!Awaits(game, b)' # "none"
        PROVE  Answering(b)'
    <3>1. ~failure /\ view[b].seq = seq /\ T!Awaits(game, b) # "none" /\ Answering(b)
      BY <1>0, <1>6, <2>2, <2>4 DEF NoneForgotten
    <3>2. CASE pc[b] = "deciding"
      BY <1>6, <3>2 DEF Answering
    <3>3. CASE \E i \in DOMAIN mailbox : /\ mailbox[i].kind = "command"
                                         /\ mailbox[i].seat = b /\ mailbox[i].seq = seq
      BY <1>1, <1>6, <3>1, <3>3 DEF Answering
    <3>4. CASE \E i \in DOMAIN mailbox : mailbox[i].kind = "failure"
      BY <1>1, <1>6, <3>1, <3>4 DEF Answering
    <3> QED
      BY <3>1, <3>2, <3>3, <3>4 DEF Answering
  <2>5. /\ seq' > 0 /\ (~Moved' => game' = T!Start) /\ (Moved' => Released')
        /\ (Moved' => \A s \in Seats : Newest(s)' # NoView \/ s \in sends')
    BY <1>0, <1>6, <2>1 DEF NoneForgotten, Moved
  <2> QED
    BY <2>3, <2>4, <2>5 DEF NoneForgotten
<1>7. CASE m.kind = "ready" /\ ServeReady(m) /\ ~Crash
  BY <1>0, <1>2, <1>6, <1>7 DEF ServeReady
<1>8. CASE m.kind = "initialized" /\ ServeInitialized(m) /\ ~Crash
  BY <1>0, <1>6, <1>8 DEF ServeInitialized
<1>9. CASE m.kind = "view" /\ ServeView(m)
  <2>1. Released
    BY <1>1, <1>9 DEF Due
  <2>2. m.seat \in sends'
    BY <1>2, <1>9, <2>1 DEF ServeView, ToReady, Released
  <2> QED
    BY <1>0, <1>6, <1>9, <2>2 DEF ServeView
<1>10. CASE m.kind = "command" /\ ServeCommand(m)
  <2>1. Released
    BY <1>1, <1>10 DEF Due
  <2>2. CASE seq' = seq + 1 /\ sends' = ToReady(Seats)
             /\ UNCHANGED <<ready, initialized, failure, task, pc, closer>>
    BY <1>0, <1>5, <2>1, <2>2 DEF ToReady
  <2>3. CASE /\ ~Accepts(m) \/ m.seat \in Humans
             /\ UNCHANGED <<game, seq, ready, initialized, failure, task, pc, closer>>
    <3>1. m.seat \in Bots /\ m.seq = seq => failure \/ T!Awaits(game, m.seat) = "none"
      BY <1>3, <1>10, <2>3 DEF Fits, Accepts, Bots
    <3> QED
      BY <1>0, <1>6, <1>10, <2>3, <3>1
  <2> QED
    BY <1>10, <2>2, <2>3 DEF ServeCommand
<1>11. CASE m.kind = "failure" /\ ServeFailure(m) /\ ~Crash
  <2>1. Released
    BY <1>1, <1>11 DEF Due
  <2> QED
    BY <1>0, <1>5, <1>11, <2>1 DEF ServeFailure, ToReady
<1>12. CASE m.kind = "close" /\ ServeClose
  BY <1>4, <1>12 DEF ServeClose
<1>13. CASE Crash
  BY <1>4, <1>13 DEF Crash
<1> QED
  BY <1>7, <1>8, <1>9, <1>10, <1>11, <1>12, <1>13 DEF Serve, m

LEMMA StepForgotten ==
  ASSUME TypeOK, JoinedOnce, StateNamed, InOrder, NoneForgotten, [Next]_vars
  PROVE  NoneForgotten'
<1>1. CASE UNCHANGED vars \/ StartReturns
  <2>1. UNCHANGED <<game, seq, failure, task, ready, sends, channel, view, pc, mailbox>>
    BY <1>1 DEF vars, serverVars, playerVars, callVars, StartReturns
  <2> QED
    BY <2>1 DEF NoneForgotten, Moved, Released, Newest, AsksForAView, Answering, T!Awaits
<1>2. CASE Close
  <2>1. UNCHANGED <<game, seq, failure, task, ready, sends, channel, view, pc>>
    BY <1>2 DEF Close, serverVars, playerVars
  <2>2. \A i \in DOMAIN mailbox : \E j \in DOMAIN mailbox' : mailbox'[j] = mailbox[i]
    <3>1. Message("close", Order[1], 0, "none") \in Messages
      BY SeatsAssumption DEF Message, Messages, Kinds, Seats
    <3> QED
      BY <1>2, <3>1, PostedOne DEF Close
  <2>3. \A b : (Answering(b) => Answering(b)') /\ (AsksForAView(b) => AsksForAView(b)')
    BY <2>1, <2>2, StillAnswering
  <2>4. (\A s : Newest(s)' = Newest(s)) /\ Released' = Released
    BY <2>1 DEF Newest, Released
  <2> QED
    BY <2>1, <2>3, <2>4, SameState
<1>3. ASSUME NEW s \in Seats, Send(s) PROVE NoneForgotten'
  <2>1. UNCHANGED <<game, seq, failure, task, ready, view, pc, mailbox>> /\ sends' = sends \ {s}
    BY <1>3 DEF Send, playerVars
  <2>2. \A b : (Answering(b) => Answering(b)') /\ (AsksForAView(b) => AsksForAView(b)')
    BY <2>1 DEF Answering, AsksForAView
  <2>3. Newest(s)' # NoView /\ \A r \in Seats \ {s} : Newest(r)' = Newest(r)
    BY <1>3, SendOrder DEF StateNamed
  <2>4. Released' = Released
    BY <2>1 DEF Released
  <2> QED
    BY <2>1, <2>2, <2>3, <2>4, SameState
<1> QED
  BY <1>1, <1>2, <1>3, ServeForgotten, PlayerForgotten DEF Next

LEMMA NobodyIsForgotten ==
  ASSUME TypeOK, StateNamed, InOrder, NoneForgotten, Bots # {}
  PROVE  NobodyForgotten
<1> SUFFICES ASSUME Quiet PROVE /\ \A s \in Seats : view[s].seq = seq
                                /\ failure \/ \A b \in Bots : T!Awaits(game, b) = "none"
  BY DEF NobodyForgotten
<1>1. /\ task = "running" /\ sends = {} /\ DOMAIN mailbox = {}
      /\ \A s \in Seats : Newest(s) = view[s] /\ pc[s] = "inbox"
  BY DEF Quiet, Newest
<1>2. \A s \in Seats : view[s] # NoView => view[s].seq = seq
  BY <1>1 DEF InOrder, Shown, ShowsNow
<1>3. \A b \in Bots : b \in Seats /\ ~Answering(b) /\ ~AsksForAView(b)
  BY <1>1 DEF Bots, Answering, AsksForAView
<1>4. \A b \in Bots : view[b].seq = seq
  BY <1>1, <1>2, <1>3 DEF NoneForgotten
<1>5. failure \/ \A b \in Bots : T!Awaits(game, b) = "none"
  BY <1>1, <1>3, <1>4 DEF NoneForgotten
<1>6. Moved
  <2>1. SUFFICES ASSUME game = T!Start, ~failure PROVE FALSE
    BY DEF NoneForgotten, Moved
  <2>2. \A b \in Bots : T!Awaits(game, b) = "next_round"
    BY <1>3, <2>1 DEF T!Start, T!Awaits
  <2> QED
    BY <1>5, <2>1, <2>2
<1>7. \A s \in Seats : view[s].seq = seq
  BY <1>1, <1>2, <1>6 DEF NoneForgotten
<1> QED
  BY <1>5, <1>7

\* Every seat, human or bot, is shown every state from its first view on, in
\* order, and the newest one at last.  None is shown twice with other contents
\* but for the failure of the game and, to a human, the error of a rejected
\* command.  This holds in every game with a bot: at a table of humans the
\* first state is shown to who asks for it (_session.py, _send and _receive).
THEOREM EveryStateShown == ASSUME Bots # {} PROVE Spec => ViewsDelivered
<1> DEFINE Inv == TypeOK /\ JoinedOnce /\ StateNamed /\ BotsAsked /\ InOrder /\ NoneForgotten
<1>1. Init => Inv
  BY InitType, InitJoined, InitNamed, InitOrder
<1>2. Inv /\ [Next]_vars => Inv'
  BY StepType, StepJoined, StepNamed, StepAsked, StepOrder, StepForgotten
<1>3. Inv => NobodyForgotten
  BY NobodyIsForgotten
<1>4. Inv /\ [Next]_vars =>
        [\A s \in Seats : view'[s] # view[s] =>
           /\ Follows(view[s], view'[s])
           /\ view'[s].error => s \in Humans]_vars
  BY StepOrder
<1> QED
  BY <1>1, <1>2, <1>3, <1>4, PTL DEF Spec, ViewsDelivered, ViewsContiguous
=============================================================================
