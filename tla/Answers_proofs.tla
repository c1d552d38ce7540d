----------------------------- MODULE Answers_proofs -----------------------------
(***************************************************************************)
(* Every decision goes to the one who asked for it: what holds of a remote *)
(* controller for any number of views, attempts and restarts, and of the   *)
(* inference processes of training for any number of rollout processes,    *)
(* requests, batches and policy versions.                                  *)
(***************************************************************************)
EXTENDS RemoteAI, Inference, SequenceTheorems, FiniteSetTheorems, TLAPS

-----------------------------------------------------------------------------
(* The remote controller                                                   *)

(* Requests ask for the view the client holds, and an answer is about the  *)
(* view of its request: the decision a handler waits for is that view's.   *)
AnswersAgree ==
  /\ TypeOK
  /\ call # "idle" => observed \in Turns /\ Len(attempts) > 0 /\ Current.seq = observed
  /\ \A a \in DOMAIN attempts :
       /\ attempts[a].state = "waiting" => session.flight = attempts[a].seq
       /\ attempts[a].state = "replied" /\ attempts[a].reply # Error =>
            attempts[a].reply.view = attempts[a].seq
  /\ AnswersFit

(* Once more than one answer could exist: the decisions of a server that   *)
(* never restarted move forward, and there is one for each view.           *)
Given(v, c) ==
  \/ c \in answers[v]
  \/ \E a \in DOMAIN attempts :
       attempts[a].state = "replied" /\ attempts[a].reply = c /\ c # Error /\ c.view = v
DecidedOnce ==
  restarts = 0 =>
    /\ session.flight # 0 => session.flight > Decided
    /\ \A v \in Views, c, d \in Response : Given(v, c) /\ Given(v, d) => c = d
    /\ \A v \in Views, c \in Response : Given(v, c) =>
         v <= Decided /\ (v = Decided => c = session.command)

(* While the server stays up and nobody gives up, the server is where the  *)
(* client believes it is: it has all that was sent, and of the attempts in *)
(* progress either none arrived, one is being decided, or one was.         *)
Fresh(r) == call # "idle" /\ r.seq = observed /\ r.first = sent + 1
InStep ==
  restarts = 0 /\ ~gaveUp =>
    /\ ~refused
    /\ \/ session.last = sent /\ Decided = sent /\ session.flight = 0
       \/ /\ call # "idle" /\ session.last = observed
          /\ \/ session.flight = observed /\ Decided = sent
             \/ session.flight = 0 /\ Decided = observed
    /\ \A a \in DOMAIN attempts :
         /\ attempts[a].seq <= sent \/ Fresh(attempts[a])
         /\ attempts[a].state = "replied" /\ attempts[a].seq = observed =>
              attempts[a].reply # Error

RemoteInv == AnswersAgree /\ DecidedOnce /\ InStep

LEMMA RequestsTyped ==
  ASSUME TypeOK
  PROVE  /\ attempts \in Seq(Request) /\ DOMAIN attempts = 1..Len(attempts)
         /\ Len(attempts) \in Nat
         /\ \A a \in DOMAIN attempts : attempts[a] \in Request
<1>1. attempts \in Seq(Request)
  BY DEF TypeOK
<1>2. DOMAIN attempts = 1..Len(attempts) /\ Len(attempts) \in Nat
  BY <1>1
<1> QED
  BY <1>1, <1>2, ElementOfSeq

LEMMA InitRemote == Init => RemoteInv
<1> SUFFICES ASSUME Init PROVE RemoteInv
  OBVIOUS
<1>1. attempts \in Seq(Request) /\ DOMAIN attempts = {}
  BY DEF Init
<1>2. Error \in Response /\ NoSession.last = 0 /\ NoSession.flight = 0 /\ NoSession.command = Error
      /\ Error.view = 0
  BY DEF Error, Command, Response, NoSession
<1>3. gaveUp \in BOOLEAN /\ refused \in BOOLEAN
  BY Zenon DEF Init
<1>4. session \in [first : 0..MaxSeq, last : 0..MaxSeq, command : Response, flight : 0..MaxSeq]
  BY <1>2, BoundAssumption DEF Init, NoSession
<1>5. answers \in [Views -> SUBSET Response] /\ attempts \in Seq(Request)
  BY <1>1 DEF Init
<1>6. /\ observed \in 0..MaxSeq /\ sent \in 0..observed
      /\ call \in {"idle", "asking", "backoff"}
      /\ made \in Nat /\ restarts \in 0..MaxRestarts
  BY BoundAssumption DEF Init
<1>7. TypeOK
  BY <1>3, <1>4, <1>5, <1>6 DEF TypeOK
<1> QED
  BY <1>1, <1>2, <1>7
  DEF Init, RemoteInv, AnswersAgree, AnswersFit, DecidedOnce, Given, InStep, Decided, Views

---------------------------------------------------------------------------
(* The requests a step leaves *)

LEMMA FunctionIsSeq ==
  ASSUME NEW S, NEW m \in Nat, NEW s \in [1..m -> S]
  PROVE  s \in Seq(S) /\ Len(s) = m
<1>1. s \in UNION {[1..n -> S] : n \in Nat}
  OBVIOUS
<1>2. s \in Seq(S)
  BY <1>1, SeqDef, Zenon
<1>3. 1..Len(s) = 1..m /\ Len(s) \in Nat
  BY <1>2, LenProperties
<1> QED
  BY <1>2, <1>3

\* An attempt leaves the others as they were.
LEMMA AttemptAppends ==
  ASSUME TypeOK, observed \in Turns, Attempt
  PROVE  /\ attempts' \in Seq(Request) /\ Len(attempts') = Len(attempts) + 1
         /\ DOMAIN attempts' = DOMAIN attempts \cup {Len(attempts')}
         /\ \A a \in DOMAIN attempts : attempts'[a] = attempts[a]
         /\ attempts'[Len(attempts')] =
              [seq |-> observed, first |-> sent + 1, state |-> "sent", reply |-> Error]
<1> DEFINE new == [seq |-> observed, first |-> sent + 1, state |-> "sent", reply |-> Error]
<1>1. new \in Request
  BY BoundAssumption, ViewAssumption DEF TypeOK, Request, Views, Response, Error, Command
<1>2. attempts \in Seq(Request) /\ attempts' = Append(attempts, new)
  BY DEF TypeOK, Request, Attempt
<1> HIDE DEF new
<1>3. /\ attempts' \in Seq(Request) /\ Len(attempts') = Len(attempts) + 1
      /\ \A a \in 1..Len(attempts) : attempts'[a] = attempts[a]
      /\ attempts'[Len(attempts')] = new
  BY <1>1, <1>2, AppendProperties
<1>4. DOMAIN attempts' = 1..Len(attempts') /\ DOMAIN attempts = 1..Len(attempts)
      /\ Len(attempts) \in Nat
  BY <1>2, <1>3
<1> QED
  BY <1>3, <1>4 DEF new

\* What becomes of one request when an attempt a is replied to or waits.
LEMMA ReplyReplaces ==
  ASSUME TypeOK, NEW a \in DOMAIN attempts, NEW c \in Response, Reply(a, c)
  PROVE  /\ attempts' \in Seq(Request) /\ Len(attempts') = Len(attempts)
         /\ DOMAIN attempts' = DOMAIN attempts
         /\ \A b \in DOMAIN attempts : b # a => attempts'[b] = attempts[b]
         /\ attempts'[a].seq = attempts[a].seq /\ attempts'[a].first = attempts[a].first
         /\ attempts'[a].state = "replied" /\ attempts'[a].reply = c
<1>1. attempts \in Seq(Request) /\ DOMAIN attempts = 1..Len(attempts)
  BY RequestsTyped
<1>2. attempts[a] \in Request
  BY RequestsTyped
<1>3. attempts' = [attempts EXCEPT ![a] =
                     [attempts[a] EXCEPT !.state = "replied", !.reply = c]]
  BY <1>1, <1>2 DEF Reply, Request
<1>4. [attempts[a] EXCEPT !.state = "replied", !.reply = c] \in Request
  BY <1>2 DEF Request
<1> QED
  BY <1>1, <1>2, <1>3, <1>4, ExceptSeq DEF Request

LEMMA StateReplaces ==
  ASSUME TypeOK, NEW a \in DOMAIN attempts, NEW state \in {"waiting", "over"},
         attempts' = [attempts EXCEPT ![a].state = state]
  PROVE  /\ attempts' \in Seq(Request) /\ Len(attempts') = Len(attempts)
         /\ DOMAIN attempts' = DOMAIN attempts
         /\ \A b \in DOMAIN attempts : b # a => attempts'[b] = attempts[b]
         /\ attempts'[a].seq = attempts[a].seq /\ attempts'[a].first = attempts[a].first
         /\ attempts'[a].state = state
<1>1. attempts \in Seq(Request) /\ DOMAIN attempts = 1..Len(attempts)
  BY RequestsTyped
<1>2. attempts[a] \in Request
  BY RequestsTyped
<1>3. attempts' = [attempts EXCEPT ![a] = [attempts[a] EXCEPT !.state = state]]
  BY <1>1, <1>2 DEF Request
<1>4. [attempts[a] EXCEPT !.state = state] \in Request
  BY <1>2 DEF Request
<1> QED
  BY <1>1, <1>2, <1>3, <1>4, ExceptSeq DEF Request

\* A decision or a restart changes what waits, and nothing else.
LEMMA WaitingReplaces ==
  ASSUME TypeOK, NEW state \in {"replied", "over"}, NEW c \in Response,
         \/ state = "replied" /\ attempts' = [a \in DOMAIN attempts |->
              IF attempts[a].state # "waiting" THEN attempts[a]
              ELSE [attempts[a] EXCEPT !.state = "replied", !.reply = c]]
         \/ state = "over" /\ attempts' = [a \in DOMAIN attempts |->
              IF attempts[a].state # "waiting" THEN attempts[a]
              ELSE [attempts[a] EXCEPT !.state = "over"]]
  PROVE  /\ attempts' \in Seq(Request) /\ Len(attempts') = Len(attempts)
         /\ DOMAIN attempts' = DOMAIN attempts
         /\ \A a \in DOMAIN attempts :
              /\ attempts'[a].seq = attempts[a].seq /\ attempts'[a].first = attempts[a].first
              /\ attempts[a].state # "waiting" => attempts'[a] = attempts[a]
              /\ attempts[a].state = "waiting" =>
                   attempts'[a].state = state /\ (state = "replied" => attempts'[a].reply = c)
<1>1. attempts \in Seq(Request) /\ DOMAIN attempts = 1..Len(attempts) /\ Len(attempts) \in Nat
  BY RequestsTyped
<1>2. \A a \in DOMAIN attempts : attempts[a] \in Request
  BY RequestsTyped
<1>3. DOMAIN attempts' = DOMAIN attempts
  OBVIOUS
<1>4. ASSUME NEW a \in DOMAIN attempts
      PROVE  /\ attempts'[a] \in Request
             /\ attempts'[a].seq = attempts[a].seq /\ attempts'[a].first = attempts[a].first
             /\ attempts[a].state # "waiting" => attempts'[a] = attempts[a]
             /\ attempts[a].state = "waiting" =>
                  attempts'[a].state = state /\ (state = "replied" => attempts'[a].reply = c)
  <2>1. attempts[a] \in Request
    BY <1>2
  <2>2. \/ attempts[a].state # "waiting" /\ attempts'[a] = attempts[a]
        \/ /\ attempts[a].state = "waiting" /\ state = "replied"
           /\ attempts'[a] = [attempts[a] EXCEPT !.state = "replied", !.reply = c]
        \/ /\ attempts[a].state = "waiting" /\ state = "over"
           /\ attempts'[a] = [attempts[a] EXCEPT !.state = "over"]
    OBVIOUS
  <2> QED
    BY <2>1, <2>2 DEF Request
<1>5. attempts' \in [1..Len(attempts) -> Request]
  <2>1. attempts' = [a \in DOMAIN attempts |-> attempts'[a]]
    BY <1>3
  <2> QED
    BY <1>1, <1>4, <2>1
<1>6. attempts' \in Seq(Request) /\ Len(attempts') = Len(attempts)
  BY <1>1, <1>5, FunctionIsSeq
<1> QED
  BY <1>3, <1>4, <1>6

---------------------------------------------------------------------------
(* Answers fit *)

LEMMA ClientMatched ==
  ASSUME AnswersAgree, Client
  PROVE  AnswersAgree'
<1>0. attempts \in Seq(Request) /\ DOMAIN attempts = 1..Len(attempts) /\ Len(attempts) \in Nat
      /\ \A a \in DOMAIN attempts : attempts[a] \in Request
  BY RequestsTyped DEF AnswersAgree
<1>1. CASE Decide \/ Retry
  <2>1. Attempt /\ observed \in Turns /\ call' = "asking"
        /\ UNCHANGED <<observed, sent, answers, gaveUp, refused, serverVars>>
    BY <1>1 DEF Decide, Retry, Attempt, AnswersAgree
  <2>2. TypeOK'
    BY <2>1, AttemptAppends DEF AnswersAgree, TypeOK, Request, serverVars, Response
  <2>3. \A a \in DOMAIN attempts' : attempts'[a].state # "sent" =>
          a \in DOMAIN attempts /\ attempts'[a] = attempts[a]
    BY <1>0, <2>1, AttemptAppends DEF AnswersAgree
  <2>4. Len(attempts') > 0 /\ Current'.seq = observed
    BY <1>0, <2>1, AttemptAppends DEF AnswersAgree, Current
  <2>5. AnswersFit'
    BY <2>1 DEF AnswersAgree, AnswersFit
  <2> QED
    BY <2>1, <2>2, <2>3, <2>4, <2>5 DEF AnswersAgree, serverVars
<1>2. CASE Observe \/ AttemptFails \/ GiveUp
  <2>1. UNCHANGED <<sent, answers, attempts, serverVars>>
        /\ (call' # "idle" => call # "idle" /\ observed' = observed)
        /\ observed' \in {observed, observed + 1} /\ observed' <= MaxSeq
        /\ call' \in {"idle", "asking", "backoff"}
    BY <1>2, BoundAssumption DEF Observe, AttemptFails, GiveUp, AnswersAgree, TypeOK
  <2>0. gaveUp' \in BOOLEAN /\ refused' \in BOOLEAN
    BY <1>2, Zenon DEF Observe, AttemptFails, GiveUp, AnswersAgree, TypeOK
  <2>2. TypeOK'
    BY <2>0, <2>1, BoundAssumption DEF AnswersAgree, TypeOK, serverVars
  <2> QED
    BY <2>1, <2>2 DEF AnswersAgree, AnswersFit, Current, serverVars
<1>3. CASE Receive
  <2>1. Len(attempts) \in DOMAIN attempts /\ Current.seq = observed /\ observed \in Views
    BY <1>0, <1>3, ViewAssumption DEF Receive, AnswersAgree, Current
  <2>2. Current.reply # Error => Current.reply.view = observed
    BY <1>3, <2>1 DEF Receive, AnswersAgree, Current
  <2>3. Current.reply \in Response
    BY <1>0, <2>1 DEF Current, Request
  <2>4. answers' \in [Views -> SUBSET Response]
    BY <1>3, <2>1, <2>3 DEF Receive, AnswersAgree, TypeOK
  <2>8. gaveUp' \in BOOLEAN /\ refused' \in BOOLEAN
    BY <1>3, Zenon DEF Receive, AnswersAgree, TypeOK
  <2>9. observed' = observed /\ sent' = observed /\ call' = "idle"
        /\ attempts' = attempts /\ session' = session /\ made' = made /\ restarts' = restarts
    BY <1>3 DEF Receive, ClearPending, serverVars
  <2>5. TypeOK'
    BY <2>4, <2>8, <2>9 DEF AnswersAgree, TypeOK
  <2>6. ASSUME NEW v \in Views, NEW c \in answers'[v] PROVE c.view = v
    <3>1. c \in answers[v] \/ (v = observed /\ c = Current.reply /\ Current.reply # Error)
      BY <1>3, <2>6 DEF Receive, AnswersAgree, TypeOK
    <3> QED
      BY <2>2, <3>1 DEF AnswersAgree, AnswersFit
  <2>7. AnswersFit'
    BY <2>6 DEF AnswersFit
  <2> QED
    BY <1>3, <2>5, <2>7 DEF Receive, AnswersAgree, serverVars
<1> QED
  BY <1>1, <1>2, <1>3 DEF Client

\* Arrivals leave everything but the request and the session alone.
LEMMA ArriveChanges ==
  ASSUME AnswersAgree, NEW a \in DOMAIN attempts, Arrive(a)
  PROVE  /\ attempts' \in Seq(Request) /\ Len(attempts') = Len(attempts)
         /\ DOMAIN attempts' = DOMAIN attempts /\ attempts[a] \in Request
         /\ \A b \in DOMAIN attempts : b # a => attempts'[b] = attempts[b]
         /\ attempts'[a].seq = attempts[a].seq /\ attempts'[a].first = attempts[a].first
         /\ session'.command = session.command
         /\ \/ /\ Decided = attempts[a].seq /\ session' = session
               /\ attempts'[a].state = "replied" /\ attempts'[a].reply = session.command
            \/ /\ session.flight = attempts[a].seq /\ session' = session
               /\ attempts'[a].state = "waiting"
            \/ /\ session' = session /\ Refuse(a)
               /\ \/ attempts'[a].state = "over"
                  \/ attempts'[a].state = "replied" /\ attempts'[a].reply = Error
            \/ /\ Backwards(a)
               /\ session'.flight = 0
               /\ attempts'[a].state = "replied" /\ attempts'[a].reply = Error
            \/ /\ Begin(a)
               /\ session'.flight = attempts[a].seq
               /\ attempts'[a].state = "waiting"
         /\ session' \in [first : 0..MaxSeq, last : 0..MaxSeq, command : Response,
                          flight : 0..MaxSeq]
<1>0. attempts \in Seq(Request) /\ TypeOK
  BY RequestsTyped DEF AnswersAgree
<1>1. attempts[a] \in Request
  BY <1>0, RequestsTyped
<1>2. Error \in Response /\ session.command \in Response
  BY DEF Error, Command, Response, AnswersAgree, TypeOK
<1>3. CASE Replay(a)
  BY <1>0, <1>1, <1>2, <1>3, ReplyReplaces DEF Replay, Replays, TypeOK
<1>4. CASE Join(a)
  BY <1>0, <1>1, <1>4, StateReplaces DEF Join, Joins, TypeOK
<1>5. CASE Refuse(a)
  BY <1>0, <1>1, <1>2, <1>5, ReplyReplaces, StateReplaces DEF Refuse, TypeOK
<1>6. Remembering(attempts[a]) \in [first : 0..MaxSeq, last : 0..MaxSeq, command : Response,
                                   flight : 0..MaxSeq]
      /\ Remembering(attempts[a]).command = session.command
      /\ Remembering(attempts[a]).flight = session.flight
  <2>1. attempts[a].seq \in 0..MaxSeq
        /\ (attempts[a].first <= attempts[a].seq => attempts[a].first \in 0..MaxSeq)
    BY <1>1, BoundAssumption DEF Request, Views
  <2>2. session \in [first : 0..MaxSeq, last : 0..MaxSeq, command : Response, flight : 0..MaxSeq]
        /\ attempts[a].first \in Nat /\ attempts[a].seq \in Nat
    BY <1>0, <1>1, BoundAssumption DEF TypeOK, Request, Views
  <2> DEFINE r == attempts[a]
  <2>3. CASE r.first > r.seq
    BY <2>2, <2>3 DEF Remembering
  <2>4. CASE r.first <= r.seq
    <3>1. Remembering(r) = [session EXCEPT !.last = r.seq,
                                           !.first = IF @ = 0 THEN r.first ELSE @]
      BY <2>2, <2>4 DEF Remembering
    <3> QED
      BY <2>1, <2>2, <2>4, <3>1
  <2> QED
    BY <2>2, <2>3, <2>4
<1>7. CASE Backwards(a)
  BY <1>0, <1>1, <1>2, <1>6, <1>7, ReplyReplaces DEF Backwards
<1>8. CASE Begin(a)
  <2>1. attempts[a].seq \in 0..MaxSeq
    BY <1>1, BoundAssumption DEF Request, Views
  <2>2. session' = [Remembering(attempts[a]) EXCEPT !.flight = attempts[a].seq]
    BY <1>8 DEF Begin
  <2>3. session' \in [first : 0..MaxSeq, last : 0..MaxSeq, command : Response,
                     flight : 0..MaxSeq]
        /\ session'.command = session.command /\ session'.flight = attempts[a].seq
    BY <1>6, <2>1, <2>2
  <2> QED
    BY <1>0, <1>1, <1>8, <2>3, StateReplaces DEF Begin
<1> QED
  BY <1>3, <1>4, <1>5, <1>7, <1>8 DEF Arrive

LEMMA ArriveMatched ==
  ASSUME AnswersAgree, NEW a \in DOMAIN attempts, Arrive(a)
  PROVE  AnswersAgree'
<1>0. TypeOK'
  BY ArriveChanges DEF Arrive, clientVars, AnswersAgree, TypeOK
<1>1. ASSUME NEW b \in DOMAIN attempts'
      PROVE  /\ attempts'[b].state = "waiting" => session'.flight = attempts'[b].seq
             /\ attempts'[b].state = "replied" /\ attempts'[b].reply # Error =>
                  attempts'[b].reply.view = attempts'[b].seq
  <2>1. CASE b # a
    <3>1. attempts'[b] = attempts[b] /\ b \in DOMAIN attempts
      BY <1>1, <2>1, ArriveChanges
    <3>2. attempts[b].state = "waiting" => session.flight # 0
      BY <3>1, RequestsTyped DEF AnswersAgree, Request, Views
    <3>3. session' = session \/ session.flight = 0
      BY ArriveChanges DEF Backwards, Begin
    <3> QED
      BY <3>1, <3>2, <3>3 DEF AnswersAgree
  <2>2. CASE b = a
    BY <2>2, ArriveChanges DEF Decided
  <2> QED
    BY <2>1, <2>2
<1>2. (Len(attempts') > 0 /\ Current'.seq = Current.seq) \/ Len(attempts) = 0
  <2>1. Len(attempts) # 0 => Len(attempts) \in DOMAIN attempts
    BY RequestsTyped DEF AnswersAgree
  <2> QED
    BY <2>1, ArriveChanges, RequestsTyped DEF Current, AnswersAgree
<1> QED
  BY <1>0, <1>1, <1>2 DEF AnswersAgree, AnswersFit, Arrive, clientVars

LEMMA DecisionChanges ==
  ASSUME AnswersAgree, DecisionMade
  PROVE  /\ session.flight \in Views /\ made' \in Nat
         /\ UNCHANGED clientVars /\ restarts' = restarts
         /\ \E c \in Response :
              /\ c # Error /\ c.view = session.flight
              /\ session.first \in RoundStarts /\ session.last = session.flight => c.informed
              /\ session' = [session EXCEPT !.command = c, !.flight = 0]
              /\ attempts' = [a \in DOMAIN attempts |->
                   IF attempts[a].state # "waiting" THEN attempts[a]
                   ELSE [attempts[a] EXCEPT !.state = "replied", !.reply = c]]
<1>0. /\ made' = made + 1 /\ session.flight # 0
      /\ UNCHANGED clientVars /\ restarts' = restarts
  BY Zenon DEF DecisionMade
<1>1. made' \in Nat /\ made' # 0 /\ session.flight \in Views
  BY <1>0, BoundAssumption DEF AnswersAgree, TypeOK, Views
<1> DEFINE c == Command(made', session.flight,
                        session.first \in RoundStarts /\ session.last = session.flight)
<1>2. c \in Response
  BY <1>1, Zenon DEF Command, Response
<1>3. c.made = made' /\ c.view = session.flight /\ Error.made = 0
  BY DEF Command, Error
<1> QED
  <2>1. /\ session' = [session EXCEPT !.command = c, !.flight = 0]
        /\ attempts' = [a \in DOMAIN attempts |->
             IF attempts[a].state # "waiting" THEN attempts[a]
             ELSE [attempts[a] EXCEPT !.state = "replied", !.reply = c]]
    BY Zenon DEF DecisionMade
  <2>3. session.first \in RoundStarts /\ session.last = session.flight => c.informed
    BY DEF Command
  <2> HIDE DEF c
  <2>2. c # Error
    BY <1>1, <1>3
  <2> QED
    BY <1>0, <1>1, <1>2, <1>3, <2>1, <2>2, <2>3

LEMMA ServerMatched ==
  ASSUME AnswersAgree, DecisionMade \/ Restart
  PROVE  AnswersAgree'
<1>1. CASE DecisionMade
  <2>0. session.flight \in Views /\ made' \in Nat
        /\ UNCHANGED clientVars /\ restarts' = restarts
    BY <1>1, DecisionChanges
  <2>1. PICK c \in Response :
          /\ c # Error /\ c.view = session.flight
          /\ session' = [session EXCEPT !.command = c, !.flight = 0]
          /\ attempts' = [a \in DOMAIN attempts |->
               IF attempts[a].state # "waiting" THEN attempts[a]
               ELSE [attempts[a] EXCEPT !.state = "replied", !.reply = c]]
    BY <1>1, DecisionChanges
  <2>2. /\ attempts' \in Seq(Request) /\ Len(attempts') = Len(attempts)
        /\ DOMAIN attempts' = DOMAIN attempts
        /\ \A a \in DOMAIN attempts :
             /\ attempts'[a].seq = attempts[a].seq
             /\ attempts[a].state # "waiting" => attempts'[a] = attempts[a]
             /\ attempts[a].state = "waiting" =>
                  attempts'[a].state = "replied" /\ attempts'[a].reply = c
    BY <2>1, WaitingReplaces DEF AnswersAgree
  <2>5. session' \in [first : 0..MaxSeq, last : 0..MaxSeq, command : Response,
                     flight : 0..MaxSeq]
    <3>1. session \in [first : 0..MaxSeq, last : 0..MaxSeq, command : Response,
                      flight : 0..MaxSeq]
      BY DEF AnswersAgree, TypeOK
    <3>2. 0 \in 0..MaxSeq
      BY BoundAssumption
    <3> QED
      BY <2>1, <3>1, <3>2
  <2>3. TypeOK'
    BY <2>0, <2>2, <2>5 DEF clientVars, AnswersAgree, TypeOK
  <2>4. Len(attempts) > 0 => Len(attempts) \in DOMAIN attempts
    BY RequestsTyped DEF AnswersAgree
  <2>6. ASSUME NEW a \in DOMAIN attempts'
        PROVE  /\ attempts'[a].state = "waiting" => session'.flight = attempts'[a].seq
               /\ attempts'[a].state = "replied" /\ attempts'[a].reply # Error =>
                    attempts'[a].reply.view = attempts'[a].seq
    BY <2>1, <2>2 DEF AnswersAgree
  <2> QED
    BY <2>0, <2>2, <2>3, <2>4, <2>6 DEF clientVars, AnswersAgree, AnswersFit, Current
<1>2. CASE Restart
  <2>1. Error \in Response
    BY DEF Error, Command, Response
  <2>2. /\ attempts' \in Seq(Request) /\ Len(attempts') = Len(attempts)
        /\ DOMAIN attempts' = DOMAIN attempts
        /\ \A a \in DOMAIN attempts :
             /\ attempts'[a].seq = attempts[a].seq
             /\ attempts[a].state # "waiting" => attempts'[a] = attempts[a]
             /\ attempts[a].state = "waiting" => attempts'[a].state = "over"
    BY <1>2, <2>1, WaitingReplaces DEF AnswersAgree, Restart
  <2>3. TypeOK'
    BY <1>2, <2>1, <2>2, BoundAssumption DEF Restart, NoSession, clientVars, AnswersAgree, TypeOK
  <2>4. Len(attempts) > 0 => Len(attempts) \in DOMAIN attempts
    BY RequestsTyped DEF AnswersAgree
  <2> QED
    BY <1>2, <2>2, <2>3, <2>4 DEF Restart, clientVars, AnswersAgree, AnswersFit, Current
<1> QED
  BY <1>1, <1>2

LEMMA StepMatched == AnswersAgree /\ [Next]_vars => AnswersAgree'
<1> SUFFICES ASSUME AnswersAgree, [Next]_vars PROVE AnswersAgree'
  OBVIOUS
<1>1. CASE UNCHANGED vars
  BY <1>1 DEF vars, clientVars, serverVars, AnswersAgree, TypeOK, AnswersFit, Current
<1> QED
  BY <1>1, ClientMatched, ArriveMatched, ServerMatched DEF Next, Server

\* Every reachable state has its type.
THEOREM RemoteTyped == Spec => []TypeOK
<1>1. RemoteInv => AnswersAgree
  BY DEF RemoteInv
<1>2. AnswersAgree => TypeOK
  BY DEF AnswersAgree
<1> QED
  BY <1>1, <1>2, InitRemote, StepMatched, PTL DEF Spec

\* A command is given to the view it was decided on, for any number of late or
\* repeated attempts and of restarts (RemoteSessionRegistry.decide).
THEOREM AnswersAlwaysFit == Spec => []AnswersFit
<1>1. RemoteInv => AnswersAgree
  BY DEF RemoteInv
<1>2. AnswersAgree => AnswersFit
  BY DEF AnswersAgree
<1> QED
  BY <1>1, <1>2, InitRemote, StepMatched, PTL DEF Spec

---------------------------------------------------------------------------
(* One decision for a view *)

LEMMA ClientDecidedOnce ==
  ASSUME AnswersAgree, DecidedOnce, Client
  PROVE  DecidedOnce'
<1>1. session' = session /\ restarts' = restarts
  BY DEF Client, Observe, Decide, AttemptFails, Retry, GiveUp, Receive, Attempt, serverVars
<1>2. ASSUME NEW v \in Views, NEW c \in Response, Given(v, c)' PROVE Given(v, c)
  <2>1. CASE Decide \/ Retry
    <3>1. Attempt /\ observed \in Turns /\ answers' = answers
      BY <2>1 DEF Decide, Retry, AnswersAgree
    <3> QED
      BY <1>2, <3>1, AttemptAppends, RequestsTyped DEF Given, AnswersAgree
  <2>2. CASE Observe \/ AttemptFails \/ GiveUp
    <3>1. answers' = answers /\ attempts' = attempts
      BY <2>2 DEF Observe, AttemptFails, GiveUp
    <3> QED
      BY <1>2, <3>1 DEF Given
  <2>3. CASE Receive
    <3>1. Len(attempts) \in DOMAIN attempts /\ Current.seq = observed /\ Current.state = "replied"
      BY <2>3, RequestsTyped DEF Receive, AnswersAgree
    <3>2. attempts' = attempts
      BY <2>3 DEF Receive
    <3>3. c \in answers'[v] => c \in answers[v] \/ (v = observed /\ c = Current.reply /\ c # Error)
      BY <2>3 DEF Receive, AnswersAgree, TypeOK
    <3>4. Current.reply # Error => Current.reply.view = observed
      BY <3>1 DEF AnswersAgree, Current
    <3> QED
      BY <1>2, <3>1, <3>2, <3>3, <3>4 DEF Given, Current
  <2> QED
    BY <2>1, <2>2, <2>3 DEF Client
<1> QED
  BY <1>1, <1>2 DEF DecidedOnce, Decided

LEMMA ArriveDecidedOnce ==
  ASSUME AnswersAgree, DecidedOnce, NEW a \in DOMAIN attempts, Arrive(a)
  PROVE  DecidedOnce'
<1>1. restarts' = restarts /\ session'.command = session.command /\ answers' = answers
  BY ArriveChanges DEF Arrive, clientVars
<1>2. ASSUME NEW v \in Views, NEW c \in Response, Given(v, c)'
      PROVE  Given(v, c) \/ (c = session.command /\ v = Decided)
  <2>1. CASE c \in answers[v]
    BY <2>1 DEF Given
  <2>2. CASE c \notin answers[v]
    <3>1. PICK b \in DOMAIN attempts' :
            attempts'[b].state = "replied" /\ attempts'[b].reply = c /\ c # Error /\ c.view = v
      BY <1>1, <1>2, <2>2 DEF Given
    <3>2. b \in DOMAIN attempts
      BY <3>1, ArriveChanges
    <3>3. CASE b # a
      BY <3>1, <3>2, <3>3, ArriveChanges DEF Given
    <3>4. CASE b = a
      BY <3>1, <3>4, ArriveChanges DEF Decided
    <3> QED
      BY <3>3, <3>4
  <2> QED
    BY <2>1, <2>2
<1>3. restarts = 0 /\ session'.flight # 0 => session'.flight > Decided
  <2>1. session' = session \/ session'.flight = 0
        \/ (session'.flight = attempts[a].seq /\ Begin(a))
    BY ArriveChanges
  <2>2. Begin(a) => attempts[a].seq > Decided
    <3>1. attempts[a].seq \in Nat /\ Decided \in Nat
      <4>1. TypeOK /\ attempts[a] \in Request
        BY RequestsTyped DEF AnswersAgree
      <4>2. attempts[a].seq \in Views /\ Decided \in Views \cup {0}
        BY <4>1 DEF Request, TypeOK, Decided, Response
      <4> QED
        BY <4>2 DEF Views
    <3> QED
      BY <3>1 DEF Begin, Replays
  <2> QED
    BY <2>1, <2>2 DEF DecidedOnce
<1>4. Decided' = Decided /\ Decided \in Nat
  BY <1>1 DEF Decided, AnswersAgree, TypeOK, Response, Views
<1>5. ASSUME restarts = 0, NEW v \in Views, NEW c \in Response, Given(v, c)'
      PROVE  v <= Decided /\ (v = Decided => c = session.command)
  BY <1>2, <1>4, <1>5 DEF DecidedOnce
<1>6. ASSUME restarts = 0, NEW v \in Views, NEW c \in Response, NEW d \in Response,
             Given(v, c)', Given(v, d)'
      PROVE  c = d
  <2>1. /\ Given(v, c) \/ (c = session.command /\ v = Decided)
        /\ Given(v, d) \/ (d = session.command /\ v = Decided)
    BY <1>2, <1>6
  <2> QED
    BY <1>5, <1>6, <2>1 DEF DecidedOnce
<1> QED
  BY <1>1, <1>3, <1>4, <1>5, <1>6 DEF DecidedOnce

LEMMA MadeDecidedOnce ==
  ASSUME AnswersAgree, DecidedOnce, DecisionMade
  PROVE  DecidedOnce'
<1>1. session.flight \in Views /\ answers' = answers /\ restarts' = restarts
  BY DecisionChanges DEF clientVars
<1>2. PICK k \in Response :
        /\ k # Error /\ k.view = session.flight
        /\ session' = [session EXCEPT !.command = k, !.flight = 0]
        /\ attempts' = [b \in DOMAIN attempts |->
             IF attempts[b].state # "waiting" THEN attempts[b]
             ELSE [attempts[b] EXCEPT !.state = "replied", !.reply = k]]
  BY DecisionChanges
<1>3. session'.command = k /\ session'.flight = 0 /\ Decided' = session.flight
  BY <1>2 DEF AnswersAgree, TypeOK, Decided
<1>4. /\ DOMAIN attempts' = DOMAIN attempts
      /\ \A b \in DOMAIN attempts :
           /\ attempts[b].state # "waiting" => attempts'[b] = attempts[b]
           /\ attempts[b].state = "waiting" => attempts'[b].reply = k
  BY <1>2, WaitingReplaces DEF AnswersAgree
<1>5. ASSUME NEW v \in Views, NEW c \in Response, Given(v, c)'
      PROVE  Given(v, c) \/ (c = k /\ v = session.flight)
  <2>1. CASE c \in answers[v]
    BY <2>1 DEF Given
  <2>2. CASE c \notin answers[v]
    <3>1. PICK b \in DOMAIN attempts' :
            attempts'[b].state = "replied" /\ attempts'[b].reply = c /\ c # Error /\ c.view = v
      BY <1>1, <1>5, <2>2 DEF Given
    <3>2. b \in DOMAIN attempts
      BY <1>4, <3>1
    <3>3. CASE attempts[b].state = "waiting"
      BY <1>2, <1>4, <3>1, <3>2, <3>3
    <3>4. CASE attempts[b].state # "waiting"
      BY <1>4, <3>1, <3>2, <3>4 DEF Given
    <3> QED
      BY <3>3, <3>4
  <2> QED
    BY <2>1, <2>2
<1>6. session.flight # 0 /\ Decided \in Nat /\ session.flight \in Nat
  BY <1>1 DEF AnswersAgree, TypeOK, Response, Views, Decided
<1>7. ASSUME restarts = 0, NEW v \in Views, NEW c \in Response, Given(v, c)'
      PROVE  v <= session.flight /\ (v = session.flight => c = k)
  <2>1. v \in Nat
    BY DEF Views
  <2> QED
    BY <1>5, <1>6, <1>7, <2>1 DEF DecidedOnce
<1>8. ASSUME restarts = 0, NEW v \in Views, NEW c \in Response, NEW d \in Response,
             Given(v, c)', Given(v, d)'
      PROVE  c = d
  <2>1. (Given(v, c) \/ (c = k /\ v = session.flight)) /\ (Given(v, d) \/ (d = k /\ v = session.flight))
    BY <1>5, <1>8
  <2> QED
    BY <1>7, <1>8, <2>1 DEF DecidedOnce
<1> QED
  BY <1>1, <1>3, <1>7, <1>8 DEF DecidedOnce

LEMMA StepDecidedOnce == AnswersAgree /\ DecidedOnce /\ [Next]_vars => DecidedOnce'
<1> SUFFICES ASSUME AnswersAgree, DecidedOnce, [Next]_vars PROVE DecidedOnce'
  OBVIOUS
<1>1. CASE Restart
  BY <1>1 DEF Restart, AnswersAgree, TypeOK, DecidedOnce
<1>2. CASE UNCHANGED vars
  BY <1>2 DEF vars, clientVars, serverVars, DecidedOnce, Given, Decided
<1> QED
  BY <1>1, <1>2, ClientDecidedOnce, ArriveDecidedOnce, MadeDecidedOnce DEF Next, Server

\* While the server stays up a view has one answer, however often it is asked
\* (the command and the decision_task of _RemoteSession).
THEOREM OneAnswer == Spec => []SameAnswer
<1>1. RemoteInv => AnswersAgree /\ DecidedOnce
  BY DEF RemoteInv
<1>2. AnswersAgree /\ DecidedOnce => SameAnswer
  BY DEF AnswersAgree, TypeOK, DecidedOnce, Given, SameAnswer
<1> QED
  BY <1>1, <1>2, InitRemote, StepMatched, StepDecidedOnce, PTL DEF Spec

---------------------------------------------------------------------------
(* No request is refused *)

LEMMA ClientInStep ==
  ASSUME AnswersAgree, DecidedOnce, InStep, Client
  PROVE  InStep'
<1> SUFFICES ASSUME restarts' = 0, ~gaveUp' PROVE InStep'
  BY DEF InStep
<1>1. session' = session /\ restarts = 0
  BY DEF Client, Observe, Decide, AttemptFails, Retry, GiveUp, Receive, Attempt, serverVars
<1>2. ~gaveUp /\ ~GiveUp
  <2>1. GiveUp => gaveUp'
    BY Zenon DEF GiveUp
  <2>2. ~GiveUp => gaveUp' = gaveUp
    BY Zenon DEF Client, Observe, Decide, AttemptFails, Retry, Receive
  <2>3. ~GiveUp
    BY Zenon, <2>1
  <2>4. gaveUp' = gaveUp
    BY <2>2, <2>3
  <2> QED
    BY Zenon, <2>3, <2>4
<1>3. observed \in Nat /\ sent \in Nat /\ sent <= observed /\ Decided \in Nat
      /\ \A a \in DOMAIN attempts : attempts[a] \in Request
  BY RequestsTyped DEF AnswersAgree, TypeOK, Decided, Response, Views
<1>4. CASE Observe
  <2>1. call = "idle" /\ observed' = observed + 1 /\ UNCHANGED <<sent, call, refused, attempts>>
    BY <1>4 DEF Observe
  <2>2. \A a \in DOMAIN attempts : attempts[a].seq <= sent /\ attempts[a].seq \in Nat
    BY <1>1, <1>2, <1>3, <2>1 DEF InStep, Fresh, Request, Views
  <2> QED
    BY <1>1, <1>2, <1>3, <2>1, <2>2 DEF InStep, Decided
<1>5. CASE Decide \/ Retry
  <2>1. Attempt /\ observed \in Turns /\ call' = "asking"
        /\ UNCHANGED <<observed, sent, refused>> /\ call # "asking"
    BY <1>5 DEF Decide, Retry, Attempt, AnswersAgree
  <2>2. /\ DOMAIN attempts' = DOMAIN attempts \cup {Len(attempts')}
        /\ \A a \in DOMAIN attempts : attempts'[a] = attempts[a]
        /\ attempts'[Len(attempts')] =
             [seq |-> observed, first |-> sent + 1, state |-> "sent", reply |-> Error]
        /\ attempts'[Len(attempts')].state = "sent"
    BY <2>1, AttemptAppends DEF AnswersAgree
  <2>3. ASSUME NEW a \in DOMAIN attempts' PROVE attempts'[a].seq <= sent \/ Fresh(attempts[a])'
    <3>1. CASE a \in DOMAIN attempts
      BY <1>1, <1>2, <2>1, <2>2, <3>1 DEF Fresh, InStep
    <3>2. CASE a = Len(attempts')
      BY <2>1, <2>2, <3>2 DEF Fresh
    <3> QED
      BY <2>2, <3>1, <3>2
  <2>4. ASSUME NEW a \in DOMAIN attempts',
               attempts'[a].state = "replied", attempts'[a].seq = observed'
        PROVE  attempts'[a].reply # Error
    <3>1. a \in DOMAIN attempts /\ attempts'[a] = attempts[a]
      <4>1. a # Len(attempts')
        BY <2>2, <2>4
      <4> QED
        BY <2>2, <4>1
    <3> QED
      BY <1>1, <1>2, <2>1, <2>4, <3>1 DEF InStep
  <2> QED
    BY <1>1, <1>2, <2>1, <2>3, <2>4 DEF InStep, Decided
<1>6. CASE AttemptFails
  BY <1>1, <1>2, <1>6 DEF AttemptFails, InStep, Fresh, Decided
<1>7. CASE Receive
  <2>1. Len(attempts) \in DOMAIN attempts /\ Current.seq = observed /\ Current.state = "replied"
        /\ observed \in Views
    BY <1>7, RequestsTyped, ViewAssumption DEF Receive, AnswersAgree
  <2>2. Current.reply # Error /\ Current.reply \in Response
    BY <1>1, <1>2, <1>3, <2>1 DEF InStep, Current, Request
  <2>3. Given(observed, Current.reply)
    BY <2>1, <2>2 DEF Given, AnswersAgree, Current
  <2>4. observed <= Decided
    BY <1>1, <2>1, <2>2, <2>3 DEF DecidedOnce
  <2>5. session.flight = 0 \/ session.flight > Decided
    BY <1>1 DEF DecidedOnce
  <2>6. session.last = observed /\ Decided = observed /\ session.flight = 0
    BY <1>1, <1>2, <1>3, <2>4, <2>5 DEF InStep
  <2>7. sent' = observed /\ observed' = observed /\ attempts' = attempts /\ refused' = refused
    BY <1>7, <2>2 DEF Receive, ClearPending
  <2>8. \A a \in DOMAIN attempts : attempts[a].seq <= observed
    BY <1>1, <1>2, <1>3 DEF InStep, Fresh, Request, Views
  <2> QED
    BY <1>1, <1>2, <2>6, <2>7, <2>8 DEF InStep, Decided
<1> QED
  BY <1>2, <1>4, <1>5, <1>6, <1>7 DEF Client

LEMMA ArriveInStep ==
  ASSUME AnswersAgree, DecidedOnce, InStep, NEW a \in DOMAIN attempts, Arrive(a)
  PROVE  InStep'
<1> SUFFICES ASSUME restarts' = 0, ~gaveUp' PROVE InStep'
  BY DEF InStep
<1>1. /\ restarts = 0 /\ observed' = observed /\ sent' = sent /\ call' = call
      /\ refused' = refused
  BY DEF Arrive, clientVars
<1>2. ~gaveUp
  <2>1. gaveUp' = gaveUp
    BY DEF Arrive, clientVars
  <2> QED
    BY Zenon, <2>1
<1>3. /\ attempts[a] \in Request /\ attempts[a].seq \in Nat /\ attempts[a].seq >= 1
      /\ attempts[a].first \in Nat /\ attempts[a].first >= 1
      /\ observed \in Nat /\ sent \in Nat /\ sent <= observed
      /\ Decided \in Nat /\ session.last \in Nat /\ session.flight \in Nat
  <2>1. TypeOK /\ attempts[a] \in Request
    BY RequestsTyped DEF AnswersAgree
  <2>2. attempts[a].seq \in Views /\ attempts[a].first \in 1..(MaxSeq + 1)
    BY <2>1 DEF Request
  <2> QED
    BY <2>1, <2>2, BoundAssumption DEF TypeOK, Decided, Response, Views
<1> DEFINE r == attempts[a]
<1>4. CASE r.seq <= sent
  \* A late attempt, for a view the client has got past or is asking again.
  <2>1. Decided >= r.seq /\ session.last >= Decided
        /\ (session.flight # 0 => session.flight = observed)
    BY <1>1, <1>2, <1>3, <1>4 DEF InStep
  <2>2. ~Begin(a)
    BY <1>3, <2>1 DEF Begin, Replays
  <2>3. Backwards(a) => session' = session
    BY <1>3, <2>1 DEF Backwards, Continues, Remembering
  <2>4. session' = session
    BY <2>2, <2>3, ArriveChanges
  <2>5. r.seq = observed => ~Refuse(a) /\ ~Backwards(a)
    <3>1. r.seq = observed => Decided = r.seq
      BY <1>1, <1>2, <1>3, <1>4, <2>1 DEF InStep
    <3> QED
      BY <3>1, <1>3 DEF Refuse, Backwards, Replays
  <2>6. attempts'[a].state = "replied" /\ r.seq = observed => attempts'[a].reply # Error
    <3>1. Error.view = 0
      BY DEF Error, Command
    <3> QED
      BY <1>3, <2>2, <2>5, <3>1, ArriveChanges DEF Decided
  <2> QED
    BY <1>1, <1>2, <2>4, <2>6, ArriveChanges DEF InStep, Fresh, Decided
<1>5. CASE r.seq > sent
  \* An attempt of the request in progress.
  <2>1. Fresh(r)
    BY <1>1, <1>2, <1>3, <1>5 DEF InStep
  <2>2. ~Backwards(a)
    BY <1>1, <1>2, <1>3, <1>5, <2>1 DEF InStep, Fresh, Backwards
  <2>3. ~Refuse(a)
    <3>1. CASE session.last = sent /\ Decided = sent /\ session.flight = 0
      <4>1. Continues(r)
        BY <1>3, <2>1, <3>1, ViewAssumption DEF Fresh, Continues
      <4> QED
        BY <3>1, <4>1 DEF Refuse
    <3>2. CASE session.flight = observed \/ Decided = observed
      BY <2>1, <3>2 DEF Fresh, Refuse, Replays, Joins
    <3> QED
      BY <1>1, <1>2, <3>1, <3>2 DEF InStep
  <2>4. Begin(a) => session'.last = observed /\ session'.flight = observed /\ Decided = sent
    <3> SUFFICES ASSUME Begin(a)
                 PROVE  session'.last = observed /\ session'.flight = observed /\ Decided = sent
      OBVIOUS
    <3>1. Decided = sent
      BY <1>1, <1>2, <1>3, <2>1 DEF Begin, InStep, Fresh, Replays
    <3>2. r.first <= r.seq /\ session' = [Remembering(r) EXCEPT !.flight = r.seq]
      BY <1>3, <1>5, <2>1 DEF Begin, Fresh
    <3>3. session \in [first : 0..MaxSeq, last : 0..MaxSeq, command : Response, flight : 0..MaxSeq]
      BY DEF AnswersAgree, TypeOK
    <3>4. Remembering(r) = [session EXCEPT !.last = r.seq,
                                           !.first = IF @ = 0 THEN r.first ELSE @]
      BY <1>3, <3>2 DEF Remembering
    <3> QED
      BY <2>1, <3>1, <3>2, <3>3, <3>4 DEF Fresh
  <2>5. attempts'[a].state = "replied" => attempts'[a].reply # Error
    <3>1. Error.view = 0
      BY DEF Error, Command
    <3> QED
      BY <1>3, <2>2, <2>3, <3>1, ArriveChanges DEF Decided
  <2>6. session' = session \/ Begin(a)
    BY <2>2, ArriveChanges
  <2>7. Decided' = Decided
    BY ArriveChanges DEF Decided
  <2>8. \/ session'.last = sent /\ Decided' = sent /\ session'.flight = 0
        \/ /\ call # "idle" /\ session'.last = observed
           /\ \/ session'.flight = observed /\ Decided' = sent
              \/ session'.flight = 0 /\ Decided' = observed
    BY <1>1, <1>2, <2>1, <2>4, <2>6, <2>7 DEF InStep, Fresh
  <2>9. \A b \in DOMAIN attempts' :
          /\ attempts'[b].seq <= sent \/ Fresh(attempts[b])'
          /\ attempts'[b].state = "replied" /\ attempts'[b].seq = observed =>
               attempts'[b].reply # Error
    BY <1>1, <1>2, <2>5, ArriveChanges DEF InStep, Fresh
  <2> QED
    BY <1>1, <1>2, <2>8, <2>9 DEF InStep
<1> QED
  BY <1>3, <1>4, <1>5

LEMMA MadeInStep ==
  ASSUME AnswersAgree, InStep, DecisionMade
  PROVE  InStep'
<1> SUFFICES ASSUME restarts' = 0, ~gaveUp' PROVE InStep'
  BY DEF InStep
<1>1. /\ session.flight \in Views /\ UNCHANGED clientVars /\ restarts = 0
  BY DecisionChanges
<1>2. ~gaveUp
  <2>1. gaveUp' = gaveUp
    BY <1>1 DEF clientVars
  <2> QED
    BY Zenon, <2>1
<1>3. PICK k \in Response :
        /\ k # Error /\ k.view = session.flight
        /\ session' = [session EXCEPT !.command = k, !.flight = 0]
        /\ attempts' = [b \in DOMAIN attempts |->
             IF attempts[b].state # "waiting" THEN attempts[b]
             ELSE [attempts[b] EXCEPT !.state = "replied", !.reply = k]]
  BY DecisionChanges
<1>4. /\ DOMAIN attempts' = DOMAIN attempts
      /\ \A b \in DOMAIN attempts :
           /\ attempts'[b].seq = attempts[b].seq /\ attempts'[b].first = attempts[b].first
           /\ attempts[b].state # "waiting" => attempts'[b] = attempts[b]
           /\ attempts[b].state = "waiting" => attempts'[b].reply = k
  BY <1>3, WaitingReplaces DEF AnswersAgree
<1>5. session'.last = session.last /\ session'.flight = 0 /\ Decided' = session.flight
  BY <1>3 DEF AnswersAgree, TypeOK, Decided
<1>6. session.flight # 0
  BY <1>1 DEF Views
<1>7. call # "idle" /\ session.last = observed /\ session.flight = observed /\ ~refused
  BY <1>1, <1>2, <1>6 DEF InStep
<1>8. \A b \in DOMAIN attempts' :
        /\ attempts'[b].seq <= sent \/ Fresh(attempts[b])'
        /\ attempts'[b].state = "replied" /\ attempts'[b].seq = observed =>
             attempts'[b].reply # Error
  BY <1>1, <1>2, <1>3, <1>4 DEF InStep, Fresh, clientVars
<1> QED
  BY <1>1, <1>5, <1>7, <1>8 DEF InStep, clientVars

LEMMA StepInStep == AnswersAgree /\ DecidedOnce /\ InStep /\ [Next]_vars => InStep'
<1> SUFFICES ASSUME AnswersAgree, DecidedOnce, InStep, [Next]_vars PROVE InStep'
  OBVIOUS
<1>1. CASE Restart
  BY <1>1 DEF Restart, AnswersAgree, TypeOK, InStep
<1>2. CASE UNCHANGED vars
  BY <1>2 DEF vars, clientVars, serverVars, InStep, Fresh, Decided
<1> QED
  BY <1>1, <1>2, ClientInStep, ArriveInStep, MadeInStep DEF Next, Server

\* While the server stays up and no deadline passes no request is refused,
\* whatever is late or repeated (the 409 answers of RemoteSessionRegistry).
THEOREM NothingRefused == Spec => []NeverRefused
<1>1. RemoteInv => AnswersAgree /\ DecidedOnce /\ InStep
  BY DEF RemoteInv
<1>2. InStep => NeverRefused
  BY DEF InStep, NeverRefused
<1> QED
  BY <1>1, <1>2, InitRemote, StepMatched, StepDecidedOnce, StepInStep, PTL DEF Spec
---------------------------------------------------------------------------
(* The first answer to a view comes from a memory of the whole round.  An  *)
(* attempt without views is for a view that was answered before, for as    *)
(* long as no decision failed; every other decision is made on a session   *)
(* whose memory starts with a round and ends with the view.                *)

\* The server knows nothing the client has not seen, and a memory that holds
\* views starts with a round.
Bounded ==
  /\ session.flight <= observed /\ Decided <= observed
  /\ \A a \in DOMAIN attempts : attempts[a].seq <= observed
  /\ IF session.last = 0 THEN session.first = 0 ELSE session.first \in RoundStarts
FirstIsInformed ==
  ~gaveUp /\ ~refused =>
    /\ \A a \in DOMAIN attempts : attempts[a].seq <= sent \/ Fresh(attempts[a])
    /\ \A v \in Views : answers[v] # {} => v <= sent /\ \E c \in answers[v] : c.informed
    /\ sent # 0 => answers[sent] # {}
    /\ sent < observed =>
         /\ session.flight = observed => session.last = observed
         /\ Decided = observed => session.command.informed
         /\ \A a \in DOMAIN attempts :
              /\ attempts[a].state = "replied" /\ attempts[a].reply # Error
              /\ attempts[a].seq = observed
              => attempts[a].reply.informed

LEMMA InitInformed == Init => Bounded /\ FirstIsInformed
<1> SUFFICES ASSUME Init PROVE Bounded /\ FirstIsInformed
  OBVIOUS
<1>1. observed = 0 /\ sent = 0 /\ DOMAIN attempts = {} /\ \A v \in Views : answers[v] = {}
  BY DEF Init
<1>2. session.flight = 0 /\ session.last = 0 /\ session.first = 0 /\ Decided = 0
  BY DEF Init, NoSession, Decided, Error, Command
<1> QED
  BY <1>1, <1>2 DEF Bounded, FirstIsInformed

LEMMA RequestNumbers ==
  ASSUME TypeOK
  PROVE  /\ observed \in Nat /\ sent \in Nat /\ sent <= observed
         /\ Decided \in Nat /\ session.last \in Nat /\ session.flight \in Nat
         /\ \A a \in DOMAIN attempts :
              /\ attempts[a].seq \in Views /\ attempts[a].seq \in Nat /\ attempts[a].seq >= 1
              /\ attempts[a].first \in Nat /\ attempts[a].first >= 1
<1>1. ASSUME NEW a \in DOMAIN attempts
      PROVE  /\ attempts[a].seq \in Views /\ attempts[a].seq \in Nat /\ attempts[a].seq >= 1
             /\ attempts[a].first \in Nat /\ attempts[a].first >= 1
  <2>1. attempts[a].seq \in Views /\ attempts[a].first \in 1..(MaxSeq + 1)
    BY RequestsTyped DEF Request
  <2> QED
    BY <2>1, BoundAssumption DEF Views
<1>2. Decided \in Nat
  BY BoundAssumption DEF TypeOK, Decided, Response, Views
<1> QED
  BY <1>1, <1>2, BoundAssumption DEF TypeOK

LEMMA ClientInformed ==
  ASSUME AnswersAgree, Bounded, FirstIsInformed, Client
  PROVE  Bounded' /\ FirstIsInformed'
<1>0. /\ TypeOK /\ TypeOK'
      /\ DOMAIN attempts = 1..Len(attempts) /\ Len(attempts) \in Nat
  BY ClientMatched, RequestsTyped DEF AnswersAgree
<1>1. UNCHANGED session
  BY DEF Client, Observe, Decide, AttemptFails, Retry, GiveUp, Receive, serverVars
<1>2. CASE Observe
  <2>1. /\ observed' = observed + 1 /\ call = "idle"
        /\ UNCHANGED <<sent, call, answers, gaveUp, refused, attempts>>
    BY <1>2 DEF Observe
  <2>2. Bounded'
    BY <1>0, <1>1, <2>1, RequestNumbers DEF Bounded, Decided
  <2>3. \A a \in DOMAIN attempts : attempts[a].seq < observed'
    BY <1>0, <2>1, RequestNumbers DEF Bounded
  <2>4. session.flight < observed' /\ Decided < observed'
    BY <1>0, <2>1, RequestNumbers DEF Bounded
  <2> QED
    BY <1>0, <1>1, <2>1, <2>2, <2>3, <2>4, RequestNumbers DEF FirstIsInformed, Fresh, Decided
<1>3. CASE Decide \/ Retry
  <2>1. Attempt /\ observed \in Turns
        /\ UNCHANGED <<observed, sent, answers, gaveUp, refused>>
    BY <1>3 DEF Decide, Retry, AnswersAgree
  <2>2. /\ DOMAIN attempts' = DOMAIN attempts \cup {Len(attempts')}
        /\ \A a \in DOMAIN attempts : attempts'[a] = attempts[a]
        /\ attempts'[Len(attempts')] =
             [seq |-> observed, first |-> sent + 1, state |-> "sent", reply |-> Error]
        /\ call' = "asking"
    BY <2>1, AttemptAppends DEF AnswersAgree, Attempt
  <2>3. ASSUME NEW a \in DOMAIN attempts', a \notin DOMAIN attempts
        PROVE  /\ attempts'[a].seq = observed /\ Fresh(attempts[a])'
               /\ attempts'[a].state = "sent"
    <3>1. a = Len(attempts')
      BY <2>2, <2>3
    <3> QED
      BY <2>1, <2>2, <3>1 DEF Fresh
  <2>4. Bounded'
    <3>1. \A a \in DOMAIN attempts' : attempts'[a].seq <= observed
      <4>1. ASSUME NEW a \in DOMAIN attempts' PROVE attempts'[a].seq <= observed
        <5>1. CASE a \in DOMAIN attempts
          BY <2>2, <5>1 DEF Bounded
        <5>2. CASE a \notin DOMAIN attempts
          BY <1>0, <2>3, <4>1, <5>2, RequestNumbers
        <5> QED
          BY <5>1, <5>2
      <4> QED
        BY <4>1
    <3> QED
      BY <1>1, <2>1, <3>1 DEF Bounded, Decided
  <2>5. \A r : Fresh(r) => r.seq = observed /\ r.first = sent + 1
    BY DEF Fresh
  <2>6. ASSUME ~gaveUp' /\ ~refused', NEW a \in DOMAIN attempts'
        PROVE  attempts'[a].seq <= sent' \/ Fresh(attempts[a])'
    <3>1. CASE a \in DOMAIN attempts
      BY <2>1, <2>2, <2>6, <3>1 DEF FirstIsInformed, Fresh
    <3> QED
      BY <2>3, <3>1
  <2>7. ASSUME ~gaveUp' /\ ~refused', sent' < observed', NEW a \in DOMAIN attempts',
               attempts'[a].state = "replied", attempts'[a].reply # Error,
               attempts'[a].seq = observed'
        PROVE  attempts'[a].reply.informed
    BY <2>1, <2>2, <2>3, <2>7 DEF FirstIsInformed
  <2> QED
    BY <1>1, <2>1, <2>4, <2>6, <2>7 DEF FirstIsInformed, Decided
<1>4. CASE AttemptFails
  BY <1>1, <1>4 DEF AttemptFails, Bounded, FirstIsInformed, Fresh, Decided
<1>5. CASE GiveUp
  <2>1. UNCHANGED <<observed, attempts>> /\ gaveUp'
    BY <1>5 DEF GiveUp
  <2> QED
    BY <1>1, <2>1 DEF Bounded, FirstIsInformed, Decided
<1>6. CASE Receive
  <2>1. Len(attempts) \in DOMAIN attempts /\ Current.seq = observed
        /\ Current.state = "replied" /\ observed \in Views
    BY <1>0, <1>6, RequestsTyped, ViewAssumption DEF Receive, AnswersAgree
  <2>2. sent' = observed /\ UNCHANGED <<observed, attempts>>
    BY <1>6 DEF Receive, ClearPending
  <2>3. Bounded'
    BY <1>1, <2>2 DEF Bounded, Decided
  <2>4. CASE Current.reply = Error
    BY <1>6, <2>3, <2>4 DEF Receive, FirstIsInformed
  <2>5. CASE Current.reply # Error
    <3> SUFFICES ASSUME ~gaveUp' /\ ~refused' PROVE FirstIsInformed'
      BY <2>3 DEF FirstIsInformed
    <3>1. ~gaveUp /\ ~refused
      <4>1. gaveUp' = gaveUp /\ refused' = refused
        BY <1>6, <2>5 DEF Receive
      <4> QED
        BY <4>1, Zenon
    <3>2. /\ answers'[observed] = answers[observed] \cup {Current.reply}
          /\ \A v \in Views \ {observed} : answers'[v] = answers[v]
      BY <1>0, <1>6, <2>1, <2>5 DEF Receive, TypeOK
    <3>3. \E c \in answers'[observed] : c.informed
      <4>1. CASE sent < observed
        <5>1. Current.reply.informed
          BY <2>1, <2>5, <3>1, <4>1 DEF FirstIsInformed, Current
        <5> QED
          BY <3>2, <5>1
      <4>2. CASE sent = observed
        <5>1. observed # 0
          BY <2>1 DEF Views
        <5>2. \E c \in answers[observed] : c.informed
          BY <2>1, <3>1, <4>2, <5>1 DEF FirstIsInformed
        <5> QED
          BY <3>2, <5>2
      <4> QED
        BY <1>0, <4>1, <4>2, RequestNumbers
    <3>4. \A v \in Views : answers'[v] # {} => v <= sent' /\ \E c \in answers'[v] : c.informed
      <4>1. SUFFICES ASSUME NEW v \in Views, answers'[v] # {}
                     PROVE  v <= observed /\ \E c \in answers'[v] : c.informed
        BY <2>2
      <4>2. CASE v = observed
        BY <1>0, <3>3, <4>2, RequestNumbers
      <4>3. CASE v # observed
        <5>1. v <= sent /\ \E c \in answers[v] : c.informed
          BY <3>1, <3>2, <4>1, <4>3 DEF FirstIsInformed
        <5>2. v \in Nat
          BY DEF Views
        <5> QED
          BY <1>0, <3>2, <4>3, <5>1, <5>2, RequestNumbers
      <4> QED
        BY <4>2, <4>3
    <3>5. \A a \in DOMAIN attempts : attempts[a].seq <= observed
      BY DEF Bounded
    <3>6. answers'[sent'] # {} /\ ~(sent' < observed')
      BY <1>0, <2>2, <3>3, RequestNumbers
    <3> QED
      BY <2>2, <3>4, <3>5, <3>6 DEF FirstIsInformed
  <2> QED
    BY <2>3, <2>4, <2>5
<1> QED
  BY <1>2, <1>3, <1>4, <1>5, <1>6 DEF Client

LEMMA ArriveInformed ==
  ASSUME AnswersAgree, Bounded, FirstIsInformed, NEW a \in DOMAIN attempts, Arrive(a)
  PROVE  Bounded' /\ FirstIsInformed'
<1> DEFINE r == attempts[a]
<1>0. /\ TypeOK /\ r.seq \in Views /\ r.seq \in Nat /\ r.seq >= 1 /\ r.first \in Nat /\ r.first >= 1
      /\ observed \in Nat /\ sent \in Nat /\ sent <= observed
      /\ Decided \in Nat /\ session.last \in Nat /\ session.flight \in Nat
  BY RequestNumbers DEF AnswersAgree
<1>1. UNCHANGED <<observed, sent, call, answers, gaveUp, refused>>
  BY DEF Arrive, clientVars
<1>2. Decided' = Decided /\ session'.command = session.command
  BY ArriveChanges DEF Decided
<1>3. session' = session \/ session' = Remembering(r)
      \/ session' = [Remembering(r) EXCEPT !.flight = r.seq]
  BY ArriveChanges DEF Backwards, Begin
<1>4. session \in [first : 0..MaxSeq, last : 0..MaxSeq, command : Response, flight : 0..MaxSeq]
  BY <1>0 DEF TypeOK
<1>5. CASE session' = session
  <2>1. Bounded'
    BY <1>1, <1>2, <1>5, ArriveChanges DEF Bounded
  <2>2. sent < observed /\ ~gaveUp /\ ~refused /\ r.seq = observed
          /\ attempts'[a].state = "replied" /\ attempts'[a].reply # Error
          => attempts'[a].reply.informed
    <3>1. SUFFICES ASSUME sent < observed, ~gaveUp /\ ~refused, r.seq = observed,
                          attempts'[a].state = "replied", attempts'[a].reply # Error
                   PROVE  attempts'[a].reply.informed
      OBVIOUS
    <3>2. Decided = r.seq /\ attempts'[a].reply = session.command
      BY <3>1, ArriveChanges
    <3> QED
      BY <3>1, <3>2 DEF FirstIsInformed
  <2> QED
    BY <1>1, <1>2, <1>5, <2>1, <2>2, ArriveChanges DEF FirstIsInformed, Fresh
<1>6. CASE session' # session
  <2>1. /\ Continues(r) /\ session.flight = 0 /\ session'.flight \in {0, r.seq}
        /\ \/ Backwards(a) /\ attempts'[a].reply = Error
           \/ Begin(a) /\ attempts'[a].state = "waiting"
    BY <1>6, ArriveChanges DEF Backwards, Begin
  <2>2. /\ session'.last = (IF r.first > r.seq THEN session.last ELSE r.seq)
        /\ session'.first = (IF r.first > r.seq \/ session.first # 0 THEN session.first ELSE r.first)
    <3>1. CASE r.first > r.seq
      BY <1>3, <1>4, <3>1 DEF Remembering
    <3>2. CASE r.first <= r.seq
      <4>1. Remembering(r) = [session EXCEPT !.last = r.seq,
                                             !.first = IF @ = 0 THEN r.first ELSE @]
        BY <1>0, <3>2 DEF Remembering
      <4>2. /\ Remembering(r).last = r.seq
            /\ Remembering(r).first = (IF session.first # 0 THEN session.first ELSE r.first)
            /\ [Remembering(r) EXCEPT !.flight = r.seq].last = Remembering(r).last
            /\ [Remembering(r) EXCEPT !.flight = r.seq].first = Remembering(r).first
        BY <1>4, <4>1
      <4> QED
        <5>1. session'.last = Remembering(r).last /\ session'.first = Remembering(r).first
          BY <1>3, <1>6, <4>2
        <5>2. ~(r.first > r.seq)
          BY <1>0, <3>2
        <5> QED
          BY <4>2, <5>1, <5>2
    <3> QED
      BY <1>0, <3>1, <3>2
  <2>3. IF session'.last = 0 THEN session'.first = 0 ELSE session'.first \in RoundStarts
    <3>1. CASE session.last # 0
      <4>1. session.first \in RoundStarts /\ session.first # 0
        BY <3>1, ViewAssumption DEF Bounded, Views
      <4> QED
        BY <1>0, <2>2, <3>1, <4>1
    <3>2. CASE session.last = 0
      BY <1>0, <2>1, <2>2, <3>2 DEF Continues, Bounded
    <3> QED
      BY <3>1, <3>2
  <2>4. Bounded'
    BY <1>0, <1>1, <1>2, <2>1, <2>3, ArriveChanges DEF Bounded
  <2>5. ~gaveUp /\ ~refused /\ sent < observed /\ session'.flight = observed
          => session'.last = observed
    <3> SUFFICES ASSUME ~gaveUp /\ ~refused, sent < observed, session'.flight = observed
                 PROVE  session'.last = observed
      OBVIOUS
    <3>1. r.seq = observed
      BY <1>0, <2>1
    <3>2. Fresh(r)
      BY <1>0, <3>1 DEF FirstIsInformed
    <3> QED
      BY <1>0, <2>2, <3>1, <3>2 DEF Fresh
  <2> QED
    BY <1>1, <1>2, <2>1, <2>4, <2>5, ArriveChanges DEF FirstIsInformed, Fresh
<1> QED
  BY <1>5, <1>6

LEMMA MadeInformed ==
  ASSUME AnswersAgree, Bounded, FirstIsInformed, DecisionMade
  PROVE  Bounded' /\ FirstIsInformed'
<1>1. /\ session.flight \in Views /\ session.flight # 0
      /\ UNCHANGED <<observed, sent, call, answers, gaveUp, refused>>
  <2>1. session.flight \in Views /\ UNCHANGED clientVars
    BY DecisionChanges
  <2>2. session.flight # 0
    BY <2>1 DEF Views
  <2>3. UNCHANGED <<observed, sent, call, answers, gaveUp, refused>>
    BY <2>1 DEF clientVars
  <2> QED
    BY <2>1, <2>2, <2>3
<1>2. PICK c \in Response :
        /\ c # Error /\ c.view = session.flight
        /\ session.first \in RoundStarts /\ session.last = session.flight => c.informed
        /\ session' = [session EXCEPT !.command = c, !.flight = 0]
        /\ attempts' = [b \in DOMAIN attempts |->
             IF attempts[b].state # "waiting" THEN attempts[b]
             ELSE [attempts[b] EXCEPT !.state = "replied", !.reply = c]]
  BY DecisionChanges
<1>3. /\ DOMAIN attempts' = DOMAIN attempts
      /\ \A b \in DOMAIN attempts :
           /\ attempts'[b].seq = attempts[b].seq /\ attempts'[b].first = attempts[b].first
           /\ attempts[b].state # "waiting" => attempts'[b] = attempts[b]
           /\ attempts[b].state = "waiting" => attempts'[b].reply = c
  BY <1>2, WaitingReplaces DEF AnswersAgree
<1>4. /\ session'.last = session.last /\ session'.first = session.first
      /\ session'.flight = 0 /\ session'.command = c /\ Decided' = session.flight
  BY <1>2 DEF AnswersAgree, TypeOK, Decided
<1>5. observed \in Nat
  BY RequestNumbers DEF AnswersAgree
<1>6. Bounded'
  BY <1>1, <1>3, <1>4, <1>5 DEF Bounded
<1>7. ~gaveUp /\ ~refused /\ sent < observed /\ session.flight = observed => c.informed
  BY <1>1, <1>2 DEF FirstIsInformed, Bounded
<1>8. \A b \in DOMAIN attempts : attempts[b].state = "waiting" => session.flight = attempts[b].seq
  BY DEF AnswersAgree
<1>9. /\ \A b \in DOMAIN attempts' : Fresh(attempts[b]) => Fresh(attempts[b])'
  BY <1>1, <1>3 DEF Fresh
<1>10. ASSUME ~gaveUp' /\ ~refused', NEW b \in DOMAIN attempts'
       PROVE  attempts'[b].seq <= sent' \/ Fresh(attempts[b])'
  BY <1>1, <1>3, <1>9, <1>10 DEF FirstIsInformed
<1>11. ASSUME ~gaveUp' /\ ~refused', sent' < observed', NEW b \in DOMAIN attempts',
              attempts'[b].state = "replied", attempts'[b].reply # Error,
              attempts'[b].seq = observed'
       PROVE  attempts'[b].reply.informed
  BY <1>1, <1>3, <1>7, <1>8, <1>11 DEF FirstIsInformed
<1>12. ASSUME ~gaveUp' /\ ~refused', sent' < observed'
       PROVE  /\ session'.flight # observed' \/ session'.last = observed'
              /\ Decided' = observed' => session'.command.informed
  <2>1. ~gaveUp /\ ~refused /\ sent < observed
    <3>1. gaveUp' = gaveUp /\ refused' = refused /\ sent' = sent /\ observed' = observed
      BY <1>1
    <3>2. ~gaveUp /\ ~refused
      BY <1>12, <3>1, Zenon
    <3> QED
      BY <1>12, <3>1, <3>2
  <2>2. session'.flight # observed'
    BY <1>1, <1>4, <1>5, <2>1, RequestNumbers DEF AnswersAgree
  <2>3. Decided' = observed' => session'.command.informed
    BY <1>1, <1>4, <1>7, <2>1
  <2> QED
    BY <2>2, <2>3
<1> QED
  BY <1>1, <1>6, <1>10, <1>11, <1>12 DEF FirstIsInformed

LEMMA StepInformed ==
  AnswersAgree /\ Bounded /\ FirstIsInformed /\ [Next]_vars => Bounded' /\ FirstIsInformed'
<1> SUFFICES ASSUME AnswersAgree, Bounded, FirstIsInformed, [Next]_vars
             PROVE  Bounded' /\ FirstIsInformed'
  OBVIOUS
<1>1. CASE Restart
  <2>1. UNCHANGED <<observed, sent, call, answers, gaveUp, refused>>
    BY <1>1 DEF Restart, clientVars
  <2>2. session'.last = 0 /\ session'.first = 0 /\ session'.flight = 0 /\ Decided' = 0
    BY <1>1 DEF Restart, NoSession, Decided, Error, Command
  <2>3. Error \in Response
    BY DEF Error, Command, Response
  <2>4. /\ DOMAIN attempts' = DOMAIN attempts
        /\ \A a \in DOMAIN attempts :
             /\ attempts'[a].seq = attempts[a].seq /\ attempts'[a].first = attempts[a].first
             /\ attempts[a].state # "waiting" => attempts'[a] = attempts[a]
             /\ attempts[a].state = "waiting" => attempts'[a].state = "over"
    BY <1>1, <2>3, WaitingReplaces DEF Restart, AnswersAgree
  <2>5. observed \in Nat /\ sent \in Nat
    BY RequestNumbers DEF AnswersAgree
  <2>6. Bounded'
    BY <2>1, <2>2, <2>4, <2>5 DEF Bounded
  <2> QED
    BY <2>1, <2>2, <2>4, <2>5, <2>6 DEF FirstIsInformed, Fresh
<1>2. CASE UNCHANGED vars
  BY <1>2 DEF vars, clientVars, serverVars, Bounded, FirstIsInformed, Fresh, Decided
<1> QED
  BY <1>1, <1>2, ClientInformed, ArriveInformed, MadeInformed DEF Next, Server

\* Until a decision fails the first answer to a view comes from a controller
\* that has seen the round, even across restarts of the server: a session is
\* continued or starts with a round, and is never asked about a view it lacks
\* (remote.py, the views of a request and the continuity it checks).
THEOREM FirstAnswersInformed == Spec => []FirstInformed
<1> DEFINE Inv == AnswersAgree /\ Bounded /\ FirstIsInformed
<1>1. Init => Inv
  BY InitRemote, InitInformed DEF RemoteInv
<1>2. Inv /\ [Next]_vars => Inv'
  BY StepMatched, StepInformed
<1>3. Inv => FirstInformed
  BY DEF FirstIsInformed, FirstInformed
<1> QED
  BY <1>1, <1>2, <1>3, PTL DEF Spec

-----------------------------------------------------------------------------
(* The inference processes                                                 *)

\* Sequences: an element is added at the end,
LEMMA AddedLast ==
  ASSUME NEW S, NEW s \in Seq(S), NEW e \in S
  PROVE  ToSet(Append(s, e)) = ToSet(s) \cup {e}
<1>1. /\ DOMAIN Append(s, e) = 1..(Len(s) + 1) /\ DOMAIN s = 1..Len(s) /\ Len(s) \in Nat
      /\ \A i \in 1..Len(s) : Append(s, e)[i] = s[i]
      /\ Append(s, e)[Len(s) + 1] = e
  BY AppendProperties, LenProperties
<1>2. ToSet(s) \cup {e} \subseteq ToSet(Append(s, e))
  BY <1>1 DEF ToSet
<1>3. ASSUME NEW i \in DOMAIN Append(s, e) PROVE Append(s, e)[i] \in ToSet(s) \cup {e}
  <2>1. i \in DOMAIN s \/ i = Len(s) + 1
    BY <1>1
  <2> QED
    BY <1>1, <2>1 DEF ToSet
<1> QED
  BY <1>2, <1>3 DEF ToSet

\* the first one is taken,
LEMMA TakenFirst ==
  ASSUME NEW S, NEW s \in Seq(S), s # <<>>
  PROVE  /\ Head(s) \in S /\ Head(s) = s[1] /\ Tail(s) \in Seq(S)
         /\ 1 \in DOMAIN s /\ DOMAIN s = 1..Len(s)
         /\ \A i \in DOMAIN Tail(s) : i + 1 \in DOMAIN s /\ i \in Nat \ {0} /\ Tail(s)[i] = s[i + 1]
         /\ ToSet(s) = {Head(s)} \cup ToSet(Tail(s))
<1>1. /\ Head(s) \in S /\ Tail(s) \in Seq(S) /\ Len(Tail(s)) = Len(s) - 1
      /\ \A i \in 1..Len(Tail(s)) : Tail(s)[i] = s[i + 1]
      /\ Head(s) = s[1]
  BY HeadTailProperties
<1>2. /\ Len(s) \in Nat \ {0} /\ DOMAIN s = 1..Len(s) /\ DOMAIN Tail(s) = 1..(Len(s) - 1)
  BY <1>1, EmptySeq, LenProperties
<1>3. \A i \in DOMAIN Tail(s) : i + 1 \in DOMAIN s /\ i \in Nat \ {0} /\ Tail(s)[i] = s[i + 1]
  BY <1>1, <1>2
<1>4. {Head(s)} \cup ToSet(Tail(s)) \subseteq ToSet(s)
  BY <1>1, <1>2, <1>3 DEF ToSet
<1>5. ASSUME NEW i \in DOMAIN s PROVE s[i] \in {Head(s)} \cup ToSet(Tail(s))
  <2>1. CASE i = 1
    BY <1>1, <2>1
  <2>2. CASE i # 1
    <3>1. i - 1 \in DOMAIN Tail(s) /\ Tail(s)[i - 1] = s[i]
      BY <1>1, <1>2, <2>2
    <3> QED
      BY <3>1 DEF ToSet
  <2> QED
    BY <2>1, <2>2
<1> QED
  BY <1>1, <1>2, <1>3, <1>4, <1>5 DEF ToSet

\* and one sequence follows another.
LEMMA Chained ==
  ASSUME NEW S, NEW s \in Seq(S), NEW t \in Seq(S)
  PROVE  /\ s \o t \in Seq(S) /\ ToSet(s \o t) = ToSet(s) \cup ToSet(t)
         /\ Len(s) \in Nat /\ DOMAIN s = 1..Len(s) /\ DOMAIN t = 1..Len(t) /\ Len(t) \in Nat
         /\ DOMAIN (s \o t) = 1..(Len(s) + Len(t))
         /\ \A i \in DOMAIN s : i \in DOMAIN (s \o t) /\ (s \o t)[i] = s[i]
         /\ \A i \in DOMAIN t : Len(s) + i \in DOMAIN (s \o t) /\ (s \o t)[Len(s) + i] = t[i]
         /\ \A k \in DOMAIN (s \o t) : k \in DOMAIN s \/ \E i \in DOMAIN t : k = Len(s) + i
<1>1. /\ s \o t \in Seq(S) /\ Len(s \o t) = Len(s) + Len(t)
      /\ \A i \in 1..(Len(s) + Len(t)) :
           (s \o t)[i] = IF i <= Len(s) THEN s[i] ELSE t[i - Len(s)]
  BY ConcatProperties
<1>2. /\ Len(s) \in Nat /\ DOMAIN s = 1..Len(s) /\ Len(t) \in Nat /\ DOMAIN t = 1..Len(t)
      /\ DOMAIN (s \o t) = 1..(Len(s) + Len(t))
  BY <1>1, LenProperties
<1>3. \A i \in DOMAIN s : i \in DOMAIN (s \o t) /\ (s \o t)[i] = s[i]
  BY <1>1, <1>2
<1>4. \A i \in DOMAIN t : Len(s) + i \in DOMAIN (s \o t) /\ (s \o t)[Len(s) + i] = t[i]
  BY <1>1, <1>2
<1>5. ASSUME NEW k \in DOMAIN (s \o t) PROVE k \in DOMAIN s \/ \E i \in DOMAIN t : k = Len(s) + i
  <2>1. k \notin DOMAIN s => k - Len(s) \in DOMAIN t /\ k = Len(s) + (k - Len(s))
    BY <1>2
  <2> QED
    BY <2>1
<1>6. ToSet(s \o t) = ToSet(s) \cup ToSet(t)
  <2>1. ToSet(s) \cup ToSet(t) \subseteq ToSet(s \o t)
    BY <1>3, <1>4 DEF ToSet
  <2>2. ASSUME NEW k \in DOMAIN (s \o t) PROVE (s \o t)[k] \in ToSet(s) \cup ToSet(t)
    BY <1>3, <1>4, <1>5 DEF ToSet
  <2> QED
    BY <2>1, <2>2 DEF ToSet
<1> QED
  BY <1>1, <1>2, <1>3, <1>4, <1>5, <1>6

\* The elements at some positions, without and within the order.
LEMMA Places ==
  ASSUME NEW n \in Nat, NEW at \in SUBSET (1..n)
  PROVE  /\ Cardinality(at) \in Nat
         /\ \A k \in 1..Cardinality(at) :
              \E i \in at : Cardinality({j \in at : j <= i}) = k
         /\ \A i \in at : Cardinality({j \in at : j <= i}) \in 1..Cardinality(at)
<1> DEFINE upTo(i) == {j \in at : j <= i}
           place == [i \in at |-> Cardinality(upTo(i))]
<1>1. IsFiniteSet(at) /\ Cardinality(at) \in Nat
  BY FS_Interval, FS_Subset, FS_CardinalityType, 1 \in Int, n \in Int
<1>0. \A i \in at : i \in Nat
  OBVIOUS
<1>2. ASSUME NEW i \in at PROVE /\ IsFiniteSet(upTo(i)) /\ Cardinality(upTo(i)) \in 1..Cardinality(at)
  <2>1. upTo(i) \subseteq at /\ i \in upTo(i)
    OBVIOUS
  <2>2. IsFiniteSet(upTo(i)) /\ Cardinality(upTo(i)) <= Cardinality(at)
        /\ Cardinality(upTo(i)) \in Nat
    BY <1>1, <2>1, FS_Subset, FS_CardinalityType
  <2>3. Cardinality(upTo(i)) # 0
    BY <2>1, <2>2, FS_EmptySet
  <2> QED
    BY <1>1, <2>2, <2>3
<1>3. ASSUME NEW i \in at, NEW k \in at, i < k PROVE Cardinality(upTo(i)) < Cardinality(upTo(k))
  <2>1. upTo(i) \subseteq upTo(k) /\ k \in upTo(k) /\ k \notin upTo(i)
    <3>1. i \in Nat /\ k \in Nat /\ ~(k <= i) /\ k <= k /\ \A j \in Nat : j <= i => j <= k
      BY <1>0, <1>3
    <3> QED
      BY <1>0, <3>1
  <2>2. Cardinality(upTo(i)) <= Cardinality(upTo(k)) /\ upTo(i) # upTo(k)
        /\ (Cardinality(upTo(i)) = Cardinality(upTo(k)) => upTo(i) = upTo(k))
    BY <1>2, <2>1, FS_Subset
  <2> QED
    BY <1>2, <2>2
<1>4. place \in Injection(at, 1..Cardinality(at))
  <2>1. place \in [at -> 1..Cardinality(at)]
    BY <1>2
  <2>2. ASSUME NEW i \in at, NEW k \in at, i # k PROVE place[i] # place[k]
    <3>1. i < k \/ k < i
      BY <2>2
    <3>2. Cardinality(upTo(i)) \in Nat /\ Cardinality(upTo(k)) \in Nat
      BY <1>1, <1>2
    <3>3. Cardinality(upTo(i)) # Cardinality(upTo(k))
      BY <1>3, <3>1, <3>2
    <3> QED
      BY <3>3
  <2> QED
    BY <2>1, <2>2 DEF Injection, IsInjective
<1>5. IsFiniteSet(1..Cardinality(at)) /\ Cardinality(1..Cardinality(at)) = Cardinality(at)
  BY <1>1, FS_Interval
<1>6. place \in Surjection(at, 1..Cardinality(at))
  BY <1>4, <1>5, FS_Injection
<1> QED
  BY <1>1, <1>2, <1>6 DEF Surjection

LEMMA Selected ==
  ASSUME NEW S, NEW s \in Seq(S), NEW at \in SUBSET DOMAIN s
  PROVE  /\ Select(s, at) \in Seq(S) /\ ToSet(Select(s, at)) = {s[i] : i \in at}
         /\ \A k, l \in DOMAIN Select(s, at) : \E i, j \in at :
              /\ Select(s, at)[k] = s[i] /\ Select(s, at)[l] = s[j]
              /\ k # l => i # j
         /\ Select(s, at) = <<>> <=> at = {}
<1> DEFINE upTo(i) == Cardinality({j \in at : j <= i})
           pos(k) == CHOOSE i \in at : upTo(i) = k
<1>1. Len(s) \in Nat /\ DOMAIN s = 1..Len(s)
  BY LenProperties
<1>2. /\ Cardinality(at) \in Nat
      /\ \A k \in 1..Cardinality(at) : \E i \in at : upTo(i) = k
      /\ \A i \in at : upTo(i) \in 1..Cardinality(at)
  BY <1>1, Places
<1>3. /\ DOMAIN Select(s, at) = 1..Cardinality(at)
      /\ \A k \in 1..Cardinality(at) : Select(s, at)[k] = s[pos(k)]
      /\ Select(s, at) = [k \in 1..Cardinality(at) |-> s[pos(k)]]
  BY DEF Select
<1>4. ASSUME NEW k \in 1..Cardinality(at) PROVE pos(k) \in at /\ upTo(pos(k)) = k
  BY <1>2
<1>5. ASSUME NEW i \in at, NEW k \in at, upTo(i) = upTo(k) PROVE i = k
  <2>1. i \in 1..Len(s) /\ k \in 1..Len(s)
    BY <1>1
  <2>2. ASSUME NEW a \in at, NEW b \in at, a < b PROVE upTo(a) # upTo(b)
    <3>1. IsFiniteSet(at)
      BY <1>1, FS_Interval, FS_Subset, 1 \in Int, Len(s) \in Int
    <3>2. {j \in at : j <= a} \subseteq {j \in at : j <= b} /\ b \in {j \in at : j <= b}
          /\ b \notin {j \in at : j <= a}
      BY <1>1, <2>2
    <3>3. IsFiniteSet({j \in at : j <= b})
      BY <3>1, FS_Subset
    <3> QED
      BY <3>2, <3>3, FS_Subset
  <2>3. i < k \/ k < i \/ i = k
    BY <2>1
  <2> HIDE DEF upTo
  <2> QED
    BY <1>5, <2>2, <2>3
<1>6. ASSUME NEW i \in at PROVE \E k \in 1..Cardinality(at) : pos(k) = i
  BY <1>2, <1>4, <1>5
<1> HIDE DEF upTo, pos
<1>7. \A k \in 1..Cardinality(at) : s[pos(k)] \in S
  BY <1>1, <1>4
<1>8. Select(s, at) \in Seq(S)
  <2>1. Select(s, at) \in [1..Cardinality(at) -> S]
    BY <1>3, <1>7
  <2> QED
    BY <1>2, <2>1, SeqDef, Zenon
<1>9. ToSet(Select(s, at)) = {s[i] : i \in at}
  <2>1. \A k \in 1..Cardinality(at) : s[pos(k)] \in {s[i] : i \in at}
    BY <1>4
  <2>2. \A i \in at : \E k \in 1..Cardinality(at) : s[pos(k)] = s[i]
    BY <1>6
  <2>3. ToSet(Select(s, at)) \subseteq {s[i] : i \in at}
    BY <1>3, <2>1 DEF ToSet
  <2>4. {s[i] : i \in at} \subseteq ToSet(Select(s, at))
    BY <1>3, <2>2 DEF ToSet
  <2> QED
    BY <2>3, <2>4
<1>10. \A k, l \in 1..Cardinality(at) : k # l => pos(k) # pos(l)
  BY <1>4
<1>11. Select(s, at) = <<>> <=> at = {}
  <2>1. IsFiniteSet(at) /\ (Cardinality(at) = 0 <=> at = {})
    BY <1>1, FS_Interval, FS_Subset, FS_EmptySet, 1 \in Int, Len(s) \in Int
  <2>2. Select(s, at) = <<>> <=> Cardinality(at) = 0
    BY <1>2, <1>3, <1>8, EmptySeq
  <2> QED
    BY <2>1, <2>2
<1> QED
  BY <1>3, <1>4, <1>8, <1>9, <1>10, <1>11
---------------------------------------------------------------------------
\* The requests of a worker, and the places on the way to an answer where they
\* may be: frames on their way, the deferred frame, the batch, answers.
Of(w) == {r \in Requests : r[1] = w}
Asking(b) == {a.request : a \in ToSet(b)}
InFrames(w) == UNION {ToSet(f) : f \in ToSet(toRank[w])}
Deferred(w) == {r \in Of(w) : pending # Nothing /\ r \in ToSet(pending.requests)}
Held(w) ==
  {r \in Of(w) : \/ single # Nothing /\ r \in ToSet(single.requests)
                 \/ \E x \in ToSet(rows) : x.request = r}
InAnswers(w) == UNION {Asking(b) : b \in ToSet(toWorker[w])}
OnItsWay(w) == InFrames(w) \cup Deferred(w) \cup Held(w) \cup InAnswers(w)

Answer == [request : Requests, result : {"done", "refused", "failed"}, row : Nat]
IsFrame(f) == f # Nothing => f.requests \in Seq(Requests)
IsRows(s) == s \in Seq(ToSet(s)) /\ \A x \in ToSet(s) : x.request \in Requests

Fates == {"none", "waiting", "done", "refused", "failed", "rejected", "cancelled"}
\* The types, the futures of requests and the rows of samples among them.
Typed ==
  /\ asked \in [Workers -> Nat]
  /\ future \in [Requests -> Fates]
  /\ phase \in [Workers -> {"sampling", "stopping", "stopped", "updating", "failed"}]
  /\ version \in [Requests -> Nat] /\ current \in Nat
  /\ queue \in [Workers -> Seq(Requests)] /\ sending \in [Workers -> Seq(Requests)]
  /\ inFlight \in [Workers -> SUBSET Requests] /\ ignored \in [Workers -> SUBSET Requests]
  /\ open \in [Workers -> BOOLEAN]
  /\ toRank \in [Workers -> Seq(Seq(Requests))]
  /\ toWorker \in [Workers -> Seq(Seq(Answer))]
  /\ mode \in {"look", "listen", "batch", "dead"}
  /\ IsFrame(single) /\ IsFrame(pending) /\ IsRows(rows) /\ IsRows(samples)
  /\ command \in BOOLEAN /\ faults \in Nat
  /\ \A a \in recorded : a.request \in Requests

\* While a socket is open each request of its worker is in one place, and one
\* that was sent is somewhere unless it was lost with the rank.
InOnePlace(w) ==
  /\ ToSet(sending[w]) \subseteq inFlight[w]
  /\ OnItsWay(w) \subseteq inFlight[w] \ ToSet(sending[w])
  /\ mode # "dead" => inFlight[w] \ ToSet(sending[w]) \subseteq OnItsWay(w)
  /\ ToSet(queue[w]) \cap inFlight[w] = {}
  /\ \A i, j \in DOMAIN queue[w] : i # j => queue[w][i] # queue[w][j]
  /\ \A i, j \in DOMAIN toRank[w] : i # j => ToSet(toRank[w][i]) \cap ToSet(toRank[w][j]) = {}
  /\ \A i, j \in DOMAIN toWorker[w] :
       i # j => Asking(toWorker[w][i]) \cap Asking(toWorker[w][j]) = {}
  /\ InFrames(w) \cap (Deferred(w) \cup Held(w) \cup InAnswers(w)) = {}
  /\ Deferred(w) \cap (Held(w) \cup InAnswers(w)) = {}
  /\ Held(w) \cap InAnswers(w) = {}

\* What is anywhere was asked for, by the worker whose socket it is on.
Asked(w) == {r \in Of(w) : r[2] <= asked[w]}
Placed(w) ==
  /\ ToSet(queue[w]) \cup ToSet(sending[w]) \cup inFlight[w] \cup OnItsWay(w) \subseteq Asked(w)
  /\ ignored[w] \subseteq inFlight[w]
  /\ open[w] => InOnePlace(w)
AllPlaced == \A w \in Workers : Placed(w)

\* Outside of a batch none is held, and a single frame is held alone.
Modes ==
  /\ mode # "batch" => single = Nothing /\ rows = <<>>
  /\ single # Nothing => rows = <<>>

\* Between the versions no request is waited for.
Versions ==
  /\ \A r \in Requests :
       /\ version[r] <= current
       /\ future[r] = "waiting" =>
            version[r] = current /\ phase[r[1]] \in {"sampling", "stopping"}
       /\ future[r] # "refused"
  /\ command => \A w \in Workers : phase[w] = "updating"
  /\ \A w \in Workers : \A b \in ToSet(toWorker[w]) : \A a \in ToSet(b) :
       a.result = "refused" => future[a.request] # "waiting"

\* Who rejected what it asked has closed its socket.
OnceClosed == \A r \in Requests : future[r] = "rejected" => ~open[r[1]]

IsSample(r, row) ==
  version[r] = current /\ mode # "dead" =>
    row \in DOMAIN samples /\ samples[row].request = r
\* A row recorded, or on its way, is its request's sample until the version
\* is trained or the process died.
Sampled ==
  /\ \A a \in recorded : a.request \in Asked(a.request[1]) /\ IsSample(a.request, a.row)
  /\ \A w \in Workers : \A b \in ToSet(toWorker[w]) : \A a \in ToSet(b) :
       a.result = "done" => IsSample(a.request, a.row)

\* What every step keeps.
AnswersInv == Typed /\ AllPlaced /\ Modes /\ Versions /\ OnceClosed /\ Sampled

---------------------------------------------------------------------------
\* A function of the elements of a sequence is a sequence as long.
LEMMA Mapped ==
  ASSUME NEW S, NEW s \in Seq(S), NEW T, NEW t,
         t = [i \in DOMAIN s |-> t[i]], \A i \in DOMAIN s : t[i] \in T
  PROVE  t \in Seq(T) /\ DOMAIN t = DOMAIN s /\ Len(t) = Len(s) /\ DOMAIN s = 1..Len(s)
         /\ Len(s) \in Nat
<1>1. Len(s) \in Nat /\ DOMAIN s = 1..Len(s)
  BY LenProperties
<1>2. t \in [1..Len(s) -> T]
  BY <1>1
<1> QED
  BY <1>1, <1>2, FunctionIsSeq

\* A frame is something.
LEMMA NotNothing ==
  ASSUME NEW n, NEW f
  PROVE  Frame(n, f) # Nothing /\ Frame(n, f).requests = f
<1>1. DOMAIN Frame(n, f) = {"slot", "requests"}
  BY DEF Frame
<1>2. DOMAIN Nothing = {}
  BY DEF Nothing
<1> QED
  BY <1>1, <1>2 DEF Frame

\* The rows of a frame are its requests.
LEMMA ReadRows ==
  ASSUME NEW held, NEW f, f.requests \in Seq(Requests)
  PROVE  /\ IsRows(Read(held, f))
         /\ \A r : (\E x \in ToSet(Read(held, f)) : x.request = r) <=> r \in ToSet(f.requests)
<1> DEFINE t == Read(held, f)
<1>1. /\ t = [i \in DOMAIN f.requests |-> t[i]]
      /\ \A i \in DOMAIN f.requests : t[i].request = f.requests[i]
  BY DEF Read
<1>2. DOMAIN f.requests = 1..Len(f.requests) /\ \A i \in DOMAIN f.requests : f.requests[i] \in Requests
  BY LenProperties, ElementOfSeq
<1> HIDE DEF t
<1>3. DOMAIN t = DOMAIN f.requests /\ \A i \in DOMAIN f.requests : t[i] \in ToSet(t)
  BY <1>1 DEF ToSet
<1>4. t \in Seq(ToSet(t))
  BY <1>1, <1>3, Mapped
<1>5. ASSUME NEW r PROVE (\E x \in ToSet(t) : x.request = r) <=> r \in ToSet(f.requests)
  <2>1. ASSUME NEW x \in ToSet(t), x.request = r PROVE r \in ToSet(f.requests)
    BY <1>1, <1>3, <2>1 DEF ToSet
  <2>2. ASSUME r \in ToSet(f.requests) PROVE \E x \in ToSet(t) : x.request = r
    <3>1. PICK i \in DOMAIN f.requests : f.requests[i] = r
      BY <2>2 DEF ToSet
    <3> QED
      BY <1>1, <1>3, <3>1
  <2> QED
    BY <2>1, <2>2
<1>6. \A x \in ToSet(t) : x.request \in Requests
  BY <1>1, <1>2, <1>3 DEF ToSet
<1> QED
  BY <1>4, <1>5, <1>6 DEF IsRows, t

\* The rows of two frames.
LEMMA RowsJoined ==
  ASSUME NEW s, NEW t, IsRows(s), IsRows(t)
  PROVE  IsRows(s \o t) /\ ToSet(s \o t) = ToSet(s) \cup ToSet(t)
<1> DEFINE S == ToSet(s) \cup ToSet(t)
<1>1. s \in Seq(S) /\ t \in Seq(S)
  BY SeqMonotonic DEF IsRows
<1>2. s \o t \in Seq(S) /\ ToSet(s \o t) = S
  BY <1>1, Chained
<1> QED
  BY <1>2 DEF IsRows

\* A batch is the frames held, be it the single one or the rows of several.
LEMMA BatchRows ==
  ASSUME Typed, Modes
  PROVE  /\ IsRows(Batch)
         /\ \A w \in Workers :
              Held(w) = {r \in Of(w) : \E x \in ToSet(Batch) : x.request = r}
<1>1. CASE single = Nothing
  BY <1>1 DEF Batch, Held, Typed
<1>2. CASE single # Nothing
  <2>1. single.requests \in Seq(Requests) /\ rows = <<>> /\ ToSet(rows) = {}
    BY <1>2 DEF Typed, IsFrame, Modes, ToSet
  <2>2. Batch = Read(slots, single)
    BY <1>2 DEF Batch
  <2>3. /\ IsRows(Batch)
        /\ \A r : (\E x \in ToSet(Batch) : x.request = r) <=> r \in ToSet(single.requests)
    <3>1. /\ IsRows(Read(slots, single))
          /\ \A r : (\E x \in ToSet(Read(slots, single)) : x.request = r)
                      <=> r \in ToSet(single.requests)
      BY <2>1, ReadRows
    <3> HIDE DEF Batch
    <3> QED
      BY <2>2, <3>1
  <2> QED
    BY <1>2, <2>1, <2>3 DEF Held
<1> QED
  BY <1>1, <1>2

\* A worker gets the answers to its own requests.
LEMMA ForWorker ==
  ASSUME NEW w \in Workers, NEW s \in Seq(Answer)
  PROVE  /\ For(w, s) \in Seq(Answer)
         /\ ToSet(For(w, s)) = {a \in ToSet(s) : a.request \in Of(w)}
<1> DEFINE at == {i \in DOMAIN s : s[i].request[1] = w}
<1>1. at \in SUBSET DOMAIN s
  OBVIOUS
<1> HIDE DEF at
<1>2. Select(s, at) \in Seq(Answer) /\ ToSet(Select(s, at)) = {s[i] : i \in at}
  BY <1>1, Selected
<1>3. \A i \in DOMAIN s : s[i].request \in Requests
  <2>1. \A i \in DOMAIN s : s[i] \in Answer
    BY LenProperties
  <2> QED
    BY <2>1 DEF Answer
<1>4. {s[i] : i \in at} = {a \in ToSet(s) : a.request \in Of(w)}
  BY <1>3 DEF at, ToSet, Of
<1> QED
  BY <1>2, <1>4 DEF For, at

\* A batch is parted by the version of its requests and by what failed.
LEMMA Parted ==
  ASSUME NEW batch, IsRows(batch), NEW failed
  PROVE  /\ IsRows(DecidedRows(batch, failed)) /\ IsRows(UndecidedRows(batch, failed))
         /\ IsRows(Mismatched(batch))
         /\ ToSet(DecidedRows(batch, failed)) =
              {x \in ToSet(batch) : version[x.request] = current /\ x.request \notin failed}
         /\ ToSet(UndecidedRows(batch, failed)) =
              {x \in ToSet(batch) : version[x.request] = current /\ x.request \in failed}
         /\ ToSet(Mismatched(batch)) = {x \in ToSet(batch) : version[x.request] # current}
<1> DEFINE S == ToSet(batch)
           at == {i \in MatchedAt(batch) : batch[i].request \notin failed}
           ill == {i \in MatchedAt(batch) : batch[i].request \in failed}
           off == DOMAIN batch \ MatchedAt(batch)
<1>1. /\ at \in SUBSET DOMAIN batch /\ ill \in SUBSET DOMAIN batch /\ off \in SUBSET DOMAIN batch
      /\ batch \in Seq(S)
  BY DEF MatchedAt, IsRows
<1>2. /\ {batch[i] : i \in at} = {x \in S : version[x.request] = current /\ x.request \notin failed}
      /\ {batch[i] : i \in ill} = {x \in S : version[x.request] = current /\ x.request \in failed}
      /\ {batch[i] : i \in off} = {x \in S : version[x.request] # current}
  BY DEF MatchedAt, ToSet
<1>3. /\ DecidedRows(batch, failed) = Select(batch, at) /\ UndecidedRows(batch, failed) = Select(batch, ill)
      /\ Mismatched(batch) = Select(batch, off)
  BY DEF DecidedRows, UndecidedRows, Mismatched
<1> HIDE DEF at, ill, off
<1>4. ASSUME NEW t \in Seq(S), ToSet(t) \subseteq S PROVE IsRows(t)
  <2>1. t \in Seq(ToSet(t))
    <3>1. \A i \in DOMAIN t : t[i] \in ToSet(t)
      BY DEF ToSet
    <3>2. t = [i \in DOMAIN t |-> t[i]]
      BY LenProperties
    <3> QED
      BY <3>1, <3>2, Mapped
  <2> QED
    BY <1>4, <2>1 DEF IsRows
<1>5. ASSUME NEW m \in SUBSET DOMAIN batch
      PROVE  /\ Select(batch, m) \in Seq(S) /\ ToSet(Select(batch, m)) = {batch[i] : i \in m}
             /\ ToSet(Select(batch, m)) \subseteq S
  <2>1. Select(batch, m) \in Seq(S) /\ ToSet(Select(batch, m)) = {batch[i] : i \in m}
    BY <1>1, Selected
  <2> QED
    BY <2>1 DEF ToSet
<1> QED
  BY <1>1, <1>2, <1>3, <1>4, <1>5

\* The frame of the answers to some rows, and to whom it goes.
LEMMA FrameOfAnswers ==
  ASSUME NEW x, NEW t \in Seq(Answer), DOMAIN t = DOMAIN x,
         \A i \in DOMAIN x : t[i].request = x[i].request, NEW w \in Workers
  PROVE  /\ For(w, t) \in Seq(Answer) /\ ToSet(For(w, t)) \subseteq ToSet(t)
         /\ \A r : r \in Asking(For(w, t)) <=> r \in Of(w) /\ \E y \in ToSet(x) : y.request = r
<1>2. For(w, t) \in Seq(Answer) /\ ToSet(For(w, t)) = {a \in ToSet(t) : a.request \in Of(w)}
  BY ForWorker
<1>3. \A r : (\E a \in ToSet(t) : a.request = r) <=> \E y \in ToSet(x) : y.request = r
  BY DEF ToSet
<1>4. ASSUME NEW r PROVE r \in Asking(For(w, t)) <=> r \in Of(w) /\ \E y \in ToSet(x) : y.request = r
  BY <1>2, <1>3 DEF Asking
<1> QED
  BY <1>2, <1>4

\* The answers to a batch: those of another version are refused, those that
\* could not be decided fail and the others have the row of their sample.
LEMMA Replies ==
  ASSUME NEW batch, IsRows(batch), NEW w \in Workers, samples \in Seq(ToSet(samples)), NEW failed
  PROVE  /\ Responses(w, batch, failed) \in Seq(Seq(Answer))
         /\ \A k, l \in DOMAIN Responses(w, batch, failed) : k # l =>
              Asking(Responses(w, batch, failed)[k]) \cap Asking(Responses(w, batch, failed)[l]) = {}
         /\ \A b \in ToSet(Responses(w, batch, failed)) : \A a \in ToSet(b) :
              /\ a.request \in Of(w) /\ \E x \in ToSet(batch) : x.request = a.request
              /\ a.result = "refused" => version[a.request] # current
              /\ a.result = "done" => \E i \in DOMAIN DecidedRows(batch, failed) :
                   a.row = Len(samples) + i /\ a.request = DecidedRows(batch, failed)[i].request
         /\ \A x \in ToSet(batch) : x.request \in Of(w) =>
              \E b \in ToSet(Responses(w, batch, failed)) : x.request \in Asking(b)
<1> DEFINE out == Mismatched(batch)
           ill == UndecidedRows(batch, failed)
           fit == DecidedRows(batch, failed)
           no == Refusals(out)
           bad == Failures(ill)
           yes == Answers(fit)
           all == <<For(w, no), For(w, bad), For(w, yes)>>
           at == {i \in 1..3 : all[i] # <<>>}
<1>0. Len(samples) \in Nat
  BY LenProperties
<1>1. /\ IsRows(out) /\ IsRows(ill) /\ IsRows(fit)
      /\ ToSet(fit) = {x \in ToSet(batch) : version[x.request] = current /\ x.request \notin failed}
      /\ ToSet(ill) = {x \in ToSet(batch) : version[x.request] = current /\ x.request \in failed}
      /\ ToSet(out) = {x \in ToSet(batch) : version[x.request] # current}
  BY Parted
<1>2. /\ no = [i \in DOMAIN out |-> [request |-> out[i].request, result |-> "refused", row |-> 0]]
      /\ bad = [i \in DOMAIN ill |-> [request |-> ill[i].request, result |-> "failed", row |-> 0]]
      /\ yes = [i \in DOMAIN fit |->
                  [request |-> fit[i].request, result |-> "done", row |-> Len(samples) + i]]
  BY DEF Refusals, Failures, Answers, RowOf
<1>3. Responses(w, batch, failed) = Select(all, at)
  BY DEF Responses
<1> HIDE DEF out, ill, fit
<1>4. \A i \in DOMAIN fit : i \in Nat /\ fit[i] \in ToSet(fit) /\ fit[i].request \in Requests
  BY <1>1, LenProperties DEF IsRows, ToSet
<1>5. /\ \A i \in DOMAIN out : out[i] \in ToSet(out) /\ out[i].request \in Requests
      /\ \A i \in DOMAIN ill : ill[i] \in ToSet(ill) /\ ill[i].request \in Requests
  BY <1>1 DEF IsRows, ToSet
<1> HIDE DEF no, bad, yes
<1>6. /\ no \in Seq(Answer) /\ DOMAIN no = DOMAIN out
      /\ \A i \in DOMAIN out : no[i].request = out[i].request
      /\ \A i \in DOMAIN out : no[i].result = "refused"
  <2>1. no = [i \in DOMAIN out |-> no[i]] /\ \A i \in DOMAIN out : no[i] \in Answer
    BY <1>2, <1>5 DEF Answer
  <2>2. no \in Seq(Answer) /\ DOMAIN no = DOMAIN out
    <3>1. out \in Seq(ToSet(out))
      BY <1>1 DEF IsRows
    <3> QED
      BY <2>1, <3>1, Mapped
  <2> QED
    BY <1>2, <2>2
<1>7. /\ bad \in Seq(Answer) /\ DOMAIN bad = DOMAIN ill
      /\ \A i \in DOMAIN ill : bad[i].request = ill[i].request
      /\ \A i \in DOMAIN ill : bad[i].result = "failed"
  <2>1. bad = [i \in DOMAIN ill |-> bad[i]] /\ \A i \in DOMAIN ill : bad[i] \in Answer
    BY <1>2, <1>5 DEF Answer
  <2>2. bad \in Seq(Answer) /\ DOMAIN bad = DOMAIN ill
    BY <1>1, <2>1, Mapped DEF IsRows
  <2> QED
    BY <1>2, <2>2
<1>8. /\ yes \in Seq(Answer) /\ DOMAIN yes = DOMAIN fit
      /\ \A i \in DOMAIN fit : yes[i].request = fit[i].request
      /\ \A i \in DOMAIN fit : yes[i].result = "done" /\ yes[i].row = Len(samples) + i
  <2>0. \A i \in DOMAIN fit : Len(samples) + i \in Nat
    BY <1>0, <1>4
  <2>1. yes = [i \in DOMAIN fit |-> yes[i]] /\ \A i \in DOMAIN fit : yes[i] \in Answer
    BY <1>2, <1>4, <2>0 DEF Answer
  <2>2. yes \in Seq(Answer) /\ DOMAIN yes = DOMAIN fit
    BY <1>1, <2>1, Mapped DEF IsRows
  <2> QED
    BY <1>2, <2>2
<1>9. /\ For(w, no) \in Seq(Answer) /\ ToSet(For(w, no)) \subseteq ToSet(no)
      /\ \A r : r \in Asking(For(w, no)) <=> r \in Of(w) /\ \E y \in ToSet(out) : y.request = r
  BY <1>6, FrameOfAnswers
<1>10. /\ For(w, bad) \in Seq(Answer) /\ ToSet(For(w, bad)) \subseteq ToSet(bad)
       /\ \A r : r \in Asking(For(w, bad)) <=> r \in Of(w) /\ \E y \in ToSet(ill) : y.request = r
  BY <1>7, FrameOfAnswers
<1>11. /\ For(w, yes) \in Seq(Answer) /\ ToSet(For(w, yes)) \subseteq ToSet(yes)
       /\ \A r : r \in Asking(For(w, yes)) <=> r \in Of(w) /\ \E y \in ToSet(fit) : y.request = r
  BY <1>8, FrameOfAnswers
<1>a. all \in Seq(Seq(Answer))
  BY <1>9, <1>10, <1>11
<1>12. /\ DOMAIN all = 1..3
       /\ all[1] = For(w, no) /\ all[2] = For(w, bad) /\ all[3] = For(w, yes)
  BY <1>9, <1>10, <1>11
<1> HIDE DEF all
<1>13. at \subseteq 1..3
  OBVIOUS
<1>b. at \in SUBSET DOMAIN all
  BY <1>12
<1> HIDE DEF at
<1>14. /\ Responses(w, batch, failed) \in Seq(Seq(Answer))
       /\ ToSet(Responses(w, batch, failed)) = {all[i] : i \in at}
       /\ \A k, l \in DOMAIN Responses(w, batch, failed) : \E i, j \in at :
            /\ Responses(w, batch, failed)[k] = all[i] /\ Responses(w, batch, failed)[l] = all[j]
            /\ k # l => i # j
  <2>1. /\ Select(all, at) \in Seq(Seq(Answer))
        /\ ToSet(Select(all, at)) = {all[i] : i \in at}
        /\ \A k, l \in DOMAIN Select(all, at) : \E i, j \in at :
             /\ Select(all, at)[k] = all[i] /\ Select(all, at)[l] = all[j]
             /\ k # l => i # j
    BY <1>b, <1>a, Selected
  <2> QED
    BY <1>3, <2>1
<1>15. /\ Asking(For(w, no)) \cap Asking(For(w, bad)) = {}
       /\ Asking(For(w, no)) \cap Asking(For(w, yes)) = {}
       /\ Asking(For(w, bad)) \cap Asking(For(w, yes)) = {}
  BY <1>1, <1>9, <1>10, <1>11
<1>16. ASSUME NEW k \in DOMAIN Responses(w, batch, failed),
              NEW l \in DOMAIN Responses(w, batch, failed), k # l
       PROVE  Asking(Responses(w, batch, failed)[k]) \cap Asking(Responses(w, batch, failed)[l]) = {}
  <2>1. PICK i, j \in at : /\ Responses(w, batch, failed)[k] = all[i]
                           /\ Responses(w, batch, failed)[l] = all[j] /\ i # j
    BY <1>14, <1>16
  <2>2. i \in {1, 2, 3} /\ j \in {1, 2, 3}
    BY <1>13
  <2> QED
    BY <1>12, <1>15, <2>1, <2>2
<1>17. ASSUME NEW b \in ToSet(Responses(w, batch, failed)), NEW a \in ToSet(b)
       PROVE  /\ a.request \in Of(w) /\ \E x \in ToSet(batch) : x.request = a.request
              /\ a.result = "refused" => version[a.request] # current
              /\ a.result = "done" => \E i \in DOMAIN fit :
                   a.row = Len(samples) + i /\ a.request = fit[i].request
  <2>1. \E i \in {1, 2, 3} : b = all[i]
    <3>1. \E i \in at : b = all[i]
      BY <1>14
    <3>2. \A i \in at : i \in {1, 2, 3}
      BY <1>13
    <3> QED
      BY <3>1, <3>2
  <2>2. b = For(w, no) \/ b = For(w, bad) \/ b = For(w, yes)
    BY <1>12, <2>1
  <2>3. a.request \in Asking(b)
    BY DEF Asking
  <2>4. a.request \in Of(w) /\ \E x \in ToSet(batch) : x.request = a.request
    BY <1>1, <1>9, <1>10, <1>11, <2>2, <2>3
  <2>5. CASE b = For(w, no)
    <3>0. a \in ToSet(no)
      BY <1>9, <2>5
    <3>1. a.result = "refused"
      BY <1>6, <3>0 DEF ToSet
    <3> QED
      BY <1>1, <1>9, <2>3, <2>4, <2>5, <3>1
  <2>6. CASE b = For(w, bad)
    <3>0. a \in ToSet(bad)
      BY <1>10, <2>6
    <3>1. a.result = "failed"
      BY <1>7, <3>0 DEF ToSet
    <3> QED
      BY <2>4, <3>1
  <2>7. CASE b = For(w, yes)
    <3>0. a \in ToSet(yes)
      BY <1>11, <2>7
    <3>1. PICK i \in DOMAIN fit : a = yes[i]
      BY <1>8, <3>0 DEF ToSet
    <3>2. a.result = "done" /\ a.row = Len(samples) + i /\ a.request = fit[i].request
      BY <1>8, <3>1
    <3> QED
      BY <2>4, <3>2
  <2> QED
    BY <2>2, <2>5, <2>6, <2>7
<1>18. ASSUME NEW x \in ToSet(batch), x.request \in Of(w)
       PROVE  \E b \in ToSet(Responses(w, batch, failed)) : x.request \in Asking(b)
  <2>1. x \in ToSet(out) \/ x \in ToSet(ill) \/ x \in ToSet(fit)
    BY <1>1
  <2>2. \E i \in 1..3 : x.request \in Asking(all[i])
    BY <1>9, <1>10, <1>11, <1>12, <1>18, <2>1
  <2>3. PICK i \in 1..3 : x.request \in Asking(all[i])
    BY <2>2
  <2>4. all[i] # <<>>
    BY <2>3 DEF Asking, ToSet
  <2>5. i \in at
    BY <2>3, <2>4 DEF at
  <2> QED
    BY <1>14, <2>3, <2>5
<1> QED
  BY <1>14, <1>16, <1>17, <1>18 DEF fit

---------------------------------------------------------------------------
LEMMA InitAnswers == InferenceInit => AnswersInv
<1> SUFFICES ASSUME InferenceInit PROVE AnswersInv
  OBVIOUS
<1>0. ToSet(<<>>) = {}
  BY DEF ToSet
<1>1. \A r \in Requests : r[1] \in Workers /\ r[2] \in Nat
  BY DEF Requests
<1>2. \A w \in Workers : /\ queue[w] = <<>> /\ sending[w] = <<>> /\ toRank[w] = <<>>
                         /\ toWorker[w] = <<>> /\ inFlight[w] = {} /\ ignored[w] = {} /\ asked[w] = 0
  BY DEF InferenceInit
<1>3. /\ single = Nothing /\ pending = Nothing /\ rows = <<>> /\ samples = <<>> /\ recorded = {}
      /\ mode = "look" /\ current = 0
  BY DEF InferenceInit
<1>4. Typed
  <2>1. \A S : <<>> \in Seq(S)
    OBVIOUS
  <2>2. IsRows(<<>>)
    BY <1>0 DEF IsRows
  <2>3. command \in BOOLEAN /\ open \in [Workers -> BOOLEAN]
    BY Zenon DEF InferenceInit
  <2> QED
    BY <2>1, <2>2, <2>3, <1>3 DEF InferenceInit, Typed, Fates, IsFrame
<1>5. \A w \in Workers : /\ InFrames(w) = {} /\ Deferred(w) = {} /\ Held(w) = {}
                         /\ InAnswers(w) = {} /\ Owed(w) = {}
  BY <1>0, <1>2, <1>3 DEF InFrames, Deferred, Held, InAnswers, Owed
<1>7. Modes
  BY <1>3 DEF Modes
<1>8. Versions
  BY <1>0, <1>1, <1>2, <1>3 DEF Versions, InferenceInit
<1>9. OnceClosed
  BY DEF OnceClosed, InferenceInit
<1>10. Sampled
  BY <1>0, <1>2, <1>3 DEF Sampled
<1>11. \A w \in Workers : Placed(w)
  BY <1>0, <1>2, <1>5 DEF InOnePlace, Placed, OnItsWay
<1> QED
  BY <1>4, <1>7, <1>8, <1>9, <1>10, <1>11 DEF AnswersInv, AllPlaced

---------------------------------------------------------------------------
(* The places of a worker, step by step *)

\* The answers owed to a worker.
LEMMA OwedPlaces ==
  ASSUME NEW w \in Workers, Placed(w)
  PROVE  Owed(w) = OnItsWay(w)
<1>1. InFrames(w) \subseteq Of(w) /\ InAnswers(w) \subseteq Of(w)
  BY DEF Placed, OnItsWay, Asked
<1>2. InFrames(w) = {r \in Of(w) : \E f \in ToSet(toRank[w]) : r \in ToSet(f)}
  BY <1>1 DEF InFrames
<1>3. InAnswers(w) = {r \in Of(w) : \E b \in ToSet(toWorker[w]) : \E a \in ToSet(b) : a.request = r}
  BY <1>1 DEF InAnswers, Asking
<1>4. /\ Deferred(w) = {r \in Of(w) : pending # Nothing /\ r \in ToSet(pending.requests)}
      /\ Held(w) = {r \in Of(w) : \/ single # Nothing /\ r \in ToSet(single.requests)
                                  \/ \E x \in ToSet(rows) : x.request = r}
  BY DEF Deferred, Held
<1>5. Owed(w) = {r \in Of(w) :
         \/ \E f \in ToSet(toRank[w]) : r \in ToSet(f)
         \/ pending # Nothing /\ r \in ToSet(pending.requests)
         \/ single # Nothing /\ r \in ToSet(single.requests)
         \/ \E x \in ToSet(rows) : x.request = r
         \/ \E b \in ToSet(toWorker[w]) : \E a \in ToSet(b) : a.request = r}
  BY DEF Owed, Of
<1> QED
  BY <1>2, <1>3, <1>4, <1>5 DEF OnItsWay

\* A frame is sent.
LEMMA FrameSent ==
  ASSUME Typed, NEW w \in Workers, NEW f \in Seq(Requests), NEW s, s = Append(toRank[w], f)
  PROVE  /\ s \in Seq(Seq(Requests))
         /\ UNION {ToSet(g) : g \in ToSet(s)} = InFrames(w) \cup ToSet(f)
         /\ (\A i, j \in DOMAIN toRank[w] : i # j => ToSet(toRank[w][i]) \cap ToSet(toRank[w][j]) = {})
              /\ ToSet(f) \cap InFrames(w) = {}
            => \A i, j \in DOMAIN s : i # j => ToSet(s[i]) \cap ToSet(s[j]) = {}
<1> DEFINE t == toRank[w]
<1>1. t \in Seq(Seq(Requests))
  BY DEF Typed
<1> HIDE DEF t
<1>2. ToSet(Append(t, f)) = ToSet(t) \cup {f} /\ Append(t, f) \in Seq(Seq(Requests))
  BY <1>1, AddedLast, AppendProperties
<1>3. /\ DOMAIN Append(t, f) = 1..(Len(t) + 1) /\ DOMAIN t = 1..Len(t) /\ Len(t) \in Nat
      /\ \A i \in 1..Len(t) : Append(t, f)[i] = t[i]
      /\ Append(t, f)[Len(t) + 1] = f
  BY <1>1, AppendProperties, LenProperties
<1>4. \A i \in DOMAIN t : ToSet(t[i]) \subseteq InFrames(w)
  BY DEF InFrames, ToSet, t
<1>5. InFrames(w) = UNION {ToSet(g) : g \in ToSet(t)}
  BY DEF InFrames, t
<1>6. ASSUME \A i, j \in DOMAIN t : i # j => ToSet(t[i]) \cap ToSet(t[j]) = {},
             ToSet(f) \cap InFrames(w) = {}, NEW i \in DOMAIN s, NEW j \in DOMAIN s, i # j
      PROVE  ToSet(s[i]) \cap ToSet(s[j]) = {}
  <2>1. (i \in DOMAIN t /\ s[i] = t[i]) \/ (i = Len(t) + 1 /\ s[i] = f)
    BY <1>3 DEF t
  <2>2. (j \in DOMAIN t /\ s[j] = t[j]) \/ (j = Len(t) + 1 /\ s[j] = f)
    BY <1>3 DEF t
  <2> QED
    BY <1>4, <1>6, <2>1, <2>2
<1> QED
  BY <1>2, <1>5, <1>6 DEF t

\* The first frame is received.
LEMMA FrameTaken ==
  ASSUME Typed, NEW w \in Workers, toRank[w] # <<>>, NEW s, s = Tail(toRank[w])
  PROVE  /\ s \in Seq(Seq(Requests)) /\ Head(toRank[w]) \in Seq(Requests)
         /\ (UNION {ToSet(g) : g \in ToSet(s)}) \cup ToSet(Head(toRank[w])) = InFrames(w)
         /\ (\A i, j \in DOMAIN toRank[w] : i # j => ToSet(toRank[w][i]) \cap ToSet(toRank[w][j]) = {})
            => /\ \A i, j \in DOMAIN s : i # j => ToSet(s[i]) \cap ToSet(s[j]) = {}
               /\ (UNION {ToSet(g) : g \in ToSet(s)}) \cap ToSet(Head(toRank[w])) = {}
<1> DEFINE t == toRank[w]
<1>1. t \in Seq(Seq(Requests)) /\ t # <<>> /\ s = Tail(t)
  BY DEF Typed
<1> HIDE DEF t
<1>2. /\ Head(t) \in Seq(Requests) /\ Head(t) = t[1] /\ Tail(t) \in Seq(Seq(Requests))
      /\ 1 \in DOMAIN t
      /\ \A i \in DOMAIN Tail(t) : i + 1 \in DOMAIN t /\ i \in Nat \ {0} /\ Tail(t)[i] = t[i + 1]
      /\ ToSet(t) = {Head(t)} \cup ToSet(Tail(t))
  BY <1>1, TakenFirst
<1>3. InFrames(w) = UNION {ToSet(g) : g \in ToSet(t)}
  BY DEF InFrames, t
<1> DEFINE U == UNION {ToSet(g) : g \in ToSet(s)}
<1> HIDE DEF U
<1>4. ASSUME \A i, j \in DOMAIN t : i # j => ToSet(t[i]) \cap ToSet(t[j]) = {}
      PROVE  /\ \A i, j \in DOMAIN s : i # j => ToSet(s[i]) \cap ToSet(s[j]) = {}
             /\ U \cap ToSet(Head(t)) = {}
  <2>1. ASSUME NEW i \in DOMAIN s, NEW j \in DOMAIN s, i # j
        PROVE  ToSet(s[i]) \cap ToSet(s[j]) = {}
    <3>1. i + 1 \in DOMAIN t /\ j + 1 \in DOMAIN t /\ i + 1 # j + 1 /\ s[i] = t[i + 1] /\ s[j] = t[j + 1]
      BY <1>1, <1>2, <2>1
    <3> QED
      BY <1>4, <3>1
  <2>2. ASSUME NEW i \in DOMAIN s PROVE ToSet(s[i]) \cap ToSet(Head(t)) = {}
    <3>1. i + 1 \in DOMAIN t /\ i + 1 # 1 /\ s[i] = t[i + 1]
      BY <1>1, <1>2
    <3> QED
      BY <1>2, <1>4, <3>1
  <2>3. ASSUME NEW g \in ToSet(s) PROVE ToSet(g) \cap ToSet(Head(t)) = {}
    <3>1. \E i \in DOMAIN s : g = s[i]
      BY DEF ToSet
    <3> QED
      BY <2>2, <3>1
  <2>4. ASSUME NEW r \in U PROVE r \notin ToSet(Head(t))
    <3>1. \E g \in ToSet(s) : r \in ToSet(g)
      BY DEF U
    <3> QED
      BY <2>3, <3>1
  <2>5. U \cap ToSet(Head(t)) = {}
    BY <2>4
  <2> QED
    BY <2>1, <2>5
<1>5. U \cup ToSet(Head(t)) = InFrames(w)
  <2>1. ToSet(t) = {Head(t)} \cup ToSet(s)
    BY <1>1, <1>2
  <2>2. ASSUME NEW r PROVE r \in InFrames(w) <=>
          r \in ToSet(Head(t)) \/ r \in U
    BY <1>3, <2>1 DEF U
  <2> QED
    BY <2>2
<1>6. s \in Seq(Seq(Requests)) /\ Head(t) \in Seq(Requests) /\ ToSet(t) = {Head(t)} \cup ToSet(s)
  BY <1>1, <1>2
<1>7. (\A i, j \in DOMAIN t : i # j => ToSet(t[i]) \cap ToSet(t[j]) = {})
      => /\ \A i, j \in DOMAIN s : i # j => ToSet(s[i]) \cap ToSet(s[j]) = {}
         /\ U \cap ToSet(Head(t)) = {}
  BY <1>4
<1> QED
  BY <1>5, <1>6, <1>7 DEF t, U

\* The first answers are received.
LEMMA AnswersTaken ==
  ASSUME Typed, NEW w \in Workers, toWorker[w] # <<>>, NEW s, s = Tail(toWorker[w])
  PROVE  /\ s \in Seq(Seq(Answer)) /\ Head(toWorker[w]) \in Seq(Answer)
         /\ ToSet(toWorker[w]) = {Head(toWorker[w])} \cup ToSet(s)
         /\ (UNION {Asking(b) : b \in ToSet(s)}) \cup Asking(Head(toWorker[w])) = InAnswers(w)
         /\ (\A i, j \in DOMAIN toWorker[w] : i # j => Asking(toWorker[w][i]) \cap Asking(toWorker[w][j]) = {})
            => /\ \A i, j \in DOMAIN s : i # j => Asking(s[i]) \cap Asking(s[j]) = {}
               /\ (UNION {Asking(b) : b \in ToSet(s)}) \cap Asking(Head(toWorker[w])) = {}
<1> DEFINE t == toWorker[w]
<1>1. t \in Seq(Seq(Answer)) /\ t # <<>> /\ s = Tail(t)
  BY DEF Typed
<1> HIDE DEF t
<1>2. /\ Head(t) \in Seq(Answer) /\ Head(t) = t[1] /\ Tail(t) \in Seq(Seq(Answer))
      /\ 1 \in DOMAIN t
      /\ \A i \in DOMAIN Tail(t) : i + 1 \in DOMAIN t /\ i \in Nat \ {0} /\ Tail(t)[i] = t[i + 1]
      /\ ToSet(t) = {Head(t)} \cup ToSet(Tail(t))
  BY <1>1, TakenFirst
<1>3. InAnswers(w) = UNION {Asking(b) : b \in ToSet(t)}
  BY DEF InAnswers, t
<1> DEFINE U == UNION {Asking(b) : b \in ToSet(s)}
<1> HIDE DEF U
<1>4. ASSUME \A i, j \in DOMAIN t : i # j => Asking(t[i]) \cap Asking(t[j]) = {}
      PROVE  /\ \A i, j \in DOMAIN s : i # j => Asking(s[i]) \cap Asking(s[j]) = {}
             /\ U \cap Asking(Head(t)) = {}
  <2>1. ASSUME NEW i \in DOMAIN s, NEW j \in DOMAIN s, i # j
        PROVE  Asking(s[i]) \cap Asking(s[j]) = {}
    <3>1. i + 1 \in DOMAIN t /\ j + 1 \in DOMAIN t /\ i + 1 # j + 1 /\ s[i] = t[i + 1] /\ s[j] = t[j + 1]
      BY <1>1, <1>2, <2>1
    <3> QED
      BY <1>4, <3>1
  <2>2. ASSUME NEW i \in DOMAIN s PROVE Asking(s[i]) \cap Asking(Head(t)) = {}
    <3>1. i + 1 \in DOMAIN t /\ i + 1 # 1 /\ s[i] = t[i + 1]
      BY <1>1, <1>2
    <3> QED
      BY <1>2, <1>4, <3>1
  <2>3. ASSUME NEW b \in ToSet(s) PROVE Asking(b) \cap Asking(Head(t)) = {}
    <3>1. \E i \in DOMAIN s : b = s[i]
      BY DEF ToSet
    <3> QED
      BY <2>2, <3>1
  <2>4. ASSUME NEW r \in U PROVE r \notin Asking(Head(t))
    <3>1. \E b \in ToSet(s) : r \in Asking(b)
      BY DEF U
    <3> QED
      BY <2>3, <3>1
  <2>5. U \cap Asking(Head(t)) = {}
    BY <2>4
  <2> QED
    BY <2>1, <2>5
<1>5. U \cup Asking(Head(t)) = InAnswers(w)
  <2>1. ToSet(t) = {Head(t)} \cup ToSet(s)
    BY <1>1, <1>2
  <2>2. ASSUME NEW r PROVE r \in InAnswers(w) <=>
          r \in Asking(Head(t)) \/ r \in U
    BY <1>3, <2>1 DEF U
  <2> QED
    BY <2>2
<1>6. s \in Seq(Seq(Answer)) /\ Head(t) \in Seq(Answer) /\ ToSet(t) = {Head(t)} \cup ToSet(s)
  BY <1>1, <1>2
<1>7. (\A i, j \in DOMAIN t : i # j => Asking(t[i]) \cap Asking(t[j]) = {})
      => /\ \A i, j \in DOMAIN s : i # j => Asking(s[i]) \cap Asking(s[j]) = {}
         /\ U \cap Asking(Head(t)) = {}
  BY <1>4
<1> QED
  BY <1>5, <1>6, <1>7 DEF t, U

\* Answers to other requests follow.
LEMMA AnswersSent ==
  ASSUME Typed, NEW w \in Workers, NEW new \in Seq(Seq(Answer)), NEW s, s = toWorker[w] \o new
  PROVE  /\ s \in Seq(Seq(Answer)) /\ ToSet(s) = ToSet(toWorker[w]) \cup ToSet(new)
         /\ UNION {Asking(b) : b \in ToSet(s)} = InAnswers(w) \cup UNION {Asking(b) : b \in ToSet(new)}
         /\ /\ \A i, j \in DOMAIN toWorker[w] : i # j => Asking(toWorker[w][i]) \cap Asking(toWorker[w][j]) = {}
            /\ \A i, j \in DOMAIN new : i # j => Asking(new[i]) \cap Asking(new[j]) = {}
            /\ InAnswers(w) \cap UNION {Asking(b) : b \in ToSet(new)} = {}
            => \A i, j \in DOMAIN s : i # j => Asking(s[i]) \cap Asking(s[j]) = {}
<1> DEFINE t == toWorker[w]
<1>1. t \in Seq(Seq(Answer)) /\ s = t \o new
  BY DEF Typed
<1>2. InAnswers(w) = UNION {Asking(b) : b \in ToSet(t)}
  BY DEF InAnswers
<1>3. \A i \in DOMAIN t : Asking(t[i]) \subseteq InAnswers(w)
  BY <1>2 DEF ToSet
<1> HIDE DEF t
<1>4. /\ s \in Seq(Seq(Answer)) /\ ToSet(s) = ToSet(t) \cup ToSet(new)
      /\ Len(t) \in Nat
      /\ \A i \in DOMAIN t : i \in DOMAIN s /\ s[i] = t[i]
      /\ \A i \in DOMAIN new : Len(t) + i \in DOMAIN s /\ s[Len(t) + i] = new[i]
      /\ \A k \in DOMAIN s : k \in DOMAIN t \/ \E i \in DOMAIN new : k = Len(t) + i
  BY <1>1, Chained
<1>5. \A i \in DOMAIN new : Asking(new[i]) \subseteq UNION {Asking(b) : b \in ToSet(new)}
  BY DEF ToSet
<1>6. ASSUME \A i, j \in DOMAIN t : i # j => Asking(t[i]) \cap Asking(t[j]) = {},
             \A i, j \in DOMAIN new : i # j => Asking(new[i]) \cap Asking(new[j]) = {},
             InAnswers(w) \cap UNION {Asking(b) : b \in ToSet(new)} = {},
             NEW i \in DOMAIN s, NEW j \in DOMAIN s, i # j
      PROVE  Asking(s[i]) \cap Asking(s[j]) = {}
  <2>1. CASE i \in DOMAIN t /\ j \in DOMAIN t
    BY <1>4, <1>6, <2>1
  <2>2. CASE i \in DOMAIN t /\ \E k \in DOMAIN new : j = Len(t) + k
    BY <1>3, <1>4, <1>5, <1>6, <2>2
  <2>3. CASE j \in DOMAIN t /\ \E k \in DOMAIN new : i = Len(t) + k
    BY <1>3, <1>4, <1>5, <1>6, <2>3
  <2>4. CASE (\E k \in DOMAIN new : i = Len(t) + k) /\ (\E k \in DOMAIN new : j = Len(t) + k)
    <3>1. PICK k \in DOMAIN new : i = Len(t) + k
      BY <2>4
    <3>2. PICK l \in DOMAIN new : j = Len(t) + l
      BY <2>4
    <3>3. k # l /\ s[i] = new[k] /\ s[j] = new[l]
      BY <1>4, <1>6, <3>1, <3>2
    <3> QED
      BY <1>6, <3>3
  <2> QED
    BY <1>4, <2>1, <2>2, <2>3, <2>4
<1>7. UNION {Asking(b) : b \in ToSet(s)} = InAnswers(w) \cup UNION {Asking(b) : b \in ToSet(new)}
  BY <1>2, <1>4 DEF t
<1> QED
  BY <1>4, <1>6, <1>7 DEF t

---------------------------------------------------------------------------
\* What keeps a worker's queues and the frames keeps its requests in place.
LEMMA StayPlaced ==
  ASSUME NEW w \in Workers, Placed(w), asked'[w] \in Nat, asked[w] \in Nat, asked'[w] >= asked[w],
         queue'[w] = queue[w], sending'[w] = sending[w], inFlight'[w] = inFlight[w],
         ignored'[w] \subseteq inFlight'[w], toRank'[w] = toRank[w], toWorker'[w] = toWorker[w],
         Deferred(w)' = Deferred(w), Held(w)' = Held(w), open'[w] => open[w],
         mode = "dead" => mode' = "dead"
  PROVE  Placed(w)'
<1>1. InFrames(w)' = InFrames(w) /\ InAnswers(w)' = InAnswers(w) /\ OnItsWay(w)' = OnItsWay(w)
  BY DEF InFrames, InAnswers, OnItsWay
<1>2. Asked(w) \subseteq Asked(w)'
  BY DEF Asked, Of, Requests
<1>3. open'[w] => InOnePlace(w)'
  BY <1>1 DEF Placed, InOnePlace
<1> QED
  BY <1>1, <1>2, <1>3 DEF Placed

\* Whoever closes a socket only forgets.
LEMMA ClosedPlaced ==
  ASSUME NEW w \in Workers, Placed(w), asked'[w] = asked[w], ~open'[w],
         ToSet(queue'[w]) \subseteq ToSet(queue[w]), ToSet(sending'[w]) \subseteq ToSet(sending[w]),
         inFlight'[w] \subseteq inFlight[w], ignored'[w] \subseteq inFlight'[w],
         OnItsWay(w)' \subseteq OnItsWay(w)
  PROVE  Placed(w)'
BY DEF Placed, Asked

\* The types of what a worker has.
LEMMA ReadyType ==
  ASSUME Typed, NEW w \in Workers
  PROVE  /\ asked[w] \in Nat /\ queue[w] \in Seq(Requests) /\ sending[w] \in Seq(Requests)
         /\ inFlight[w] \subseteq Requests /\ ignored[w] \subseteq Requests /\ open[w] \in BOOLEAN
         /\ toRank[w] \in Seq(Seq(Requests)) /\ toWorker[w] \in Seq(Seq(Answer))
BY DEF Typed

LEMMA AskPlaced ==
  ASSUME Typed, AllPlaced, NEW w \in Workers, AskDecision(w)
  PROVE  AllPlaced'
<1> SUFFICES ASSUME NEW v \in Workers PROVE Placed(v)'
  BY DEF AllPlaced
<1>0. Placed(v)
  BY DEF AllPlaced
<1> DEFINE r == <<w, asked[w] + 1>>
<1>1. /\ asked' = [asked EXCEPT ![w] = @ + 1] /\ queue' = [queue EXCEPT ![w] = Append(@, r)]
      /\ UNCHANGED <<sending, inFlight, ignored, open, toRank, toWorker, mode, single, pending, rows>>
      /\ asked[w] < MaxRequests
  BY DEF AskDecision, socketVars, UnchangedRank, rankVars, ingressVars
<1>2. \A u \in Workers : /\ InFrames(u)' = InFrames(u) /\ Deferred(u)' = Deferred(u)
                         /\ Held(u)' = Held(u) /\ InAnswers(u)' = InAnswers(u)
                         /\ OnItsWay(u)' = OnItsWay(u)
  BY <1>1 DEF InFrames, Deferred, Held, InAnswers, OnItsWay
<1>3. CASE v # w
  <2>1. asked'[v] = asked[v] /\ queue'[v] = queue[v] /\ asked[v] \in Nat
    BY <1>1, <1>3, ReadyType DEF Typed
  <2>2. /\ asked'[v] >= asked[v] /\ sending'[v] = sending[v] /\ inFlight'[v] = inFlight[v]
        /\ ignored'[v] \subseteq inFlight'[v] /\ toRank'[v] = toRank[v]
        /\ toWorker'[v] = toWorker[v] /\ open'[v] = open[v] /\ mode' = mode
    BY <1>0, <1>1, <2>1 DEF Placed
  <2> QED
    BY <1>0, <1>2, <2>1, <2>2, StayPlaced
<1>4. CASE v = w
  <2>1. r \in Requests /\ asked[w] \in Nat /\ asked'[w] = asked[w] + 1 /\ r[1] = w /\ r[2] = asked[w] + 1
    <3>1. MaxRequests \in Nat
      BY SizeAssumption
    <3>2. asked[w] \in Nat /\ asked'[w] = asked[w] + 1
      BY <1>1 DEF Typed
    <3>3. asked[w] + 1 \in 1..MaxRequests
      BY <1>1, <3>1, <3>2
    <3> QED
      BY <3>2, <3>3 DEF Requests
  <2>2. queue'[w] = Append(queue[w], r) /\ queue[w] \in Seq(Requests)
    BY <1>1, ReadyType DEF Typed
  <2> HIDE DEF r
  <2>3. ToSet(queue'[w]) = ToSet(queue[w]) \cup {r}
    BY <2>1, <2>2, AddedLast
  <2>4. Asked(w) \cup {r} \subseteq Asked(w)' /\ r \notin Asked(w)
    BY <2>1 DEF Asked, Of, Requests
  <2>5. open[w] => \A i, j \in DOMAIN queue'[w] : i # j => queue'[w][i] # queue'[w][j]
    <3>1. /\ DOMAIN queue'[w] = 1..(Len(queue[w]) + 1) /\ DOMAIN queue[w] = 1..Len(queue[w])
          /\ Len(queue[w]) \in Nat
          /\ \A i \in 1..Len(queue[w]) : queue'[w][i] = queue[w][i]
          /\ queue'[w][Len(queue[w]) + 1] = r
      BY <2>1, <2>2, AppendProperties, LenProperties
    <3>2. \A i \in DOMAIN queue[w] : queue[w][i] # r
      <4>1. r \notin ToSet(queue[w])
        BY <1>0, <1>4, <2>4 DEF Placed
      <4> QED
        BY <4>1 DEF ToSet
    <3>3. ASSUME open[w], NEW i \in DOMAIN queue'[w], NEW j \in DOMAIN queue'[w], i # j
          PROVE  queue'[w][i] # queue'[w][j]
      <4>1. (i \in DOMAIN queue[w] /\ queue'[w][i] = queue[w][i]) \/ (i = Len(queue[w]) + 1 /\ queue'[w][i] = r)
        BY <3>1
      <4>2. (j \in DOMAIN queue[w] /\ queue'[w][j] = queue[w][j]) \/ (j = Len(queue[w]) + 1 /\ queue'[w][j] = r)
        BY <3>1
      <4>3. \A k, l \in DOMAIN queue[w] : k # l => queue[w][k] # queue[w][l]
        BY <1>0, <1>4, <3>3 DEF Placed, InOnePlace
      <4> QED
        BY <3>2, <3>3, <4>1, <4>2, <4>3
    <3> QED
      BY <3>3
  <2>6. open[w] => ToSet(queue'[w]) \cap inFlight[w] = {}
    BY <1>0, <1>4, <2>3, <2>4 DEF Placed, InOnePlace
  <2>7. open'[w] => InOnePlace(w)'
    BY <1>0, <1>1, <1>2, <1>4, <2>5, <2>6 DEF Placed, InOnePlace
  <2> QED
    BY <1>0, <1>1, <1>2, <1>4, <2>3, <2>4, <2>7 DEF Placed
<1> QED
  BY <1>3, <1>4

\* What one worker does leaves the others in place.
LEMMA OthersPlaced ==
  ASSUME Typed, AllPlaced, NEW v \in Workers,
         UNCHANGED <<asked, open, single, pending, rows>>, mode = "dead" => mode' = "dead",
         queue'[v] = queue[v], sending'[v] = sending[v], inFlight'[v] = inFlight[v],
         ignored'[v] = ignored[v], toRank'[v] = toRank[v], toWorker'[v] = toWorker[v]
  PROVE  Placed(v)'
<1>1. Deferred(v)' = Deferred(v) /\ Held(v)' = Held(v)
  BY DEF Deferred, Held
<1>2. Placed(v) /\ asked[v] \in Nat /\ asked'[v] = asked[v] /\ asked'[v] >= asked[v]
      /\ ignored'[v] \subseteq inFlight'[v] /\ open'[v] = open[v]
  BY ReadyType DEF AllPlaced, Placed
<1> QED
  BY <1>1, <1>2, StayPlaced

\* What is popped of the queue: the requests left in it are others than those
\* that go on.
LEMMA PopChanges ==
  ASSUME Typed, NEW w \in Workers, Pop(w)
  PROVE  /\ queue' \in [Workers -> Seq(Requests)] /\ Live(w) \in Seq(Requests)
         /\ \A u \in Workers : u # w => queue'[u] = queue[u]
         /\ ToSet(queue'[w]) \cup ToSet(Live(w)) \subseteq ToSet(queue[w])
         /\ (\A i, j \in DOMAIN queue[w] : i # j => queue[w][i] # queue[w][j])
            => /\ \A i, j \in DOMAIN queue'[w] : i # j => queue'[w][i] # queue'[w][j]
               /\ ToSet(queue'[w]) \cap ToSet(Live(w)) = {}
<1> DEFINE q == queue[w]
           n == Popped(w)
           at == {i \in 1..n : future[q[i]] # "cancelled"}
           active == Select(q, at)
           rest == SubSeq(q, n + 1, Len(q))
<1>1. queue' = [queue EXCEPT ![w] = rest] /\ Live(w) = active
  BY DEF Pop, Live, Typed
<1>2. /\ q \in Seq(Requests) /\ Len(q) \in Nat /\ DOMAIN q = 1..Len(q) /\ n \in 0..Len(q)
  BY ReadyType, LenProperties, SizeAssumption DEF Popped
<1> HIDE DEF n
<1>3. at \in SUBSET DOMAIN q
  BY <1>2
<1>9. at \subseteq 1..n
  OBVIOUS
<1> HIDE DEF at
<1>4. active \in Seq(Requests) /\ ToSet(active) = {q[i] : i \in at}
  BY <1>2, <1>3, Selected
<1> HIDE DEF active
<1>5. /\ rest \in Seq(Requests) /\ DOMAIN rest = 1..(Len(q) - n)
      /\ \A i \in DOMAIN rest : i + n \in DOMAIN q /\ rest[i] = q[i + n] /\ i + n > n
  <2>1. \A i \in (n + 1)..Len(q) : q[i] \in Requests
    BY <1>2, ElementOfSeq
  <2>2. /\ rest \in Seq(Requests) /\ Len(rest) = IF n + 1 <= Len(q) THEN Len(q) - (n + 1) + 1 ELSE 0
        /\ \A i \in 1..(Len(q) - (n + 1) + 1) : rest[i] = q[n + 1 + i - 1]
    BY <1>2, <2>1, SubSeqProperties
  <2>3. DOMAIN rest = 1..(Len(q) - n)
    BY <1>2, <2>2, LenProperties
  <2>4. ASSUME NEW i \in DOMAIN rest PROVE i + n \in DOMAIN q /\ rest[i] = q[i + n] /\ i + n > n
    <3>1. i \in 1..(Len(q) - (n + 1) + 1) /\ n + 1 + i - 1 = i + n /\ i + n \in 1..Len(q) /\ i + n > n
      BY <1>2, <2>3
    <3> QED
      BY <1>2, <2>2, <3>1
  <2> QED
    BY <2>2, <2>3, <2>4
<1> HIDE DEF rest
<1>6. ToSet(rest) \subseteq ToSet(q) /\ ToSet(active) \subseteq ToSet(q)
  BY <1>3, <1>4, <1>5 DEF ToSet
<1>7. ASSUME \A i, j \in DOMAIN q : i # j => q[i] # q[j]
      PROVE  /\ \A i, j \in DOMAIN rest : i # j => rest[i] # rest[j]
             /\ ToSet(rest) \cap ToSet(active) = {}
  <2>1. ASSUME NEW i \in DOMAIN rest, NEW j \in at PROVE rest[i] # q[j]
    <3>1. j \in 1..n /\ j \in DOMAIN q /\ i + n \in DOMAIN q /\ rest[i] = q[i + n] /\ i + n # j
      BY <1>2, <1>3, <1>5, <1>9
    <3> QED
      BY <1>7, <3>1
  <2>2. ToSet(rest) \cap ToSet(active) = {}
    BY <1>4, <2>1 DEF ToSet
  <2>3. ASSUME NEW i \in DOMAIN rest, NEW j \in DOMAIN rest, i # j PROVE rest[i] # rest[j]
    <3>1. i \in Int /\ j \in Int /\ n \in Int
      BY <1>2, <1>5
    <3>2. i + n # j + n
      BY <2>3, <3>1
    <3> QED
      BY <1>5, <1>7, <3>2
  <2> QED
    BY <2>2, <2>3
<1>8. /\ queue' \in [Workers -> Seq(Requests)] /\ queue'[w] = rest
      /\ \A u \in Workers : u # w => queue'[u] = queue[u]
  BY <1>1, <1>5 DEF Typed
<1> QED
  BY <1>1, <1>4, <1>6, <1>7, <1>8

LEMMA RegisterPlaced ==
  ASSUME Typed, AllPlaced, NEW w \in Workers, Register(w) \/ CannotCompile(w)
  PROVE  AllPlaced' /\ sending' \in [Workers -> Seq(Requests)] /\ queue' \in [Workers -> Seq(Requests)]
         /\ inFlight' \in [Workers -> SUBSET Requests]
<1> DEFINE active == Live(w)
<1>1. /\ sending[w] = <<>> /\ Pop(w)
      /\ \/ sending' = [sending EXCEPT ![w] = active]
              /\ inFlight' = [inFlight EXCEPT ![w] = @ \cup ToSet(active)]
         \/ UNCHANGED <<sending, inFlight>>
      /\ UNCHANGED <<asked, ignored, open, toRank, toWorker, mode, single, pending, rows>>
  BY DEF Register, CannotCompile, Pop, socketVars, UnchangedRank, rankVars, ingressVars
<1>2. /\ queue' \in [Workers -> Seq(Requests)] /\ active \in Seq(Requests)
      /\ \A u \in Workers : u # w => queue'[u] = queue[u]
      /\ ToSet(queue'[w]) \cup ToSet(active) \subseteq ToSet(queue[w])
      /\ (\A i, j \in DOMAIN queue[w] : i # j => queue[w][i] # queue[w][j])
         => /\ \A i, j \in DOMAIN queue'[w] : i # j => queue'[w][i] # queue'[w][j]
            /\ ToSet(queue'[w]) \cap ToSet(active) = {}
  BY <1>1, PopChanges
<1> HIDE DEF active
<1>3. /\ \A u \in Workers : u # w => sending'[u] = sending[u] /\ inFlight'[u] = inFlight[u]
      /\ \/ sending'[w] = active /\ inFlight'[w] = inFlight[w] \cup ToSet(active)
         \/ sending'[w] = sending[w] /\ inFlight'[w] = inFlight[w]
  BY <1>1 DEF Typed
<1>4. \A u \in Workers : /\ InFrames(u)' = InFrames(u) /\ Deferred(u)' = Deferred(u)
                         /\ Held(u)' = Held(u) /\ InAnswers(u)' = InAnswers(u)
                         /\ OnItsWay(u)' = OnItsWay(u) /\ Asked(u)' = Asked(u)
  BY <1>1 DEF InFrames, Deferred, Held, InAnswers, OnItsWay, Asked
<1>5. Placed(w)'
  <2>1. Placed(w) /\ ToSet(sending[w]) = {}
    BY <1>1 DEF AllPlaced, ToSet
  <2>2. ToSet(queue'[w]) \cup ToSet(sending'[w]) \cup inFlight'[w] \subseteq Asked(w)
    BY <1>2, <1>3, <2>1 DEF Placed
  <2>3. ignored'[w] \subseteq inFlight'[w]
    BY <1>1, <1>3, <2>1 DEF Placed
  <2>4. ASSUME open[w] PROVE InOnePlace(w)'
    <3>1. /\ \A i, j \in DOMAIN queue[w] : i # j => queue[w][i] # queue[w][j]
          /\ ToSet(queue[w]) \cap inFlight[w] = {} /\ OnItsWay(w) \subseteq inFlight[w]
          /\ mode # "dead" => inFlight[w] \subseteq OnItsWay(w)
      BY <2>1, <2>4 DEF Placed, InOnePlace
    <3>2. ToSet(queue'[w]) \cap inFlight'[w] = {}
      BY <1>2, <1>3, <3>1
    <3>3. ToSet(active) \cap inFlight[w] = {}
      BY <1>2, <3>1
    <3>4. /\ ToSet(sending'[w]) \subseteq inFlight'[w]
          /\ inFlight'[w] \ ToSet(sending'[w]) = inFlight[w]
      BY <1>3, <2>1, <3>3
    <3> QED
      BY <1>1, <1>2, <1>4, <2>1, <2>4, <3>1, <3>2, <3>4 DEF Placed, InOnePlace
  <2> QED
    BY <1>1, <1>4, <2>1, <2>2, <2>3, <2>4 DEF Placed
<1>6. ASSUME NEW v \in Workers, v # w PROVE Placed(v)'
  BY <1>1, <1>2, <1>3, <1>6, OthersPlaced
<1>7. /\ sending' \in [Workers -> Seq(Requests)] /\ inFlight' \in [Workers -> SUBSET Requests]
  <2>1. inFlight[w] \cup ToSet(active) \in SUBSET Requests
    <3>1. ToSet(queue[w]) \subseteq Requests
      BY ReadyType, LenProperties DEF ToSet
    <3> QED
      BY <1>2, <3>1, ReadyType
  <2>2. sending \in [Workers -> Seq(Requests)] /\ inFlight \in [Workers -> SUBSET Requests]
    BY DEF Typed
  <2> QED
    BY <1>1, <1>2, <2>1, <2>2
<1> QED
  BY <1>2, <1>5, <1>6, <1>7 DEF AllPlaced

LEMMA SubmitPlaced ==
  ASSUME Typed, AllPlaced, NEW w \in Workers, Submit(w)
  PROVE  AllPlaced' /\ toRank' \in [Workers -> Seq(Seq(Requests))]
<1>1. /\ sending' = [sending EXCEPT ![w] = <<>>]
      /\ UNCHANGED <<asked, open, toWorker, mode, single, pending, rows>>
  BY DEF Submit, UnchangedRank, rankVars, ingressVars
<1>0. ToSet(sending'[w]) = {} /\ \A u \in Workers : u # w => sending'[u] = sending[u]
  BY <1>1 DEF Typed, ToSet
<1>2. \A u \in Workers : /\ Deferred(u)' = Deferred(u) /\ Held(u)' = Held(u)
                         /\ InAnswers(u)' = InAnswers(u) /\ Asked(u)' = Asked(u)
  BY <1>1 DEF Deferred, Held, InAnswers, Asked
<1>3. ASSUME open[w], mode # "dead" PROVE AllPlaced' /\ toRank' \in [Workers -> Seq(Seq(Requests))]
  <2>1. toRank' = [toRank EXCEPT ![w] = Append(@, sending[w])]
        /\ UNCHANGED <<queue, inFlight, ignored>>
    BY <1>3 DEF Submit
  <2>2. toRank'[w] = Append(toRank[w], sending[w]) /\ \A u \in Workers : u # w => toRank'[u] = toRank[u]
    BY <2>1 DEF Typed
  <2>3. InFrames(w)' = InFrames(w) \cup ToSet(sending[w])
    BY <2>2, FrameSent, ReadyType DEF InFrames
  <2>4. OnItsWay(w)' = OnItsWay(w) \cup ToSet(sending[w])
    BY <1>2, <2>3 DEF OnItsWay
  <2>5. Placed(w) /\ InOnePlace(w)
    BY <1>3 DEF AllPlaced, Placed
  <2>6. \A i, j \in DOMAIN toRank'[w] : i # j => ToSet(toRank'[w][i]) \cap ToSet(toRank'[w][j]) = {}
    <3>1. ToSet(sending[w]) \cap InFrames(w) = {}
      BY <2>5 DEF InOnePlace, OnItsWay
    <3>2. \A i, j \in DOMAIN toRank[w] : i # j => ToSet(toRank[w][i]) \cap ToSet(toRank[w][j]) = {}
      BY <2>5 DEF InOnePlace
    <3> QED
      BY <2>2, <3>1, <3>2, FrameSent, ReadyType
  <2>7. /\ InFrames(w)' \cap (Deferred(w) \cup Held(w) \cup InAnswers(w)) = {}
        /\ OnItsWay(w)' = inFlight[w] \ {}
    BY <1>3, <2>3, <2>4, <2>5 DEF InOnePlace, OnItsWay
  <2>8. InOnePlace(w)'
    BY <1>0, <1>1, <1>2, <2>1, <2>5, <2>6, <2>7 DEF InOnePlace
  <2>9. Placed(w)'
    BY <1>0, <1>2, <2>1, <2>4, <2>5, <2>8 DEF Placed
  <2>10. ASSUME NEW v \in Workers, v # w PROVE Placed(v)'
    BY <1>0, <1>1, <2>1, <2>2, <2>10, OthersPlaced
  <2>11. toRank' \in [Workers -> Seq(Seq(Requests))]
    <3>1. toRank'[w] \in Seq(Seq(Requests))
      BY <2>2, FrameSent, ReadyType
    <3> QED
      BY <2>1, <2>2, <3>1 DEF Typed
  <2> QED
    BY <2>9, <2>10, <2>11 DEF AllPlaced
<1>4. ASSUME ~open[w] PROVE AllPlaced' /\ toRank' \in [Workers -> Seq(Seq(Requests))]
  <2>1. /\ queue' = [queue EXCEPT ![w] = <<>>] /\ inFlight' = [inFlight EXCEPT ![w] = {}]
        /\ ignored' = [ignored EXCEPT ![w] = {}] /\ UNCHANGED toRank
    BY <1>4 DEF Submit, RejectAll, Reject
  <2>2. /\ ToSet(queue'[w]) = {} /\ inFlight'[w] = {} /\ ignored'[w] = {}
        /\ \A u \in Workers : u # w =>
             queue'[u] = queue[u] /\ inFlight'[u] = inFlight[u] /\ ignored'[u] = ignored[u]
    BY <2>1 DEF Typed, ToSet
  <2>3. \A u \in Workers : OnItsWay(u)' = OnItsWay(u)
    BY <1>2, <2>1 DEF OnItsWay, InFrames
  <2>4. Placed(w)'
    BY <1>0, <1>1, <1>4, <2>2, <2>3, ClosedPlaced DEF AllPlaced
  <2>5. ASSUME NEW v \in Workers, v # w PROVE Placed(v)'
    BY <1>0, <1>1, <2>1, <2>2, <2>5, OthersPlaced
  <2> QED
    BY <2>1, <2>4, <2>5 DEF AllPlaced, Typed
<1>5. ASSUME open[w], mode = "dead" PROVE AllPlaced' /\ toRank' \in [Workers -> Seq(Seq(Requests))]
  <2>1. UNCHANGED <<toRank, queue, inFlight, ignored>>
    BY <1>5 DEF Submit
  <2>2. \A u \in Workers : OnItsWay(u)' = OnItsWay(u) /\ InFrames(u)' = InFrames(u)
    BY <1>2, <2>1 DEF OnItsWay, InFrames
  <2>3. Placed(w) /\ InOnePlace(w)
    BY <1>5 DEF AllPlaced, Placed
  <2>4. InOnePlace(w)'
    BY <1>0, <1>1, <1>2, <1>5, <2>1, <2>2, <2>3 DEF InOnePlace
  <2>5. Placed(w)'
    BY <1>0, <1>2, <2>1, <2>2, <2>3, <2>4 DEF Placed
  <2>6. ASSUME NEW v \in Workers, v # w PROVE Placed(v)'
    BY <1>0, <1>1, <2>1, <2>6, OthersPlaced
  <2> QED
    BY <2>1, <2>5, <2>6 DEF AllPlaced, Typed
<1> QED
  BY <1>3, <1>4, <1>5

\* What Dispatch does with the first answers.
LEMMA DispatchChanges ==
  ASSUME Typed, NEW w \in Workers, Dispatch(w)
  PROVE  LET batch == Head(toWorker[w]) IN
         /\ batch \in Seq(Answer) /\ toWorker'[w] = Tail(toWorker[w])
         /\ toWorker' \in [Workers -> Seq(Seq(Answer))]
         /\ inFlight' \in [Workers -> SUBSET Requests] /\ ignored' \in [Workers -> SUBSET Requests]
         /\ \A u \in Workers : u # w =>
              /\ toWorker'[u] = toWorker[u] /\ inFlight'[u] = inFlight[u]
              /\ ignored'[u] = ignored[u]
         /\ Asking(batch) \subseteq inFlight[w] =>
              /\ inFlight'[w] = inFlight[w] \ Asking(batch)
              /\ ignored'[w] = ignored[w] \ Asking(batch)
         /\ ~(Asking(batch) \subseteq inFlight[w]) => inFlight'[w] = {} /\ ignored'[w] = {}
         /\ UNCHANGED <<phase, asked, version, queue, sending, open, toRank>>
         /\ UNCHANGED <<mode, single, rows, pending, slots, nextSlot, samples, current, command>>
<1> DEFINE batch == Head(toWorker[w])
<1>1. /\ toWorker[w] # <<>> /\ toWorker' = [toWorker EXCEPT ![w] = Tail(@)]
      /\ UNCHANGED <<phase, asked, version, queue, sending, open, toRank>>
      /\ UNCHANGED <<mode, single, rows, pending, slots, nextSlot, samples, current, command>>
  BY DEF Dispatch, UnchangedRank, rankVars, ingressVars
<1>2. batch \in Seq(Answer) /\ Tail(toWorker[w]) \in Seq(Seq(Answer))
  BY <1>1, AnswersTaken
<1>3. Known(w, batch) <=> Asking(batch) \subseteq inFlight[w]
  BY DEF Known, Asking
<1>4. Known(w, batch) =>
        /\ inFlight' = [inFlight EXCEPT ![w] = @ \ Asking(batch)]
        /\ ignored' = [ignored EXCEPT ![w] = @ \ Asking(batch)]
  BY DEF Dispatch, Asking
<1>5. ~Known(w, batch) =>
        /\ inFlight' = [inFlight EXCEPT ![w] = {}]
        /\ ignored' = [ignored EXCEPT ![w] = {}]
  BY DEF Dispatch, Reject
<1> HIDE DEF batch
<1>6. /\ toWorker' \in [Workers -> Seq(Seq(Answer))] /\ toWorker'[w] = Tail(toWorker[w])
      /\ \A u \in Workers : u # w => toWorker'[u] = toWorker[u]
  BY <1>1, <1>2 DEF Typed
<1>7. /\ inFlight' \in [Workers -> SUBSET Requests] /\ ignored' \in [Workers -> SUBSET Requests]
      /\ \A u \in Workers : u # w => inFlight'[u] = inFlight[u] /\ ignored'[u] = ignored[u]
      /\ Asking(batch) \subseteq inFlight[w] =>
           /\ inFlight'[w] = inFlight[w] \ Asking(batch)
           /\ ignored'[w] = ignored[w] \ Asking(batch)
      /\ ~(Asking(batch) \subseteq inFlight[w]) => inFlight'[w] = {} /\ ignored'[w] = {}
  <2>1. CASE Known(w, batch)
    <3>1. inFlight[w] \ Asking(batch) \in SUBSET Requests /\ ignored[w] \ Asking(batch) \in SUBSET Requests
      BY ReadyType
    <3>2. inFlight' = [inFlight EXCEPT ![w] = inFlight[w] \ Asking(batch)]
          /\ ignored' = [ignored EXCEPT ![w] = ignored[w] \ Asking(batch)]
      BY <1>4, <2>1
    <3>3. inFlight \in [Workers -> SUBSET Requests] /\ ignored \in [Workers -> SUBSET Requests]
      BY DEF Typed
    <3> QED
      BY <1>3, <2>1, <3>1, <3>2, <3>3
  <2>2. CASE ~Known(w, batch)
    BY <1>3, <1>5, <2>2 DEF Typed
  <2> QED
    BY <2>1, <2>2
<1> QED
  BY <1>1, <1>2, <1>6, <1>7 DEF batch

LEMMA DispatchPlaced ==
  ASSUME Typed, AllPlaced, NEW w \in Workers, Dispatch(w)
  PROVE  AllPlaced' /\ (open[w] => Known(w, Head(toWorker[w])))
<1> DEFINE first == Asking(Head(toWorker[w]))
           U == UNION {Asking(b) : b \in ToSet(toWorker'[w])}
<1>1. /\ toWorker'[w] = Tail(toWorker[w]) /\ toWorker[w] # <<>>
      /\ \A u \in Workers : u # w =>
           /\ toWorker'[u] = toWorker[u] /\ inFlight'[u] = inFlight[u]
           /\ ignored'[u] = ignored[u]
      /\ first \subseteq inFlight[w] =>
           inFlight'[w] = inFlight[w] \ first /\ ignored'[w] = ignored[w] \ first
      /\ ~(first \subseteq inFlight[w]) => inFlight'[w] = {} /\ ignored'[w] = {}
      /\ UNCHANGED <<asked, queue, sending, open, toRank, mode, single, rows, pending>>
  BY DispatchChanges DEF Dispatch
<1>2. /\ U \cup first = InAnswers(w)
      /\ (\A i, j \in DOMAIN toWorker[w] : i # j => Asking(toWorker[w][i]) \cap Asking(toWorker[w][j]) = {})
         => /\ \A i, j \in DOMAIN toWorker'[w] :
                 i # j => Asking(toWorker'[w][i]) \cap Asking(toWorker'[w][j]) = {}
            /\ U \cap first = {}
  BY <1>1, AnswersTaken
<1>3. InAnswers(w)' = U
  BY DEF InAnswers
<1>4. Known(w, Head(toWorker[w])) <=> first \subseteq inFlight[w]
  BY DEF Known, Asking
<1> HIDE DEF first, U
<1>5. \A u \in Workers : /\ Deferred(u)' = Deferred(u) /\ Held(u)' = Held(u)
                         /\ InFrames(u)' = InFrames(u) /\ Asked(u)' = Asked(u)
  BY <1>1 DEF Deferred, Held, InFrames, Asked
<1>6. Placed(w)
  BY DEF AllPlaced
<1>7. OnItsWay(w)' \subseteq OnItsWay(w) /\ OnItsWay(w) = OnItsWay(w)' \cup first
  BY <1>2, <1>3, <1>5 DEF OnItsWay
<1>8. ASSUME open[w] PROVE InOnePlace(w)' /\ first \subseteq inFlight[w]
  <2>1. InOnePlace(w)
    BY <1>6, <1>8 DEF Placed
  <2>2. first \subseteq inFlight[w] /\ first \cap ToSet(sending[w]) = {}
    BY <1>7, <2>1 DEF InOnePlace
  <2>3. U \cap first = {} /\ \A i, j \in DOMAIN toWorker'[w] :
          i # j => Asking(toWorker'[w][i]) \cap Asking(toWorker'[w][j]) = {}
    BY <1>2, <2>1 DEF InOnePlace
  <2>4. OnItsWay(w)' \cap first = {}
    BY <1>2, <1>3, <1>5, <2>1, <2>3 DEF InOnePlace, OnItsWay
  <2>5. /\ OnItsWay(w)' \subseteq inFlight'[w] \ ToSet(sending[w])
        /\ mode # "dead" => inFlight'[w] \ ToSet(sending[w]) \subseteq OnItsWay(w)'
        /\ ToSet(sending[w]) \subseteq inFlight'[w] /\ ToSet(queue[w]) \cap inFlight'[w] = {}
    BY <1>1, <1>7, <2>1, <2>2, <2>4 DEF InOnePlace
  <2>6. U \subseteq InAnswers(w)
    BY <1>2
  <2>7. /\ InFrames(w) \cap (Deferred(w) \cup Held(w) \cup U) = {}
        /\ Deferred(w) \cap (Held(w) \cup U) = {} /\ Held(w) \cap U = {}
    BY <2>1, <2>6 DEF InOnePlace
  <2>8. /\ \A i, j \in DOMAIN queue[w] : i # j => queue[w][i] # queue[w][j]
        /\ \A i, j \in DOMAIN toRank[w] : i # j => ToSet(toRank[w][i]) \cap ToSet(toRank[w][j]) = {}
    BY <2>1 DEF InOnePlace
  <2>9. queue' = queue /\ toRank' = toRank /\ sending' = sending /\ mode' = mode
    BY <1>1
  <2> QED
    BY <1>3, <1>5, <2>2, <2>3, <2>5, <2>7, <2>8, <2>9 DEF InOnePlace
<1>9. inFlight'[w] \subseteq inFlight[w] /\ ignored'[w] \subseteq inFlight'[w]
  BY <1>1, <1>6 DEF Placed
<1>10. Placed(w)'
  BY <1>1, <1>5, <1>6, <1>7, <1>8, <1>9 DEF Placed
<1>11. ASSUME NEW v \in Workers, v # w PROVE Placed(v)'
  BY <1>1, <1>11, OthersPlaced
<1> QED
  BY <1>4, <1>8, <1>10, <1>11 DEF AllPlaced

\* A client that closes its end, or a worker that gives up.
LEMMA ClosePlaced ==
  ASSUME Typed, AllPlaced, NEW w \in Workers, Timeout(w) \/ FailSession(w)
  PROVE  AllPlaced'
<1>1. /\ inFlight' = [inFlight EXCEPT ![w] = {}] /\ ignored' = [ignored EXCEPT ![w] = {}]
      /\ queue' = [queue EXCEPT ![w] = <<>>]
      /\ sending' = sending \/ sending' = [sending EXCEPT ![w] = <<>>]
      /\ open' = [open EXCEPT ![w] = FALSE]
      /\ toWorker' = toWorker \/ toWorker' = [toWorker EXCEPT ![w] = <<>>]
      /\ UNCHANGED <<asked, toRank, mode, single, pending, rows>>
  BY DEF Timeout, RejectAll, Reject, FailSession, UnchangedRank, rankVars, ingressVars
<1>2. /\ ToSet(queue'[w]) = {} /\ inFlight'[w] = {} /\ ignored'[w] = {} /\ ~open'[w]
      /\ ToSet(sending'[w]) \subseteq ToSet(sending[w])
      /\ toWorker'[w] = toWorker[w] \/ toWorker'[w] = <<>>
      /\ \A u \in Workers : u # w =>
           /\ queue'[u] = queue[u] /\ sending'[u] = sending[u] /\ inFlight'[u] = inFlight[u]
           /\ ignored'[u] = ignored[u] /\ open'[u] = open[u] /\ toWorker'[u] = toWorker[u]
  BY <1>1 DEF Typed, ToSet
<1>3. \A u \in Workers : /\ InFrames(u)' = InFrames(u) /\ Deferred(u)' = Deferred(u)
                         /\ Held(u)' = Held(u) /\ asked'[u] = asked[u]
  BY <1>1 DEF InFrames, Deferred, Held
<1>4. Placed(w)'
  <2>1. InAnswers(w)' \subseteq InAnswers(w)
    <3>1. toWorker'[w] = <<>> => ToSet(toWorker'[w]) = {}
      BY DEF ToSet
    <3> QED
      BY <1>2, <3>1 DEF InAnswers
  <2>2. OnItsWay(w)' \subseteq OnItsWay(w)
    BY <1>3, <2>1 DEF OnItsWay
  <2> QED
    BY <1>2, <1>3, <2>2, ClosedPlaced DEF AllPlaced
<1>5. ASSUME NEW v \in Workers, v # w PROVE Placed(v)'
  <2>1. Placed(v) /\ asked[v] \in Nat /\ asked'[v] = asked[v] /\ asked'[v] >= asked[v]
        /\ ignored'[v] \subseteq inFlight'[v] /\ toRank'[v] = toRank[v] /\ toWorker'[v] = toWorker[v]
    BY <1>1, <1>2, <1>5, ReadyType DEF AllPlaced, Placed
  <2> QED
    BY <1>1, <1>2, <1>3, <1>5, <2>1, StayPlaced
<1> QED
  BY <1>4, <1>5 DEF AllPlaced

\* The steps of the coordinator and the versions move no request.
LEMMA IdlePlaced ==
  ASSUME Typed, AllPlaced,
         \/ AskToStop \/ AskToUpdate \/ NextSession \/ Update
         \/ \E w \in Workers : Stopped(w)
         \/ UNCHANGED inferenceVars
  PROVE  AllPlaced'
<1>1. UNCHANGED <<asked, queue, sending, inFlight, ignored, open, toRank, toWorker, single,
                  pending, rows>> /\ (mode = "dead" => mode' = "dead")
  BY DEF AskToStop, AskToUpdate, NextSession, Update, Stopped, inferenceVars, workerVars,
         socketVars, rankVars, ingressVars, UnchangedRank, UnchangedWorkers
<1> QED
  BY <1>1, OthersPlaced DEF AllPlaced

LEMMA CancelPlaced ==
  ASSUME Typed, AllPlaced, NEW r \in Requests, Cancel(r)
  PROVE  AllPlaced' /\ ignored' \in [Workers -> SUBSET Requests]
<1>0. r[1] \in Workers
  BY DEF Requests
<1>1. /\ ignored' = [ignored EXCEPT ![r[1]] = IF WasSent(r) THEN @ \cup {r} ELSE @]
      /\ UNCHANGED <<asked, queue, sending, inFlight, open, toRank, toWorker, mode, single, pending, rows>>
  BY DEF Cancel, socketVars, UnchangedRank, rankVars, ingressVars
<1>2. ASSUME NEW v \in Workers PROVE ignored'[v] \subseteq inFlight[v]
  <2>1. ignored[v] \subseteq inFlight[v]
    BY DEF AllPlaced, Placed
  <2>2. ignored'[v] = ignored[v] \/ (v = r[1] /\ WasSent(r) /\ ignored'[v] = ignored[v] \cup {r})
    BY <1>0, <1>1 DEF Typed
  <2> QED
    BY <2>1, <2>2 DEF WasSent
<1>3. ASSUME NEW v \in Workers PROVE Placed(v)'
  <2>1. Deferred(v)' = Deferred(v) /\ Held(v)' = Held(v)
    BY <1>1 DEF Deferred, Held
  <2>2. Placed(v) /\ asked[v] \in Nat /\ asked'[v] = asked[v] /\ asked'[v] >= asked[v]
    BY <1>1, ReadyType DEF AllPlaced
  <2> QED
    BY <1>1, <1>2, <2>1, <2>2, StayPlaced
<1>4. ignored' \in [Workers -> SUBSET Requests]
  <2>1. IF WasSent(r) THEN ignored' = [ignored EXCEPT ![r[1]] = ignored[r[1]] \cup {r}]
        ELSE ignored' = [ignored EXCEPT ![r[1]] = ignored[r[1]]]
    BY <1>1
  <2>2. \A v \in Workers, S \in SUBSET Requests :
          [ignored EXCEPT ![v] = S] \in [Workers -> SUBSET Requests]
    BY DEF Typed
  <2>3. ignored[r[1]] \in SUBSET Requests /\ ignored[r[1]] \cup {r} \in SUBSET Requests
    BY <1>0, ReadyType
  <2> QED
    BY <1>0, <2>1, <2>2, <2>3
<1> QED
  BY <1>3, <1>4 DEF AllPlaced

---------------------------------------------------------------------------
(* The places of every worker, as the rank steps *)

LEMMA BeginPlaced ==
  ASSUME Typed, AllPlaced, Modes, BeginBatch
  PROVE  AllPlaced' /\ Modes' /\ IsFrame(single)' /\ IsFrame(pending)' /\ IsRows(rows)'
<1>1. /\ mode = "look" /\ single = Nothing /\ rows = <<>>
      /\ single' = pending /\ pending' = Nothing /\ rows' = rows
      /\ mode' \in {"batch", "listen"} /\ (mode' = "listen" => pending = Nothing)
      /\ UNCHANGED <<asked, queue, sending, inFlight, ignored, open, toRank, toWorker>>
  BY DEF BeginBatch, Modes, socketVars, UnchangedWorkers, workerVars
<1>2. ASSUME NEW v \in Workers PROVE Placed(v)'
  <2>1. Held(v) = {} /\ Deferred(v)' = {} /\ Held(v)' = Deferred(v)
    BY <1>1 DEF Held, Deferred, ToSet
  <2>2. /\ InFrames(v)' = InFrames(v) /\ InAnswers(v)' = InAnswers(v) /\ Asked(v)' = Asked(v)
        /\ OnItsWay(v)' = OnItsWay(v)
    BY <1>1, <2>1 DEF InFrames, InAnswers, Asked, OnItsWay
  <2>3. Placed(v)
    BY DEF AllPlaced
  <2>4. ASSUME open[v] PROVE InOnePlace(v)'
    <3>1. InOnePlace(v)
      BY <2>3, <2>4 DEF Placed
    <3>2. /\ InFrames(v)' \cap (Deferred(v)' \cup Held(v)' \cup InAnswers(v)') = {}
          /\ Deferred(v)' \cap (Held(v)' \cup InAnswers(v)') = {} /\ Held(v)' \cap InAnswers(v)' = {}
      BY <2>1, <2>2, <3>1 DEF InOnePlace
    <3> QED
      BY <1>1, <2>2, <3>1, <3>2 DEF InOnePlace
  <2> QED
    BY <1>1, <2>2, <2>3, <2>4 DEF Placed
<1>3. Modes'
  BY <1>1 DEF Modes
<1>4. IsFrame(single)' /\ IsFrame(pending)' /\ IsRows(rows)'
  BY <1>1 DEF Typed, IsFrame, IsRows
<1> QED
  BY <1>2, <1>3, <1>4 DEF AllPlaced

\* The received frame is deferred or joins the batch.
LEMMA ReceiveChanges ==
  ASSUME Typed, Modes, NEW w \in Workers, ReceiveFrame(w)
  PROVE  /\ Modes' /\ IsFrame(single)' /\ IsFrame(pending)' /\ IsRows(rows)'
         /\ mode' = mode /\ toRank[w] # <<>> /\ toRank' = [toRank EXCEPT ![w] = Tail(@)]
         /\ UNCHANGED <<samples, current, command, open, toWorker>> /\ UnchangedWorkers
         /\ \A v \in Workers : Deferred(v) = {}
         /\ LET taken(v) == {r \in Of(v) : r \in ToSet(Head(toRank[w]))} IN
            \/ \A v \in Workers : Deferred(v)' = taken(v) /\ Held(v)' = Held(v)
            \/ \A v \in Workers : Deferred(v)' = {} /\ Held(v)' = Held(v) \cup taken(v)
<1> DEFINE q == Head(toRank[w])
           f == Frame(nextSlot, q)
           filled == [i \in DOMAIN slots \cup {nextSlot} |->
                        IF i = nextSlot THEN f.requests ELSE slots[i]]
           taken(v) == {r \in Of(v) : r \in ToSet(q)}
<1>1. /\ mode = "batch" /\ pending = Nothing /\ toRank[w] # <<>>
      /\ toRank' = [toRank EXCEPT ![w] = Tail(@)]
      /\ UNCHANGED <<mode, samples, current, command, open, toWorker>> /\ UnchangedWorkers
  BY DEF ReceiveFrame, CanReceive
<1>2. \/ pending' = f /\ UNCHANGED <<single, rows>>
      \/ single = Nothing /\ rows = <<>> /\ single' = f /\ UNCHANGED <<rows, pending>>
      \/ rows' = Merged(filled, f) /\ single' = Nothing /\ UNCHANGED pending
  BY DEF ReceiveFrame
<1>3. q \in Seq(Requests)
  BY <1>1, FrameTaken
<1>4. f # Nothing /\ f.requests = q
  BY NotNothing
<1> HIDE DEF q, f, filled
<1>5. \A v \in Workers : Deferred(v) = {}
  BY <1>1 DEF Deferred
<1>6. CASE pending' = f /\ UNCHANGED <<single, rows>>
  <2>1. \A v \in Workers : Deferred(v)' = taken(v) /\ Held(v)' = Held(v)
    BY <1>4, <1>6 DEF Deferred, Held
  <2>2. Modes' /\ IsFrame(single)' /\ IsFrame(pending)' /\ IsRows(rows)'
    BY <1>1, <1>3, <1>4, <1>6 DEF Modes, Typed, IsFrame, IsRows
  <2> QED
    BY <1>1, <1>5, <2>1, <2>2 DEF q
<1>7. CASE single = Nothing /\ rows = <<>> /\ single' = f /\ UNCHANGED <<rows, pending>>
  <2>1. \A v \in Workers : Deferred(v)' = {} /\ Held(v)' = Held(v) \cup taken(v)
    BY <1>1, <1>4, <1>7 DEF Deferred, Held, ToSet
  <2>2. Modes' /\ IsFrame(single)' /\ IsFrame(pending)' /\ IsRows(rows)'
    BY <1>1, <1>3, <1>4, <1>7 DEF Modes, Typed, IsFrame, IsRows
  <2> QED
    BY <1>1, <1>5, <2>1, <2>2 DEF q
<1>8. CASE rows' = Merged(filled, f) /\ single' = Nothing /\ UNCHANGED pending
  <2>1. /\ IsRows(Read(filled, f))
        /\ \A r : (\E x \in ToSet(Read(filled, f)) : x.request = r) <=> r \in ToSet(q)
    <3>1. f.requests \in Seq(Requests)
      BY <1>3, <1>4
    <3>2. /\ IsRows(Read(filled, f))
          /\ \A r : (\E x \in ToSet(Read(filled, f)) : x.request = r) <=> r \in ToSet(f.requests)
      BY <3>1, ReadRows
    <3> QED
      BY <1>4, <3>2
  <2> DEFINE old == IF single = Nothing THEN rows ELSE Read(filled, single)
  <2>2. /\ IsRows(old)
        /\ \A v \in Workers : Held(v) = {r \in Of(v) : \E x \in ToSet(old) : x.request = r}
    <3>1. CASE single = Nothing
      BY <3>1 DEF Held, Typed
    <3>2. CASE single # Nothing
      <4>1. single.requests \in Seq(Requests) /\ ToSet(rows) = {}
        BY <3>2 DEF Typed, IsFrame, Modes, ToSet
      <4>2. /\ IsRows(Read(filled, single))
            /\ \A r : (\E x \in ToSet(Read(filled, single)) : x.request = r)
                        <=> r \in ToSet(single.requests)
        BY <4>1, ReadRows
      <4> QED
        BY <3>2, <4>1, <4>2 DEF Held
    <3> QED
      BY <3>1, <3>2
  <2>3. rows' = old \o Read(filled, f)
    BY <1>8 DEF Merged
  <2> HIDE DEF old
  <2>4. IsRows(rows') /\ ToSet(rows') = ToSet(old) \cup ToSet(Read(filled, f))
    BY <2>1, <2>2, <2>3, RowsJoined
  <2>5. ASSUME NEW v \in Workers PROVE Deferred(v)' = {} /\ Held(v)' = Held(v) \cup taken(v)
    <3>1. Held(v)' = {r \in Of(v) : \E x \in ToSet(rows') : x.request = r}
      BY <1>8 DEF Held, Of
    <3> QED
      BY <1>1, <1>8, <2>1, <2>2, <2>4, <3>1 DEF Deferred
  <2>6. Modes' /\ IsFrame(single)' /\ IsFrame(pending)' /\ IsRows(rows)'
    BY <1>1, <1>8, <2>4 DEF Modes, IsFrame, IsRows
  <2> QED
    BY <1>1, <1>5, <2>5, <2>6 DEF q
<1> QED
  BY <1>2, <1>6, <1>7, <1>8

LEMMA ReceivePlaced ==
  ASSUME Typed, AllPlaced, Modes, NEW w \in Workers, ReceiveFrame(w)
  PROVE  AllPlaced' /\ toRank' \in [Workers -> Seq(Seq(Requests))]
<1> DEFINE first == ToSet(Head(toRank[w]))
           U == UNION {ToSet(g) : g \in ToSet(toRank'[w])}
           taken(v) == {r \in Of(v) : r \in first}
<1>1. /\ toRank[w] # <<>> /\ toRank' = [toRank EXCEPT ![w] = Tail(@)]
      /\ UNCHANGED <<asked, queue, sending, inFlight, ignored, open, toWorker, mode>>
      /\ \A v \in Workers : Deferred(v) = {}
      /\ \/ \A v \in Workers : Deferred(v)' = taken(v) /\ Held(v)' = Held(v)
         \/ \A v \in Workers : Deferred(v)' = {} /\ Held(v)' = Held(v) \cup taken(v)
  BY ReceiveChanges DEF UnchangedWorkers, workerVars
<1>2. /\ toRank'[w] = Tail(toRank[w]) /\ \A u \in Workers : u # w => toRank'[u] = toRank[u]
  BY <1>1 DEF Typed
<1>3. /\ toRank'[w] \in Seq(Seq(Requests)) /\ U \cup first = InFrames(w)
      /\ (\A i, j \in DOMAIN toRank[w] : i # j => ToSet(toRank[w][i]) \cap ToSet(toRank[w][j]) = {})
         => /\ \A i, j \in DOMAIN toRank'[w] : i # j => ToSet(toRank'[w][i]) \cap ToSet(toRank'[w][j]) = {}
            /\ U \cap first = {}
  BY <1>1, <1>2, FrameTaken
<1>4. InFrames(w)' = U /\ \A u \in Workers : u # w => InFrames(u)' = InFrames(u)
  BY <1>2 DEF InFrames
<1> HIDE DEF first, U
<1>5. Placed(w) /\ first \subseteq Of(w)
  BY <1>3 DEF AllPlaced, Placed, OnItsWay, Asked
<1>6. taken(w) = first /\ \A u \in Workers : u # w => taken(u) = {}
  BY <1>5 DEF Of
<1>7. \A u \in Workers : InAnswers(u)' = InAnswers(u) /\ Asked(u)' = Asked(u)
  BY <1>1 DEF InAnswers, Asked
<1>8. Placed(w)'
  <2>1. (Deferred(w)' = first /\ Held(w)' = Held(w)) \/ (Deferred(w)' = {} /\ Held(w)' = Held(w) \cup first)
    BY <1>1, <1>6
  <2> HIDE DEF taken
  <2>2. OnItsWay(w)' = OnItsWay(w)
    BY <1>1, <1>3, <1>4, <1>7, <2>1 DEF OnItsWay
  <2>3. ASSUME open[w] PROVE InOnePlace(w)'
    <3>1. InOnePlace(w)
      BY <1>5, <2>3 DEF Placed
    <3>2. U \cap first = {} /\ U \subseteq InFrames(w) /\ first \subseteq InFrames(w)
          /\ \A i, j \in DOMAIN toRank'[w] : i # j => ToSet(toRank'[w][i]) \cap ToSet(toRank'[w][j]) = {}
      BY <1>3, <3>1 DEF InOnePlace
    <3>3. InFrames(w) \cap (Held(w) \cup InAnswers(w)) = {} /\ Held(w) \cap InAnswers(w) = {}
      BY <3>1 DEF InOnePlace
    <3>4. /\ U \cap (Deferred(w)' \cup Held(w)' \cup InAnswers(w)) = {}
          /\ Deferred(w)' \cap (Held(w)' \cup InAnswers(w)) = {} /\ Held(w)' \cap InAnswers(w) = {}
      BY <2>1, <3>2, <3>3
    <3>5. /\ ToSet(sending[w]) \subseteq inFlight[w]
          /\ OnItsWay(w) \subseteq inFlight[w] \ ToSet(sending[w])
          /\ mode # "dead" => inFlight[w] \ ToSet(sending[w]) \subseteq OnItsWay(w)
          /\ ToSet(queue[w]) \cap inFlight[w] = {}
          /\ \A i, j \in DOMAIN queue[w] : i # j => queue[w][i] # queue[w][j]
          /\ \A i, j \in DOMAIN toWorker[w] : i # j => Asking(toWorker[w][i]) \cap Asking(toWorker[w][j]) = {}
      BY <3>1 DEF InOnePlace
    <3> QED
      BY <1>1, <1>4, <1>7, <2>2, <3>2, <3>4, <3>5 DEF InOnePlace
  <2> QED
    BY <1>1, <1>5, <1>7, <2>2, <2>3 DEF Placed
<1>9. ASSUME NEW v \in Workers, v # w PROVE Placed(v)'
  <2>1. Deferred(v)' = Deferred(v) /\ Held(v)' = Held(v)
    BY <1>1, <1>6, <1>9
  <2>2. Placed(v) /\ asked[v] \in Nat /\ asked'[v] = asked[v] /\ asked'[v] >= asked[v]
        /\ ignored'[v] \subseteq inFlight'[v] /\ toRank'[v] = toRank[v]
    BY <1>1, <1>2, <1>9, ReadyType DEF AllPlaced, Placed
  <2> QED
    BY <1>1, <2>1, <2>2, StayPlaced
<1>10. toRank' \in [Workers -> Seq(Seq(Requests))]
  BY <1>1, <1>2, <1>3 DEF Typed
<1> QED
  BY <1>8, <1>9, <1>10 DEF AllPlaced

\* A rank that exits drops everything on its side.
LEMMA ExitPlaced ==
  ASSUME Typed, AllPlaced, Exit, UNCHANGED <<workerVars, open>>,
         \A w \in Workers : InAnswers(w)' \subseteq InAnswers(w) \cup Held(w),
         \A w \in Workers : InOnePlace(w) =>
           \A i, j \in DOMAIN toWorker'[w] :
             i # j => Asking(toWorker'[w][i]) \cap Asking(toWorker'[w][j]) = {}
  PROVE  /\ AllPlaced' /\ Modes' /\ IsFrame(single)' /\ IsFrame(pending)' /\ IsRows(rows)'
         /\ toRank' \in [Workers -> Seq(Seq(Requests))]
<1>1. /\ mode' = "dead" /\ single' = Nothing /\ rows' = <<>> /\ pending' = Nothing
      /\ toRank' = [w \in Workers |-> <<>>]
      /\ UNCHANGED <<asked, queue, sending, inFlight, ignored, open>>
  BY DEF Exit, workerVars
<1>2. ASSUME NEW w \in Workers PROVE Placed(w)'
  <2>1. toRank'[w] = <<>>
    BY <1>1
  <2>2. InFrames(w)' = {} /\ Deferred(w)' = {} /\ Held(w)' = {} /\ Asked(w)' = Asked(w)
    BY <1>1, <2>1 DEF InFrames, Deferred, Held, ToSet, Asked
  <2>3. OnItsWay(w)' = InAnswers(w)' /\ OnItsWay(w)' \subseteq OnItsWay(w)
    BY <2>2 DEF OnItsWay
  <2>4. Placed(w)
    BY DEF AllPlaced
  <2>5. ASSUME open[w] PROVE InOnePlace(w)'
    <3>1. InOnePlace(w)
      BY <2>4, <2>5 DEF Placed
    <3>2. /\ ToSet(sending[w]) \subseteq inFlight[w]
          /\ OnItsWay(w)' \subseteq inFlight[w] \ ToSet(sending[w])
          /\ ToSet(queue[w]) \cap inFlight[w] = {}
          /\ \A i, j \in DOMAIN queue[w] : i # j => queue[w][i] # queue[w][j]
          /\ \A i, j \in DOMAIN toWorker'[w] :
               i # j => Asking(toWorker'[w][i]) \cap Asking(toWorker'[w][j]) = {}
      BY <2>3, <3>1 DEF InOnePlace
    <3>3. \A i, j \in DOMAIN toRank'[w] :
            i # j => ToSet(toRank'[w][i]) \cap ToSet(toRank'[w][j]) = {}
      BY <2>1
    <3> QED
      BY <1>1, <2>2, <3>2, <3>3 DEF InOnePlace
  <2> QED
    BY <1>1, <2>2, <2>3, <2>4, <2>5 DEF Placed
<1>3. /\ Modes' /\ IsFrame(single)' /\ IsFrame(pending)' /\ IsRows(rows)'
  <2>1. IsRows(<<>>)
    BY DEF IsRows, ToSet
  <2> QED
    BY <1>1, <2>1 DEF Modes, IsFrame, IsRows
<1>4. toRank' \in [Workers -> Seq(Seq(Requests))]
  <2>1. <<>> \in Seq(Seq(Requests))
    OBVIOUS
  <2> QED
    BY <1>1, <2>1
<1> QED
  BY <1>2, <1>3, <1>4 DEF AllPlaced

LEMMA DiePlaced ==
  ASSUME Typed, AllPlaced, Die
  PROVE  /\ AllPlaced' /\ Modes' /\ IsFrame(single)' /\ IsFrame(pending)' /\ IsRows(rows)'
         /\ toRank' \in [Workers -> Seq(Seq(Requests))]
<1>1. Exit /\ UNCHANGED <<workerVars, open>> /\ UNCHANGED toWorker
  BY DEF Die
<1>2. \A v \in Workers : InAnswers(v)' = InAnswers(v)
  BY <1>1 DEF InAnswers
<1>3. \A v \in Workers : InOnePlace(v) =>
        \A i, j \in DOMAIN toWorker'[v] :
          i # j => Asking(toWorker'[v][i]) \cap Asking(toWorker'[v][j]) = {}
  BY <1>1 DEF InOnePlace
<1> QED
  BY <1>1, <1>2, <1>3, ExitPlaced

\* A batch is answered, wholly or before the rank exits.
LEMMA FinishChanges ==
  ASSUME Typed, Modes, FinishBatch
  PROVE  \E failed :
         /\ samples' = samples \o DecidedRows(Batch, failed) /\ mode = "batch"
         /\ UNCHANGED workerVars /\ UNCHANGED <<current, command, open>> /\ faults' \in Nat
         /\ toWorker' \in [Workers -> Seq(Seq(Answer))]
         /\ \A w \in Workers :
              \/ toWorker'[w] = toWorker[w]
              \/ toWorker'[w] = toWorker[w] \o Responses(w, Batch, failed)
         /\ \/ /\ mode' = "look" /\ single' = Nothing /\ rows' = <<>> /\ UNCHANGED <<toRank, pending>>
               /\ \A w \in Workers : Held(w) # {} /\ open[w] =>
                    toWorker'[w] = toWorker[w] \o Responses(w, Batch, failed)
            \/ Exit
<1> DEFINE addressed == {x.request[1] : x \in ToSet(Batch)}
<1>1. mode = "batch" /\ UNCHANGED workerVars /\ UNCHANGED <<current, command, open>>
  BY DEF FinishBatch
<1>2. PICK failed \in SUBSET {Batch[i].request : i \in MatchedAt(Batch)}, to \in SUBSET addressed :
        /\ IF failed = {} /\ to = addressed THEN UNCHANGED faults ELSE Fault
        /\ samples' = samples \o DecidedRows(Batch, failed)
        /\ toWorker' = [w \in Workers |->
             IF w \in to /\ open[w] THEN toWorker[w] \o Responses(w, Batch, failed)
             ELSE toWorker[w]]
        /\ IF to = addressed
           THEN mode' = "look" /\ single' = Nothing /\ rows' = <<>> /\ UNCHANGED <<toRank, pending>>
           ELSE Exit
  BY DEF FinishBatch
<1>3. IsRows(Batch) /\ \A w \in Workers :
        Held(w) = {r \in Of(w) : \E x \in ToSet(Batch) : x.request = r}
  BY BatchRows
<1>4. \A w \in Workers : Held(w) # {} => w \in addressed
  BY <1>3 DEF Of
<1>5. ASSUME NEW w \in Workers PROVE toWorker[w] \o Responses(w, Batch, failed) \in Seq(Seq(Answer))
  <2>1. Responses(w, Batch, failed) \in Seq(Seq(Answer))
    BY <1>3, Replies DEF Typed, IsRows
  <2> QED
    BY <2>1, AnswersSent
<1> HIDE DEF addressed
<1>6. \A w \in Workers :
        /\ w \in to /\ open[w] => toWorker'[w] = toWorker[w] \o Responses(w, Batch, failed)
        /\ ~(w \in to /\ open[w]) => toWorker'[w] = toWorker[w]
  BY <1>2
<1>7. toWorker' \in [Workers -> Seq(Seq(Answer))]
  <2>1. \A w \in Workers : toWorker[w] \in Seq(Seq(Answer))
    BY ReadyType
  <2> QED
    BY <1>2, <1>5, <2>1
<1>8. faults' \in Nat
  BY <1>2 DEF Fault, Typed
<1> QED
  BY <1>1, <1>2, <1>4, <1>6, <1>7, <1>8

LEMMA FinishPlaced ==
  ASSUME Typed, AllPlaced, Modes, FinishBatch
  PROVE  /\ AllPlaced' /\ Modes' /\ IsFrame(single)' /\ IsFrame(pending)' /\ IsRows(rows)'
         /\ toRank' \in [Workers -> Seq(Seq(Requests))]
<1>0. PICK failed :
        /\ mode = "batch" /\ UNCHANGED workerVars /\ UNCHANGED open
        /\ \A w \in Workers :
             \/ toWorker'[w] = toWorker[w]
             \/ toWorker'[w] = toWorker[w] \o Responses(w, Batch, failed)
        /\ \/ /\ mode' = "look" /\ single' = Nothing /\ rows' = <<>> /\ UNCHANGED <<toRank, pending>>
              /\ \A w \in Workers : Held(w) # {} /\ open[w] =>
                   toWorker'[w] = toWorker[w] \o Responses(w, Batch, failed)
           \/ Exit
  BY FinishChanges
<1>1. IsRows(Batch) /\ \A w \in Workers :
        Held(w) = {r \in Of(w) : \E x \in ToSet(Batch) : x.request = r}
  BY BatchRows
<1>2. ASSUME NEW w \in Workers
      PROVE  LET new == Responses(w, Batch, failed) IN
             /\ new \in Seq(Seq(Answer)) /\ UNION {Asking(b) : b \in ToSet(new)} = Held(w)
             /\ \A k, l \in DOMAIN new : k # l => Asking(new[k]) \cap Asking(new[l]) = {}
  <2> DEFINE new == Responses(w, Batch, failed)
  <2>1. /\ new \in Seq(Seq(Answer))
        /\ \A k, l \in DOMAIN new : k # l => Asking(new[k]) \cap Asking(new[l]) = {}
        /\ \A b \in ToSet(new) : \A a \in ToSet(b) :
             a.request \in Of(w) /\ \E x \in ToSet(Batch) : x.request = a.request
        /\ \A x \in ToSet(Batch) : x.request \in Of(w) => \E b \in ToSet(new) : x.request \in Asking(b)
    <3>1. samples \in Seq(ToSet(samples)) /\ IsRows(Batch)
      BY <1>1 DEF Typed, IsRows
    <3>2. /\ new \in Seq(Seq(Answer))
          /\ \A k, l \in DOMAIN new : k # l => Asking(new[k]) \cap Asking(new[l]) = {}
      BY <3>1, Replies
    <3>3. \A b \in ToSet(new) : \A a \in ToSet(b) :
             a.request \in Of(w) /\ \E x \in ToSet(Batch) : x.request = a.request
      BY <3>1, Replies
    <3>4. \A x \in ToSet(Batch) : x.request \in Of(w) => \E b \in ToSet(new) : x.request \in Asking(b)
      BY <3>1, Replies
    <3> QED
      BY <3>2, <3>3, <3>4
  <2> HIDE DEF new
  <2>2. ASSUME NEW r \in Held(w) PROVE r \in UNION {Asking(b) : b \in ToSet(new)}
    BY <1>1, <2>1
  <2>3. ASSUME NEW b \in ToSet(new) PROVE Asking(b) \subseteq Held(w)
    BY <1>1, <2>1 DEF Asking
  <2> QED
    BY <2>1, <2>2, <2>3 DEF new
<1>3. ASSUME NEW w \in Workers, toWorker'[w] = toWorker[w] \o Responses(w, Batch, failed)
      PROVE  /\ InAnswers(w)' = InAnswers(w) \cup Held(w)
             /\ (\A i, j \in DOMAIN toWorker[w] : i # j => Asking(toWorker[w][i]) \cap Asking(toWorker[w][j]) = {})
                  /\ InAnswers(w) \cap Held(w) = {}
                => \A i, j \in DOMAIN toWorker'[w] : i # j => Asking(toWorker'[w][i]) \cap Asking(toWorker'[w][j]) = {}
  <2> DEFINE new == Responses(w, Batch, failed)
             U == UNION {Asking(b) : b \in ToSet(toWorker'[w])}
  <2>1. /\ new \in Seq(Seq(Answer)) /\ UNION {Asking(b) : b \in ToSet(new)} = Held(w)
        /\ \A k, l \in DOMAIN new : k # l => Asking(new[k]) \cap Asking(new[l]) = {}
    BY <1>2
  <2>2. toWorker'[w] = toWorker[w] \o new
    BY <1>3
  <2> HIDE DEF new
  <2>3. /\ U = InAnswers(w) \cup UNION {Asking(b) : b \in ToSet(new)}
        /\ /\ \A i, j \in DOMAIN toWorker[w] : i # j => Asking(toWorker[w][i]) \cap Asking(toWorker[w][j]) = {}
           /\ InAnswers(w) \cap UNION {Asking(b) : b \in ToSet(new)} = {}
           => \A i, j \in DOMAIN toWorker'[w] : i # j => Asking(toWorker'[w][i]) \cap Asking(toWorker'[w][j]) = {}
    BY <2>1, <2>2, AnswersSent
  <2>4. InAnswers(w)' = U
    BY DEF InAnswers
  <2> HIDE DEF U
  <2> QED
    BY <2>1, <2>3, <2>4
<1>4. ASSUME NEW w \in Workers, toWorker'[w] = toWorker[w] PROVE InAnswers(w)' = InAnswers(w)
  BY <1>4 DEF InAnswers
<1>5. CASE Exit
  <2>1. \A w \in Workers : InAnswers(w)' \subseteq InAnswers(w) \cup Held(w)
    BY <1>0, <1>3, <1>4
  <2>2. \A w \in Workers : InOnePlace(w) =>
          \A i, j \in DOMAIN toWorker'[w] :
            i # j => Asking(toWorker'[w][i]) \cap Asking(toWorker'[w][j]) = {}
    <3> SUFFICES ASSUME NEW w \in Workers, InOnePlace(w)
                 PROVE  \A i, j \in DOMAIN toWorker'[w] :
                          i # j => Asking(toWorker'[w][i]) \cap Asking(toWorker'[w][j]) = {}
      OBVIOUS
    <3>1. /\ \A i, j \in DOMAIN toWorker[w] :
               i # j => Asking(toWorker[w][i]) \cap Asking(toWorker[w][j]) = {}
          /\ InAnswers(w) \cap Held(w) = {}
      BY DEF InOnePlace
    <3>2. CASE toWorker'[w] = toWorker[w]
      BY <3>1, <3>2
    <3>3. CASE toWorker'[w] = toWorker[w] \o Responses(w, Batch, failed)
      BY <1>3, <3>1, <3>3
    <3> QED
      BY <1>0, <3>2, <3>3
  <2> QED
    BY <1>0, <1>5, <2>1, <2>2, ExitPlaced
<1>6. CASE ~Exit
  <2>1. /\ mode' = "look" /\ single' = Nothing /\ rows' = <<>> /\ UNCHANGED <<toRank, pending>>
        /\ \A w \in Workers : Held(w) # {} /\ open[w] => toWorker'[w] = toWorker[w] \o Responses(w, Batch, failed)
        /\ \A w \in Workers : toWorker'[w] = toWorker[w] \/ toWorker'[w] = toWorker[w] \o Responses(w, Batch, failed)
        /\ UNCHANGED <<asked, queue, sending, inFlight, ignored, open>>
    BY <1>0, <1>6 DEF workerVars
  <2>2. ASSUME NEW w \in Workers PROVE Placed(w)'
    <3>2. InFrames(w)' = InFrames(w) /\ Deferred(w)' = Deferred(w) /\ Held(w)' = {} /\ Asked(w)' = Asked(w)
      BY <2>1 DEF InFrames, Deferred, Held, Asked, ToSet
    <3>3. OnItsWay(w)' \subseteq OnItsWay(w)
      BY <1>3, <1>4, <2>1, <3>2 DEF OnItsWay
    <3>4. Placed(w)
      BY DEF AllPlaced
    <3>5. ASSUME open[w] PROVE InOnePlace(w)'
      <4>0. /\ InAnswers(w)' = InAnswers(w) \cup Held(w)
            /\ (\A i, j \in DOMAIN toWorker[w] : i # j => Asking(toWorker[w][i]) \cap Asking(toWorker[w][j]) = {})
                 /\ InAnswers(w) \cap Held(w) = {}
               => \A i, j \in DOMAIN toWorker'[w] : i # j => Asking(toWorker'[w][i]) \cap Asking(toWorker'[w][j]) = {}
        <5>1. CASE toWorker'[w] = toWorker[w] \o Responses(w, Batch, failed)
          BY <1>3, <5>1
        <5>2. CASE toWorker'[w] = toWorker[w] /\ Held(w) = {}
          BY <1>4, <5>2
        <5> QED
          BY <2>1, <3>5, <5>1, <5>2
      <4>1. InOnePlace(w) /\ OnItsWay(w)' = OnItsWay(w)
        BY <3>2, <3>4, <3>5, <4>0 DEF Placed, OnItsWay
      <4>2. \A i, j \in DOMAIN toWorker'[w] : i # j => Asking(toWorker'[w][i]) \cap Asking(toWorker'[w][j]) = {}
        BY <4>0, <4>1 DEF InOnePlace
      <4>3. /\ InFrames(w)' \cap (Deferred(w)' \cup Held(w)' \cup InAnswers(w)') = {}
            /\ Deferred(w)' \cap (Held(w)' \cup InAnswers(w)') = {} /\ Held(w)' \cap InAnswers(w)' = {}
        BY <3>2, <4>0, <4>1 DEF InOnePlace
      <4>4. /\ ToSet(sending[w]) \subseteq inFlight[w] /\ OnItsWay(w) = inFlight[w] \ ToSet(sending[w])
            /\ ToSet(queue[w]) \cap inFlight[w] = {}
            /\ \A i, j \in DOMAIN queue[w] : i # j => queue[w][i] # queue[w][j]
            /\ \A i, j \in DOMAIN toRank[w] : i # j => ToSet(toRank[w][i]) \cap ToSet(toRank[w][j]) = {}
        BY <1>0, <4>1 DEF InOnePlace
      <4> QED
        BY <2>1, <4>1, <4>2, <4>3, <4>4 DEF InOnePlace
    <3> QED
      BY <2>1, <3>2, <3>3, <3>4, <3>5 DEF Placed
  <2>3. /\ Modes' /\ IsFrame(single)' /\ IsFrame(pending)' /\ IsRows(rows)'
    <3>1. IsRows(<<>>)
      BY DEF IsRows, ToSet
    <3> QED
      BY <2>1, <3>1 DEF Modes, Typed, IsFrame, IsRows
  <2> QED
    BY <2>1, <2>2, <2>3 DEF AllPlaced, Typed
<1> QED
  BY <1>5, <1>6

---------------------------------------------------------------------------
(* What becomes of a request in a step *)

Fate(r) ==
  \/ future'[r] = future[r]
  \/ \E w \in Workers : AskDecision(w) /\ r = <<w, asked[w] + 1>> /\ future'[r] = "waiting"
  \/ future[r] = "waiting" /\ future'[r] \in {"done", "failed", "cancelled"}
  \/ future[r] = "waiting" /\ future'[r] = "rejected" /\ ~open'[r[1]]

\* A client that closed its end rejects its own requests and no other.
LEMMA RejectFates ==
  ASSUME Typed, AllPlaced, NEW w \in Workers, RejectAll(w), ~open'[w]
  PROVE  future' \in [Requests -> Fates] /\ \A r \in Requests : Fate(r)
<1>1. future' = [r \in Requests |->
                   IF r \in Lost(w) /\ future[r] = "waiting" THEN "rejected" ELSE future[r]]
  BY DEF RejectAll, Reject
<1>2. future \in [Requests -> Fates]
  BY DEF Typed
<1>3. \A r \in Lost(w) : r[1] = w
  BY DEF AllPlaced, Placed, Asked, Of, Lost
<1> QED
  BY <1>1, <1>2, <1>3 DEF Fates, Fate

LEMMA DispatchFates ==
  ASSUME Typed, AllPlaced, Versions, NEW w \in Workers, Dispatch(w)
  PROVE  /\ future' \in [Requests -> Fates] /\ faults' \in Nat
         /\ \A r \in Requests : Fate(r)
         /\ \A a \in recorded' : a \in recorded \/
              \E b \in ToSet(Head(toWorker[w])) :
                b.result = "done" /\ a.request = b.request /\ a.row = b.row
<1> DEFINE batch == Head(toWorker[w])
           answered == {a \in ToSet(batch) : a.request \notin ignored[w] /\ future[a.request] = "waiting"}
<1>1. /\ batch \in Seq(Answer) /\ toWorker[w] # <<>> /\ batch \in ToSet(toWorker[w])
  <2>1. toWorker[w] # <<>>
    BY DEF Dispatch
  <2> QED
    BY <2>1, AnswersTaken
<1>2. \A a \in ToSet(batch) : a \in Answer
  BY <1>1, LenProperties DEF ToSet
<1>3. Known(w, batch)
  BY DispatchPlaced DEF Dispatch
<1>4. PICK spoilt \in SUBSET {a \in answered : a.result = "done"} :
        /\ IF spoilt = {} THEN UNCHANGED faults ELSE Fault
        /\ future' = [r \in Requests |->
             IF \E a \in spoilt : a.request = r THEN "failed"
             ELSE IF \E a \in answered : a.request = r
             THEN (CHOOSE a \in answered : a.request = r).result ELSE future[r]]
        /\ recorded' = recorded \cup
             {[request |-> a.request, row |-> a.row] :
                a \in {b \in answered : b.result = "done"} \ spoilt}
  BY <1>3 DEF Dispatch
<1>5. \A a \in answered : /\ a.result \in {"done", "failed"} /\ future[a.request] = "waiting"
                          /\ a \in ToSet(batch)
  BY <1>1, <1>2 DEF Versions, Answer
<1> HIDE DEF answered
<1>6. ASSUME NEW r \in Requests
      PROVE  future'[r] = future[r] \/ (future[r] = "waiting" /\ future'[r] \in {"done", "failed"})
  <2>1. CASE \E a \in spoilt : a.request = r
    BY <1>4, <1>5, <2>1
  <2>2. CASE (\E a \in answered : a.request = r) /\ ~\E a \in spoilt : a.request = r
    <3> DEFINE c == CHOOSE a \in answered : a.request = r
    <3>1. c \in answered /\ c.request = r
      BY <2>2
    <3>2. future'[r] = c.result
      BY <1>4, <2>2
    <3> QED
      BY <1>5, <3>1, <3>2
  <2>3. CASE ~(\E a \in answered : a.request = r) /\ ~\E a \in spoilt : a.request = r
    BY <1>4, <2>3
  <2> QED
    BY <2>1, <2>2, <2>3
<1>7. future' \in [Requests -> Fates]
  BY <1>4, <1>6 DEF Typed, Fates
<1>8. ASSUME NEW a \in recorded', a \notin recorded
      PROVE  \E b \in ToSet(batch) : b.result = "done" /\ a.request = b.request /\ a.row = b.row
  <2>1. PICK b \in {b \in answered : b.result = "done"} \ spoilt :
          a = [request |-> b.request, row |-> b.row]
    BY <1>4, <1>8
  <2> QED
    BY <1>5, <2>1
<1>9. faults' \in Nat
  BY <1>4 DEF Fault, Typed
<1> QED
  BY <1>6, <1>7, <1>8, <1>9 DEF Fate

LEMMA StepFates ==
  ASSUME Typed, AllPlaced, Versions, [InferenceNext]_inferenceVars
  PROVE  future' \in [Requests -> Fates] /\ \A r \in Requests : Fate(r)
<1> DEFINE Fated == future' \in [Requests -> Fates] /\ \A r \in Requests : Fate(r)
<1>0. future \in [Requests -> Fates]
  BY DEF Typed
<1>1. CASE future' = future
  BY <1>0, <1>1 DEF Fate
<1>2. ASSUME NEW w \in Workers, AskDecision(w) PROVE Fated
  <2>1. future' = [future EXCEPT ![<<w, asked[w] + 1>>] = "waiting"]
    BY <1>2 DEF AskDecision
  <2> QED
    BY <1>0, <1>2, <2>1 DEF Fate, Fates
<1>3. ASSUME NEW w \in Workers, Submit(w) PROVE Fated
  <2>1. CASE open[w]
    BY <1>1, <1>3, <2>1 DEF Submit
  <2>2. CASE ~open[w]
    BY <1>3, <2>2, RejectFates DEF Submit
  <2> QED
    BY <2>1, <2>2
<1>4. ASSUME NEW w \in Workers, CannotCompile(w) PROVE Fated
  <2>1. future' = [r \in Requests |->
          IF r \in ToSet(Live(w)) /\ future[r] = "waiting" THEN "failed" ELSE future[r]]
    BY <1>4 DEF CannotCompile
  <2> QED
    BY <1>0, <2>1 DEF Fate, Fates
<1>5. ASSUME NEW w \in Workers, Timeout(w) PROVE Fated
  <2>1. ~open'[w] /\ RejectAll(w)
    BY <1>5 DEF Timeout, Typed
  <2> QED
    BY <2>1, RejectFates
<1>6. ASSUME NEW w \in Workers, FailSession(w) PROVE Fated
  <2>1. future' = [r \in Requests |-> IF r \in Waiting(w) THEN "cancelled" ELSE future[r]]
    BY <1>6 DEF FailSession
  <2> QED
    BY <1>0, <2>1 DEF Fate, Fates, Waiting
<1>7. ASSUME NEW r \in Requests, Cancel(r) PROVE Fated
  <2>1. future[r] = "waiting" /\ future' = [future EXCEPT ![r] = "cancelled"]
    BY <1>7 DEF Cancel
  <2> QED
    BY <1>0, <2>1 DEF Fate, Fates
<1>8. ASSUME NEW w \in Workers, Dispatch(w) PROVE Fated
  BY <1>8, DispatchFates
<1>9. ASSUME RankStep \/ Die PROVE future' = future
  BY <1>9 DEF RankStep, Die, BeginBatch, FinishBatch, Update, ReceiveFrame, UnchangedWorkers, workerVars
<1>10. ASSUME AskToStop \/ AskToUpdate \/ NextSession PROVE future' = future
  BY <1>10 DEF AskToStop, AskToUpdate, NextSession
<1>11. ASSUME NEW w \in Workers, Register(w) \/ Stopped(w) PROVE future' = future
  BY <1>11 DEF Register, Stopped
<1>12. CASE UNCHANGED inferenceVars
  BY <1>1, <1>12 DEF inferenceVars, workerVars
<1> HIDE DEF Fated
<1>13. Fated
  BY <1>1, <1>2, <1>3, <1>4, <1>5, <1>6, <1>7, <1>8, <1>9, <1>10, <1>11, <1>12
  DEF InferenceNext, WorkerStep, Prompt, Fail, RoundExpires, Fated
<1> QED
  BY <1>13 DEF Fated

---------------------------------------------------------------------------
\* Every step keeps the types and the places.

\* A worker that forgets its requests.
LEMMA ForgetsAll ==
  ASSUME Typed, NEW w \in Workers
  PROVE  /\ [inFlight EXCEPT ![w] = {}] \in [Workers -> SUBSET Requests]
         /\ [ignored EXCEPT ![w] = {}] \in [Workers -> SUBSET Requests]
         /\ [queue EXCEPT ![w] = <<>>] \in [Workers -> Seq(Requests)]
<1>1. <<>> \in Seq(Requests) /\ {} \in SUBSET Requests
  OBVIOUS
<1>2. queue \in [Workers -> Seq(Requests)] /\ inFlight \in [Workers -> SUBSET Requests]
      /\ ignored \in [Workers -> SUBSET Requests]
  BY DEF Typed
<1> QED
  BY <1>1, <1>2

LEMMA StepPlaced ==
  ASSUME Typed, AllPlaced, Modes, Versions, [InferenceNext]_inferenceVars
  PROVE  Typed' /\ AllPlaced' /\ Modes'
<1> DEFINE Kept == Typed' /\ AllPlaced' /\ Modes'
<1>0. future' \in [Requests -> Fates] /\ future \in [Requests -> Fates]
  BY StepFates DEF Typed
<1>a. ASSUME UNCHANGED <<mode, single, rows, pending, samples>>
      PROVE  Modes' /\ mode' \in {"look", "listen", "batch", "dead"} /\ IsFrame(single)' /\ IsFrame(pending)'
             /\ IsRows(rows)' /\ IsRows(samples)'
  BY <1>a DEF Modes, Typed, IsFrame, IsRows
<1>1. ASSUME NEW w \in Workers, AskDecision(w) PROVE Kept
  <2>1. AllPlaced'
    BY <1>1, AskPlaced
  <2>2. /\ asked' = [asked EXCEPT ![w] = @ + 1] /\ queue' = [queue EXCEPT ![w] = Append(@, <<w, asked[w] + 1>>)]
        /\ version' = [version EXCEPT ![<<w, asked[w] + 1>>] = current] /\ asked[w] < MaxRequests
        /\ UNCHANGED <<phase, sending, inFlight, ignored, recorded, faults, open, toRank, toWorker,
                       mode, single, rows, pending, samples, current, command>>
    BY <1>1 DEF AskDecision, socketVars, UnchangedRank, rankVars, ingressVars
  <2>3. asked' \in [Workers -> Nat] /\ version' \in [Requests -> Nat]
    <3>1. asked \in [Workers -> Nat] /\ version \in [Requests -> Nat] /\ current \in Nat
      BY DEF Typed
    <3>2. asked' \in [Workers -> Nat]
      BY <2>2, <3>1
    <3>3. version' \in [Requests -> Nat]
      BY <2>2, <3>1
    <3> QED
      BY <3>2, <3>3
  <2>4. queue' \in [Workers -> Seq(Requests)]
    <3>1. MaxRequests \in Nat /\ asked[w] \in Nat
      BY SizeAssumption DEF Typed
    <3>2. <<w, asked[w] + 1>> \in Requests
      BY <2>2, <3>1 DEF Requests
    <3>3. Append(queue[w], <<w, asked[w] + 1>>) \in Seq(Requests)
      BY <3>2, ReadyType, AppendProperties
    <3> QED
      BY <2>2, <3>3 DEF Typed
  <2> QED
    BY <1>0, <1>a, <2>1, <2>2, <2>3, <2>4 DEF Typed, Fates
<1>2. ASSUME NEW w \in Workers, Register(w) \/ CannotCompile(w) PROVE Kept
  <2>1. /\ UNCHANGED <<phase, asked, version, ignored, recorded, open, toRank, toWorker,
                       mode, single, rows, pending, samples, current, command>>
        /\ faults' \in Nat
    BY <1>2 DEF Register, CannotCompile, Fault, socketVars, UnchangedRank, rankVars, ingressVars, Typed
  <2> QED
    BY <1>0, <1>2, <1>a, <2>1, RegisterPlaced DEF Typed
<1>3. ASSUME NEW w \in Workers, Submit(w) PROVE Kept
  <2>1. UNCHANGED <<phase, asked, version, recorded, faults, open, toWorker,
                    mode, single, rows, pending, samples, current, command>>
    BY <1>3 DEF Submit, UnchangedRank, rankVars, ingressVars
  <2>2. AllPlaced' /\ toRank' \in [Workers -> Seq(Seq(Requests))]
    BY <1>3, SubmitPlaced
  <2>3. sending' \in [Workers -> Seq(Requests)]
    BY <1>3 DEF Submit, Typed
  <2>4. /\ queue' \in [Workers -> Seq(Requests)] /\ inFlight' \in [Workers -> SUBSET Requests]
        /\ ignored' \in [Workers -> SUBSET Requests]
    <3>1. CASE open[w]
      BY <1>3, <3>1 DEF Submit, Typed
    <3>2. CASE ~open[w]
      <4>1. /\ queue' = [queue EXCEPT ![w] = <<>>] /\ inFlight' = [inFlight EXCEPT ![w] = {}]
            /\ ignored' = [ignored EXCEPT ![w] = {}]
        BY <1>3, <3>2 DEF Submit, RejectAll, Reject
      <4> QED
        BY <4>1, ForgetsAll
    <3> QED
      BY <3>1, <3>2
  <2> QED
    BY <1>0, <1>a, <2>1, <2>2, <2>3, <2>4 DEF Typed, Fates
<1>4. ASSUME NEW w \in Workers, Dispatch(w) PROVE Kept
  <2>1. /\ toWorker' \in [Workers -> Seq(Seq(Answer))] /\ inFlight' \in [Workers -> SUBSET Requests]
        /\ ignored' \in [Workers -> SUBSET Requests]
        /\ UNCHANGED <<phase, asked, version, queue, sending, open, toRank>>
        /\ UNCHANGED <<mode, single, rows, pending, samples, current, command>>
    BY <1>4, DispatchChanges
  <2>2. AllPlaced' /\ faults' \in Nat
    <3>1. AllPlaced'
      BY <1>4, DispatchPlaced
    <3>2. faults' \in Nat
      BY <1>4, DispatchFates
    <3> QED
      BY <3>1, <3>2
  <2>3. \A a \in recorded' : a.request \in Requests
    <3>1. \A b \in ToSet(Head(toWorker[w])) : b.request \in Requests
      <4>1. Head(toWorker[w]) \in Seq(Answer)
        BY <1>4, DispatchChanges
      <4>2. \A b \in ToSet(Head(toWorker[w])) : b \in Answer
        BY <4>1, LenProperties DEF ToSet
      <4> QED
        BY <4>2 DEF Answer
    <3>2. ASSUME NEW a \in recorded' PROVE a.request \in Requests
      <4>1. a \in recorded \/ \E b \in ToSet(Head(toWorker[w])) : a.request = b.request
        BY <1>4, DispatchFates
      <4> QED
        BY <3>1, <4>1 DEF Typed
    <3> QED
      BY <3>2
  <2> QED
    BY <1>0, <1>a, <2>1, <2>2, <2>3 DEF Typed, Fates
<1>5. ASSUME NEW w \in Workers, Timeout(w) \/ Fail(w) \/ RoundExpires(w) PROVE Kept
  <2>1. AllPlaced'
    BY <1>5, ClosePlaced DEF Fail, RoundExpires
  <2>2. /\ inFlight' = [inFlight EXCEPT ![w] = {}] /\ ignored' = [ignored EXCEPT ![w] = {}]
        /\ queue' = [queue EXCEPT ![w] = <<>>]
        /\ sending' = sending \/ sending' = [sending EXCEPT ![w] = <<>>]
        /\ open' = [open EXCEPT ![w] = FALSE]
        /\ toWorker' = toWorker \/ toWorker' = [toWorker EXCEPT ![w] = <<>>]
        /\ phase' = phase \/ phase' = [phase EXCEPT ![w] = "failed"]
        /\ faults' = faults \/ faults' = faults + 1
        /\ UNCHANGED <<asked, version, recorded, toRank, mode, single, rows, pending,
                       samples, current, command>>
    BY <1>5 DEF Timeout, Fail, RoundExpires, FailSession, Deadline, Fault, RejectAll, Reject,
                UnchangedRank, rankVars, ingressVars
  <2>3. open' \in [Workers -> BOOLEAN] /\ toWorker' \in [Workers -> Seq(Seq(Answer))]
    <3>1. open' \in [Workers -> BOOLEAN]
      BY <2>2, Zenon DEF Typed
    <3>2. <<>> \in Seq(Seq(Answer)) /\ toWorker \in [Workers -> Seq(Seq(Answer))]
      BY DEF Typed
    <3>3. toWorker' \in [Workers -> Seq(Seq(Answer))]
      BY <2>2, <3>2
    <3> QED
      BY <3>1, <3>3
  <2>4. /\ inFlight' \in [Workers -> SUBSET Requests] /\ ignored' \in [Workers -> SUBSET Requests]
        /\ queue' \in [Workers -> Seq(Requests)] /\ sending' \in [Workers -> Seq(Requests)]
        /\ phase' \in [Workers -> {"sampling", "stopping", "stopped", "updating", "failed"}]
        /\ faults' \in Nat
    <3>1. /\ inFlight' \in [Workers -> SUBSET Requests] /\ ignored' \in [Workers -> SUBSET Requests]
          /\ queue' \in [Workers -> Seq(Requests)]
      BY <2>2, ForgetsAll
    <3>2. sending' \in [Workers -> Seq(Requests)]
      <4>1. <<>> \in Seq(Requests) /\ sending \in [Workers -> Seq(Requests)]
        BY DEF Typed
      <4> QED
        BY <2>2, <4>1
    <3>3. phase' \in [Workers -> {"sampling", "stopping", "stopped", "updating", "failed"}]
      BY <2>2 DEF Typed
    <3>4. faults' \in Nat
      BY <2>2 DEF Typed
    <3> QED
      BY <3>1, <3>2, <3>3, <3>4
  <2> QED
    BY <1>0, <1>a, <2>1, <2>2, <2>3, <2>4 DEF Typed, Fates
<1>6. ASSUME NEW r \in Requests, Cancel(r) PROVE Kept
  <2>1. UNCHANGED <<phase, asked, version, queue, sending, inFlight, recorded, faults, open, toRank,
                    toWorker, mode, single, rows, pending, samples, current, command>>
    BY <1>6 DEF Cancel, socketVars, UnchangedRank, rankVars, ingressVars
  <2> QED
    BY <1>0, <1>6, <1>a, <2>1, CancelPlaced DEF Typed, Fates
<1>7. ASSUME AskToStop \/ AskToUpdate \/ NextSession \/ \E w \in Workers : Stopped(w) PROVE Kept
  <2>1. /\ phase' \in [Workers -> {"sampling", "stopping", "stopped", "updating", "failed"}]
        /\ recorded' = recorded \/ recorded' = {}
        /\ command' = command \/ command' = TRUE
        /\ UNCHANGED <<asked, version, queue, sending, inFlight, ignored, faults, open, toRank,
                    toWorker, mode, single, rows, pending, samples, current>>
    <3>1. CASE AskToStop
      BY <3>1 DEF AskToStop, socketVars, UnchangedRank, rankVars, ingressVars
    <3>2. CASE AskToUpdate
      BY <3>2 DEF AskToUpdate, socketVars, rankVars, ingressVars
    <3>3. CASE NextSession
      BY <3>3 DEF NextSession, socketVars, UnchangedRank, rankVars, ingressVars
    <3>4. ASSUME NEW w \in Workers, Stopped(w)
          PROVE  /\ phase' = [phase EXCEPT ![w] = "stopped"] /\ recorded' = recorded
                 /\ UNCHANGED <<asked, version, queue, sending, inFlight, ignored, faults, open,
                                toRank, toWorker, mode, single, rows, pending, samples, current, command>>
      BY <3>4 DEF Stopped, socketVars, UnchangedRank, rankVars, ingressVars
    <3>5. ASSUME NEW w \in Workers
          PROVE  [phase EXCEPT ![w] = "stopped"] \in
                   [Workers -> {"sampling", "stopping", "stopped", "updating", "failed"}]
      BY DEF Typed
    <3> QED
      BY <1>7, <3>1, <3>2, <3>3, <3>4, <3>5
  <2>2. command' \in BOOLEAN
    BY <2>1, Zenon DEF Typed
  <2>3. AllPlaced'
    BY <1>7, IdlePlaced
  <2> QED
    BY <1>0, <1>a, <2>1, <2>2, <2>3 DEF Typed, Fates
<1>8. ASSUME Update PROVE Kept
  <2>1. /\ UNCHANGED <<open, toRank, toWorker, single, rows, pending>> /\ UnchangedWorkers
        /\ mode = "listen" /\ mode' = "look"
        /\ \/ current' = current + 1 /\ samples' = <<>> /\ command' = FALSE
           \/ UNCHANGED <<current, samples, command>>
    BY <1>8 DEF Update, socketVars, ingressVars
  <2>2. IsRows(<<>>) /\ command' \in BOOLEAN
    <3>1. command' \in BOOLEAN
      BY <2>1, Zenon DEF Typed
    <3> QED
      BY <3>1 DEF IsRows, ToSet
  <2>3. AllPlaced'
    BY <1>8, IdlePlaced
  <2>4. Modes' /\ IsFrame(single)' /\ IsFrame(pending)' /\ IsRows(rows)' /\ IsRows(samples)' /\ current' \in Nat
    <3>1. Modes' /\ IsFrame(single)' /\ IsFrame(pending)' /\ IsRows(rows)'
      BY <2>1 DEF Modes, Typed, IsFrame, IsRows
    <3>2. samples' = samples \/ samples' = <<>>
      BY <2>1
    <3>3. IsRows(samples)'
      BY <2>2, <3>2 DEF Typed, IsRows
    <3>4. current' \in Nat
      BY <2>1 DEF Typed
    <3> QED
      BY <3>1, <3>3, <3>4
  <2> QED
    BY <1>0, <2>1, <2>2, <2>3, <2>4 DEF Typed, Fates, UnchangedWorkers, workerVars
<1>9. ASSUME BeginBatch PROVE Kept
  <2>1. UNCHANGED <<samples, current, command, open, toRank, toWorker>> /\ UnchangedWorkers
        /\ mode' \in {"batch", "listen"}
    BY <1>9 DEF BeginBatch, socketVars
  <2>2. IsRows(samples)'
    BY <2>1 DEF IsRows, Typed
  <2> QED
    BY <1>0, <1>9, <2>1, <2>2, BeginPlaced DEF Typed, Fates, UnchangedWorkers, workerVars
<1>10. ASSUME NEW w \in Workers, ReceiveFrame(w) PROVE Kept
  <2>1. UNCHANGED <<mode, samples, current, command, open, toWorker>> /\ UnchangedWorkers
    BY <1>10 DEF ReceiveFrame
  <2>2. IsRows(samples)'
    BY <2>1 DEF IsRows, Typed
  <2>3. Modes' /\ IsFrame(single)' /\ IsFrame(pending)' /\ IsRows(rows)'
    BY <1>10, ReceiveChanges
  <2>4. AllPlaced' /\ toRank' \in [Workers -> Seq(Seq(Requests))]
    BY <1>10, ReceivePlaced
  <2> QED
    BY <1>0, <2>1, <2>2, <2>3, <2>4 DEF Typed, Fates, UnchangedWorkers, workerVars
<1>11. ASSUME Die PROVE Kept
  <2>1. /\ UNCHANGED <<samples, current, command, open, toWorker, workerVars>> /\ mode' = "dead"
        /\ faults' \in Nat
    BY <1>11 DEF Die, Exit, Fault, Typed
  <2>2. IsRows(samples)'
    BY <2>1 DEF IsRows, Typed
  <2> QED
    BY <1>0, <1>11, <2>1, <2>2, DiePlaced DEF Typed, workerVars
<1>12. ASSUME FinishBatch PROVE Kept
  <2>1. PICK failed :
          /\ samples' = samples \o DecidedRows(Batch, failed)
          /\ UNCHANGED workerVars /\ UNCHANGED <<current, command, open>> /\ faults' \in Nat
          /\ toWorker' \in [Workers -> Seq(Seq(Answer))] /\ mode' \in {"look", "dead"}
    BY <1>12, FinishChanges DEF Exit
  <2>2. IsRows(samples)'
    <3>1. IsRows(DecidedRows(Batch, failed)) /\ IsRows(samples)
      BY BatchRows, Parted DEF Typed
    <3>2. IsRows(samples \o DecidedRows(Batch, failed))
      BY <3>1, RowsJoined
    <3> QED
      BY <2>1, <3>2 DEF IsRows
  <2> QED
    BY <1>0, <1>12, <2>1, <2>2, FinishPlaced DEF Typed, workerVars
<1>13. CASE UNCHANGED inferenceVars
  <2>1. AllPlaced'
    BY <1>13, IdlePlaced
  <2>2. Typed' /\ Modes'
    BY <1>13 DEF inferenceVars, workerVars, socketVars, rankVars, ingressVars, Typed, Modes, IsFrame, IsRows
  <2> QED
    BY <2>1, <2>2
<1> QED
  BY <1>1, <1>2, <1>3, <1>4, <1>5, <1>6, <1>7, <1>8, <1>9, <1>10, <1>11, <1>12, <1>13
  DEF InferenceNext, WorkerStep, Prompt, RankStep

---------------------------------------------------------------------------
(* Versions, samples and what is never rejected *)

\* Whose version, phase and samples a step changes.
LEMMA StepChanges ==
  ASSUME Typed, AllPlaced, Modes, Versions, [InferenceNext]_inferenceVars
  PROVE  \/ \E w \in Workers : /\ AskDecision(w) /\ phase[w] = "sampling"
                               /\ version' = [version EXCEPT ![<<w, asked[w] + 1>>] = current]
                               /\ UNCHANGED <<phase, mode, samples, current, command, open, toWorker, recorded>>
         \/ \E w \in Workers : /\ Dispatch(w)
                               /\ UNCHANGED <<phase, version, mode, samples, current, command, open>>
         \/ \E w \in Workers : /\ Stopped(w) /\ phase' = [phase EXCEPT ![w] = "stopped"]
                               /\ UNCHANGED <<version, mode, samples, current, command, open, toWorker, recorded>>
         \/ \E w \in Workers : /\ FailSession(w) /\ phase' = [phase EXCEPT ![w] = "failed"]
                               /\ open' = [open EXCEPT ![w] = FALSE]
                               /\ toWorker' = [toWorker EXCEPT ![w] = <<>>]
                               /\ UNCHANGED <<version, mode, samples, current, command, recorded>>
         \/ \E w \in Workers : /\ Timeout(w) /\ open' = [open EXCEPT ![w] = FALSE]
                               /\ UNCHANGED <<phase, version, mode, samples, current, command, toWorker, recorded>>
         \/ AskToStop \/ AskToUpdate \/ NextSession \/ Update \/ FinishBatch
         \/ /\ mode' \in {"look", "batch", "listen", "dead"} /\ (mode = "dead" => mode' = "dead")
            /\ UNCHANGED <<phase, version, samples, current, command, open, toWorker, recorded>>
<1>1. ASSUME NEW w \in Workers, AskDecision(w)
      PROVE  /\ phase[w] = "sampling" /\ version' = [version EXCEPT ![<<w, asked[w] + 1>>] = current]
             /\ UNCHANGED <<phase, mode, samples, current, command, open, toWorker, recorded>>
  BY <1>1 DEF AskDecision, socketVars, UnchangedRank, rankVars
<1>2. ASSUME NEW w \in Workers, Dispatch(w)
      PROVE  UNCHANGED <<phase, version, mode, samples, current, command, open>>
  BY <1>2 DEF Dispatch, UnchangedRank, rankVars
<1>3. ASSUME NEW w \in Workers, Stopped(w)
      PROVE  /\ phase' = [phase EXCEPT ![w] = "stopped"]
             /\ UNCHANGED <<version, mode, samples, current, command, open, toWorker, recorded>>
  BY <1>3 DEF Stopped, socketVars, UnchangedRank, rankVars
<1>4. ASSUME NEW w \in Workers, FailSession(w)
      PROVE  /\ phase' = [phase EXCEPT ![w] = "failed"] /\ open' = [open EXCEPT ![w] = FALSE]
             /\ toWorker' = [toWorker EXCEPT ![w] = <<>>]
             /\ UNCHANGED <<version, mode, samples, current, command, recorded>>
  BY <1>4 DEF FailSession, UnchangedRank, rankVars
<1>5. ASSUME NEW w \in Workers, Timeout(w)
      PROVE  /\ open' = [open EXCEPT ![w] = FALSE]
             /\ UNCHANGED <<phase, version, mode, samples, current, command, toWorker, recorded>>
  BY <1>5 DEF Timeout, UnchangedRank, rankVars
<1> DEFINE Quietly ==
      /\ mode' \in {"look", "batch", "listen", "dead"} /\ (mode = "dead" => mode' = "dead")
      /\ UNCHANGED <<phase, version, samples, current, command, open, toWorker, recorded>>
<1>6. ASSUME NEW w \in Workers, Register(w) \/ CannotCompile(w) \/ Submit(w) PROVE Quietly
  <2>1. UNCHANGED <<phase, version, mode, samples, current, command, open, toWorker, recorded>>
    BY <1>6 DEF Register, CannotCompile, Submit, socketVars, UnchangedRank, rankVars
  <2> QED
    BY <2>1 DEF Typed
<1>7. ASSUME NEW r \in Requests, Cancel(r) PROVE Quietly
  <2>1. UNCHANGED <<phase, version, mode, samples, current, command, open, toWorker, recorded>>
    BY <1>7 DEF Cancel, socketVars, UnchangedRank, rankVars
  <2> QED
    BY <2>1 DEF Typed
<1>8. ASSUME BeginBatch PROVE Quietly
  <2>1. UNCHANGED <<phase, version, samples, current, command, open, toWorker, recorded>>
        /\ mode = "look" /\ mode' \in {"batch", "listen"}
    BY <1>8 DEF BeginBatch, socketVars, UnchangedWorkers, workerVars
  <2> QED
    BY <2>1
<1>9. ASSUME NEW w \in Workers, ReceiveFrame(w) PROVE Quietly
  <2>1. UNCHANGED <<phase, version, mode, samples, current, command, open, toWorker, recorded>>
    BY <1>9 DEF ReceiveFrame, UnchangedWorkers, workerVars
  <2> QED
    BY <2>1 DEF Typed
<1>10. ASSUME Die PROVE Quietly
  <2>1. UNCHANGED <<phase, version, samples, current, command, open, toWorker, recorded>> /\ mode' = "dead"
    BY <1>10 DEF Die, Exit, workerVars
  <2> QED
    BY <2>1
<1>11. CASE UNCHANGED inferenceVars
  <2>1. UNCHANGED <<phase, version, mode, samples, current, command, open, toWorker, recorded>>
    BY <1>11 DEF inferenceVars, workerVars, socketVars, rankVars
  <2>2. Quietly
    BY <2>1 DEF Typed
  <2> QED
    BY <2>2
<1> HIDE DEF Quietly
<1>12. CASE InferenceNext
  BY <1>1, <1>2, <1>3, <1>4, <1>5, <1>6, <1>7, <1>8, <1>9, <1>10, <1>12
  DEF InferenceNext, WorkerStep, Prompt, Fail, RoundExpires, RankStep, Quietly
<1> QED
  BY <1>11, <1>12

\* A new request was nowhere before.
LEMMA NewNowhere ==
  ASSUME AllPlaced, NEW w \in Workers, asked[w] \in Nat
  PROVE  \A v \in Workers : <<w, asked[w] + 1>> \notin Asked(v)
BY DEF Asked, Of

\* A sample stays in its row as long as its version is trained.
LEMMA SampleStays ==
  ASSUME Typed, AllPlaced, Modes, Versions, [InferenceNext]_inferenceVars,
         NEW r \in Requests, r \in Asked(r[1]), NEW row, IsSample(r, row)
  PROVE  IsSample(r, row)'
<1>0. r[1] \in Workers /\ version[r] \in Nat /\ version[r] <= current /\ current \in Nat
  BY DEF Requests, Typed, Versions
<1>1. SUFFICES ASSUME version'[r] = current', mode' # "dead"
               PROVE  row \in DOMAIN samples' /\ samples'[row].request = r
  BY DEF IsSample
<1>2. CASE UNCHANGED <<samples, current>> /\ version'[r] = version[r] /\ (mode = "dead" => mode' = "dead")
  BY <1>1, <1>2 DEF IsSample
<1>3. ASSUME NEW w \in Workers, version' = [version EXCEPT ![<<w, asked[w] + 1>>] = current]
      PROVE  version'[r] = version[r]
  <2>1. r # <<w, asked[w] + 1>>
    BY <1>0, NewNowhere, ReadyType
  <2> QED
    BY <1>3, <2>1 DEF Typed
<1>4. ASSUME AskToStop \/ AskToUpdate \/ NextSession
      PROVE  UNCHANGED <<samples, current, version, mode>>
  BY <1>4 DEF AskToStop, AskToUpdate, NextSession, UnchangedRank, rankVars
<1>5. CASE Update
  <2>1. /\ mode' = "look" /\ mode # "dead" /\ UNCHANGED version
        /\ \/ current' = current + 1
           \/ UNCHANGED <<samples, current>>
    BY <1>5 DEF Update, UnchangedWorkers, workerVars
  <2>2. current' # current + 1
    BY <1>0, <1>1, <2>1
  <2> QED
    BY <1>1, <2>1, <2>2 DEF IsSample
<1>6. CASE FinishBatch
  <2>1. PICK failed : /\ samples' = samples \o DecidedRows(Batch, failed)
                      /\ UNCHANGED <<version, current>> /\ mode = "batch"
    BY <1>6, FinishChanges DEF workerVars
  <2>2. row \in DOMAIN samples /\ samples[row].request = r
    BY <1>1, <2>1 DEF IsSample
  <2>3. IsRows(samples) /\ IsRows(DecidedRows(Batch, failed))
    BY BatchRows, Parted DEF Typed
  <2> DEFINE S == ToSet(samples) \cup ToSet(DecidedRows(Batch, failed))
  <2>4. samples \in Seq(S) /\ DecidedRows(Batch, failed) \in Seq(S)
    BY <2>3, SeqMonotonic DEF IsRows
  <2> HIDE DEF S
  <2>5. row \in DOMAIN samples' /\ samples'[row] = samples[row]
    BY <2>1, <2>2, <2>4, Chained
  <2> QED
    BY <2>2, <2>5
<1> QED
  BY <1>2, <1>3, <1>4, <1>5, <1>6, StepChanges

\* New answers come with the end of a batch.
LEMMA NewAnswers ==
  ASSUME Typed, AllPlaced, Modes, Versions, [InferenceNext]_inferenceVars,
         NEW w \in Workers, NEW b \in ToSet(toWorker'[w]), b \notin ToSet(toWorker[w])
  PROVE  FinishBatch /\ \E failed : /\ samples' = samples \o DecidedRows(Batch, failed)
                                    /\ b \in ToSet(Responses(w, Batch, failed))
<1>1. FinishBatch
  <2>1. ASSUME NEW v \in Workers, Dispatch(v) PROVE ToSet(toWorker'[w]) \subseteq ToSet(toWorker[w])
    <3>1. v # w => toWorker'[w] = toWorker[w]
      BY <2>1, DispatchChanges
    <3>2. v = w => toWorker'[w] = Tail(toWorker[w]) /\ toWorker[w] # <<>>
      BY <2>1, DispatchChanges DEF Dispatch
    <3>3. ASSUME toWorker[w] # <<>>, toWorker'[w] = Tail(toWorker[w])
          PROVE  ToSet(toWorker'[w]) \subseteq ToSet(toWorker[w])
      <4>1. ToSet(toWorker[w]) = {Head(toWorker[w])} \cup ToSet(toWorker'[w])
        BY <3>3, AnswersTaken
      <4> QED
        BY <4>1
    <3> QED
      BY <3>1, <3>2, <3>3
  <2>2. AskToStop \/ AskToUpdate \/ NextSession \/ Update => toWorker' = toWorker
    BY DEF AskToStop, AskToUpdate, NextSession, Update, socketVars
  <2>3. ASSUME NEW v \in Workers, toWorker' = [toWorker EXCEPT ![v] = <<>>]
        PROVE  ToSet(toWorker'[w]) \subseteq ToSet(toWorker[w])
    <3>1. toWorker'[w] = toWorker[w] \/ toWorker'[w] = <<>>
      BY <2>3 DEF Typed
    <3> QED
      BY <3>1 DEF ToSet
  <2> QED
    BY <2>1, <2>2, <2>3, StepChanges
<1>2. PICK failed : /\ samples' = samples \o DecidedRows(Batch, failed)
                    /\ \/ toWorker'[w] = toWorker[w]
                       \/ toWorker'[w] = toWorker[w] \o Responses(w, Batch, failed)
  BY <1>1, FinishChanges
<1> DEFINE new == Responses(w, Batch, failed)
<1>3. IsRows(Batch) /\ samples \in Seq(ToSet(samples))
  BY BatchRows DEF Typed, IsRows
<1>4. new \in Seq(Seq(Answer))
  BY <1>3, Replies
<1>5. toWorker'[w] = toWorker[w] \o new
  BY <1>2
<1> HIDE DEF new
<1>6. ToSet(toWorker'[w]) = ToSet(toWorker[w]) \cup ToSet(new)
  BY <1>4, <1>5, AnswersSent
<1> QED
  BY <1>1, <1>2, <1>6 DEF new

LEMMA StepSampled ==
  ASSUME AnswersInv, [InferenceNext]_inferenceVars
  PROVE  Sampled'
<1>0. Typed /\ AllPlaced /\ Modes /\ Versions /\ Sampled
  BY DEF AnswersInv
<1>1. ASSUME NEW r \in Requests PROVE r \in Asked(r[1]) => r \in Asked(r[1])'
  <2>1. asked' = asked \/ \E w \in Workers : asked' = [asked EXCEPT ![w] = @ + 1]
    BY DEF InferenceNext, WorkerStep, Prompt, RankStep, AskDecision, Register, CannotCompile, Submit,
       Dispatch, Stopped, Fail, RoundExpires, FailSession, Cancel, Timeout, AskToStop, AskToUpdate,
       NextSession, BeginBatch, FinishBatch, Update, ReceiveFrame, Die, UnchangedWorkers,
       inferenceVars, workerVars
  <2>2. r[1] \in Workers /\ r[2] \in Nat
    BY DEF Requests
  <2>3. asked[r[1]] \in Nat /\ (asked'[r[1]] = asked[r[1]] \/ asked'[r[1]] = asked[r[1]] + 1)
    BY <1>0, <2>1, <2>2 DEF Typed
  <2> QED
    BY <2>2, <2>3 DEF Asked
<1>2. ASSUME NEW w \in Workers, NEW b \in ToSet(toWorker[w]), NEW a \in ToSet(b)
      PROVE  a.request \in Asked(a.request[1]) /\ a.request \in Requests
  <2>1. a.request \in InAnswers(w)
    BY DEF InAnswers, Asking
  <2>2. a.request \in Asked(w)
    BY <1>0, <2>1 DEF AllPlaced, Placed, OnItsWay
  <2> QED
    BY <2>2 DEF Asked, Of
<1>3. ASSUME NEW a \in recorded' PROVE (a.request \in Asked(a.request[1]))' /\ IsSample(a.request, a.row)'
  <2>1. CASE a \in recorded
    <3>1. a.request \in Requests /\ a.request \in Asked(a.request[1]) /\ IsSample(a.request, a.row)
      BY <1>0, <2>1 DEF Sampled, Typed
    <3> QED
      BY <1>0, <1>1, <3>1, SampleStays
  <2>2. CASE a \notin recorded
    <3>1. PICK w \in Workers : Dispatch(w)
      BY <1>0, <2>2, StepChanges DEF AskToStop, AskToUpdate, NextSession, Update, FinishBatch,
         UnchangedWorkers, workerVars
    <3>2. PICK b \in ToSet(Head(toWorker[w])) :
            b.result = "done" /\ a.request = b.request /\ a.row = b.row
      BY <1>0, <2>2, <3>1, DispatchFates
    <3>3. Head(toWorker[w]) \in ToSet(toWorker[w])
      <4>1. toWorker[w] # <<>>
        BY <3>1 DEF Dispatch
      <4> QED
        BY <1>0, <4>1, AnswersTaken
    <3>4. b.request \in Requests /\ b.request \in Asked(b.request[1]) /\ IsSample(b.request, b.row)
      BY <1>0, <1>2, <3>2, <3>3 DEF Sampled
    <3> QED
      BY <1>0, <1>1, <3>2, <3>4, SampleStays
  <2> QED
    BY <2>1, <2>2
<1>4. ASSUME NEW w \in Workers, NEW b \in ToSet(toWorker'[w]), NEW a \in ToSet(b), a.result = "done"
      PROVE  IsSample(a.request, a.row)'
  <2>1. CASE b \in ToSet(toWorker[w])
    BY <1>0, <1>2, <1>4, <2>1, SampleStays DEF Sampled
  <2>2. CASE b \notin ToSet(toWorker[w])
    <3>2. PICK failed : /\ samples' = samples \o DecidedRows(Batch, failed)
                        /\ b \in ToSet(Responses(w, Batch, failed))
      BY <1>0, <2>2, NewAnswers
    <3>3. IsRows(samples) /\ IsRows(Batch) /\ IsRows(DecidedRows(Batch, failed))
      BY <1>0, BatchRows, Parted DEF Typed
    <3>4. samples \in Seq(ToSet(samples))
      BY <3>3 DEF IsRows
    <3>5. \A c \in ToSet(Responses(w, Batch, failed)) : \A d \in ToSet(c) :
            d.result = "done" => \E i \in DOMAIN DecidedRows(Batch, failed) :
              d.row = Len(samples) + i /\ d.request = DecidedRows(Batch, failed)[i].request
      BY <3>3, <3>4, Replies
    <3>7. PICK i \in DOMAIN DecidedRows(Batch, failed) :
            a.row = Len(samples) + i /\ a.request = DecidedRows(Batch, failed)[i].request
      BY <1>4, <3>2, <3>5
    <3> DEFINE S == ToSet(samples) \cup ToSet(DecidedRows(Batch, failed))
    <3>8. samples \in Seq(S) /\ DecidedRows(Batch, failed) \in Seq(S)
      BY <3>3, SeqMonotonic DEF IsRows
    <3> HIDE DEF S
    <3>9. a.row \in DOMAIN samples' /\ samples'[a.row] = DecidedRows(Batch, failed)[i]
      BY <3>2, <3>7, <3>8, Chained
    <3> QED
      BY <3>7, <3>9 DEF IsSample
  <2> QED
    BY <2>1, <2>2
<1> QED
  BY <1>3, <1>4 DEF Sampled

LEMMA StepVersions ==
  ASSUME AnswersInv, [InferenceNext]_inferenceVars
  PROVE  Versions'
<1>0. Typed /\ AllPlaced /\ Modes /\ Versions
  BY DEF AnswersInv
<1> DEFINE Now(r) == version[r] = current /\ phase[r[1]] \in {"sampling", "stopping"}
           Fair(r) == version'[r] <= current' /\ (future'[r] = "waiting" => Now(r)')
           Upd == command' => \A w \in Workers : phase'[w] = "updating"
           Refused == \A w \in Workers : \A b \in ToSet(toWorker'[w]) : \A a \in ToSet(b) :
                        a.result = "refused" => future'[a.request] # "waiting"
<1>1. \A r \in Requests : /\ r[1] \in Workers /\ version[r] \in Nat /\ version[r] <= current
                          /\ current \in Nat /\ future[r] # "refused" /\ Fate(r)
                          /\ (future[r] = "waiting" => Now(r))
  BY <1>0, StepFates DEF Requests, Typed, Versions
<1>2. \A r \in Requests : future'[r] # "refused"
  BY <1>1 DEF Fate
<1>3. \A r \in Requests : future'[r] = "waiting" /\ future[r] # "waiting" =>
        \E w \in Workers : AskDecision(w) /\ r = <<w, asked[w] + 1>>
  BY <1>1 DEF Fate
<1>4. command => \A w \in Workers : phase[w] = "updating"
  BY <1>0 DEF Versions
<1>5. (~\E w \in Workers : AskDecision(w)) => \A r \in Requests : future'[r] = "waiting" => Now(r)
  BY <1>1, <1>3
<1>6. ASSUME NEW w \in Workers, AskDecision(w), phase[w] = "sampling",
             version' = [version EXCEPT ![<<w, asked[w] + 1>>] = current],
             UNCHANGED <<phase, current, command>>
      PROVE  (\A r \in Requests : Fair(r)) /\ Upd
  <2>1. ASSUME NEW r \in Requests PROVE Fair(r)
    <3>1. version'[r] = version[r] \/ version'[r] = current
      BY <1>0, <1>6 DEF Typed
    <3>2. version'[r] <= current'
      BY <1>1, <1>6, <3>1
    <3>3. ASSUME future'[r] = "waiting" PROVE Now(r)'
      <4>1. CASE r = <<w, asked[w] + 1>>
        <5>1. version'[r] = current /\ r[1] = w
          BY <1>0, <1>6, <4>1 DEF Typed
        <5> QED
          BY <1>6, <5>1
      <4>2. CASE r # <<w, asked[w] + 1>>
        <5>1. version'[r] = version[r]
          BY <1>0, <1>6, <4>2 DEF Typed
        <5>2. future'[r] = future[r]
          BY <1>6, <4>2 DEF AskDecision
        <5> QED
          BY <1>1, <1>6, <3>3, <5>1, <5>2
      <4> QED
        BY <4>1, <4>2
    <3> QED
      BY <3>2, <3>3
  <2>2. Upd
    BY <1>4, <1>6
  <2> QED
    BY <2>1, <2>2
<1>7. ASSUME UNCHANGED <<phase, version, current, command>>, \A r \in Requests : future'[r] = "waiting" => Now(r)
      PROVE  (\A r \in Requests : Fair(r)) /\ Upd
  BY <1>1, <1>4, <1>7
<1>8. ASSUME NEW w \in Workers, Stopped(w) \/ FailSession(w),
             \/ Stopped(w) /\ phase' = [phase EXCEPT ![w] = "stopped"]
             \/ FailSession(w) /\ phase' = [phase EXCEPT ![w] = "failed"],
             UNCHANGED <<version, current, command>>
      PROVE  (\A r \in Requests : Fair(r)) /\ Upd
  <2>1. \A r \in Requests : r[1] = w => future'[r] # "waiting"
    <3>1. CASE Stopped(w)
      BY <3>1 DEF Stopped, Quiet, Waiting
    <3>2. CASE FailSession(w)
      BY <3>2 DEF FailSession, Waiting
    <3> QED
      BY <1>8, <3>1, <3>2
  <2>2. \A r \in Requests : future'[r] = "waiting" => future[r] = "waiting"
    BY <1>8 DEF Stopped, FailSession
  <2>3. \A v \in Workers : v # w => phase'[v] = phase[v]
    BY <1>0, <1>8 DEF Typed
  <2>4. phase[w] # "updating"
    BY <1>8 DEF Stopped, FailSession
  <2>5. ASSUME NEW r \in Requests PROVE Fair(r)
    BY <1>1, <1>8, <2>1, <2>2, <2>3
  <2>6. Upd
    BY <1>4, <1>8, <2>4
  <2> QED
    BY <2>5, <2>6
<1>9. ASSUME AskToStop PROVE (\A r \in Requests : Fair(r)) /\ Upd
  <2>1. /\ phase' = [w \in Workers |-> "stopping"] /\ UNCHANGED <<version, current, command, future>>
        /\ \A w \in Workers : phase[w] = "sampling"
    BY <1>9 DEF AskToStop, UnchangedRank, rankVars
  <2> QED
    BY <1>1, <1>4, <2>1
<1>10. ASSUME AskToUpdate \/ NextSession PROVE (\A r \in Requests : Fair(r)) /\ Upd
  <2>1. /\ \A w \in Workers : phase[w] \in {"stopped", "updating"}
        /\ UNCHANGED <<version, current, future>>
        /\ \/ phase' = [w \in Workers |-> "updating"]
           \/ ~command /\ command' = command
    BY <1>10 DEF AskToUpdate, NextSession, UnchangedRank, rankVars
  <2> QED
    BY <1>1, <2>1
<1>11. ASSUME Update PROVE (\A r \in Requests : Fair(r)) /\ Upd
  <2>1. /\ UNCHANGED <<phase, version, future>>
        /\ \/ command /\ current' = current + 1 /\ ~command'
           \/ UNCHANGED <<current, command>>
    BY <1>11 DEF Update, UnchangedWorkers, workerVars
  <2>2. CASE command /\ current' = current + 1 /\ ~command'
    <3>1. \A r \in Requests : future[r] # "waiting"
      BY <1>1, <1>4, <2>2
    <3>2. \A r \in Requests : version[r] <= current'
      BY <1>1, <2>2
    <3> QED
      BY <2>1, <2>2, <3>1, <3>2
  <2>3. CASE UNCHANGED <<current, command>>
    BY <1>1, <1>4, <2>1, <2>3
  <2> QED
    BY <2>1, <2>2, <2>3
<1>12. FinishBatch => UNCHANGED <<phase, version, current, command, future>>
  BY DEF FinishBatch, UnchangedWorkers, workerVars
<1>13. (\A r \in Requests : Fair(r)) /\ Upd
  <2>1. ASSUME NEW w \in Workers, AskDecision(w) PROVE (\A r \in Requests : Fair(r)) /\ Upd
    <3>1. /\ phase[w] = "sampling" /\ version' = [version EXCEPT ![<<w, asked[w] + 1>>] = current]
          /\ UNCHANGED <<phase, current, command>>
      BY <2>1 DEF AskDecision, UnchangedRank, rankVars
    <3> QED
      BY <1>6, <2>1, <3>1
  <2>2. CASE ~\E w \in Workers : AskDecision(w)
    <3>1. \A r \in Requests : future'[r] = "waiting" => Now(r)
      BY <1>5, <2>2
    <3> HIDE DEF Now, Fair, Upd
    <3> QED
      BY <1>0, <1>7, <1>8, <1>9, <1>10, <1>11, <1>12, <2>2, <3>1, StepChanges
  <2> QED
    BY <2>1, <2>2
<1>14. Refused
  <2>1. ASSUME NEW w \in Workers, NEW b \in ToSet(toWorker[w]), NEW a \in ToSet(b), a.result = "refused"
        PROVE  future'[a.request] # "waiting"
    <3>1. a.request \in InAnswers(w)
      BY DEF InAnswers, Asking
    <3>2. a.request \in Asked(w) /\ a.request \in Requests
      BY <1>0, <3>1 DEF AllPlaced, Placed, OnItsWay, Asked, Of
    <3>3. future[a.request] # "waiting"
      BY <1>0, <2>1 DEF Versions
    <3> QED
      BY <1>0, <1>3, <3>2, <3>3, NewNowhere, ReadyType
  <2>2. ASSUME NEW w \in Workers, NEW b \in ToSet(toWorker'[w]), NEW a \in ToSet(b), a.result = "refused",
               b \notin ToSet(toWorker[w])
        PROVE  future'[a.request] # "waiting"
    <3>1. FinishBatch
      BY <1>0, <2>2, NewAnswers
    <3>2. PICK failed : b \in ToSet(Responses(w, Batch, failed))
      BY <1>0, <2>2, NewAnswers
    <3>3. IsRows(Batch) /\ samples \in Seq(ToSet(samples))
      BY <1>0, BatchRows DEF Typed, IsRows
    <3>4. a.request \in Of(w) /\ version[a.request] # current
      BY <2>2, <3>2, <3>3, Replies
    <3> QED
      BY <1>1, <1>12, <3>1, <3>4 DEF Of
  <2> QED
    BY <2>1, <2>2
<1> QED
  BY <1>2, <1>13, <1>14 DEF Versions

LEMMA StepClosed ==
  ASSUME AnswersInv, [InferenceNext]_inferenceVars
  PROVE  OnceClosed'
<1>0. Typed /\ AllPlaced /\ Modes /\ Versions /\ OnceClosed
  BY DEF AnswersInv
<1>1. ASSUME NEW w \in Workers, ~open[w] PROVE ~open'[w]
  <2>1. AskToStop \/ AskToUpdate \/ NextSession \/ Update \/ FinishBatch => open' = open
    BY DEF AskToStop, AskToUpdate, NextSession, Update, FinishBatch, socketVars
  <2>2. ASSUME NEW v \in Workers, open' = [open EXCEPT ![v] = FALSE] PROVE ~open'[w]
    BY <1>0, <1>1, <2>2 DEF Typed
  <2> QED
    BY <1>0, <1>1, <2>1, <2>2, StepChanges
<1>2. ASSUME NEW r \in Requests, future'[r] = "rejected" PROVE ~open'[r[1]]
  <2>1. future[r] = "rejected" \/ ~open'[r[1]]
    BY <1>0, <1>2, StepFates DEF Fate
  <2>2. r[1] \in Workers
    BY DEF Requests
  <2> QED
    BY <1>0, <1>1, <2>1, <2>2 DEF OnceClosed
<1> QED
  BY <1>2 DEF OnceClosed

\* Requests keep their places, versions and samples for any constants.
LEMMA AnswersInvariant == InferenceSpec => []AnswersInv
<1>1. InferenceInit => AnswersInv
  BY InitAnswers
<1>2. AnswersInv /\ [InferenceNext]_inferenceVars => AnswersInv'
  <2> SUFFICES ASSUME AnswersInv, [InferenceNext]_inferenceVars PROVE AnswersInv'
    OBVIOUS
  <2>1. Typed' /\ AllPlaced' /\ Modes'
    BY StepPlaced DEF AnswersInv
  <2>2. Versions' /\ OnceClosed' /\ Sampled'
    BY StepVersions, StepClosed, StepSampled
  <2> QED
    BY <2>1, <2>2 DEF AnswersInv
<1> QED
  BY <1>1, <1>2, PTL DEF InferenceSpec

\* Cancels, closes, stale answers and policy updates confuse no client: while
\* the rank lives and its socket is open it waits for exactly what is on its way;
\* no decision is refused for its version, and one is rejected only by a client
\* whose own deadline closed the socket.  Decisions that cannot be compiled, made
\* or decoded fail, which this leaves open.
THEOREM AnswersAlwaysMatch == InferenceSpec => []AnswersMatch
<1>1. AnswersInv => AnswersMatch
  <2> SUFFICES ASSUME AnswersInv PROVE AnswersMatch
    OBVIOUS
  <2>1. ASSUME NEW w \in Workers, open[w], mode # "dead"
        PROVE  Owed(w) = (inFlight[w] \cup ignored[w]) \ ToSet(sending[w])
    <3>1. Placed(w) /\ InOnePlace(w)
      BY <2>1 DEF AnswersInv, AllPlaced, Placed
    <3>2. Owed(w) = OnItsWay(w)
      BY <3>1, OwedPlaces
    <3> QED
      BY <2>1, <3>1, <3>2 DEF Placed, InOnePlace
  <2>2. LiveNeverRefused
    BY DEF LiveNeverRefused, AnswersInv, Versions, OnceClosed
  <2> QED
    BY <2>1, <2>2 DEF AnswersMatch, WaitsForTheOwed
<1> QED
  BY <1>1, AnswersInvariant, PTL

\* Training finds what it recorded: under the version it trains, the row of
\* each answer kept is the sample of its request.
THEOREM SamplesAlwaysFound == InferenceSpec => []SamplesFound
<1>1. AnswersInv => SamplesFound
  BY DEF AnswersInv, Sampled, IsSample, SamplesFound, Returned, Replayed
<1> QED
  BY <1>1, AnswersInvariant, PTL

---------------------------------------------------------------------------
(* Rows decided on their own data *)

\* A frame has at most what a worker asks for at once, and what a batch takes.
Small(f) == Len(f) <= BatchSize /\ Len(f) <= Envs

\* What is queued while the socket is open is waited for or cancelled, so that
\* what is sent is waited for.
Sized ==
  \A w \in Workers :
    /\ Cardinality(Waiting(w)) <= Envs
    /\ open[w] =>
         /\ \A r \in ToSet(queue[w]) : future[r] \in {"waiting", "cancelled"}
         /\ Small(sending[w])
    /\ \A f \in ToSet(toRank[w]) : Small(f)

\* A frame that is held lies in its slot, and the next one received goes to
\* another: either to a later one, or, after a deferred frame, to the first slot,
\* in which a frame was deferred only if it fills the batch alone.
Lies(f) ==
  f # Nothing =>
    /\ f = Frame(f.slot, f.requests) /\ f.slot \in Nat
    /\ f.slot \in DOMAIN slots /\ slots[f.slot] = f.requests
    /\ Small(f.requests)
Harmless(f) == f.slot # 1 \/ Len(f.requests) >= BatchSize
Lying ==
  /\ Lies(single) /\ Lies(pending)
  /\ pending # Nothing => Harmless(pending)
  /\ single # Nothing =>
       \/ pending # Nothing \/ single.slot < nextSlot
       \/ nextSlot = 1 /\ Harmless(single)
  /\ nextSlot \in Nat \ {0} /\ (nextSlot = 1 => rows = <<>>)
  /\ mode # "batch" => nextSlot = 1
OwnData(s) == \A x \in ToSet(s) : x.data = x.request
SlotsInv == Sized /\ Lying /\ OwnData(rows) /\ OwnData(samples)

\* A worker asks for finitely many decisions.
LEMMA WaitingFinite ==
  ASSUME NEW w \in Workers, NEW T, T \subseteq Of(w)
  PROVE  IsFiniteSet(T) /\ Cardinality(T) \in Nat
<1> DEFINE number == [r \in T |-> r[2]]
<1>1. IsFiniteSet(1..MaxRequests)
  BY FS_Interval, SizeAssumption, 1 \in Int, MaxRequests \in Int
<1>2. number \in Injection(T, 1..MaxRequests)
  <2>1. \A r \in T : r[1] = w /\ r[2] \in 1..MaxRequests /\ r = <<r[1], r[2]>>
    BY DEF Of, Requests
  <2> QED
    BY <2>1 DEF Injection, IsInjective
<1>3. IsFiniteSet(T)
  BY <1>1, <1>2, FS_Injection
<1> QED
  BY <1>3, FS_CardinalityType

\* Of what is registered each request is waited for.
LEMMA RegisterSmall ==
  ASSUME Typed, AllPlaced, Sized, NEW w \in Workers, Register(w), open[w]
  PROVE  Small(sending'[w])
<1> DEFINE q == queue[w]
           n == Popped(w)
           at == {i \in 1..n : future[q[i]] # "cancelled"}
           active == Select(q, at)
<1>1. sending' = [sending EXCEPT ![w] = active]
  BY DEF Register, Live
<1>2. /\ q \in Seq(Requests) /\ Len(q) \in Nat /\ DOMAIN q = 1..Len(q)
      /\ n \in 0..Len(q) /\ n <= BatchSize
  BY ReadyType, LenProperties, SizeAssumption DEF Popped
<1>3. sending'[w] = active
  BY <1>1 DEF Typed
<1>4. \A i \in DOMAIN q : q[i] \in ToSet(q)
  BY DEF ToSet
<1> HIDE DEF n
<1>5. at \in SUBSET DOMAIN q /\ at \subseteq 1..n
  BY <1>2
<1>6. \A i \in at : q[i] \in Waiting(w)
  <2>1. \A r \in ToSet(q) : r \in Of(w) /\ future[r] \in {"waiting", "cancelled"}
    BY DEF AllPlaced, Placed, Asked, Sized
  <2> QED
    BY <1>4, <1>5, <2>1 DEF Waiting, Of
<1>7. \A i, j \in at : i # j => q[i] # q[j]
  BY <1>5 DEF AllPlaced, Placed, InOnePlace
<1> HIDE DEF at
<1>8. IsFiniteSet(Waiting(w)) /\ Cardinality(Waiting(w)) \in Nat /\ Cardinality(Waiting(w)) <= Envs
  BY WaitingFinite DEF Waiting, Of, Sized
<1>9. Cardinality(at) <= Cardinality(Waiting(w))
  <2> DEFINE which == [i \in at |-> q[i]]
  <2>1. which \in Injection(at, Waiting(w))
    BY <1>6, <1>7 DEF Injection, IsInjective
  <2> QED
    BY <1>8, <2>1, FS_Injection
<1>10. Cardinality(at) <= n /\ Cardinality(at) \in Nat
  <2>1. IsFiniteSet(1..n) /\ Cardinality(1..n) = n
    BY <1>2, FS_Interval, 1 \in Int, n \in Int
  <2> QED
    BY <1>5, <2>1, FS_Subset, FS_CardinalityType
<1>11. Len(active) = Cardinality(at)
  <2>1. active \in Seq(Requests)
    BY <1>2, <1>5, Selected
  <2>2. DOMAIN active = 1..Cardinality(at)
    BY DEF Select
  <2> QED
    BY <1>10, <2>1, <2>2, LenProperties
<1> QED
  BY <1>2, <1>3, <1>8, <1>9, <1>10, <1>11, SizeAssumption DEF Small

\* A worker waits for no more decisions than it has environments.
LEMMA StepWaits ==
  ASSUME AnswersInv, Sized, [InferenceNext]_inferenceVars, NEW w \in Workers
  PROVE  Cardinality(Waiting(w))' <= Envs
<1>1. /\ IsFiniteSet(Waiting(w)) /\ Cardinality(Waiting(w)) \in Nat
      /\ Cardinality(Waiting(w)) <= Envs /\ Envs \in Nat
  BY WaitingFinite, SizeAssumption DEF Waiting, Of, Sized
<1>2. \A r \in Requests : Fate(r)
  BY StepFates DEF AnswersInv
<1>3. CASE AskDecision(w)
  <2>1. Cardinality(Waiting(w)) < Envs
    BY <1>3 DEF AskDecision
  <2>2. \A r \in Requests : future'[r] = future[r] \/ r = <<w, asked[w] + 1>>
    BY <1>3 DEF AskDecision, AnswersInv, Typed
  <2>3. Waiting(w)' \subseteq Waiting(w) \cup {<<w, asked[w] + 1>>}
    BY <2>2 DEF Waiting
  <2>4. /\ IsFiniteSet(Waiting(w) \cup {<<w, asked[w] + 1>>})
        /\ \/ Cardinality(Waiting(w) \cup {<<w, asked[w] + 1>>}) = Cardinality(Waiting(w))
           \/ Cardinality(Waiting(w) \cup {<<w, asked[w] + 1>>}) = Cardinality(Waiting(w)) + 1
    BY <1>1, FS_AddElement
  <2>5. Cardinality(Waiting(w)') <= Cardinality(Waiting(w) \cup {<<w, asked[w] + 1>>})
    BY <2>3, <2>4, FS_Subset
  <2>6. /\ Cardinality(Waiting(w)') \in Nat
        /\ Cardinality(Waiting(w) \cup {<<w, asked[w] + 1>>}) \in Nat
    BY <2>3, <2>4, FS_Subset, FS_CardinalityType
  <2> QED
    BY <1>1, <2>1, <2>4, <2>5, <2>6
<1>4. CASE ~AskDecision(w)
  <2>1. Waiting(w)' \subseteq Waiting(w)
    BY <1>2, <1>4 DEF Waiting, Fate
  <2>2. Cardinality(Waiting(w)') <= Cardinality(Waiting(w)) /\ Cardinality(Waiting(w)') \in Nat
    BY <1>1, <2>1, FS_Subset, FS_CardinalityType
  <2> QED
    BY <1>1, <2>2
<1> QED
  BY <1>3, <1>4

\* The end of a sequence.
LEMMA RestTaken ==
  ASSUME NEW S, NEW s \in Seq(S), NEW n \in 0..Len(s)
  PROVE  ToSet(SubSeq(s, n + 1, Len(s))) \subseteq ToSet(s)
<1> DEFINE rest == SubSeq(s, n + 1, Len(s))
<1>1. /\ DOMAIN s = 1..Len(s) /\ Len(s) \in Nat /\ n \in Nat /\ n <= Len(s)
      /\ \A i \in (n + 1)..Len(s) : s[i] \in S
  <2>1. DOMAIN s = 1..Len(s) /\ Len(s) \in Nat
    BY LenProperties
  <2> QED
    BY <2>1, ElementOfSeq
<1>2. /\ rest \in Seq(S) /\ Len(rest) = IF n + 1 <= Len(s) THEN Len(s) - (n + 1) + 1 ELSE 0
      /\ \A i \in 1..(Len(s) - (n + 1) + 1) : rest[i] = s[n + 1 + i - 1]
  BY <1>1, SubSeqProperties
<1>3. DOMAIN rest = 1..(Len(s) - n)
  BY <1>1, <1>2, LenProperties
<1>4. ASSUME NEW i \in DOMAIN rest PROVE rest[i] \in ToSet(s)
  <2>1. i \in 1..(Len(s) - (n + 1) + 1) /\ n + 1 + i - 1 \in DOMAIN s
    BY <1>1, <1>3
  <2> QED
    BY <1>2, <2>1 DEF ToSet
<1> HIDE DEF rest
<1>5. ToSet(rest) \subseteq ToSet(s)
  BY <1>4 DEF ToSet
<1> QED
  BY <1>5 DEF rest

\* No step ends the waiting of what an open socket's client has still queued,
\* but by a cancel.
LEMMA StepQueued ==
  ASSUME AnswersInv, Sized, [InferenceNext]_inferenceVars, NEW w \in Workers, open'[w]
  PROVE  open[w] /\ \A r \in ToSet(queue'[w]) : future'[r] \in {"waiting", "cancelled"}
<1> DEFINE Goal == open[w] /\ \A r \in ToSet(queue'[w]) : future'[r] \in {"waiting", "cancelled"}
<1>0. Typed /\ AllPlaced /\ Placed(w)
  BY DEF AnswersInv, AllPlaced
<1>1. /\ queue \in [Workers -> Seq(Requests)] /\ queue[w] \in Seq(Requests)
      /\ open \in [Workers -> BOOLEAN] /\ future \in [Requests -> Fates]
  BY <1>0 DEF Typed, Fates
<1>2. /\ ToSet(queue[w]) \subseteq Of(w)
      /\ \A v \in Workers : v # w =>
           /\ inFlight[v] \cup ToSet(queue[v]) \subseteq Of(v)
           /\ Of(v) \cap Of(w) = {}
  BY <1>0 DEF AllPlaced, Placed, Asked, Of
<1>3. ASSUME open[w], ToSet(queue'[w]) \subseteq ToSet(queue[w]),
             \A r \in ToSet(queue[w]) : future'[r] = future[r] \/ future'[r] = "cancelled"
      PROVE  Goal
  BY <1>3 DEF Sized
<1>4. ASSUME NEW v \in Workers, AskDecision(v) PROVE Goal
  <2> DEFINE new == <<v, asked[v] + 1>>
  <2>1. /\ queue' = [queue EXCEPT ![v] = Append(@, new)] /\ open' = open
        /\ future' = [future EXCEPT ![new] = "waiting"]
        /\ asked[v] < MaxRequests
    BY <1>4 DEF AskDecision, socketVars
  <2>2. new \in Requests
    <3>1. asked[v] \in Nat /\ MaxRequests \in Nat
      BY <1>0, ReadyType, SizeAssumption
    <3>2. asked[v] + 1 \in 1..MaxRequests
      BY <2>1, <3>1
    <3> QED
      BY <3>2 DEF Requests
  <2>3. \A r \in Requests : future'[r] = IF r = new THEN "waiting" ELSE future[r]
    BY <1>1, <2>1, <2>2
  <2>4. \A r \in ToSet(queue[w]) : r \in Requests /\ future[r] \in {"waiting", "cancelled"}
    BY <1>2, <2>1 DEF Sized, Of
  <2>5. ToSet(queue'[w]) \subseteq ToSet(queue[w]) \cup {new}
    <3>1. CASE v = w
      <4>1. queue'[w] = Append(queue[w], new)
        BY <1>1, <2>1, <3>1
      <4> QED
        BY <1>1, <2>2, <4>1, AddedLast
    <3>2. CASE v # w
      BY <1>1, <2>1, <3>2
    <3> QED
      BY <3>1, <3>2
  <2> HIDE DEF new
  <2> QED
    BY <2>1, <2>2, <2>3, <2>4, <2>5
<1>5. ASSUME NEW v \in Workers, Register(v) \/ CannotCompile(v) PROVE Goal
  <2>1. /\ Pop(v) /\ open' = open
        /\ \A r \in Requests : future'[r] = future[r] \/ r \in ToSet(Live(v))
    BY <1>1, <1>5 DEF Register, CannotCompile, Pop, socketVars
  <2>2. /\ ToSet(queue'[v]) \cup ToSet(Live(v)) \subseteq ToSet(queue[v])
        /\ \A u \in Workers : u # v => queue'[u] = queue[u]
        /\ v = w => ToSet(queue'[w]) \cap ToSet(Live(w)) = {}
    BY <1>0, <2>1, PopChanges DEF Placed, InOnePlace
  <2>3. ToSet(queue'[w]) \subseteq ToSet(queue[w]) /\ ToSet(queue[w]) \subseteq Requests
    BY <1>2, <2>2 DEF Of
  <2>4. \A r \in ToSet(queue'[w]) : r \in Requests /\ r \notin ToSet(Live(v))
    <3>1. CASE v = w
      BY <2>2, <2>3, <3>1
    <3>2. CASE v # w
      BY <1>2, <2>2, <2>3, <3>2
    <3> QED
      BY <3>1, <3>2
  <2> QED
    BY <2>1, <2>3, <2>4 DEF Sized
<1>6. ASSUME NEW v \in Workers, v # w, open[w], RejectAll(v)
      PROVE  Goal
  <2>1. queue'[w] = queue[w]
    BY <1>1, <1>6 DEF RejectAll
  <2>2. \A r \in Requests : r \notin inFlight[v] \cup ToSet(queue[v]) => future'[r] = future[r]
    BY <1>6 DEF RejectAll, Reject, Lost
  <2>3. \A r \in ToSet(queue[w]) : r \in Requests /\ r \notin inFlight[v] \cup ToSet(queue[v])
    BY <1>2, <1>6 DEF Of
  <2> QED
    BY <1>3, <1>6, <2>1, <2>2, <2>3
<1>7. ASSUME NEW v \in Workers, Submit(v) PROVE Goal
  <2>1. open' = open
    BY <1>7 DEF Submit
  <2>2. CASE open[v]
    BY <1>3, <1>7, <2>1, <2>2 DEF Submit
  <2>3. CASE ~open[v]
    BY <1>6, <1>7, <2>1, <2>3 DEF Submit
  <2> QED
    BY <2>2, <2>3
<1>8. ASSUME NEW v \in Workers, Dispatch(v) PROVE Goal
  <2> DEFINE batch == Head(toWorker[v])
             answered == {a \in ToSet(batch) :
                            a.request \notin ignored[v] /\ future[a.request] = "waiting"}
  <2>1. open' = open /\ queue' = queue
    BY <1>8 DEF Dispatch
  <2>2. Known(v, batch)
    BY <1>0, <1>8, DispatchPlaced DEF Dispatch
  <2>3. PICK spoilt \in SUBSET {a \in answered : a.result = "done"} :
          future' = [r \in Requests |->
                       IF \E a \in spoilt : a.request = r THEN "failed"
                       ELSE IF \E a \in answered : a.request = r
                       THEN (CHOOSE a \in answered : a.request = r).result
                       ELSE future[r]]
    BY <1>8, <2>2 DEF Dispatch
  <2>4. \A a \in answered : a.request \in inFlight[v]
    BY <2>2 DEF Known
  <2>5. \A r \in ToSet(queue[w]) : r \in Requests /\ r \notin inFlight[v]
    BY <1>0, <1>2, <2>1 DEF Of, Placed, InOnePlace
  <2> HIDE DEF answered
  <2>6. \A r \in ToSet(queue[w]) : future'[r] = future[r]
    BY <2>3, <2>4, <2>5
  <2> QED
    BY <1>3, <2>1, <2>6
<1>9. ASSUME NEW v \in Workers, Timeout(v) PROVE Goal
  <2>1. open' = [open EXCEPT ![v] = FALSE] /\ RejectAll(v)
    BY <1>9 DEF Timeout
  <2>2. v # w /\ open[w]
    BY <1>1, <2>1
  <2> QED
    BY <1>6, <2>1, <2>2
<1>10. ASSUME NEW v \in Workers, FailSession(v) PROVE Goal
  <2>1. /\ open' = [open EXCEPT ![v] = FALSE] /\ queue' = [queue EXCEPT ![v] = <<>>]
        /\ future' = [r \in Requests |-> IF r \in Waiting(v) THEN "cancelled" ELSE future[r]]
    BY <1>10 DEF FailSession
  <2>2. v # w /\ open[w]
    BY <1>1, <2>1
  <2>3. queue'[w] = queue[w]
    BY <1>1, <2>1, <2>2
  <2>4. \A r \in ToSet(queue[w]) : future'[r] = future[r] \/ future'[r] = "cancelled"
    BY <1>2, <2>1 DEF Of
  <2> QED
    BY <1>3, <2>2, <2>3, <2>4
<1>11. ASSUME NEW r \in Requests, Cancel(r) PROVE Goal
  <2>1. future' = [future EXCEPT ![r] = "cancelled"] /\ open' = open /\ queue' = queue
    BY <1>11 DEF Cancel, socketVars
  <2>2. \A s \in ToSet(queue[w]) : future'[s] = future[s] \/ future'[s] = "cancelled"
    BY <1>1, <1>2, <2>1 DEF Of
  <2> QED
    BY <1>3, <2>1, <2>2
<1>12. ASSUME RankStep \/ Die \/ AskToStop \/ AskToUpdate \/ NextSession
              \/ (\E v \in Workers : Stopped(v)) \/ UNCHANGED inferenceVars
       PROVE  Goal
  <2>1. queue' = queue /\ future' = future
    BY <1>12 DEF RankStep, Die, BeginBatch, FinishBatch, Update, ReceiveFrame, UnchangedWorkers,
      workerVars, AskToStop, AskToUpdate, NextSession, Stopped, inferenceVars
  <2>2. open' = open
    BY <1>12 DEF RankStep, Die, BeginBatch, FinishBatch, Update, ReceiveFrame, socketVars,
      AskToStop, AskToUpdate, NextSession, Stopped, inferenceVars
  <2> QED
    BY <1>3, <2>1, <2>2
<1> HIDE DEF Goal
<1>13. ASSUME NEW v \in Workers, WorkerStep(v) PROVE Goal
  BY <1>4, <1>5, <1>7, <1>8, <1>9, <1>10, <1>11, <1>12, <1>13
  DEF WorkerStep, Prompt, Fail, RoundExpires
<1>14. ASSUME InferenceNext PROVE Goal
  BY <1>12, <1>13, <1>14 DEF InferenceNext
<1>15. ASSUME UNCHANGED inferenceVars PROVE Goal
  BY <1>12, <1>15
<1> QED
  BY <1>14, <1>15 DEF Goal

\* A frame that is on its way was sent from what was registered.
LEMMA StepSized ==
  ASSUME AnswersInv, Sized, [InferenceNext]_inferenceVars
  PROVE  Sized'
<1>0. Typed /\ AllPlaced /\ Modes
  BY DEF AnswersInv
<1>1. Small(<<>>)
  BY SizeAssumption DEF Small
<1>2. ASSUME NEW w \in Workers, open'[w] PROVE Small(sending'[w])
  <2>1. open[w]
    BY <1>2, StepQueued
  <2>2. /\ Small(sending[w])
        /\ \A v \in Workers : Register(v) /\ v # w => sending'[w] = sending[w]
    BY <1>0, <2>1 DEF Sized, Register, Typed
  <2>3. ASSUME NEW v \in Workers, Register(v) PROVE Small(sending'[w])
    BY <1>0, <2>1, <2>2, <2>3, RegisterSmall
  <2>4. ASSUME NEW v \in Workers, Submit(v) \/ FailSession(v) PROVE Small(sending'[w])
    <3>1. sending' = [sending EXCEPT ![v] = <<>>]
      BY <2>4 DEF Submit, FailSession
    <3>2. sending'[w] = sending[w] \/ sending'[w] = <<>>
      BY <1>0, <3>1 DEF Typed
    <3> QED
      BY <1>1, <2>2, <3>2
  <2>5. ASSUME sending' = sending PROVE Small(sending'[w])
    BY <2>2, <2>5
  <2>6. ASSUME NEW v \in Workers, CannotCompile(v) \/ Dispatch(v) \/ Stopped(v) \/ AskDecision(v) \/ Timeout(v)
        PROVE  sending' = sending
    BY <2>6 DEF CannotCompile, Dispatch, Stopped, AskDecision, Timeout
  <2>7. ASSUME NEW r \in Requests, Cancel(r) PROVE sending' = sending
    BY <2>7 DEF Cancel
  <2>8. ASSUME RankStep \/ Die \/ AskToStop \/ AskToUpdate \/ NextSession PROVE sending' = sending
    BY <2>8 DEF RankStep, Die, BeginBatch, FinishBatch, Update, ReceiveFrame, UnchangedWorkers,
      workerVars, AskToStop, AskToUpdate, NextSession
  <2>9. CASE UNCHANGED inferenceVars
    BY <2>5, <2>9 DEF inferenceVars, workerVars
  <2>10. CASE InferenceNext
    BY <2>3, <2>4, <2>5, <2>6, <2>7, <2>8, <2>10
    DEF InferenceNext, WorkerStep, Prompt, Fail, RoundExpires
  <2> QED
    BY <2>9, <2>10
<1>3. ASSUME NEW w \in Workers PROVE \A f \in ToSet(toRank'[w]) : Small(f)
  <2> DEFINE Goal == \A f \in ToSet(toRank'[w]) : Small(f)
  <2>1. (\A f \in ToSet(toRank[w]) : Small(f)) /\ toRank[w] \in Seq(Seq(Requests))
    BY <1>0, ReadyType DEF Sized
  <2>2. ASSUME toRank'[w] = toRank[w] PROVE Goal
    BY <2>1, <2>2
  <2>3. ASSUME NEW v \in Workers, Submit(v) PROVE Goal
    <3>1. CASE v = w /\ open[w] /\ mode # "dead"
      <4>1. toRank' = [toRank EXCEPT ![w] = Append(@, sending[w])]
        BY <2>3, <3>1 DEF Submit
      <4>2. toRank'[w] = Append(toRank[w], sending[w]) /\ sending[w] \in Seq(Requests)
        BY <1>0, <4>1 DEF Typed
      <4>3. ToSet(toRank'[w]) = ToSet(toRank[w]) \cup {sending[w]}
        BY <2>1, <4>2, AddedLast
      <4>4. Small(sending[w])
        BY <3>1 DEF Sized
      <4> QED
        BY <2>1, <4>3, <4>4
    <3>2. CASE v # w \/ ~open[w] \/ mode = "dead"
      <4>1. toRank'[w] = toRank[w]
        BY <1>0, <2>3, <3>2 DEF Submit, Typed
      <4> QED
        BY <2>2, <4>1
    <3> QED
      BY <3>1, <3>2
  <2>4. ASSUME NEW v \in Workers, ReceiveFrame(v) PROVE Goal
    <3>1. toRank[v] # <<>> /\ toRank' = [toRank EXCEPT ![v] = Tail(@)]
      BY <2>4 DEF ReceiveFrame
    <3>2. toRank'[w] = toRank[w] \/ (toRank[w] # <<>> /\ toRank'[w] = Tail(toRank[w]))
      BY <1>0, <3>1 DEF Typed
    <3>3. CASE toRank[w] # <<>> /\ toRank'[w] = Tail(toRank[w])
      <4>1. ToSet(toRank[w]) = {Head(toRank[w])} \cup ToSet(Tail(toRank[w]))
        BY <2>1, <3>3, TakenFirst
      <4> QED
        BY <2>1, <3>3, <4>1
    <3> QED
      BY <2>2, <3>2, <3>3
  <2>5. ASSUME Exit PROVE Goal
    <3>1. toRank'[w] = <<>>
      BY <2>5 DEF Exit
    <3> QED
      BY <3>1 DEF ToSet
  <2>6. ASSUME Die PROVE Goal
    BY <2>5, <2>6 DEF Die
  <2>7. ASSUME FinishBatch PROVE Goal
    <3>1. toRank' = toRank \/ Exit
      BY <1>0, <2>7, FinishChanges
    <3> QED
      BY <2>2, <2>5, <3>1
  <2>8. ASSUME NEW v \in Workers,
               Register(v) \/ CannotCompile(v) \/ Dispatch(v) \/ Stopped(v) \/ AskDecision(v)
                 \/ Timeout(v) \/ FailSession(v)
        PROVE  toRank' = toRank
    BY <2>8 DEF Register, CannotCompile, Dispatch, Stopped, AskDecision, Timeout, FailSession, socketVars
  <2>9. ASSUME NEW r \in Requests, Cancel(r) PROVE toRank' = toRank
    BY <2>9 DEF Cancel, socketVars
  <2>10. ASSUME BeginBatch \/ Update \/ AskToStop \/ AskToUpdate \/ NextSession PROVE toRank' = toRank
    BY <2>10 DEF BeginBatch, Update, AskToStop, AskToUpdate, NextSession, socketVars
  <2>11. ASSUME UNCHANGED inferenceVars PROVE Goal
    BY <2>2, <2>11 DEF inferenceVars, socketVars
  <2> HIDE DEF Goal
  <2>12. ASSUME NEW v \in Workers, WorkerStep(v) PROVE Goal
    BY <2>2, <2>3, <2>8, <2>9, <2>12 DEF WorkerStep, Prompt, Fail, RoundExpires
  <2>13. ASSUME InferenceNext PROVE Goal
    BY <2>2, <2>4, <2>6, <2>7, <2>8, <2>10, <2>12, <2>13 DEF InferenceNext, RankStep
  <2>14. Goal
    BY <2>11, <2>13
  <2> QED
    BY <2>14 DEF Goal
<1> QED
  BY <1>2, <1>3, StepWaits, StepQueued DEF Sized

\* The rows of a frame that lies in its slot have its requests' own data.
LEMMA ReadOwn ==
  ASSUME NEW held, NEW f, held[f.slot] = f.requests
  PROVE  OwnData(Read(held, f))
<1> DEFINE t == Read(held, f)
<1>1. /\ DOMAIN t = DOMAIN f.requests
      /\ \A i \in DOMAIN f.requests : t[i].data = t[i].request
  BY DEF Read
<1> HIDE DEF t
<1>2. OwnData(t)
  BY <1>1 DEF OwnData, ToSet
<1> QED
  BY <1>2 DEF t

\* The form of a frame.
LEMMA FrameForm ==
  ASSUME NEW n, NEW f
  PROVE  /\ Frame(n, f) # Nothing /\ Frame(n, f).requests = f /\ Frame(n, f).slot = n
         /\ Frame(n, f) = Frame(Frame(n, f).slot, Frame(n, f).requests)
<1>1. Frame(n, f).requests = f /\ Frame(n, f).slot = n
  BY DEF Frame
<1> QED
  BY <1>1, NotNothing

\* A frame that is received is written over none that is held: the first slot
\* is taken again only when the frame deferred from it has the batch to itself.
LEMMA ReceiveLying ==
  ASSUME SmallFrames, Typed, Modes, Sized, Lying, OwnData(rows),
         NEW w \in Workers, ReceiveFrame(w)
  PROVE  Lying' /\ OwnData(rows)'
<1> DEFINE q == Head(toRank[w])
           n == nextSlot
           f == Frame(n, q)
           filled == [i \in DOMAIN slots \cup {n} |-> IF i = n THEN q ELSE slots[i]]
<1>1. f # Nothing /\ f.requests = q /\ f.slot = n /\ f = Frame(f.slot, f.requests)
  BY FrameForm
<1>2. /\ mode = "batch" /\ CanReceive /\ toRank[w] # <<>>
      /\ slots' = filled /\ nextSlot' = n + 1 /\ mode' = mode
      /\ \/ ~Fits(f) /\ pending' = f /\ UNCHANGED <<single, rows>>
         \/ single = Nothing /\ rows = <<>> /\ single' = f /\ UNCHANGED <<rows, pending>>
         \/ rows' = Merged(filled, f) /\ single' = Nothing /\ UNCHANGED pending
  BY <1>1 DEF ReceiveFrame, SlotAfter
<1>3. q \in Seq(Requests) /\ Len(q) \in Nat /\ Small(q)
  <2>1. q \in Seq(Requests) /\ toRank[w] \in Seq(Seq(Requests))
    BY <1>2, FrameTaken, ReadyType
  <2>2. q \in ToSet(toRank[w])
    BY <1>2, <2>1, TakenFirst
  <2> QED
    BY <2>1, <2>2, LenProperties DEF Sized
<1> HIDE DEF q
<1>4. n \in Nat \ {0} /\ n + 1 # 1 /\ n < n + 1
  BY DEF Lying
<1>5. filled[n] = q /\ \A i \in DOMAIN slots : i # n => i \in DOMAIN filled /\ filled[i] = slots[i]
  OBVIOUS
<1>6. pending = Nothing /\ Active < BatchSize
  BY <1>2 DEF CanReceive
<1>7. IsRows(rows) /\ Len(rows) \in Nat /\ BatchSize \in Nat /\ Envs \in Nat
  <2>1. rows \in Seq(ToSet(rows))
    BY DEF Typed, IsRows
  <2> QED
    BY <2>1, LenProperties, SizeAssumption DEF Typed
<1>8. single # Nothing =>
        /\ Len(single.requests) \in Nat /\ Active = Len(single.requests) + Len(rows)
        /\ single.slot # n /\ single.slot \in Nat
  <2> SUFFICES ASSUME single # Nothing
               PROVE  /\ Len(single.requests) \in Nat /\ Active = Len(single.requests) + Len(rows)
                      /\ single.slot # n /\ single.slot \in Nat
    OBVIOUS
  <2>1. single.requests \in Seq(Requests) /\ Len(single.requests) \in Nat
    BY LenProperties DEF Typed, IsFrame
  <2>2. Active = Len(single.requests) + Len(rows)
    BY DEF Active, Rows
  <2>3. single.slot \in Nat
    BY DEF Lying, Lies
  <2>4. CASE single.slot < n
    BY <1>4, <2>1, <2>2, <2>3, <2>4
  <2>5. CASE n = 1 /\ Harmless(single)
    <3>1. Len(single.requests) < BatchSize
      BY <1>6, <1>7, <2>1, <2>2
    <3>2. single.slot # 1
      BY <1>7, <2>1, <2>5, <3>1 DEF Harmless
    <3> QED
      BY <2>1, <2>2, <2>3, <2>5, <3>2
  <2> QED
    BY <1>6, <2>4, <2>5 DEF Lying
<1>9. single # Nothing => /\ single.slot \in DOMAIN filled /\ filled[single.slot] = single.requests
                          /\ single = Frame(single.slot, single.requests) /\ Small(single.requests)
  BY <1>5, <1>8 DEF Lying, Lies
<1>10. n \in DOMAIN filled
  OBVIOUS
<1> HIDE DEF filled, n
<1>11. /\ f = Frame(f.slot, f.requests) /\ f.slot \in Nat /\ f.slot \in DOMAIN slots'
       /\ slots'[f.slot] = f.requests /\ Small(f.requests)
  BY <1>1, <1>2, <1>3, <1>4, <1>5, <1>10
<1> HIDE DEF f
<1>12. CASE ~Fits(f) /\ pending' = f /\ UNCHANGED <<single, rows>>
  <2>1. Lies(single)'
    BY <1>2, <1>8, <1>9, <1>12 DEF Lies
  <2>2. Lies(pending)'
    BY <1>11, <1>12 DEF Lies, Small
  <2>3. Harmless(f)
    <3>1. Active + Len(q) > BatchSize
      <4>1. Active \in Nat
        BY <1>7, <1>8 DEF Active, Rows
      <4> QED
        BY <1>1, <1>3, <1>7, <1>12, <4>1 DEF Fits
    <3>2. CASE n # 1
      BY <1>1, <3>2 DEF Harmless
    <3>3. CASE n = 1 /\ single = Nothing
      <4>1. rows = <<>>
        BY <3>3 DEF Lying, n
      <4>2. Active = 0
        BY <3>3, <4>1 DEF Active, Rows
      <4> QED
        BY <1>3, <1>7, <3>1, <4>2 DEF Small
    <3>4. CASE n = 1 /\ single # Nothing
      <4>1. rows = <<>> /\ Len(rows) = 0
        BY <3>4 DEF Lying, n
      <4>2. Len(single.requests) + Len(q) > BatchSize /\ Len(single.requests) < BatchSize
            /\ Len(single.requests) \in Nat
        BY <1>6, <1>8, <3>1, <3>4, <4>1
      <4>3. Len(single.requests) <= Envs /\ Len(q) <= Envs
        BY <1>3, <1>9, <3>4 DEF Small
      <4>4. BatchSize <= 2
        BY <1>3, <1>7, <4>2, <4>3 DEF SmallFrames
      <4>5. Len(q) >= BatchSize
        BY <1>3, <1>7, <4>2, <4>4
      <4> QED
        BY <1>1, <4>5 DEF Harmless
    <3> QED
      BY <3>2, <3>3, <3>4
  <2>4. Harmless(pending)'
    BY <1>12, <2>3 DEF Harmless
  <2>5. pending' # Nothing /\ nextSlot' \in Nat \ {0} /\ nextSlot' # 1 /\ mode' = "batch"
    BY <1>1, <1>2, <1>4, <1>12
  <2> QED
    BY <1>12, <2>1, <2>2, <2>4, <2>5 DEF Lying, OwnData
<1>13. CASE single = Nothing /\ rows = <<>> /\ single' = f /\ UNCHANGED <<rows, pending>>
  <2>1. Lies(single)' /\ single'.slot = n
    BY <1>1, <1>11, <1>13 DEF Lies, Small
  <2>2. pending' = Nothing /\ nextSlot' \in Nat \ {0} /\ nextSlot' # 1 /\ mode' = "batch"
        /\ n < nextSlot'
    BY <1>2, <1>4, <1>6, <1>13
  <2>3. Lies(pending)'
    BY <2>2 DEF Lies
  <2> QED
    BY <1>13, <2>1, <2>2, <2>3 DEF Lying, OwnData
<1>14. CASE rows' = Merged(filled, f) /\ single' = Nothing /\ UNCHANGED pending
  <2>1. OwnData(Read(filled, f))
    BY <1>1, <1>5, ReadOwn
  <2> DEFINE old == IF single = Nothing THEN rows ELSE Read(filled, single)
  <2>2. IsRows(old) /\ OwnData(old)
    <3>1. CASE single = Nothing
      BY <1>7, <3>1
    <3>2. CASE single # Nothing
      <4>1. single.requests \in Seq(Requests)
        BY <3>2 DEF Typed, IsFrame
      <4> QED
        BY <1>9, <3>2, <4>1, ReadOwn, ReadRows
    <3> QED
      BY <3>1, <3>2
  <2>3. IsRows(Read(filled, f))
    BY <1>1, <1>3, ReadRows
  <2>4. rows' = old \o Read(filled, f)
    BY <1>14 DEF Merged
  <2> HIDE DEF old
  <2>5. ToSet(rows') = ToSet(old) \cup ToSet(Read(filled, f))
    BY <2>2, <2>3, <2>4, RowsJoined
  <2>6. OwnData(rows)'
    BY <2>1, <2>2, <2>5 DEF OwnData
  <2>7. pending' = Nothing /\ nextSlot' \in Nat \ {0} /\ nextSlot' # 1 /\ mode' = "batch"
    BY <1>2, <1>4, <1>6, <1>14
  <2>8. Lies(single)' /\ Lies(pending)'
    BY <1>14, <2>7 DEF Lies
  <2> QED
    BY <1>14, <2>6, <2>7, <2>8 DEF Lying
<1> QED
  BY <1>2, <1>12, <1>13, <1>14

\* A batch that ends leaves the deferred frame in its slot.
LEMMA FinishLying ==
  ASSUME Typed, Modes, Lying, OwnData(rows), OwnData(samples), FinishBatch
  PROVE  Lying' /\ OwnData(rows)' /\ OwnData(samples)'
<1>1. PICK failed :
      /\ samples' = samples \o DecidedRows(Batch, failed)
      /\ \/ /\ mode' = "look" /\ single' = Nothing /\ rows' = <<>> /\ pending' = pending
            /\ nextSlot' = 1
            /\ slots' = [n \in {n \in DOMAIN slots : pending = Frame(n, slots[n])} |-> slots[n]]
         \/ Exit
  BY DEF FinishBatch
<1>2. OwnData(samples)'
  <2>1. IsRows(Batch) /\ IsRows(DecidedRows(Batch, failed)) /\ ToSet(DecidedRows(Batch, failed)) \subseteq ToSet(Batch)
    BY BatchRows, Parted
  <2>2. OwnData(Batch)
    <3>1. CASE single = Nothing
      BY <3>1 DEF Batch
    <3>2. CASE single # Nothing
      <4>1. slots[single.slot] = single.requests
        BY <3>2 DEF Lying, Lies
      <4> QED
        BY <3>2, <4>1, ReadOwn DEF Batch
    <3> QED
      BY <3>1, <3>2
  <2>3. ToSet(samples') = ToSet(samples) \cup ToSet(DecidedRows(Batch, failed))
    BY <1>1, <2>1, RowsJoined DEF Typed
  <2> QED
    BY <2>1, <2>2, <2>3 DEF OwnData
<1>3. ASSUME mode' = "look", single' = Nothing, rows' = <<>>, pending' = pending, nextSlot' = 1,
             slots' = [n \in {n \in DOMAIN slots : pending = Frame(n, slots[n])} |-> slots[n]]
      PROVE  Lying' /\ OwnData(rows)'
  <2>1. Lies(pending)'
    <3>1. CASE pending # Nothing
      <4>1. /\ pending = Frame(pending.slot, pending.requests) /\ pending.slot \in Nat
            /\ pending.slot \in DOMAIN slots /\ slots[pending.slot] = pending.requests
            /\ Small(pending.requests)
        BY <3>1 DEF Lying, Lies
      <4>2. pending.slot \in DOMAIN slots' /\ slots'[pending.slot] = pending.requests
        BY <1>3, <4>1
      <4> QED
        BY <1>3, <4>1, <4>2 DEF Lies, Small
    <3>2. CASE pending = Nothing
      BY <1>3, <3>2 DEF Lies
    <3> QED
      BY <3>1, <3>2
  <2>2. pending' # Nothing => Harmless(pending)'
    BY <1>3 DEF Lying, Harmless
  <2>3. Lies(single)' /\ OwnData(rows)'
    BY <1>3 DEF Lies, OwnData, ToSet
  <2> QED
    BY <1>3, <2>1, <2>2, <2>3 DEF Lying
<1>4. ASSUME Exit PROVE Lying' /\ OwnData(rows)'
  BY <1>4 DEF Exit, Lying, Lies, OwnData, ToSet
<1> QED
  BY <1>1, <1>2, <1>3, <1>4

\* Each step keeps the frames in their slots.
LEMMA StepLying ==
  ASSUME SmallFrames, AnswersInv, SlotsInv, [InferenceNext]_inferenceVars
  PROVE  Lying' /\ OwnData(rows)' /\ OwnData(samples)'
<1> DEFINE Goal == Lying' /\ OwnData(rows)' /\ OwnData(samples)'
<1>0. Typed /\ Modes /\ Sized /\ Lying /\ OwnData(rows) /\ OwnData(samples)
  BY DEF AnswersInv, SlotsInv
<1>1. ASSUME UNCHANGED <<mode, slots, nextSlot, single, rows, pending>>
      PROVE  Lying' /\ OwnData(rows)'
  <2>1. Lies(single)' /\ Lies(pending)'
    BY <1>0, <1>1 DEF Lying, Lies, Small
  <2>2. OwnData(rows)'
    BY <1>0, <1>1 DEF OwnData
  <2> QED
    BY <1>0, <1>1, <2>1, <2>2 DEF Lying, Harmless
<1>2. ASSUME samples' = samples PROVE OwnData(samples)'
  BY <1>0, <1>2 DEF OwnData
<1>3. ASSUME BeginBatch PROVE Goal
  <2>1. /\ mode = "look" /\ single' = pending /\ pending' = Nothing
        /\ UNCHANGED <<slots, nextSlot, rows, samples>>
    BY <1>3 DEF BeginBatch
  <2>2. nextSlot = 1 /\ rows = <<>>
    BY <1>0, <2>1 DEF Lying
  <2>3. Lies(single)' /\ Lies(pending)'
    BY <1>0, <2>1 DEF Lying, Lies, Small
  <2>4. single' # Nothing => Harmless(single)'
    BY <1>0, <2>1 DEF Lying, Harmless
  <2>5. OwnData(rows)'
    BY <1>0, <2>1 DEF OwnData
  <2> QED
    BY <1>2, <2>1, <2>2, <2>3, <2>4, <2>5 DEF Lying
<1>4. ASSUME NEW w \in Workers, ReceiveFrame(w) PROVE Goal
  BY <1>0, <1>2, <1>4, ReceiveLying DEF ReceiveFrame
<1>5. ASSUME Die PROVE Goal
  <2>1. Exit /\ samples' = samples
    BY <1>5 DEF Die
  <2>2. Lying' /\ OwnData(rows)'
    BY <2>1 DEF Exit, Lying, Lies, OwnData, ToSet
  <2> QED
    BY <1>2, <2>1, <2>2
<1>6. ASSUME FinishBatch PROVE Goal
  BY <1>0, <1>6, FinishLying
<1>7. ASSUME Update PROVE Goal
  <2>1. UNCHANGED <<slots, nextSlot, single, rows, pending>>
    BY <1>7 DEF Update, ingressVars
  <2>2. mode = "listen" /\ mode' = "look" /\ (samples' = samples \/ samples' = <<>>)
    BY <1>7 DEF Update
  <2>3. Lies(single)' /\ Lies(pending)'
    BY <1>0, <2>1 DEF Lying, Lies, Small
  <2>4. OwnData(rows)'
    BY <1>0, <2>1 DEF OwnData
  <2>5. Lying'
    BY <1>0, <2>1, <2>2, <2>3 DEF Lying, Harmless
  <2>6. OwnData(samples)'
    BY <1>0, <2>2 DEF OwnData, ToSet
  <2> QED
    BY <2>4, <2>5, <2>6
<1>8. ASSUME UNCHANGED rankVars PROVE Goal
  BY <1>1, <1>2, <1>8 DEF rankVars, ingressVars
<1>9. ASSUME NEW w \in Workers, WorkerStep(w) PROVE UNCHANGED rankVars
  BY <1>9 DEF WorkerStep, Prompt, Register, CannotCompile, Submit, Dispatch, Stopped, Fail,
    RoundExpires, FailSession, Cancel, AskDecision, Timeout, UnchangedRank
<1>10. ASSUME AskToStop \/ AskToUpdate \/ NextSession PROVE UNCHANGED rankVars
  BY <1>10 DEF AskToStop, AskToUpdate, NextSession, UnchangedRank
<1>11. ASSUME UNCHANGED inferenceVars PROVE UNCHANGED rankVars
  BY <1>11 DEF inferenceVars
<1> HIDE DEF Goal
<1>12. ASSUME InferenceNext PROVE Goal
  BY <1>3, <1>4, <1>5, <1>6, <1>7, <1>8, <1>9, <1>10, <1>12 DEF InferenceNext, RankStep
<1>13. Goal
  BY <1>8, <1>11, <1>12
<1> QED
  BY <1>13 DEF Goal

\* At first there are none.
LEMMA InitSlots == InferenceInit => SlotsInv
<1> SUFFICES ASSUME InferenceInit PROVE SlotsInv
  OBVIOUS
<1>1. /\ queue = [w \in Workers |-> <<>>] /\ sending = [w \in Workers |-> <<>>]
      /\ toRank = [w \in Workers |-> <<>>] /\ future = [r \in Requests |-> "none"]
      /\ mode = "look" /\ slots = <<>> /\ nextSlot = 1
      /\ single = Nothing /\ rows = <<>> /\ pending = Nothing /\ samples = <<>>
  BY DEF InferenceInit
<1>2. \A w \in Workers : Waiting(w) = {}
  BY <1>1 DEF Waiting
<1>3. Cardinality({}) = 0 /\ Envs \in Nat /\ BatchSize \in Nat /\ Len(<<>>) = 0 /\ ToSet(<<>>) = {}
  BY FS_EmptySet, SizeAssumption DEF ToSet
<1>4. Sized
  <2>1. Small(<<>>)
    BY <1>3, SizeAssumption DEF Small
  <2>2. ASSUME NEW w \in Workers
        PROVE  /\ sending[w] = <<>> /\ ToSet(queue[w]) = {} /\ ToSet(toRank[w]) = {}
               /\ Cardinality(Waiting(w)) <= Envs
    <3>1. queue[w] = <<>> /\ sending[w] = <<>> /\ toRank[w] = <<>> /\ Waiting(w) = {}
      BY <1>1, <1>2
    <3>2. 0 <= Envs
      BY SizeAssumption
    <3> QED
      BY <1>3, <3>1, <3>2
  <2> QED
    BY <2>1, <2>2 DEF Sized
<1>5. Lying /\ OwnData(rows) /\ OwnData(samples)
  BY <1>1, <1>3 DEF Lying, Lies, OwnData
<1> QED
  BY <1>4, <1>5 DEF SlotsInv

\* A row is decided on what its own request asked about if two frames always
\* fit one batch, as they do when two workers or more share a rank whose batch
\* is not cut below their environments, or if a batch is at most of two rows.
\* Otherwise a deferred frame may be received over (staging.py, begin_batch).
THEOREM RowsDecidedOnTheirOwn ==
  ASSUME SmallFrames
  PROVE  InferenceSpec => []DecidedOnItsOwn
<1>1. InferenceInit => SlotsInv
  BY InitSlots
<1>2. AnswersInv /\ SlotsInv /\ [InferenceNext]_inferenceVars => SlotsInv'
  BY StepSized, StepLying DEF SlotsInv
<1>3. SlotsInv => DecidedOnItsOwn
  BY DEF SlotsInv, OwnData, DecidedOnItsOwn
<1> QED
  BY <1>1, <1>2, <1>3, AnswersInvariant, PTL DEF InferenceSpec
=============================================================================
