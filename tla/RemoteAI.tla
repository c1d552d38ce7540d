------------------------------ MODULE RemoteAI ------------------------------
(***************************************************************************)
(* The controller of one AI seat that runs on another host                 *)
(* (server/game_ai/remote.py): RemoteAIController at the game, which       *)
(* buffers views and repeats one idempotent decision request, and the      *)
(* session RemoteSessionRegistry keeps for it at the AI server.  A request *)
(* may be answered after the client gave up on it, arrive after its        *)
(* successor, or find a server that restarted and forgot the session.      *)
(*                                                                         *)
(* A view is known by its sequence number, a command by the decision that  *)
(* made it.                                                                *)
(***************************************************************************)
EXTENDS Naturals, Sequences

CONSTANTS
  Turns,        \* the views on which the bot is asked to decide
  RoundStarts,  \* the views a new observation memory accepts as its first
  MaxSeq,       \* bound: views of the game
  MaxAttempts,  \* bound: HTTP attempts
  MaxRestarts   \* bound: restarts of the AI server

Views == 1..MaxSeq

ASSUME BoundAssumption ==
  MaxSeq \in Nat \ {0} /\ MaxAttempts \in Nat /\ MaxRestarts \in Nat
ASSUME ViewAssumption ==
  Turns \subseteq Views /\ RoundStarts \subseteq Views /\ 1 \in RoundStarts

VARIABLES
  observed,  \* seq of _last_observation at the client
  sent,      \* _pending holds the views sent + 1 .. observed
  call,      \* decide() at the client: "idle", "asking" or "backoff"
  answers,   \* the commands the client got for each view
  attempts,  \* the HTTP attempts, in the order they were sent
  session,   \* the _RemoteSession at the server, or NoSession
  made,      \* decisions the server made
  restarts,  \* restarts of the server
  gaveUp,    \* whether a decision ran into its deadline
  refused    \* whether a decision was answered by an error

clientVars == <<observed, sent, call, answers, gaveUp, refused>>
serverVars == <<session, made, restarts>>
vars == <<clientVars, attempts, serverVars>>

\* A response: the n-th decision, on which view, and whether its controller
\* had seen the whole round; or an error.
Command(n, v, informed) == [made |-> n, view |-> v, informed |-> informed]
Error == Command(0, 0, FALSE)
\* _RemoteSession: the first and the last view its memory holds, the view
\* decided last with its command, and the view being decided.  A session
\* that was opened and has observed nothing behaves as none.
NoSession == [first |-> 0, last |-> 0, command |-> Error, flight |-> 0]
Decided == session.command.view
Current == attempts[Len(attempts)]
---------------------------------------------------------------------------
(* The client: RemoteAIController *)

\* observe: the next view; the current one again changes nothing.
Observe ==
  /\ call = "idle" /\ observed < MaxSeq
  /\ observed' = observed + 1
  /\ UNCHANGED <<sent, call, answers, gaveUp, refused, attempts, serverVars>>

\* One attempt of _request: the same pending views each time.
Attempt ==
  /\ Len(attempts) < MaxAttempts
  /\ attempts' = Append(attempts, [seq |-> observed, first |-> sent + 1,
                                   state |-> "sent", reply |-> Error])
  /\ call' = "asking"

\* decide, possibly again for a view that was delivered twice.
Decide ==
  /\ call = "idle" /\ observed \in Turns
  /\ Attempt
  /\ UNCHANGED <<observed, sent, answers, gaveUp, refused, serverVars>>

\* The attempt timed out, its connection failed or its status is retryable.
AttemptFails ==
  /\ call = "asking" /\ call' = "backoff"
  /\ UNCHANGED <<observed, sent, answers, gaveUp, refused, attempts, serverVars>>
Retry ==
  /\ call = "backoff"
  /\ Attempt
  /\ UNCHANGED <<observed, sent, answers, gaveUp, refused, serverVars>>
\* The deadline is over, or an answer is malformed or of a status that is not
\* retried: AIUnavailable, and the views stay pending.
GiveUp ==
  /\ call # "idle" /\ call' = "idle" /\ gaveUp' = TRUE
  /\ UNCHANGED <<observed, sent, answers, refused, attempts, serverVars>>

\* Slip: the pending views are sent again.
KeepPending == UNCHANGED sent
\* _pending.clear()
ClearPending == sent' = observed
\* A response to the attempt in progress: the server has the views.
Receive ==
  /\ call = "asking" /\ Current.state = "replied"
  /\ call' = "idle" /\ ClearPending
  /\ IF Current.reply = Error THEN refused' = TRUE /\ UNCHANGED answers
     ELSE /\ answers' = [answers EXCEPT ![observed] = @ \cup {Current.reply}]
          /\ UNCHANGED refused
  /\ UNCHANGED <<observed, gaveUp, attempts, serverVars>>
---------------------------------------------------------------------------
(* The server: RemoteSessionRegistry.decide, up to its await *)

Reply(a, answer) ==
  attempts' = [attempts EXCEPT ![a].state = "replied", ![a].reply = answer]

\* Slip: a repeated decision is made anew.
ReplaysNever(r) == FALSE
\* The decision was made: answer it again.
Replays(r) == Decided = r.seq
\* Slip: a request waits for whatever decision is in flight.
JoinsAny(r) == session.flight # 0
\* The decision is being made: wait for it as well.
Joins(r) == session.flight = r.seq

\* Slip: a new memory takes any view as its first.
ContinuesAnywhere(r) ==
  \/ r.first > r.seq
  \/ r.first \in {session.last, session.last + 1}
  \/ session.last = 0
\* The views of a request, if any, continue those of the session, the last one
\* repeated or not; a new memory wants the start of a round.
Continues(r) ==
  \/ r.first > r.seq
  \/ session.last # 0 /\ r.first \in {session.last, session.last + 1}
  \/ session.last = 0 /\ r.first \in RoundStarts
\* The session once it observed the views of a request.
Remembering(r) ==
  IF r.first > r.seq THEN session
  ELSE [session EXCEPT !.last = r.seq, !.first = IF @ = 0 THEN r.first ELSE @]

Replay(a) ==
  /\ Replays(attempts[a])
  /\ Reply(a, session.command)
  /\ UNCHANGED session
Join(a) ==
  /\ ~Replays(attempts[a]) /\ Joins(attempts[a])
  /\ attempts' = [attempts EXCEPT ![a].state = "waiting"]
  /\ UNCHANGED session
\* Another decision is in progress, or views are missing.  A memory that
\* rejects its first view fails an assertion: status 500, which is retried.
Refuse(a) ==
  /\ ~Replays(attempts[a]) /\ ~Joins(attempts[a])
  /\ session.flight # 0 \/ ~Continues(attempts[a])
  /\ IF session.flight = 0 /\ session.last = 0
     THEN attempts' = [attempts EXCEPT ![a].state = "over"]
     ELSE Reply(a, Error)
  /\ UNCHANGED session
\* The views are observed before the sequence is found to move backwards.
Backwards(a) ==
  /\ session.flight = 0 /\ Continues(attempts[a]) /\ attempts[a].seq < Decided
  /\ session' = Remembering(attempts[a])
  /\ Reply(a, Error)
\* A task is started for the decision.
Begin(a) ==
  /\ ~Replays(attempts[a])
  /\ session.flight = 0 /\ Continues(attempts[a]) /\ attempts[a].seq >= Decided
  /\ session' = [Remembering(attempts[a]) EXCEPT !.flight = attempts[a].seq]
  /\ attempts' = [attempts EXCEPT ![a].state = "waiting"]

Arrive(a) ==
  /\ attempts[a].state = "sent"
  /\ Replay(a) \/ Join(a) \/ Refuse(a) \/ Backwards(a) \/ Begin(a)
  /\ UNCHANGED <<clientVars, made, restarts>>

\* _decide_new is done, and asyncio wakes every handler that waits for it
\* before a response can lead to another request.
DecisionMade ==
  /\ session.flight # 0
  /\ made' = made + 1
  /\ LET command == Command(made', session.flight,
                 session.first \in RoundStarts /\ session.last = session.flight)
     IN /\ session' = [session EXCEPT !.command = command, !.flight = 0]
        /\ attempts' = [a \in DOMAIN attempts |->
             IF attempts[a].state # "waiting" THEN attempts[a]
             ELSE [attempts[a] EXCEPT !.state = "replied", !.reply = command]]
  /\ UNCHANGED <<clientVars, restarts>>

\* The AI server stops, or an assertion of the policy ends it, and a new one
\* starts: sessions are in memory only, and its handlers are gone.
Restart ==
  /\ restarts < MaxRestarts /\ restarts' = restarts + 1
  /\ session' = NoSession
  /\ attempts' = [a \in DOMAIN attempts |->
       IF attempts[a].state # "waiting" THEN attempts[a]
       ELSE [attempts[a] EXCEPT !.state = "over"]]
  /\ UNCHANGED <<clientVars, made>>
---------------------------------------------------------------------------
Init ==
  /\ observed = 0 /\ sent = 0 /\ call = "idle"
  /\ answers = [v \in Views |-> {}]
  /\ attempts = <<>>
  /\ session = NoSession /\ made = 0 /\ restarts = 0
  /\ gaveUp = FALSE /\ refused = FALSE

Client == Observe \/ Decide \/ AttemptFails \/ Retry \/ GiveUp \/ Receive
Server == DecisionMade \/ Restart \/ \E a \in DOMAIN attempts : Arrive(a)
Next == Client \/ Server

Spec == Init /\ [][Next]_vars
---------------------------------------------------------------------------
(* Properties *)

Response == [made : Nat, view : Views \cup {0}, informed : BOOLEAN]
Request == [seq : Views, first : 1..(MaxSeq + 1), reply : Response,
            state : {"sent", "waiting", "replied", "over"}]
TypeOK ==
  /\ observed \in 0..MaxSeq /\ sent \in 0..observed
  /\ call \in {"idle", "asking", "backoff"}
  /\ answers \in [Views -> SUBSET Response]
  /\ attempts \in Seq(Request)
  /\ session \in [first : 0..MaxSeq, last : 0..MaxSeq, command : Response, flight : 0..MaxSeq]
  /\ made \in Nat /\ restarts \in 0..MaxRestarts
  /\ gaveUp \in BOOLEAN /\ refused \in BOOLEAN

\* A command is given to the view it was decided on, whatever attempts are
\* late, repeated or answered by a new server.
AnswersFit == \A v \in Views : \A c \in answers[v] : c.view = v

\* While the server stays up a view has one answer, however often it is asked:
\* the policy draws at random, so a repeated decision would be another.
SameAnswer ==
  restarts = 0 => \A v \in Views : \A c, d \in answers[v] : c = d

\* While the server stays up and no deadline passes, late and repeated attempts
\* never make it miss a view, find a sequence moved back or a decision in
\* progress: no error ends the game.
NeverRefused == restarts = 0 /\ ~gaveUp => ~refused

\* Until a decision fails, the first answer to a view comes from a controller
\* that has seen the round, even if the server restarted: a new session answers
\* only from the start of a round on.  (A second answer may come from one that
\* has not, and an error has the client forget views the server never took.)
FirstInformed ==
  ~gaveUp /\ ~refused =>
    \A v \in Views : answers[v] # {} => \E c \in answers[v] : c.informed
=============================================================================
