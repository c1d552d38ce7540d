-------------------------------- MODULE Table --------------------------------
(***************************************************************************)
(* What a seat can tell of a game: which action the game awaits, and from  *)
(* whom (PlayerSnapshot.awaiting_action).  GameEngine implements Spec; the *)
(* Session builds on Moves.                                                *)
(***************************************************************************)
CONSTANT Seats

VARIABLE game    \* [action, seats]: the awaited action and the seats it awaits

Start == [action |-> "next_round", seats |-> Seats]
Turn(s) == [action |-> "turn", seats |-> {s}]
Finished == [action |-> "none", seats |-> {}]
Games == [action : {"next_round", "turn", "none"}, seats : SUBSET Seats]

Awaits(g, s) == IF s \in g.seats THEN g.action ELSE "none"

\* What an accepted command of seat s may turn g into: confirmations collect
\* until all are in, every other command passes the turn, reviews or ends.
Moves(g, s) ==
  CASE Awaits(g, s) = "none" -> {}
    [] Awaits(g, s) = "next_round" /\ g.seats # {s} ->
         {[action |-> "next_round", seats |-> g.seats \ {s}]}
    [] Awaits(g, s) = "next_round" /\ g.seats = {s} -> {Turn(t) : t \in Seats}
    [] Awaits(g, s) = "turn" -> {Turn(t) : t \in Seats} \cup {Start, Finished}

Init == game = Start \/ \E s \in Seats : game = Turn(s)
Next == \E s \in Seats : game' \in Moves(game, s)
Spec == Init /\ [][Next]_game
=============================================================================
