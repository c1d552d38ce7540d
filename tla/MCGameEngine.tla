---------------------------- MODULE MCGameEngine ----------------------------
(***************************************************************************)
(* A small deck for TLC.  The faces keep their real ranks and suits, so    *)
(* the tiers, points and orders are those of the full game.                *)
(***************************************************************************)
EXTENDS GameEngine

H(rank, copy) == [face |-> [suit |-> "hearts", rank |-> rank], deck |-> copy]
S(rank, copy) == [face |-> [suit |-> "spades", rank |-> rank], deck |-> copy]
BJ(copy) == [face |-> [suit |-> "joker", rank |-> BigJoker], deck |-> copy]

\* The shuffle that gives the four seats, from the opener on, these hands.
Dealt(under, h) ==
  under \o [i \in 1..(4 * Len(h[1])) |-> h[((i - 1) % 4) + 1][((i - 1) \div 4) + 1]]
CardsOf(shuffle) == {shuffle[i] : i \in DOMAIN shuffle}

AceOnly == {14}

\* Kings are trump: two pairs of them in two suits, the joker pair nothing
\* beats, and a five and an ace that can be thrown together.  Every trick with
\* a king scores, and a team at the king is one level from the ace.
One == Dealt(<<S(10, 1)>>,
  <<<<S(5, 1), S(14, 1)>>, <<H(13, 1), H(13, 2)>>,
    <<S(13, 1), S(13, 2)>>, <<BJ(1), BJ(2)>>>>)
OneDeck == CardsOf(One)
OneShuffles == {One}
OnePositions ==
  {[round |-> 1, levels |-> [t \in Teams |-> 13], fixed |-> f, start |-> 0] :
     f \in {NoSeat, 0}}
=============================================================================
