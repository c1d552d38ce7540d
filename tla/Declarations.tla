---------------------------- MODULE Declarations ----------------------------
(***************************************************************************)
(* server/game/rules/_bid and bidding: what may be revealed as a bid or a  *)
(* stir, and the strict priority between declarations.                     *)
(***************************************************************************)
EXTENDS Cards

BidSuitOrder == [diamonds |-> 0, clubs |-> 1, hearts |-> 2, spades |-> 3]

\* validate_bid_cards: one or two cards of the trump rank in one suit, or a
\* pair of the same joker.
ValidShape(cards, rank) ==
  \/ /\ Cardinality(cards) \in {1, 2}
     /\ \A c \in cards : c.face.rank = rank
     /\ \A c, d \in cards : c.face.suit = d.face.suit
  \/ /\ Cardinality(cards) = 2
     /\ \A c \in cards : IsJoker(c)
     /\ \A c, d \in cards : c.face.rank = d.face.rank

\* bid_value: 0 for cards that declare nothing at this trump rank.
BidValue(cards, rank) ==
  LET f == (CHOOSE c \in cards : TRUE).face
  IN IF ~ValidShape(cards, rank) THEN 0
     ELSE 100 * Cardinality(cards)
            + (IF f.suit = "joker" THEN f.rank - SmallJoker + 4 ELSE BidSuitOrder[f.suit])

\* Slip: an equal declaration is enough.
BeatsOrTies(cards, rank, current) ==
  current = {} \/ BidValue(cards, rank) >= BidValue(current, rank)

\* bid_beats_current; an empty current set is no declaration.
Beats(cards, rank, current) ==
  current = {} \/ BidValue(cards, rank) > BidValue(current, rank)

ValidReveal(cards, rank, current) == ValidShape(cards, rank) /\ Beats(cards, rank, current)

ValidStir(cards, rank, current) ==
  Cardinality(cards) = 2 /\ ValidReveal(cards, rank, current)

\* is_maximum: the pair of big jokers.
IsMaximum(cards) ==
  Cardinality(cards) = 2 /\ \A c \in cards : c.face.rank = BigJoker

\* Declaration.suit; a joker pair declares no trump suit.
DeclaredSuit(cards) ==
  LET f == (CHOOSE c \in cards : TRUE).face
  IN IF f.suit = "joker" THEN NoSuit ELSE f.suit
=============================================================================
