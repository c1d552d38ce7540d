------------------------------- MODULE Cards -------------------------------
(***************************************************************************)
(* The card vocabulary of server/game/rules: two physical copies of every  *)
(* face, point values, and the trump-aware orders every other rule uses.   *)
(* A trump is a record [suit, rank]; suit is NoSuit when nobody declared   *)
(* one, and then only jokers and the trump rank are trumps.                *)
(***************************************************************************)
EXTENDS Integers, FiniteSets

Suits == {"hearts", "spades", "diamonds", "clubs"}
NoSuit == "none"
SmallJoker == 15
BigJoker == 16
SuitedRanks == 2..14                      \* 11 = J, 12 = Q, 13 = K, 14 = A

Faces == [suit : Suits, rank : SuitedRanks]
           \cup [suit : {"joker"}, rank : {SmallJoker, BigJoker}]

\* create_decks: two copies of every face.
Card == [face : Faces, deck : {1, 2}]

Trumps == [suit : Suits \cup {NoSuit}, rank : SuitedRanks]

IsJoker(c) == c.face.suit = "joker"

Points(c) == CASE c.face.rank = 5 -> 5
               [] c.face.rank \in {10, 13} -> 10
               [] OTHER -> 0

IsTrump(f, trump) ==
  \/ f.suit = "joker"
  \/ f.rank = trump.rank
  \/ f.suit = trump.suit

EffectiveSuit(c, trump) ==
  IF IsTrump(c.face, trump) THEN "trump" ELSE c.face.suit

\* trump_order: a larger value is a stronger card of its effective suit.
TrumpOrder(c, trump) ==
  LET f == c.face
  IN CASE f.rank = BigJoker -> 100
       [] f.rank = SmallJoker -> 90
       [] f.rank = trump.rank -> IF f.suit = trump.suit THEN 80 ELSE 70
       [] f.rank # trump.rank /\ f.suit = trump.suit -> 45 + f.rank
       [] OTHER -> f.rank - 2

\* face_sort_key: hearts, spades, diamonds, clubs, joker; then the rank.
SuitPosition == [hearts |-> 0, spades |-> 1, diamonds |-> 2, clubs |-> 3,
                 joker |-> 4]
FaceKey(f) == 100 * SuitPosition[f.suit] + f.rank

FacesOf(cards) == {c.face : c \in cards}
Copies(cards, f) == {c \in cards : c.face = f}
OfSuit(cards, suit, trump) == {c \in cards : EffectiveSuit(c, trump) = suit}
=============================================================================
