------------------------------- MODULE MCRules -------------------------------
(* The rules on small hands: either a decision is decoded, or a lead is       *)
(* resolved against another hand.                                             *)
EXTENDS Decoder, PlayRules

F(suit, rank) == [suit |-> suit, rank |-> rank]
C(suit, rank, copy) == [face |-> F(suit, rank), deck |-> copy]
ClubsTwo == [suit |-> "clubs", rank |-> 2]

\* A trump hand: two faces share the tier of the side twos, a break, a pair of
\* jokers; and one plain face to pad with.
SpaceTrumpFaces ==
  {F("clubs", 14), F("hearts", 2), F("diamonds", 2), F("clubs", 2),
   F("joker", BigJoker), F("spades", 5)}
\* Leads without those faces: trump single, pair, pair and single, two pairs,
\* tractor, tractor and single, three and four singles; and plain ones, which the hand
\* follows with trumps.
FourSingles == {C("clubs", r, 1) : r \in {3, 5, 7, 9}}
SpaceLeads ==
  LET p(r) == {C("clubs", r, 1), C("clubs", r, 2)}
  IN {{C("clubs", 3, 1)}, p(3), p(3) \cup {C("clubs", 9, 1)}, p(3) \cup p(5),
      p(3) \cup p(4), p(3) \cup p(4) \cup {C("clubs", 9, 1)},
      {C("clubs", r, 1) : r \in {3, 5, 7}}, FourSingles,
      {C("spades", 3, 1)}, {C("spades", 3, 1), C("spades", 3, 2), C("spades", 7, 1)}}
\* Nothing declared, a single and pairs the hand may beat, tie or hold.
SomeCurrents ==
  {{}, {C("hearts", 2, 1)}, {C("spades", 2, 1), C("spades", 2, 2)},
   {C("joker", BigJoker, 1), C("joker", BigJoker, 2)}}
SomeSizes == {1, 3}
NoCurrents == {{}}
ThrowLeads == {FourSingles}
ThrowWidths == [k \in Kinds |-> IF k = "follow_play" THEN {6} ELSE {}]
SomeWidths ==
  [bid |-> {3}, stir |-> {3}, discard |-> {4}, lead_play |-> {1, 3, 4},
   follow_play |-> {2, 3, 5, 6}]

\* King, ace, two side twos, the main two and a small joker: one tier with
\* two faces in the middle of a run.
TrumpFaces == {F("clubs", 14), F("diamonds", 2), F("hearts", 2), F("clubs", 2),
               F("joker", SmallJoker)}
\* A plain suit around the missing trump rank, and trumps to kill it.
PlainFaces == {F("spades", 3), F("spades", 4), F("spades", 6), F("clubs", 3), F("clubs", 4)}

NoHands == {}
BothHands == {[faces |-> TrumpFaces, lead |-> 4, answer |-> 4],
              [faces |-> PlainFaces, lead |-> 2, answer |-> 4]}
---------------------------------------------------------------------------
Init == (DecoderInit /\ LeadIdle) \/ (LeadInit /\ DecoderIdle)

Next == \/ DecoderNext /\ UNCHANGED leadVars
        \/ Resolve /\ UNCHANGED decoderVars

Spec == Init /\ [][Next]_<<decoderVars, leadVars>>
=============================================================================
