------------------------------- MODULE Follow -------------------------------
(***************************************************************************)
(* What may be played behind a lead: server/game/rules/_follow,            *)
(* _follow_analysis and the selection rules of _follow_pairs.              *)
(***************************************************************************)
EXTENDS Patterns

\* required_same_suit_count: as many cards of the lead's suit as the hand has.
RequiredOfSuit(hand, lead, suit, trump) ==
  LET held == Cardinality(OfSuit(hand, suit, trump))
  IN IF held < Cardinality(lead) THEN held ELSE Cardinality(lead)

\* Slip: as many pairs as led, held or not.
PairFloorOfLead(own, lead) == Cardinality(PairFaces(lead))

PairFloor(own, lead) ==
  LET held == Cardinality(PairFaces(own))
      led == Cardinality(PairFaces(lead))
  IN IF held < led THEN held ELSE led

\* _pair_segment_decompositions: one face for every tier of every run; the
\* other pair faces are segments of level 1.
Decompositions(own, trump) ==
  LET runs == TractorRuns(own, trump)
  IN {d \in [UNION runs -> PairFaces(own)] : \A t \in UNION runs : Tier(d[t], trump) = t}

\* The length of the segment a pair face belongs to in decomposition d.
SegmentLevel(own, d, f, trump) ==
  LET t == Tier(f, trump)
  IN IF t \in DOMAIN d /\ d[t] = f
     THEN Cardinality(CHOOSE r \in TractorRuns(own, trump) : t \in r)
     ELSE 1

\* _pair_priority_is_satisfied: longer segments are used up first.
PriorityKept(own, d, chosen, needed, trump) ==
  LET level == [f \in PairFaces(own) |-> SegmentLevel(own, d, f, trump)]
      held(l) == Cardinality({f \in PairFaces(own) : level[f] = l})
      played(l) == Cardinality({f \in chosen : level[f] = l})
      above(l) == Cardinality({f \in chosen : level[f] > l})
  IN \A l \in {level[f] : f \in PairFaces(own)} :
       \/ played(l) >= held(l)
       \/ played(l) >= needed - above(l)

\* A run is played in one stretch, never with a hole in it.
Unbroken(own, d, chosen, trump) ==
  \A r \in TractorRuns(own, trump) :
    LET used == {t \in r : d[t] \in chosen}
    IN used # {} => used = Min(used)..Max(used)

\* pair_selection_is_valid
ValidPairs(own, lead, chosen, trump) ==
  /\ chosen \subseteq PairFaces(own)
  /\ Cardinality(chosen) >= PairFloor(own, lead)
  /\ \E d \in Decompositions(own, trump) :
       /\ PriorityKept(own, d, chosen, Cardinality(PairFaces(lead)), trump)
       /\ Unbroken(own, d, chosen, trump)

\* is_legal_follow
LegalFollow(hand, played, lead, trump) ==
  LET suit == EffectiveSuit(CHOOSE c \in lead : TRUE, trump)
      own == OfSuit(hand, suit, trump)
      followed == OfSuit(played, suit, trump)
  IN /\ Cardinality(played) = Cardinality(lead)
     /\ played # {} /\ played \subseteq hand
     /\ Cardinality(followed) = RequiredOfSuit(hand, lead, suit, trump)
     /\ followed # {} => ValidPairs(own, lead, PairFaces(followed), trump)
=============================================================================
