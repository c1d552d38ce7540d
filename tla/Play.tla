-------------------------------- MODULE Play --------------------------------
(***************************************************************************)
(* Leading, comparing and scoring: server/game/rules/_throw, _compare,     *)
(* scoring and progression.                                                *)
(***************************************************************************)
EXTENDS Patterns, Sequences

---------------------------------------------------------------------------
(* Throws: a lead of several patterns stands only if each is biggest.      *)

\* _is_biggest: no other hand holds a stronger pattern of the same kind.
IsBiggest(p, others, trump) ==
  LET suit == EffectiveSuit(CHOOSE c \in p.cards : TRUE, trump)
      top == MaxOrder(p.cards, trump)
      In(hand) == OfSuit(hand, suit, trump)
  IN CASE p.pairs = 0 ->
            \A hand \in others : \A c \in In(hand) : TrumpOrder(c, trump) <= top
       [] p.pairs = 1 ->
            \A hand \in others : \A f \in PairFaces(In(hand)) :
              MaxOrder(Copies(In(hand), f), trump) <= top
       [] OTHER ->
            \A hand \in others : \A q \in Tractors(In(hand), trump) :
              q.pairs >= p.pairs =>
                \A w \in Windows(q, p.pairs, trump) : MaxOrder(w, trump) <= top

\* Slip: the longest failing pattern is forced.
LongestFirst(p, q, trump) == Level(p) >= Level(q)

\* _sorted_throw_subplays: by level, then strength, then face order.
VerifiedBefore(p, q, trump) ==
  LET first(x) == Min({FaceKey(c.face) : c \in x.cards})
      key(x) == <<Level(x), MaxOrder(x.cards, trump), first(x)>>
  IN \/ key(p)[1] < key(q)[1]
     \/ key(p)[1] = key(q)[1] /\ key(p)[2] < key(q)[2]
     \/ key(p)[1] = key(q)[1] /\ key(p)[2] = key(q)[2] /\ key(p)[3] <= key(q)[3]

\* resolve_lead_throw: the cards that are really led.
ResolveLead(attempted, others, trump) ==
  LET failing == {p \in Analyze(attempted, trump) : ~IsBiggest(p, others, trump)}
  IN IF failing = {} THEN attempted
     ELSE (CHOOSE p \in failing :
             \A q \in failing : VerifiedBefore(p, q, trump)).cards

\* is_legal_lead and the checks of resolve_lead_throw.
LegalLead(attempted, trump) == Analyzable(attempted, trump)

---------------------------------------------------------------------------
(* Comparing two plays of one trick under the lead.                        *)

AllOf(cards, suit, trump) == \A c \in cards : EffectiveSuit(c, trump) = suit

LeadSuit(lead, trump) == EffectiveSuit(CHOOSE c \in lead : TRUE, trump)

\* _can_win_against_lead
CanWin(cards, lead, trump) ==
  \/ AllOf(cards, LeadSuit(lead, trump), trump)
  \/ /\ LeadSuit(lead, trump) # "trump"
     /\ AllOf(cards, "trump", trump)
     /\ Shape(cards, trump) = Shape(lead, trump)

\* _compare_same_suit: the longest pattern, then its strongest card.
StrongerSameSuit(a, b, trump) ==
  LET pa == Analyze(a, trump)
      pb == Analyze(b, trump)
      la == Max({Level(p) : p \in pa})
      lb == Max({Level(p) : p \in pb})
      top(patterns, l) ==
        MaxOrder(UNION {p.cards : p \in {q \in patterns : Level(q) = l}}, trump)
  IN la > lb \/ (la = lb /\ top(pa, la) > top(pb, lb))

\* compare_plays(a, b, lead) > 0
Wins(a, b, lead, trump) ==
  /\ CanWin(a, lead, trump)
  /\ \/ ~CanWin(b, lead, trump)
     \/ AllOf(a, "trump", trump) /\ ~AllOf(b, "trump", trump)
     \/ /\ AllOf(a, "trump", trump) = AllOf(b, "trump", trump)
        /\ StrongerSameSuit(a, b, trump)

\* Slip: each play is compared with the lead, not with the best so far.
LastToBeatTheLead(slots, trump) ==
  LET better(i, j) ==
        IF Wins(slots[j].cards, slots[1].cards, slots[1].cards, trump) THEN j ELSE i
  IN slots[better(better(better(1, 2), 3), 4)]

\* The loop of _complete_trick over the four slots: a later slot takes the
\* lead only if it beats the best one so far.
WinningSlot(slots, trump) ==
  LET better(i, j) ==
        IF Wins(slots[j].cards, slots[i].cards, slots[1].cards, trump) THEN j ELSE i
  IN slots[better(better(better(1, 2), 3), 4)]

---------------------------------------------------------------------------
(* Scoring a round and advancing the teams.                                *)

PointsOf(cards) ==
  5 * Cardinality({c \in cards : Points(c) = 5})
    + 10 * Cardinality({c \in cards : Points(c) = 10})

\* _bottom_multiplier: 2^(widest pattern), halved off trump.
BottomMultiplier(cards, trump) ==
  LET width == Max({Cardinality(p.cards) : p \in Analyze(cards, trump)})
  IN IF AllOf(cards, "trump", trump) THEN 2^width ELSE 2^width \div 2

\* score_round: the total the defenders reach, who wins and by how many levels.
TotalPoints(captured, bottom, winning, defendersWonLast, trump) ==
  PointsOf(captured)
    + (IF defendersWonLast THEN PointsOf(bottom) * BottomMultiplier(winning, trump)
       ELSE 0)

DefendersWin(total) == total >= 80

LevelGain(total) ==
  IF total = 0 THEN 3
  ELSE IF total < 40 THEN 2
  ELSE IF total < 80 THEN 1
  ELSE (total - 80) \div 40

\* stage_target: the next mandatory level above, or WIN when there is none.
Win == 15
StageTarget(level, mandatory) ==
  LET above == {m \in mandatory : m > level}
  IN IF above = {} THEN Win ELSE Min(above)

\* Slip: a gain past the ace wins from below it.
AdvanceThroughAce(level, gain, wasDeclarer, mandatory) ==
  IF gain > 0 /\ level + gain > 14 THEN [level |-> level, won |-> wasDeclarer]
  ELSE [level |-> Min({level + gain, StageTarget(level, mandatory)}), won |-> FALSE]

\* advance_team: the level reached, and whether the game is won.
Advance(level, gain, wasDeclarer, mandatory) ==
  LET target == StageTarget(level, mandatory)
  IN CASE gain = 0 -> [level |-> level, won |-> FALSE]
       [] gain > 0 /\ target = Win -> [level |-> level, won |-> wasDeclarer]
       [] OTHER -> [level |-> IF level + gain < target THEN level + gain ELSE target,
                    won |-> FALSE]
=============================================================================
