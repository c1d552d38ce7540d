----------------------------- MODULE FollowSpace -----------------------------
(***************************************************************************)
(* The follow action space of server/game/rules/_follow_space: a follow is *)
(* selected face by face in canonical order, and after every choice        *)
(* can_complete of _follow_analysis and _follow_pairs says which choices   *)
(* still lead to a legal play.  Policies, automatic players and hints all  *)
(* select through it.                                                      *)
(***************************************************************************)
EXTENDS Follow

CONSTANTS
  SpaceFaces,   \* the faces a hand is made of
  SpaceTrump,   \* the trump
  Leads         \* the leads followed

ASSUME SpaceAssumption ==
  /\ SpaceFaces \subseteq Faces /\ SpaceTrump \in Trumps
  /\ \A l \in Leads : l \subseteq Card /\ Analyzable(l, SpaceTrump)

VARIABLES
  hand,    \* the hand
  lead,    \* the cards led
  prefix   \* the face counts selected so far, as a function from faces

Suit == EffectiveSuit(CHOOSE c \in lead : TRUE, SpaceTrump)
Own == OfSuit(hand, Suit, SpaceTrump)
Required == RequiredOfSuit(hand, lead, Suit, SpaceTrump)
Target == Cardinality(lead)
Count(f) == Cardinality(Copies(hand, f))
FaceSuit(f) == IF IsTrump(f, SpaceTrump) THEN "trump" ELSE f.suit

\* The width of the selected faces of a set, and the faces after a selection.
Width(sel, faces) == MapThenSumSet(LAMBDA f : sel[f], DOMAIN sel \cap faces)
After(sel, f) == \A g \in DOMAIN sel : FaceKey(f) > FaceKey(g)
---------------------------------------------------------------------------
(* can_complete *)

HasTractor == TractorRuns(Own, SpaceTrump) # {}

\* _valid_pair_plans over every decomposition.
PairPlans ==
  {plan \in SUBSET PairFaces(Own) :
     /\ 2 * Cardinality(plan) <= Target
     /\ ValidPairs(Own, lead, plan, SpaceTrump)}

\* _single_capacity_after_last: faces left to take one card of.
SinglesLeft(sel, taken) ==
  Cardinality({f \in FacesOf(Own) \ taken : After(sel, f)})

\* _can_complete_without_tractor
CompletesWithPairs(sel) ==
  LET chosen == Cardinality({f \in DOMAIN sel : sel[f] = 2})
      future == {f \in PairFaces(Own) \ DOMAIN sel : After(sel, f)}
  IN \E n \in 0..Cardinality(future) :
       LET width == Width(sel, SpaceFaces) + 2 * n
       IN /\ chosen + n >= PairFloor(Own, lead)
          /\ width <= Target
          /\ Target - width <= SinglesLeft(sel, DOMAIN sel) - n

\* _can_complete_with_pair_plans
CompletesWithPlan(sel) ==
  LET pairs == {f \in DOMAIN sel : sel[f] = 2}
  IN \E plan \in PairPlans :
       LET width == Width(sel, SpaceFaces) + 2 * Cardinality(plan \ pairs)
       IN /\ pairs \subseteq plan
          /\ \A f \in plan : f \in DOMAIN sel => f \in pairs
          /\ \A f \in plan \ pairs : After(sel, f)
          /\ width <= Target
          /\ Target - width <= SinglesLeft(sel, DOMAIN sel \cup plan)

\* bind_face_counts: the first copies of every selected face.
Bound(sel) ==
  UNION {{c \in Copies(hand, f) : sel[f] = 2 \/ c.deck = Min({d.deck : d \in Copies(hand, f)})} :
           f \in DOMAIN sel}

\* _can_complete_same_suit
CompletesInSuit(sel) ==
  IF Width(sel, SpaceFaces) = Target THEN LegalFollow(hand, Bound(sel), lead, SpaceTrump)
  ELSE IF HasTractor THEN CompletesWithPlan(sel) ELSE CompletesWithPairs(sel)

\* _can_complete_exhausting_suit: no card of the suit may be skipped.
CompletesExhausting(sel) ==
  LET off == FacesOf(hand \ Own)
      passed(f) == \E g \in DOMAIN sel : FaceKey(f) <= FaceKey(g)
      left == MapThenSumSet(Count, {f \in off : ~passed(f)})
  IN /\ \A f \in FacesOf(Own) : passed(f) => f \in DOMAIN sel /\ sel[f] = Count(f)
     /\ left >= Target - Required - Width(sel, off)

CanComplete(sel) ==
  LET same == Width(sel, {f \in SpaceFaces : FaceSuit(f) = Suit})
      all == Width(sel, SpaceFaces)
  IN /\ \A f \in DOMAIN sel : sel[f] <= Count(f)
     /\ all <= Target
     /\ same <= Required
     /\ all - same <= Target - Required
     /\ IF Required = Target THEN CompletesInSuit(sel) ELSE CompletesExhausting(sel)

\* allowed_next
Allowed(sel, f, n) ==
  /\ Width(sel, SpaceFaces) < Target
  /\ After(sel, f)
  /\ n <= Count(f)
  /\ CanComplete([g \in DOMAIN sel \cup {f} |-> IF g = f THEN n ELSE sel[g]])
=============================================================================
