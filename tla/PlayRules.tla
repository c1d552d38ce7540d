------------------------------ MODULE PlayRules ------------------------------
(***************************************************************************)
(* The pure lead and comparison rules over every pair of small hands: an   *)
(* attempted lead and the cards of one opponent.  The algorithms of        *)
(* _patterns, _throw and _compare are checked against what they are for.   *)
(***************************************************************************)
EXTENDS Play

CONSTANTS
  RuleHands,  \* what is dealt: faces, and bounds on the cards led and answered
  RuleTrump   \* the trump they are played under

ASSUME RuleAssumption ==
  /\ RuleHands \subseteq [faces : SUBSET Faces, lead : Nat, answer : Nat]
  /\ RuleTrump \in Trumps

VARIABLES attempted, opponent
leadVars == <<attempted, opponent>>

\* Two hands are given by how many copies of each face they hold.
First(f) == UNION {{[face |-> x, deck |-> k] : k \in 1..f[x]} : x \in DOMAIN f}
Last(g) == UNION {{[face |-> x, deck |-> 3 - k] : k \in 1..g[x]} : x \in DOMAIN g}

LeadInit ==
  \E h \in RuleHands : \E f, g \in [h.faces -> 0..2] :
    /\ \A x \in h.faces : f[x] + g[x] <= 2
    /\ attempted = First(f) /\ opponent = Last(g)
    /\ Cardinality(attempted) \in 1..h.lead
    /\ Cardinality(opponent) <= h.answer
    /\ LegalLead(attempted, RuleTrump)

\* The lead is resolved: what really leads replaces what was attempted.
Resolve ==
  /\ attempted # {}
  /\ attempted' = ResolveLead(attempted, {opponent}, RuleTrump)
  /\ UNCHANGED opponent

LeadIdle == attempted = {} /\ opponent = {}
---------------------------------------------------------------------------
(* Properties *)

\* The same-suit plays an opponent could answer one pattern with: as many
\* cards, of the same shape.
Answers(p) ==
  {w \in SUBSET OfSuit(opponent, LeadSuit(p.cards, RuleTrump), RuleTrump) :
     /\ Cardinality(w) = Cardinality(p.cards)
     /\ Shape(w, RuleTrump) = Shape(p.cards, RuleTrump)}

\* The greedy analysis loses and repeats no card, even where several faces of
\* one tier compete for a tractor.
PatternsPartition ==
  LET patterns == Analyze(attempted, RuleTrump)
  IN /\ UNION {p.cards : p \in patterns} = attempted
     /\ \A p, q \in patterns : p # q => p.cards \cap q.cards = {}
     /\ \A p \in patterns : Cardinality(p.cards) = IF p.pairs = 0 THEN 1 ELSE 2 * p.pairs

\* _is_biggest looks only at the analysed patterns of a hand, yet it is true
\* exactly when no same-shape answer at all would win the trick.
BiggestIsUnbeatable ==
  \A p \in Analyze(attempted, RuleTrump) :
    IsBiggest(p, {opponent}, RuleTrump)
      <=> \A w \in Answers(p) : ~Wins(w, p.cards, p.cards, RuleTrump)

\* A throw is cut down only to one of its patterns, to one that can be beaten,
\* and every pattern shorter than it was safe.
ForcedIsSmallestBeatable ==
  LET led == ResolveLead(attempted, {opponent}, RuleTrump)
  IN led # attempted =>
       \E p \in Analyze(attempted, RuleTrump) :
         /\ p.cards = led
         /\ \E w \in Answers(p) : Wins(w, p.cards, p.cards, RuleTrump)
         /\ \A q \in Analyze(attempted, RuleTrump) :
              q.pairs < p.pairs => \A w \in Answers(q) : ~Wins(w, q.cards, q.cards, RuleTrump)

\* The three things resolving a lead relies on: a throw that stands loses no
\* pattern in the analysis and cannot be beaten, and one that fails is cut down
\* to the right part.
ThrowsStand == PatternsPartition /\ BiggestIsUnbeatable /\ ForcedIsSmallestBeatable

\* The sequential scan of a trick finds a play no other play of it beats, and
\* of equals the earliest: the comparison is an order, whatever is thrown in.
\* (Only two plays fit in the opponent's cards: the second is repeated, a tie.)
WinnerUnbeaten ==
  attempted # {} =>
  LET size == Cardinality(attempted)
      slot(a, cards) == [actor |-> a, cards |-> cards]
      plays == {w \in SUBSET opponent : Cardinality(w) = size}
  IN \A b, c \in plays : b \cap c = {} =>
       LET slots == <<slot(1, attempted), slot(2, b), slot(3, c), slot(4, b)>>
           won == WinningSlot(slots, RuleTrump)
       IN \A i \in 1..4 :
            /\ ~Wins(slots[i].cards, won.cards, attempted, RuleTrump)
            /\ i < won.actor => Wins(won.cards, slots[i].cards, attempted, RuleTrump)
=============================================================================
