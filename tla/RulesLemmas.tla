----------------------------- MODULE RulesLemmas -----------------------------
(***************************************************************************)
(* What the pure rules return, for every hand: the facts about Play and    *)
(* Declarations that the proofs about the game engine rest on.             *)
(***************************************************************************)
EXTENDS Play, Follow, Declarations, FiniteSetTheorems, WellFoundedInduction, TLAPS

(* Every non-empty set of naturals has a least element. *)
LEMMA LeastNatural ==
  ASSUME NEW S \in SUBSET Nat, S # {}
  PROVE  \E m \in S : \A n \in S : m <= n
<1>1. IsWellFoundedOn(OpToRel(<, Nat), Nat)
  BY NatLessThanWellFounded
<1>2. PICK m \in S : \A n \in S : ~(<<n, m>> \in OpToRel(<, Nat))
  BY <1>1, WFMin
<1>3. \A n \in S : ~(n < m)
  BY <1>2 DEF OpToRel
<1> QED
  BY <1>3

(* Every non-empty bounded set of naturals has a greatest element. *)
LEMMA GreatestNatural ==
  ASSUME NEW S \in SUBSET Nat, S # {}, NEW b \in Nat, \A n \in S : n <= b
  PROVE  /\ Max(S) \in S
         /\ \A n \in S : n <= Max(S)
<1> DEFINE T == {b - n : n \in S}
<1>1. \A n \in S : b - n \in Nat
  <2> TAKE n \in S
  <2>1. n \in Nat /\ n <= b
    OBVIOUS
  <2> QED
    BY <2>1
<1>2. T \in SUBSET Nat /\ T # {}
  BY <1>1
<1>3. PICK d \in T : \A e \in T : d <= e
  BY <1>2, LeastNatural
<1>4. PICK m \in S : d = b - m
  OBVIOUS
<1>5. \A n \in S : n <= m
  <2> TAKE n \in S
  <2>1. b - m <= b - n
    BY <1>3, <1>4
  <2>2. n \in Nat /\ m \in Nat
    OBVIOUS
  <2> QED
    BY <2>1, <2>2
<1> QED
  BY <1>5 DEF Max

---------------------------------------------------------------------------
(* Faces and patterns *)

LEMMA FaceKeyType ==
  ASSUME NEW f \in Faces
  PROVE  FaceKey(f) \in Nat
<1>1. f.rank \in Nat
  BY DEF Faces, SuitedRanks, SmallJoker, BigJoker
<1>2. f.suit \in {"hearts", "spades", "diamonds", "clubs", "joker"}
  BY DEF Faces, Suits
<1>3. SuitPosition[f.suit] \in Nat
  BY <1>2 DEF SuitPosition
<1> QED
  BY <1>1, <1>3 DEF FaceKey

LEMMA FirstFaceIn ==
  ASSUME NEW S \in SUBSET Faces, S # {}
  PROVE  FirstFace(S) \in S
<1> DEFINE K == {FaceKey(f) : f \in S}
<1>1. K \in SUBSET Nat /\ K # {}
  BY FaceKeyType
<1>2. PICK k \in K : \A j \in K : k <= j
  BY <1>1, LeastNatural
<1>3. \E f \in S : \A g \in S : FaceKey(f) <= FaceKey(g)
  BY <1>2
<1> QED
  BY <1>3 DEF FirstFace

LEMMA FacesFinite ==
  ASSUME NEW cards, IsFiniteSet(cards)
  PROVE  IsFiniteSet(PairFaces(cards)) /\ PairFaces(cards) \subseteq FacesOf(cards)
<1> DEFINE face == [c \in cards |-> c.face]
<1>1. face \in Surjection(cards, FacesOf(cards))
  BY DEF Surjection, FacesOf
<1>2. IsFiniteSet(FacesOf(cards))
  BY <1>1, FS_Surjection
<1>3. PairFaces(cards) \subseteq FacesOf(cards)
  BY DEF PairFaces
<1> QED
  BY <1>2, <1>3, FS_Subset

LEMMA RunFacesIn ==
  ASSUME NEW cards \in SUBSET Card, IsFiniteSet(cards), NEW trump,
         NEW run \in TractorRuns(cards, trump)
  PROVE  /\ RunFaces(cards, trump, run) \subseteq PairFaces(cards)
         /\ RunFaces(cards, trump, run) # {}
<1>1. run \subseteq {Tier(f, trump) : f \in PairFaces(cards)} /\ Cardinality(run) >= 2
  BY DEF TractorRuns
<1>2. run # {}
  BY <1>1, FS_EmptySet
<1>3. PairFaces(cards) \subseteq Faces
  BY DEF PairFaces, FacesOf, Card
<1>4. \A t \in run : FirstFace({f \in PairFaces(cards) : Tier(f, trump) = t}) \in PairFaces(cards)
  <2> TAKE t \in run
  <2> DEFINE S == {f \in PairFaces(cards) : Tier(f, trump) = t}
  <2>1. S \in SUBSET Faces /\ S # {}
    BY <1>1, <1>3
  <2>2. FirstFace(S) \in S
    BY <2>1, FirstFaceIn
  <2> QED
    BY <2>2
<1> QED
  BY <1>2, <1>4 DEF RunFaces

(* Every pattern of an analysis is a non-empty part of the cards. *)
LEMMA PatternIn ==
  ASSUME NEW cards \in SUBSET Card, IsFiniteSet(cards), NEW trump,
         NEW p \in Analyze(cards, trump)
  PROVE  /\ p.cards \in SUBSET cards
         /\ p.cards # {}
         /\ p.pairs \in Nat
<1> DEFINE Built(faces) == faces \subseteq PairFaces(cards) /\ faces # {}
<1>1. ASSUME NEW faces, Built(faces), p = PatternOf(cards, faces)
      PROVE  p.cards \in SUBSET cards /\ p.cards # {} /\ p.pairs \in Nat
  <2>1. IsFiniteSet(faces) /\ faces \subseteq FacesOf(cards)
    BY <1>1, FacesFinite, FS_Subset
  <2>2. Cardinality(faces) \in Nat
    BY <2>1, FS_CardinalityType
  <2> QED
    BY <1>1, <2>1, <2>2 DEF PatternOf, FacesOf
<1>2. CASE p \in Tractors(cards, trump)
  <2>1. PICK run \in TractorRuns(cards, trump) :
          p = PatternOf(cards, RunFaces(cards, trump, run))
    BY <1>2 DEF Tractors
  <2>2. Built(RunFaces(cards, trump, run))
    BY RunFacesIn
  <2> QED
    BY <1>1, <2>1, <2>2
<1>3. CASE p \in LoosePairs(cards, trump)
  <2>1. PICK f \in PairFaces(cards) : p = PatternOf(cards, {f})
    BY <1>3 DEF LoosePairs
  <2>2. Built({f})
    OBVIOUS
  <2> QED
    BY <1>1, <2>1, <2>2
<1>4. CASE p \in Singles(cards)
  BY <1>4 DEF Singles
<1> QED
  BY <1>2, <1>3, <1>4 DEF Analyze

LEMMA AnalyzeNonEmpty ==
  ASSUME NEW cards, cards # {}, NEW trump
  PROVE  Analyze(cards, trump) # {}
<1>1. PICK c \in cards : TRUE
  OBVIOUS
<1>2. CASE c.face \notin PairFaces(cards)
  BY <1>2 DEF Analyze, Singles
<1>3. CASE c.face \in PairFaces(cards) /\ TractorRuns(cards, trump) = {}
  BY <1>3 DEF Analyze, LoosePairs
<1>4. CASE TractorRuns(cards, trump) # {}
  BY <1>4 DEF Analyze, Tractors
<1> QED
  BY <1>2, <1>3, <1>4

---------------------------------------------------------------------------
(* Throws *)

LEMMA TrumpOrderType ==
  ASSUME NEW c \in Card, NEW trump \in Trumps
  PROVE  TrumpOrder(c, trump) \in 0..100
<1>1. c.face \in Faces
  BY DEF Card
<1>2. CASE c.face.suit = "joker"
  BY <1>1, <1>2 DEF Faces, TrumpOrder, SmallJoker, BigJoker, Suits
<1>3. CASE c.face.rank \in SuitedRanks
  BY <1>1, <1>3 DEF TrumpOrder, SmallJoker, BigJoker, SuitedRanks
<1> QED
  BY <1>1, <1>2, <1>3 DEF Faces

LEMMA MaxOrderType ==
  ASSUME NEW cards \in SUBSET Card, cards # {}, NEW trump \in Trumps
  PROVE  MaxOrder(cards, trump) \in Nat
<1> DEFINE orders == {TrumpOrder(c, trump) : c \in cards}
<1>1. orders \in SUBSET Nat /\ orders # {} /\ \A n \in orders : n <= 100
  BY TrumpOrderType
<1>2. Max(orders) \in orders
  BY <1>1, GreatestNatural
<1> QED
  BY <1>1, <1>2 DEF MaxOrder

(* Of the patterns of a throw that fail one is forced before all others.   *)
LEMMA OneIsForced ==
  ASSUME NEW attempted \in SUBSET Card, IsFiniteSet(attempted),
         NEW trump \in Trumps, NEW failing \in SUBSET Analyze(attempted, trump), failing # {}
  PROVE  \E p \in failing : \A q \in failing : VerifiedBefore(p, q, trump)
<1> DEFINE patterns == Analyze(attempted, trump)
           first(p) == Min({FaceKey(c.face) : c \in p.cards})
           top(p) == MaxOrder(p.cards, trump)
<1>1. \A p \in patterns : /\ p.cards \in SUBSET attempted
                          /\ p.cards # {}
                          /\ Level(p) \in Nat
  BY PatternIn DEF Level
<1>2. \A p \in patterns : top(p) \in Nat
  BY <1>1, MaxOrderType
<1>3. \A p \in patterns : first(p) \in Nat
  <2> TAKE p \in patterns
  <2> DEFINE keys == {FaceKey(c.face) : c \in p.cards}
  <2>1. \A c \in p.cards : c.face \in Faces
    BY <1>1 DEF Card
  <2>2. keys \in SUBSET Nat /\ keys # {}
    BY <1>1, <2>1, FaceKeyType
  <2>3. \E m \in keys : \A n \in keys : m <= n
    BY <2>2, LeastNatural
  <2>4. Min(keys) \in keys
    BY <2>3 DEF Min
  <2> QED
    BY <2>2, <2>4
<1> DEFINE Low == {Level(p) : p \in failing}
<1>4. PICK l \in Low : \A m \in Low : l <= m
  <2>1. Low \in SUBSET Nat /\ Low # {}
    BY <1>1
  <2> QED
    BY <2>1, LeastNatural
<1> DEFINE shortest == {p \in failing : Level(p) = l}
           Weak == {top(p) : p \in shortest}
<1>5. shortest # {}
  BY <1>4
<1>6. PICK w \in Weak : \A m \in Weak : w <= m
  <2>1. Weak \in SUBSET Nat /\ Weak # {}
    BY <1>2, <1>5
  <2> QED
    BY <2>1, LeastNatural
<1> DEFINE weakest == {p \in shortest : top(p) = w}
           Left == {first(p) : p \in weakest}
<1>7. weakest # {}
  BY <1>6
<1>8. PICK k \in Left : \A m \in Left : k <= m
  <2>1. Left \in SUBSET Nat /\ Left # {}
    BY <1>3, <1>7
  <2> QED
    BY <2>1, LeastNatural
<1>9. PICK p \in weakest : first(p) = k
  BY <1>8
<1>10. \A q \in failing : VerifiedBefore(p, q, trump)
  <2> TAKE q \in failing
  <2>1. Level(p) <= Level(q) /\ Level(p) \in Nat /\ Level(q) \in Nat
    BY <1>1, <1>4, <1>9
  <2>2. Level(p) = Level(q) => top(p) <= top(q)
    BY <1>6, <1>9
  <2>3. Level(p) = Level(q) /\ top(p) = top(q) => first(p) <= first(q)
    BY <1>8, <1>9
  <2>4. top(p) \in Nat /\ top(q) \in Nat
    BY <1>2, <1>9
  <2> HIDE DEF first, top
  <2>5. \/ Level(p) < Level(q)
        \/ Level(p) = Level(q) /\ top(p) < top(q)
        \/ Level(p) = Level(q) /\ top(p) = top(q) /\ first(p) <= first(q)
    BY <2>1, <2>2, <2>3, <2>4
  <2> QED
    BY <2>5 DEF VerifiedBefore, first, top
<1> QED
  BY <1>9, <1>10

(* What is led is a non-empty part of what was attempted: a single pattern *)
(* when a throw fails, because the failing pattern to force always exists. *)
LEMMA ResolveLeadIn ==
  ASSUME NEW attempted \in SUBSET Card, IsFiniteSet(attempted), attempted # {},
         NEW others, NEW trump \in Trumps
  PROVE  /\ ResolveLead(attempted, others, trump) \in SUBSET attempted
         /\ ResolveLead(attempted, others, trump) # {}
         /\ \/ ResolveLead(attempted, others, trump) = attempted
            \/ \E p \in Analyze(attempted, trump) :
                 /\ ~IsBiggest(p, others, trump) /\ ResolveLead(attempted, others, trump) = p.cards
                 /\ \A q \in Analyze(attempted, trump) :
                      ~IsBiggest(q, others, trump) => p.pairs <= q.pairs
<1> DEFINE failing == {p \in Analyze(attempted, trump) : ~IsBiggest(p, others, trump)}
           forced == CHOOSE x \in failing : \A q \in failing : VerifiedBefore(x, q, trump)
<1>1. \A p \in Analyze(attempted, trump) : /\ p.cards \in SUBSET attempted
                                           /\ p.cards # {}
                                           /\ p.pairs \in Nat
  BY PatternIn
<1>2. CASE failing = {}
  BY <1>2 DEF ResolveLead
<1>3. CASE failing # {}
  <2>1. \E p \in failing : \A q \in failing : VerifiedBefore(p, q, trump)
    <3> HIDE DEF failing
    <3>1. failing \in SUBSET Analyze(attempted, trump)
      BY DEF failing
    <3> QED
      BY <1>3, <3>1, OneIsForced
  <2>2. forced \in failing /\ \A q \in failing : VerifiedBefore(forced, q, trump)
    BY <2>1
  <2>3. ResolveLead(attempted, others, trump) = forced.cards
    BY <1>3 DEF ResolveLead
  <2> HIDE DEF forced
  <2>4. \A q \in failing : Level(forced) <= Level(q)
    <3> TAKE q \in failing
    <3>1. VerifiedBefore(forced, q, trump)
      BY <2>2
    <3>2. Level(forced) \in Nat /\ Level(q) \in Nat
      BY <1>1, <2>2 DEF Level
    <3> HIDE DEF failing
    <3> QED
      BY <3>1, <3>2 DEF VerifiedBefore
  <2>5. \A q \in failing : forced.pairs <= q.pairs
    BY <1>1, <2>2, <2>4 DEF Level
  <2> QED
    BY <1>1, <2>2, <2>3, <2>5
<1> QED
  BY <1>2, <1>3

---------------------------------------------------------------------------
(* The winner of a trick, points and levels *)

LEMMA WinningSlotIn ==
  ASSUME NEW slots, NEW trump
  PROVE  \E i \in 1..4 : WinningSlot(slots, trump) = slots[i]
BY DEF WinningSlot

LEMMA PointsOfType ==
  ASSUME NEW cards, IsFiniteSet(cards)
  PROVE  PointsOf(cards) \in Nat
<1>1. \A S \in SUBSET cards : Cardinality(S) \in Nat
  BY FS_Subset, FS_CardinalityType
<1> QED
  BY <1>1 DEF PointsOf

LEMMA BottomMultiplierType ==
  ASSUME NEW cards \in SUBSET Card, IsFiniteSet(cards), cards # {}, NEW trump
  PROVE  BottomMultiplier(cards, trump) \in Int
<1> DEFINE widths == {Cardinality(p.cards) : p \in Analyze(cards, trump)}
           width == Max(widths)
<1>1. \A p \in Analyze(cards, trump) :
        Cardinality(p.cards) \in Nat /\ Cardinality(p.cards) <= Cardinality(cards)
  BY PatternIn, FS_Subset, FS_CardinalityType
<1>2. widths \in SUBSET Nat /\ widths # {} /\ \A n \in widths : n <= Cardinality(cards)
  BY <1>1, AnalyzeNonEmpty
<1>3. Cardinality(cards) \in Nat
  BY FS_CardinalityType
<1>4. width \in Nat
  <2>1. width \in widths
    BY <1>2, <1>3, GreatestNatural
  <2> QED
    BY <1>2, <2>1
<1>5. BottomMultiplier(cards, trump) = IF AllOf(cards, "trump", trump) THEN 2^width ELSE 2^width \div 2
  BY DEF BottomMultiplier
<1> HIDE DEF width
<1>6. 2^width \in Int /\ 2^width \div 2 \in Int
  BY <1>4
<1> QED
  BY <1>5, <1>6

LEMMA TotalPointsType ==
  ASSUME NEW captured, IsFiniteSet(captured), NEW bottom, IsFiniteSet(bottom),
         NEW winning \in SUBSET Card, IsFiniteSet(winning), winning # {},
         NEW last, NEW trump
  PROVE  TotalPoints(captured, bottom, winning, last, trump) \in Int
<1>1. PointsOf(captured) \in Nat /\ PointsOf(bottom) \in Nat
  BY PointsOfType
<1>2. BottomMultiplier(winning, trump) \in Int
  BY BottomMultiplierType
<1>3. PointsOf(bottom) * BottomMultiplier(winning, trump) \in Int
  BY <1>1, <1>2
<1> QED
  BY <1>1, <1>3 DEF TotalPoints

LEMMA LevelGainType ==
  ASSUME NEW total \in Int
  PROVE  LevelGain(total) \in Nat
BY DEF LevelGain

(* A team never passes the next mandatory level, and never falls. *)
LEMMA AdvanceStaysInStage ==
  ASSUME NEW level \in SuitedRanks, NEW gain \in Nat, NEW wasDeclarer,
         NEW mandatory \in SUBSET SuitedRanks
  PROVE  LET next == Advance(level, gain, wasDeclarer, mandatory).level
         IN  /\ next \in SuitedRanks
             /\ level <= next
             /\ \A m \in mandatory : ~(level < m /\ m < next)
<1> DEFINE above == {m \in mandatory : m > level}
           target == StageTarget(level, mandatory)
<1>1. CASE above = {}
  BY <1>1 DEF Advance, StageTarget, Win, SuitedRanks
<1>2. CASE above # {}
  <2>1. above \in SUBSET Nat
    <3>1. \A m \in SuitedRanks : m \in Nat
      BY DEF SuitedRanks
    <3> QED
      BY <3>1
  <2>2. \E m \in above : \A n \in above : m <= n
    BY <1>2, <2>1, LeastNatural
  <2>3. Min(above) \in above /\ \A n \in above : Min(above) <= n
    BY <2>2 DEF Min
  <2>4. target = Min(above)
    BY <1>2 DEF StageTarget
  <2>5. target \in SuitedRanks /\ target > level /\ \A m \in mandatory : level < m => target <= m
    BY <2>3, <2>4
  <2>6. Advance(level, gain, wasDeclarer, mandatory).level
          \in {level, IF level + gain < target THEN level + gain ELSE target}
    BY <2>5 DEF Advance, Win, SuitedRanks
  <2> HIDE DEF target
  <2> QED
    BY <2>5, <2>6 DEF SuitedRanks
<1> QED
  BY <1>1, <1>2

---------------------------------------------------------------------------
(* Declarations *)

LEMMA ShapeNotEmpty ==
  ASSUME NEW cards, NEW rank, ValidShape(cards, rank)
  PROVE  cards # {}
BY FS_EmptySet DEF ValidShape

LEMMA DeclaredSuitType ==
  ASSUME NEW cards \in SUBSET Card, cards # {}
  PROVE  DeclaredSuit(cards) \in Suits \cup {NoSuit}
<1>1. PICK c \in cards : c = CHOOSE d \in cards : TRUE
  OBVIOUS
<1>2. c.face \in Faces
  BY DEF Card
<1> QED
  BY <1>1, <1>2 DEF DeclaredSuit, Faces
---------------------------------------------------------------------------
(* Runs of tiers *)

LEMMA TierType ==
  ASSUME NEW f \in Faces, NEW trump \in Trumps
  PROVE  Tier(f, trump) \in Int
<1>1. f.rank \in Int /\ trump.rank \in Int
  BY DEF Faces, Trumps, SuitedRanks, SmallJoker, BigJoker
<1> QED
  BY <1>1 DEF Tier

LEMMA IntervalEnds ==
  ASSUME NEW a \in Int, NEW b \in Int, a <= b
  PROVE  Min(a..b) = a /\ Max(a..b) = b
<1>1. /\ a \in a..b /\ \A n \in a..b : a <= n
      /\ b \in a..b /\ \A n \in a..b : n <= b
  OBVIOUS
<1>2. \A m \in a..b : (\A n \in a..b : m <= n) => m = a
  BY <1>1
<1>3. \A m \in a..b : (\A n \in a..b : m >= n) => m = b
  BY <1>1
<1> QED
  BY <1>1, <1>2, <1>3 DEF Min, Max

(* A run is an interval of at least two tiers, each of which a pair occupies. *)
LEMMA RunIsAnInterval ==
  ASSUME NEW cards \in SUBSET Card, NEW trump \in Trumps, NEW run \in TractorRuns(cards, trump)
  PROVE  \E a, b \in Int :
           /\ a < b /\ run = a..b
           /\ \A t \in a..b : \E f \in PairFaces(cards) : Tier(f, trump) = t
<1> DEFINE occupied == {Tier(f, trump) : f \in PairFaces(cards)}
<1>1. PairFaces(cards) \subseteq Faces
  BY DEF PairFaces, FacesOf, Card
<1>2. occupied \subseteq Int
  BY <1>1, TierType
<1>3. PICK a \in occupied, b \in occupied : run = a..b
  BY DEF TractorRuns
<1>4. Cardinality(run) >= 2 /\ run \subseteq occupied
  BY DEF TractorRuns
<1>5. a \in Int /\ b \in Int
  BY <1>2
<1>6. a < b
  <2>1. Cardinality(a..b) = IF a > b THEN 0 ELSE b - a + 1
    BY <1>5, FS_Interval
  <2> QED
    BY <1>3, <1>4, <1>5, <2>1
<1> QED
  BY <1>3, <1>4, <1>5, <1>6

---------------------------------------------------------------------------
(* Following *)

(* Whoever plays all cards behind a lead of as many follows legally: there *)
(* is nothing else to play, so no rule on pairs or tractors is broken.     *)
LEMMA AllCardsFollow ==
  ASSUME NEW hand \in SUBSET Card, IsFiniteSet(hand), NEW trump \in Trumps,
         NEW lead, IsFiniteSet(lead), lead # {},
         Cardinality(hand) = Cardinality(lead)
  PROVE  LegalFollow(hand, hand, lead, trump)
<1> DEFINE suit == EffectiveSuit(CHOOSE c \in lead : TRUE, trump)
           own == OfSuit(hand, suit, trump)
           pairs == PairFaces(own)
           runs == TractorRuns(own, trump)
<1>1. own \in SUBSET hand /\ own \in SUBSET Card /\ IsFiniteSet(own)
  BY FS_Subset DEF OfSuit
<1>2. /\ Cardinality(hand) \in Nat /\ Cardinality(own) \in Nat
      /\ Cardinality(own) <= Cardinality(hand)
  BY <1>1, FS_Subset, FS_CardinalityType
<1>3. hand # {}
  BY FS_EmptySet
<1>4. Cardinality(own) = RequiredOfSuit(hand, lead, suit, trump)
  BY <1>2 DEF RequiredOfSuit
<1>5. ValidPairs(own, lead, pairs, trump)
  <2> HIDE DEF own
  <2>1. /\ IsFiniteSet(pairs) /\ pairs \subseteq Faces
        /\ Cardinality(pairs) \in Nat /\ Cardinality(PairFaces(lead)) \in Nat
    <3>1. IsFiniteSet(pairs) /\ IsFiniteSet(PairFaces(lead))
      BY <1>1, FacesFinite
    <3>2. pairs \subseteq Faces
      BY <1>1 DEF PairFaces, FacesOf, Card
    <3> QED
      BY <3>1, <3>2, FS_CardinalityType
  <2>2. Cardinality(pairs) >= PairFloor(own, lead)
    BY <2>1 DEF PairFloor
  <2>3. \A r \in runs : \A t \in r : \E f \in pairs : Tier(f, trump) = t
    <3> TAKE r \in runs
    <3>1. \E a, b \in Int :
            /\ a < b /\ r = a..b
            /\ \A t \in a..b : \E f \in PairFaces(own) : Tier(f, trump) = t
      BY <1>1, RunIsAnInterval, Zenon
    <3> QED
      BY <3>1
  <2> DEFINE d == [t \in UNION runs |-> CHOOSE f \in pairs : Tier(f, trump) = t]
  <2>4. \A t \in UNION runs : d[t] \in pairs /\ Tier(d[t], trump) = t
    BY <2>3
  <2>5. d \in Decompositions(own, trump)
    BY <2>4 DEF Decompositions
  <2> HIDE DEF d
  <2>6. PriorityKept(own, d, pairs, Cardinality(PairFaces(lead)), trump)
    <3> DEFINE level == [f \in pairs |-> SegmentLevel(own, d, f, trump)]
    <3>1. ASSUME NEW l
          PROVE  Cardinality({f \in pairs : level[f] = l})
                   >= Cardinality({f \in pairs : level[f] = l})
      <4> HIDE DEF level, pairs
      <4>1. {f \in pairs : level[f] = l} \in SUBSET pairs
        OBVIOUS
      <4>2. Cardinality({f \in pairs : level[f] = l}) \in Nat
        BY <2>1, <4>1, FS_Subset, FS_CardinalityType
      <4> QED
        BY <4>2
    <3> HIDE DEF level
    <3> QED
      BY <3>1 DEF PriorityKept, level
  <2>7. Unbroken(own, d, pairs, trump)
    <3>1. SUFFICES ASSUME NEW r \in runs
                   PROVE  {t \in r : d[t] \in pairs} = Min({t \in r : d[t] \in pairs})
                                                         ..Max({t \in r : d[t] \in pairs})
      BY DEF Unbroken
    <3>2. {t \in r : d[t] \in pairs} = r
      BY <2>4
    <3>3. PICK a, b \in Int : a < b /\ r = a..b
      BY <1>1, RunIsAnInterval
    <3>4. Min(r) = a /\ Max(r) = b
      BY <3>3, IntervalEnds
    <3> QED
      BY <3>2, <3>3, <3>4
  <2> QED
    BY <2>2, <2>5, <2>6, <2>7 DEF ValidPairs
<1> QED
  BY <1>3, <1>4, <1>5 DEF LegalFollow
---------------------------------------------------------------------------
(* One pattern alone *)

(* Both copies of the n faces, one face for each of n neighbouring tiers.  *)
IsRun(cards, faces, t, n, trump) ==
  /\ faces \subseteq Faces /\ cards = [face : faces, deck : {1, 2}]
  /\ t \in Int /\ n \in Nat \ {0}
  /\ {Tier(f, trump) : f \in faces} = t..(t + n - 1)
  /\ \A f, g \in faces : Tier(f, trump) = Tier(g, trump) => f = g

LEMMA RunSize ==
  ASSUME NEW cards, NEW faces, NEW t, NEW n, NEW trump, IsRun(cards, faces, t, n, trump)
  PROVE  /\ IsFiniteSet(faces) /\ Cardinality(faces) = n
         /\ IsFiniteSet(cards) /\ Cardinality(cards) = 2 * n
         /\ cards \in SUBSET Card /\ cards # {}
<1> DEFINE tiers == t..(t + n - 1)
<1>1. /\ faces \subseteq Faces /\ cards = [face : faces, deck : {1, 2}]
      /\ t \in Int /\ n \in Nat \ {0}
      /\ \A f \in faces : Tier(f, trump) \in tiers
      /\ \A s \in tiers : \E f \in faces : Tier(f, trump) = s
      /\ \A f, g \in faces : Tier(f, trump) = Tier(g, trump) => f = g
  BY DEF IsRun
<1>2. IsFiniteSet(tiers) /\ Cardinality(tiers) = n /\ t \in tiers
  BY <1>1, FS_Interval
<1> HIDE DEF tiers
<1>3. IsFiniteSet(faces) /\ Cardinality(faces) = n
  <2> DEFINE face == [s \in tiers |-> CHOOSE f \in faces : Tier(f, trump) = s]
  <2>1. \A s \in tiers : face[s] \in faces /\ Tier(face[s], trump) = s
    BY <1>1
  <2>2. face \in [tiers -> faces]
    BY <2>1
  <2> HIDE DEF face
  <2>3. \A f \in faces : f = face[Tier(f, trump)]
    BY <1>1, <2>1
  <2>4. face \in Bijection(tiers, faces)
    BY <1>1, <2>1, <2>2, <2>3 DEF Bijection, Injection, Surjection, IsInjective
  <2> QED
    BY <1>2, <2>4, FS_Bijection DEF ExistsBijection
<1>4. IsFiniteSet(cards) /\ Cardinality(cards) = 2 * n
  <2> DEFINE card == [p \in faces \X {1, 2} |-> [face |-> p[1], deck |-> p[2]]]
  <2>1. card \in Bijection(faces \X {1, 2}, cards)
    <3>1. card \in [faces \X {1, 2} -> cards]
      BY <1>1
    <3>2. \A c \in cards : <<c.face, c.deck>> \in faces \X {1, 2} /\ card[<<c.face, c.deck>>] = c
      BY <1>1
    <3>3. \A p, q \in faces \X {1, 2} : card[p] = card[q] => p = q
      <4> TAKE p, q \in faces \X {1, 2}
      <4> HAVE card[p] = card[q]
      <4>1. [face |-> p[1], deck |-> p[2]] = [face |-> q[1], deck |-> q[2]]
        OBVIOUS
      <4>2. p[1] = q[1] /\ p[2] = q[2]
        BY <4>1
      <4> QED
        BY <4>2
    <3> HIDE DEF card
    <3> QED
      BY <3>1, <3>2, <3>3 DEF Bijection, Injection, Surjection, IsInjective
  <2>2. IsFiniteSet({1, 2}) /\ Cardinality({1, 2}) = 2
    <3>1. IsFiniteSet(1..2) /\ Cardinality(1..2) = 2
      <4>1. 1 \in Int /\ 2 \in Int
        OBVIOUS
      <4>2. IsFiniteSet(1..2) /\ Cardinality(1..2) = IF 1 > 2 THEN 0 ELSE 2 - 1 + 1
        BY <4>1, FS_Interval, Zenon
      <4> QED
        BY <4>2
    <3>2. 1..2 = {1, 2}
      OBVIOUS
    <3> QED
      BY <3>1, <3>2
  <2>3. IsFiniteSet(faces \X {1, 2}) /\ Cardinality(faces \X {1, 2}) = n * 2
    BY <1>3, <2>2, FS_Product
  <2> QED
    BY <1>1, <2>1, <2>3, FS_Bijection DEF ExistsBijection
<1>5. cards # {}
  <2>1. PICK f \in faces : TRUE
    BY <1>1, <1>2
  <2>2. [face |-> f, deck |-> 1] \in cards
    BY <1>1, <2>1
  <2> QED
    BY <2>2
<1> QED
  BY <1>1, <1>3, <1>4, <1>5 DEF Card

(* Both copies of a face are two cards.                                    *)
LEMMA CopiesOfAFace ==
  ASSUME NEW cards \in SUBSET Card, NEW f
  PROVE  Cardinality(Copies(cards, f)) = 2
           <=> [face |-> f, deck |-> 1] \in cards /\ [face |-> f, deck |-> 2] \in cards
<1> DEFINE one == [face |-> f, deck |-> 1]
           two == [face |-> f, deck |-> 2]
<1>1. Copies(cards, f) \subseteq {one, two} /\ one # two
      /\ (one \in Copies(cards, f) <=> one \in cards)
      /\ (two \in Copies(cards, f) <=> two \in cards)
  BY DEF Copies, Card
<1>2. Cardinality({one, two}) = 2 /\ IsFiniteSet({one, two})
      /\ Cardinality({one}) = 1 /\ Cardinality({two}) = 1 /\ Cardinality({}) = 0
  <2> HIDE DEF one, two
  <2>1. \A x : IsFiniteSet({x}) /\ Cardinality({x}) = 1
    BY FS_Singleton
  <2>2. Cardinality({one} \cup {two}) = 1 + 1 /\ IsFiniteSet({one} \cup {two})
    <3>1. two \notin {one}
      BY <1>1
    <3>2. /\ IsFiniteSet({one} \cup {two})
          /\ Cardinality({one} \cup {two})
               = IF two \in {one} THEN Cardinality({one}) ELSE Cardinality({one}) + 1
      BY <2>1, FS_AddElement, Zenon
    <3> QED
      BY <2>1, <3>1, <3>2
  <2>3. {one} \cup {two} = {one, two}
    OBVIOUS
  <2>4. Cardinality({}) = 0
    BY FS_EmptySet
  <2>5. 1 + 1 = 2
    OBVIOUS
  <2> QED
    BY <2>1, <2>2, <2>3, <2>4, <2>5, Zenon
<1> HIDE DEF one, two
<1>3. Copies(cards, f) \in {{}, {one}, {two}, {one, two}}
  BY <1>1
<1>4. Cardinality(Copies(cards, f)) = 2 <=> Copies(cards, f) = {one, two}
  BY <1>2, <1>3
<1> QED
  BY <1>1, <1>4 DEF one, two

LEMMA RunPairs ==
  ASSUME NEW cards, NEW faces, NEW t, NEW n, NEW trump, IsRun(cards, faces, t, n, trump)
  PROVE  PairFaces(cards) = faces /\ Singles(cards) = {}
<1>1. cards = [face : faces, deck : {1, 2}] /\ cards \in SUBSET Card
  BY RunSize DEF IsRun
<1>2. \A f \in faces : Cardinality(Copies(cards, f)) = 2
  BY <1>1, CopiesOfAFace
<1>3. FacesOf(cards) = faces
  <2>1. \A f \in faces : [face |-> f, deck |-> 1] \in cards /\ [face |-> f, deck |-> 1].face = f
    BY <1>1
  <2> QED
    BY <1>1, <2>1 DEF FacesOf
<1>4. PairFaces(cards) = faces
  BY <1>2, <1>3 DEF PairFaces
<1> QED
  BY <1>1, <1>4 DEF Singles

(* The analysis of a run is that run.                                      *)
LEMMA PatternAlone ==
  ASSUME NEW cards, NEW faces, NEW t, NEW n, NEW trump, IsRun(cards, faces, t, n, trump)
  PROVE  Analyze(cards, trump) = {[cards |-> cards, pairs |-> n]}
<1> DEFINE tiers == t..(t + n - 1)
           occupied == {Tier(f, trump) : f \in PairFaces(cards)}
           runs == TractorRuns(cards, trump)
<1>1. /\ PairFaces(cards) = faces /\ Singles(cards) = {}
      /\ Cardinality(faces) = n /\ faces # {} /\ faces \subseteq Faces
  <2>1. PairFaces(cards) = faces /\ Singles(cards) = {}
    BY RunPairs
  <2>2. Cardinality(faces) = n
    BY RunSize
  <2>3. n # 0 /\ faces \subseteq Faces
    BY DEF IsRun
  <2>4. faces # {}
    BY <2>2, <2>3, FS_EmptySet
  <2> QED
    BY <2>1, <2>2, <2>3, <2>4
<1>2. /\ t \in Int /\ n \in Nat \ {0} /\ occupied = tiers
      /\ \A f \in faces : Tier(f, trump) \in tiers
      /\ \A s \in tiers : \E f \in faces : Tier(f, trump) = s
      /\ \A f, g \in faces : Tier(f, trump) = Tier(g, trump) => f = g
  BY <1>1 DEF IsRun
<1>3. PatternOf(cards, faces) = [cards |-> cards, pairs |-> n]
  <2>1. {c \in cards : c.face \in faces} = cards
    BY DEF IsRun
  <2> QED
    BY <1>1, <2>1 DEF PatternOf
<1>4. runs = {r \in {a..b : a \in tiers, b \in tiers} :
                /\ Cardinality(r) >= 2 /\ r \subseteq tiers
                /\ Min(r) - 1 \notin tiers /\ Max(r) + 1 \notin tiers}
  <2> HIDE DEF tiers
  <2> QED
    BY <1>2 DEF TractorRuns
<1>5. CASE n = 1
  <2>1. tiers = t..t
    BY <1>2, <1>5
  <2>2. Cardinality(t..t) = 1
    <3>1. Cardinality(t..t) = IF t > t THEN 0 ELSE t - t + 1
      BY <1>2, FS_Interval, Zenon
    <3> QED
      BY <1>2, <3>1
  <2>3. runs = {}
    <3>1. \A a, b \in tiers : a..b = t..t
      BY <1>2, <2>1
    <3> HIDE DEF tiers, runs
    <3>2. SUFFICES ASSUME NEW r \in runs PROVE FALSE
      OBVIOUS
    <3>3. Cardinality(r) >= 2 /\ \E a, b \in tiers : r = a..b
      BY <1>4
    <3>4. r = t..t
      BY <3>1, <3>3
    <3>5. Cardinality(r) = 1
      BY <2>2, <3>4, Zenon
    <3> QED
      BY <3>3, <3>5
  <2>4. Tractors(cards, trump) = {}
    BY <2>3 DEF Tractors
  <2>5. PICK f \in faces : TRUE
    BY <1>1
  <2>6. faces = {f}
    <3>1. \A g \in faces : Tier(g, trump) = t
      BY <1>2, <2>1
    <3> QED
      BY <1>2, <2>5, <3>1
  <2>7. LoosePairs(cards, trump) = {PatternOf(cards, {g}) : g \in faces}
    BY <1>1, <2>3 DEF LoosePairs
  <2>8. LoosePairs(cards, trump) = {PatternOf(cards, faces)}
    BY <2>6, <2>7
  <2> QED
    BY <1>1, <1>3, <2>4, <2>8 DEF Analyze
<1>6. CASE n # 1
  <2> DEFINE e == t + n - 1
  <2>1. e \in Int /\ t < e /\ tiers = t..e
    BY <1>2, <1>6
  <2> HIDE DEF e, tiers
  <2>2. runs = {tiers}
    <3>1. tiers \in runs
      <4>1. Min(tiers) = t /\ Max(tiers) = e /\ Cardinality(tiers) >= 2
        BY <1>2, <2>1, IntervalEnds, FS_Interval
      <4>2. t \in tiers /\ e \in tiers /\ t - 1 \notin tiers /\ e + 1 \notin tiers
        BY <1>2, <2>1
      <4> QED
        BY <1>4, <2>1, <4>1, <4>2
    <3>2. ASSUME NEW r \in runs PROVE r = tiers
      <4>1. PICK a \in tiers, b \in tiers : r = a..b
        BY <1>4
      <4>2. Cardinality(a..b) >= 2 /\ Min(r) - 1 \notin tiers /\ Max(r) + 1 \notin tiers
        BY <1>4, <4>1
      <4>3. a \in Int /\ b \in Int /\ t <= a /\ b <= e
        BY <1>2, <2>1
      <4>4. a <= b
        BY <4>2, <4>3, FS_Interval
      <4>5. a - 1 \notin tiers /\ b + 1 \notin tiers
        BY <4>1, <4>2, <4>3, <4>4, IntervalEnds
      <4> QED
        BY <1>2, <2>1, <4>1, <4>3, <4>4, <4>5
    <3> QED
      BY <3>1, <3>2
  <2>3. RunFaces(cards, trump, tiers) = faces
    <3> DEFINE At(s) == {f \in faces : Tier(f, trump) = s}
    <3>1. \A s \in tiers : FirstFace(At(s)) \in At(s)
      <4> TAKE s \in tiers
      <4>1. At(s) \in SUBSET Faces /\ At(s) # {}
        BY <1>1, <1>2
      <4> QED
        BY <4>1, FirstFaceIn
    <3>2. RunFaces(cards, trump, tiers) = {FirstFace(At(s)) : s \in tiers}
      BY <1>1 DEF RunFaces
    <3>3. \A f \in faces : FirstFace(At(Tier(f, trump))) = f
      BY <1>2, <3>1
    <3>4. \A s \in tiers : FirstFace(At(s)) \in faces
      BY <3>1
    <3> HIDE DEF At
    <3> QED
      BY <1>2, <3>2, <3>3, <3>4
  <2>4. Tractors(cards, trump) = {PatternOf(cards, faces)}
    BY <2>2, <2>3 DEF Tractors
  <2>5. LoosePairs(cards, trump) = {}
    BY <1>1, <2>2, <2>3 DEF LoosePairs
  <2> QED
    BY <1>1, <1>3, <2>4, <2>5 DEF Analyze
<1> QED
  BY <1>5, <1>6

(* A tractor, a loose pair: each pattern of pairs is a run.                *)
LEMMA RunFacesRun ==
  ASSUME NEW cards \in SUBSET Card, IsFiniteSet(cards), NEW trump \in Trumps,
         NEW run \in TractorRuns(cards, trump)
  PROVE  LET p == PatternOf(cards, RunFaces(cards, trump, run))
         IN  \E t : /\ IsRun(p.cards, RunFaces(cards, trump, run), t, p.pairs, trump)
                    /\ run = t..(t + p.pairs - 1)
<1> DEFINE faces == RunFaces(cards, trump, run)
           At(s) == {f \in PairFaces(cards) : Tier(f, trump) = s}
           p == PatternOf(cards, faces)
<1>1. PICK a, b \in Int : /\ a < b /\ run = a..b
                          /\ \A s \in a..b : \E f \in PairFaces(cards) : Tier(f, trump) = s
  BY RunIsAnInterval
<1>2. PairFaces(cards) \subseteq Faces
  BY DEF PairFaces, FacesOf, Card
<1>3. faces = {FirstFace(At(s)) : s \in a..b}
  BY <1>1 DEF RunFaces
<1>4. \A s \in a..b : FirstFace(At(s)) \in At(s)
  <2> TAKE s \in a..b
  <2>1. At(s) \in SUBSET Faces /\ At(s) # {}
    BY <1>1, <1>2
  <2> HIDE DEF At
  <2> QED
    BY <2>1, FirstFaceIn
<1>5. \A s \in a..b : FirstFace(At(s)) \in PairFaces(cards) /\ Tier(FirstFace(At(s)), trump) = s
  BY <1>4
<1>6. faces \subseteq PairFaces(cards)
  <2> HIDE DEF At, faces
  <2> QED
    BY <1>3, <1>5
<1>7. {Tier(f, trump) : f \in faces} = a..b
  <2> HIDE DEF At, faces
  <2> QED
    BY <1>3, <1>5
<1>8. \A f, g \in faces : Tier(f, trump) = Tier(g, trump) => f = g
  <2> HIDE DEF At, faces
  <2> QED
    BY <1>3, <1>5
<1> HIDE DEF faces, At
<1>9. p.cards = [face : faces, deck : {1, 2}]
  <2>1. \A f \in faces : [face |-> f, deck |-> 1] \in cards /\ [face |-> f, deck |-> 2] \in cards
    BY <1>6, CopiesOfAFace DEF PairFaces
  <2>2. p.cards = {c \in cards : c.face \in faces}
    BY DEF PatternOf
  <2>3. \A c \in p.cards : c \in [face : faces, deck : {1, 2}]
    BY <2>2 DEF Card
  <2>4. \A c \in [face : faces, deck : {1, 2}] : c \in p.cards
    <3>1. SUFFICES ASSUME NEW c \in [face : faces, deck : {1, 2}] PROVE c \in cards
      BY <2>2
    <3>2. c.face \in faces /\ c.deck \in {1, 2} /\ c = [face |-> c.face, deck |-> c.deck]
      OBVIOUS
    <3>3. CASE c.deck = 1
      BY <2>1, <3>2, <3>3
    <3>4. CASE c.deck = 2
      BY <2>1, <3>2, <3>4
    <3> QED
      BY <3>2, <3>3, <3>4
  <2> HIDE DEF p
  <2> QED
    BY <2>3, <2>4
<1>10. p.pairs = (b - a) + 1
  <2> DEFINE n == (b - a) + 1
  <2>1. n \in Nat \ {0} /\ a + n - 1 = b
    BY <1>1
  <2> HIDE DEF n
  <2>2. IsRun(p.cards, faces, a, n, trump)
    BY <1>1, <1>2, <1>6, <1>7, <1>8, <1>9, <2>1 DEF IsRun
  <2>3. Cardinality(faces) = n
    BY <2>2, RunSize
  <2> QED
    BY <2>3 DEF PatternOf, n
<1>11. p.pairs \in Nat \ {0} /\ a + p.pairs - 1 = b
  BY <1>1, <1>10
<1> HIDE DEF p
<1>12. IsRun(p.cards, faces, a, p.pairs, trump)
  BY <1>1, <1>2, <1>6, <1>7, <1>8, <1>9, <1>11 DEF IsRun
<1> QED
  BY <1>1, <1>11, <1>12 DEF p, faces

LEMMA PatternIsRun ==
  ASSUME NEW cards \in SUBSET Card, IsFiniteSet(cards), NEW trump \in Trumps,
         NEW p \in Analyze(cards, trump)
  PROVE  \/ p \in Singles(cards)
         \/ \E faces, t : IsRun(p.cards, faces, t, p.pairs, trump)
<1>1. CASE p \in Tractors(cards, trump)
  <2>1. PICK run \in TractorRuns(cards, trump) : p = PatternOf(cards, RunFaces(cards, trump, run))
    BY <1>1 DEF Tractors
  <2> QED
    BY <2>1, RunFacesRun
<1>2. CASE p \in LoosePairs(cards, trump)
  <2>1. PICK f \in PairFaces(cards) : p = PatternOf(cards, {f})
    BY <1>2 DEF LoosePairs
  <2>2. /\ f \in Faces
        /\ [face |-> f, deck |-> 1] \in cards /\ [face |-> f, deck |-> 2] \in cards
    BY <2>1, CopiesOfAFace DEF PairFaces, FacesOf, Card
  <2>3. p.pairs = 1 /\ p.cards = {c \in cards : c.face \in {f}}
    BY <2>1, FS_Singleton DEF PatternOf
  <2>4. p.cards = [face : {f}, deck : {1, 2}]
    <3>1. \A c \in p.cards : c \in [face : {f}, deck : {1, 2}]
      BY <2>3 DEF Card
    <3>2. ASSUME NEW c \in [face : {f}, deck : {1, 2}] PROVE c \in p.cards
      <4>1. c.face = f /\ c.deck \in {1, 2} /\ c = [face |-> c.face, deck |-> c.deck]
        OBVIOUS
      <4>2. c = [face |-> f, deck |-> 1] \/ c = [face |-> f, deck |-> 2]
        BY <4>1
      <4> QED
        BY <2>2, <2>3, <4>1, <4>2
    <3> QED
      BY <3>1, <3>2
  <2>5. Tier(f, trump) \in Int
    BY <2>2, TierType
  <2>6. {Tier(g, trump) : g \in {f}} = Tier(f, trump)..(Tier(f, trump) + 1 - 1)
    BY <2>5
  <2>7. IsRun(p.cards, {f}, Tier(f, trump), p.pairs, trump)
    <3>1. {f} \subseteq Faces /\ \A g, h \in {f} : g = h
      BY <2>2
    <3>2. 1 \in Nat \ {0}
      OBVIOUS
    <3>3. IsRun(p.cards, {f}, Tier(f, trump), 1, trump)
      BY <2>4, <2>5, <2>6, <3>1, <3>2, Zenon DEF IsRun
    <3> QED
      BY <2>3, <3>3
  <2> QED
    BY <2>7
<1> QED
  BY <1>1, <1>2 DEF Analyze

(* A window of a run is a run.                                             *)
LEMMA WindowIsRun ==
  ASSUME NEW p, NEW faces, NEW t, NEW m, NEW trump, IsRun(p.cards, faces, t, m, trump),
         NEW n \in Nat \ {0}, NEW window \in Windows(p, n, trump)
  PROVE  /\ window \in SUBSET p.cards
         /\ \E some, s : IsRun(window, some, s, n, trump)
<1>1. PICK s \in {Tier(c.face, trump) : c \in p.cards} :
        /\ window = {c \in p.cards : Tier(c.face, trump) \in s..(s + n - 1)}
        /\ \A k \in 0..(n - 1) : \E c \in p.cards : Tier(c.face, trump) = s + k
  BY DEF Windows
<1>2. /\ faces \subseteq Faces /\ p.cards = [face : faces, deck : {1, 2}]
      /\ \A f \in faces : Tier(f, trump) \in t..(t + m - 1)
      /\ t \in Int /\ m \in Nat
      /\ \A f, g \in faces : Tier(f, trump) = Tier(g, trump) => f = g
  BY DEF IsRun
<1>3. s \in Int
  BY <1>1, <1>2
<1> DEFINE some == {f \in faces : Tier(f, trump) \in s..(s + n - 1)}
<1>4. window = [face : some, deck : {1, 2}]
  <2>1. \A c \in window : c \in [face : some, deck : {1, 2}]
    BY <1>1, <1>2
  <2>2. ASSUME NEW c \in [face : some, deck : {1, 2}] PROVE c \in window
    <3>1. c.face \in some /\ c.deck \in {1, 2} /\ c = [face |-> c.face, deck |-> c.deck]
      OBVIOUS
    <3>2. c.face \in faces /\ Tier(c.face, trump) \in s..(s + n - 1)
      BY <3>1
    <3>3. c \in p.cards
      BY <1>2, <3>1, <3>2
    <3> QED
      BY <1>1, <3>2, <3>3
  <2> QED
    BY <2>1, <2>2
<1>5. {Tier(f, trump) : f \in some} = s..(s + n - 1)
  <2>1. \A x \in s..(s + n - 1) : x - s \in 0..(n - 1) /\ x = s + (x - s)
    BY <1>3
  <2>2. \A x \in s..(s + n - 1) : \E c \in p.cards : Tier(c.face, trump) = x
    BY <1>1, <2>1
  <2>3. \A x \in s..(s + n - 1) : \E f \in faces : Tier(f, trump) = x
    BY <1>2, <2>2
  <2> QED
    BY <2>3
<1>6. IsRun(window, some, s, n, trump)
  BY <1>2, <1>3, <1>4, <1>5 DEF IsRun
<1> QED
  BY <1>1, <1>6

LEMMA NoPairsNoRuns ==
  ASSUME NEW cards, NEW trump, PairFaces(cards) = {}
  PROVE  TractorRuns(cards, trump) = {}
<1> SUFFICES ASSUME NEW run \in TractorRuns(cards, trump) PROVE FALSE
  OBVIOUS
<1> DEFINE occupied == {Tier(f, trump) : f \in PairFaces(cards)}
<1>1. PICK a \in occupied, b \in occupied : run = a..b
  BY DEF TractorRuns
<1> QED
  BY <1>1

LEMMA SingleAlone ==
  ASSUME NEW c, NEW trump
  PROVE  Analyze({c}, trump) = {[cards |-> {c}, pairs |-> 0]}
<1>1. PairFaces({c}) = {}
  <2>1. \A f : Copies({c}, f) \in {{}, {c}}
    BY DEF Copies
  <2>2. Cardinality({}) = 0 /\ Cardinality({c}) = 1
    BY FS_EmptySet, FS_Singleton
  <2>3. \A f : Cardinality(Copies({c}, f)) # 2
    BY <2>1, <2>2
  <2> QED
    BY <2>3 DEF PairFaces
<1>2. TractorRuns({c}, trump) = {}
  BY <1>1, NoPairsNoRuns
<1>3. Tractors({c}, trump) = {} /\ LoosePairs({c}, trump) = {}
  BY <1>1, <1>2 DEF Tractors, LoosePairs
<1>4. Singles({c}) = {[cards |-> {c}, pairs |-> 0]}
  BY <1>1 DEF Singles
<1> QED
  BY <1>3, <1>4 DEF Analyze

(* Two patterns of one kind have one shape.                                *)
LEMMA ShapeAlone ==
  ASSUME NEW a, NEW b, NEW n, NEW trump,
         Analyze(a, trump) = {[cards |-> a, pairs |-> n]},
         Analyze(b, trump) = {[cards |-> b, pairs |-> n]},
         Cardinality(a) = Cardinality(b)
  PROVE  Shape(a, trump) = Shape(b, trump)
<1> DEFINE Of(x, k) == {p \in Analyze(x, trump) : p.pairs = k}
<1>1. ASSUME NEW x, Analyze(x, trump) = {[cards |-> x, pairs |-> n]}, NEW k
      PROVE  Cardinality(Of(x, k)) = IF k = n THEN 1 ELSE 0
  <2> DEFINE one == [cards |-> x, pairs |-> n]
  <2>1. one.pairs = n
    OBVIOUS
  <2> HIDE DEF one
  <2>2. Of(x, k) = IF k = n THEN {one} ELSE {}
    BY <1>1, <2>1 DEF one
  <2>3. Cardinality({one}) = 1 /\ Cardinality({}) = 0
    BY FS_Singleton, FS_EmptySet
  <2> QED
    BY <2>2, <2>3
<1>2. \A x : Shape(x, trump) = [k \in 0..Cardinality(x) |-> Cardinality(Of(x, k))]
  BY DEF Shape
<1> HIDE DEF Of
<1>3. \A k : Cardinality(Of(a, k)) = Cardinality(Of(b, k))
  BY <1>1
<1> QED
  BY <1>2, <1>3

(* A pattern has as many cards as its pairs say.                           *)
LEMMA PatternSize ==
  ASSUME NEW cards \in SUBSET Card, IsFiniteSet(cards), NEW trump \in Trumps,
         NEW p \in Analyze(cards, trump)
  PROVE  /\ Cardinality(p.cards) = IF p.pairs = 0 THEN 1 ELSE 2 * p.pairs
         /\ p.pairs \in Nat /\ p.pairs <= Cardinality(cards)
         /\ p = [cards |-> p.cards, pairs |-> p.pairs]
         /\ Analyze(p.cards, trump) = {[cards |-> p.cards, pairs |-> p.pairs]}
<1>1. p.cards \in SUBSET cards /\ p.pairs \in Nat
  BY PatternIn
<1>2. IsFiniteSet(p.cards) /\ Cardinality(p.cards) <= Cardinality(cards)
      /\ Cardinality(cards) \in Nat
  BY <1>1, FS_Subset, FS_CardinalityType
<1>3. p = [cards |-> p.cards, pairs |-> p.pairs]
  <2>1. \A faces : PatternOf(cards, faces)
          = [cards |-> PatternOf(cards, faces).cards, pairs |-> PatternOf(cards, faces).pairs]
    BY DEF PatternOf
  <2>2. CASE p \in Tractors(cards, trump)
    BY <2>1, <2>2 DEF Tractors
  <2>3. CASE p \in LoosePairs(cards, trump)
    BY <2>1, <2>3 DEF LoosePairs
  <2>4. CASE p \in Singles(cards)
    BY <2>4 DEF Singles
  <2> QED
    BY <2>2, <2>3, <2>4 DEF Analyze
<1>4. CASE p \in Singles(cards)
  <2>1. PICK c \in cards : p = [cards |-> {c}, pairs |-> 0]
    BY <1>4 DEF Singles
  <2>2. Cardinality({c}) = 1
    BY FS_Singleton
  <2>3. p.cards = {c} /\ p.pairs = 0
    BY <2>1
  <2>4. Analyze(p.cards, trump) = {[cards |-> p.cards, pairs |-> p.pairs]}
    BY <2>3, SingleAlone
  <2>5. Cardinality(p.cards) = 1
    BY <2>2, <2>3
  <2>6. p.pairs \in Nat /\ p.pairs <= Cardinality(cards)
    BY <1>2, <2>3
  <2> QED
    BY <1>3, <2>3, <2>4, <2>5, <2>6, Zenon
<1>5. CASE p \notin Singles(cards)
  <2>1. PICK faces, t : IsRun(p.cards, faces, t, p.pairs, trump)
    BY <1>5, PatternIsRun
  <2>2. p.pairs \in Nat \ {0}
    BY <2>1 DEF IsRun
  <2>3. Cardinality(p.cards) = 2 * p.pairs
    BY <2>1, RunSize
  <2>4. Analyze(p.cards, trump) = {[cards |-> p.cards, pairs |-> p.pairs]}
    BY <2>1, PatternAlone
  <2> QED
    BY <1>2, <1>3, <2>2, <2>3, <2>4
<1> QED
  BY <1>4, <1>5

LEMMA AnalysisFinite ==
  ASSUME NEW cards \in SUBSET Card, IsFiniteSet(cards), NEW trump \in Trumps
  PROVE  IsFiniteSet(Analyze(cards, trump))
<1> DEFINE part == (SUBSET cards) \X (0..Cardinality(cards))
           pattern == [x \in part |-> [cards |-> x[1], pairs |-> x[2]]]
           all == {pattern[x] : x \in part}
<1>1. Cardinality(cards) \in Nat
  BY FS_CardinalityType
<1>2. IsFiniteSet(0..Cardinality(cards))
  BY <1>1, FS_Interval
<1>3. IsFiniteSet(part)
  <2>1. IsFiniteSet(SUBSET cards)
    BY FS_SUBSET, Zenon
  <2>2. \A S, T : IsFiniteSet(S) /\ IsFiniteSet(T) => IsFiniteSet(S \X T)
    BY FS_Product
  <2> QED
    BY <1>2, <2>1, <2>2
<1>4. IsFiniteSet(all)
  <2>1. pattern \in Surjection(part, all)
    <3> HIDE DEF part
    <3> QED
      BY DEF Surjection
  <2> HIDE DEF pattern, all, part
  <2> QED
    BY <1>3, <2>1, FS_Surjection
<1>5. \A p \in Analyze(cards, trump) : <<p.cards, p.pairs>> \in part
                                       /\ pattern[<<p.cards, p.pairs>>] = p
  <2> TAKE p \in Analyze(cards, trump)
  <2>1. /\ p.cards \in SUBSET cards /\ p.pairs \in 0..Cardinality(cards)
        /\ p = [cards |-> p.cards, pairs |-> p.pairs]
    BY <1>1, PatternIn, PatternSize
  <2>2. <<p.cards, p.pairs>> \in part
    <3> DEFINE S == 0..Cardinality(cards)
    <3>1. p.cards \in SUBSET cards /\ p.pairs \in S
      BY <2>1
    <3> HIDE DEF S
    <3>2. <<p.cards, p.pairs>> \in (SUBSET cards) \X S
      BY <3>1, Zenon
    <3> QED
      BY <3>2 DEF S
  <2>3. pattern[<<p.cards, p.pairs>>] = [cards |-> p.cards, pairs |-> p.pairs]
    BY <2>2
  <2> QED
    BY <2>1, <2>2, <2>3
<1>6. Analyze(cards, trump) \subseteq all
  <2> HIDE DEF pattern, part
  <2> QED
    BY <1>5
<1> QED
  BY <1>4, <1>6, FS_Subset

(* Two runs that share a tier are one: a run cannot be extended.           *)
LEMMA RunsApart ==
  ASSUME NEW cards \in SUBSET Card, NEW trump \in Trumps,
         NEW r \in TractorRuns(cards, trump), NEW s \in TractorRuns(cards, trump),
         r \cap s # {}
  PROVE  r = s
<1> DEFINE occupied == {Tier(f, trump) : f \in PairFaces(cards)}
<1>1. /\ r \subseteq occupied /\ s \subseteq occupied
      /\ Min(r) - 1 \notin occupied /\ Max(r) + 1 \notin occupied
      /\ Min(s) - 1 \notin occupied /\ Max(s) + 1 \notin occupied
  BY DEF TractorRuns
<1>2. PICK a, b \in Int : a < b /\ r = a..b
  BY RunIsAnInterval
<1>3. PICK c, d \in Int : c < d /\ s = c..d
  BY RunIsAnInterval
<1>4. Min(r) = a /\ Max(r) = b /\ Min(s) = c /\ Max(s) = d
  BY <1>2, <1>3, IntervalEnds
<1> HIDE DEF occupied
<1>5. a - 1 \notin c..d /\ b + 1 \notin c..d /\ c - 1 \notin a..b /\ d + 1 \notin a..b
  BY <1>1, <1>2, <1>3, <1>4
<1>6. PICK t : t \in a..b /\ t \in c..d
  BY <1>2, <1>3
<1> QED
  BY <1>2, <1>3, <1>5, <1>6

(* The analysis loses and repeats no card.                                 *)
LEMMA Partitioned ==
  ASSUME NEW cards \in SUBSET Card, IsFiniteSet(cards), NEW trump \in Trumps
  PROVE  /\ UNION {p.cards : p \in Analyze(cards, trump)} = cards
         /\ \A p, q \in Analyze(cards, trump) : p # q => p.cards \cap q.cards = {}
<1> DEFINE Of(r) == RunFaces(cards, trump, r)
           used == UNION {Of(r) : r \in TractorRuns(cards, trump)}
<1>1. \A p \in Analyze(cards, trump) : p.cards \in SUBSET cards
  BY PatternIn
<1>2. \A faces : PatternOf(cards, faces).cards = {c \in cards : c.face \in faces}
  BY DEF PatternOf
<1>3. ASSUME NEW c \in cards PROVE \E p \in Analyze(cards, trump) : c \in p.cards
  <2>1. CASE c.face \notin PairFaces(cards)
    <3>1. [cards |-> {c}, pairs |-> 0] \in Analyze(cards, trump)
      BY <2>1 DEF Analyze, Singles
    <3> QED
      BY <3>1
  <2>2. CASE c.face \in PairFaces(cards) \ used
    <3>1. PatternOf(cards, {c.face}) \in Analyze(cards, trump)
      BY <2>2 DEF Analyze, LoosePairs
    <3> QED
      BY <1>2, <3>1
  <2>3. CASE c.face \in used
    <3>1. PICK r \in TractorRuns(cards, trump) : c.face \in Of(r)
      BY <2>3
    <3>2. PatternOf(cards, Of(r)) \in Analyze(cards, trump)
      BY DEF Analyze, Tractors
    <3> QED
      BY <1>2, <3>1, <3>2
  <2> QED
    BY <2>1, <2>2, <2>3
<1>4. \A r \in TractorRuns(cards, trump) : Of(r) \subseteq PairFaces(cards)
  BY RunFacesIn
<1>5. ASSUME NEW r \in TractorRuns(cards, trump), NEW s \in TractorRuns(cards, trump),
             NEW f \in Of(r), f \in Of(s)
      PROVE  r = s
  <2>1. ASSUME NEW x \in TractorRuns(cards, trump), f \in Of(x) PROVE Tier(f, trump) \in x
    <3> DEFINE At(t) == {g \in PairFaces(cards) : Tier(g, trump) = t}
    <3>1. PICK t \in x : f = FirstFace(At(t))
      BY <2>1 DEF RunFaces
    <3>2. At(t) # {}
      <4>1. x \subseteq {Tier(g, trump) : g \in PairFaces(cards)}
        BY DEF TractorRuns
      <4> QED
        BY <4>1
    <3>3. At(t) \in SUBSET Faces
      BY DEF PairFaces, FacesOf, Card
    <3>4. f \in At(t)
      <4> HIDE DEF At
      <4> QED
        BY <3>1, <3>2, <3>3, FirstFaceIn
    <3> QED
      BY <3>4
  <2> QED
    BY <1>5, <2>1, RunsApart
<1> DEFINE Kind(p, faces) == p = PatternOf(cards, faces) /\ faces \subseteq PairFaces(cards)
<1>6. ASSUME NEW p \in Tractors(cards, trump), NEW q \in Tractors(cards, trump),
             NEW c \in p.cards, c \in q.cards
      PROVE  p = q
  <2>1. PICK r \in TractorRuns(cards, trump) : p = PatternOf(cards, Of(r))
    BY DEF Tractors
  <2>2. PICK s \in TractorRuns(cards, trump) : q = PatternOf(cards, Of(s))
    BY DEF Tractors
  <2>3. c.face \in Of(r) /\ c.face \in Of(s)
    BY <1>2, <1>6, <2>1, <2>2
  <2> HIDE DEF Of
  <2>4. r = s
    BY <1>5, <2>3
  <2> QED
    BY <2>1, <2>2, <2>4
<1>7. ASSUME NEW p \in Tractors(cards, trump), NEW c \in p.cards
      PROVE  c.face \in used /\ c.face \in PairFaces(cards)
  <2>1. PICK r \in TractorRuns(cards, trump) : p = PatternOf(cards, Of(r))
    BY DEF Tractors
  <2>2. c.face \in Of(r)
    BY <1>2, <2>1
  <2> QED
    BY <1>4, <2>2
<1>8. ASSUME NEW p \in LoosePairs(cards, trump), NEW c \in p.cards
      PROVE  /\ p = PatternOf(cards, {c.face})
             /\ c.face \in PairFaces(cards) /\ c.face \notin used
  <2>1. PICK f \in PairFaces(cards) \ used : p = PatternOf(cards, {f})
    BY DEF LoosePairs
  <2>2. c.face = f
    BY <1>2, <2>1
  <2> QED
    BY <2>1, <2>2
<1>9. ASSUME NEW p \in Singles(cards), NEW c \in p.cards
      PROVE  p = [cards |-> {c}, pairs |-> 0] /\ c.face \notin PairFaces(cards)
  BY DEF Singles
<1>10. ASSUME NEW p \in Analyze(cards, trump), NEW q \in Analyze(cards, trump),
              NEW c \in p.cards, c \in q.cards
       PROVE  p = q
  <2> HIDE DEF used, Of
  <2> QED
    BY <1>6, <1>7, <1>8, <1>9, <1>10 DEF Analyze
<1> QED
  BY <1>1, <1>3, <1>10

(* In a tractor the strength of a card is that of its tier.                *)
LEMMA TierOrder ==
  ASSUME NEW c \in Card, NEW d \in Card, NEW trump \in Trumps,
         EffectiveSuit(c, trump) = EffectiveSuit(d, trump),
         Tier(c.face, trump) = Tier(d.face, trump)
  PROVE  TrumpOrder(c, trump) = TrumpOrder(d, trump)
<1> DEFINE f == c.face
           g == d.face
<1>1. f \in Faces /\ g \in Faces
  BY DEF Card
<1>2. ASSUME NEW h \in Faces
      PROVE  \/ h.suit = "joker" /\ h.rank \in {15, 16}
             \/ h.suit \in Suits /\ h.rank \in 2..14
  BY DEF Faces, SuitedRanks, SmallJoker, BigJoker
<1>3. trump.rank \in 2..14 /\ trump.suit \in Suits \cup {NoSuit}
  BY DEF Trumps, SuitedRanks
<1> QED
  BY <1>1, <1>2, <1>3
  DEF TrumpOrder, Tier, EffectiveSuit, IsTrump, SmallJoker, BigJoker, Suits, NoSuit

LEMMA TierBound ==
  ASSUME NEW f \in Faces, NEW trump \in Trumps
  PROVE  Tier(f, trump) \in 0..17
<1>1. trump.rank \in 2..14
  BY DEF Trumps, SuitedRanks
<1>2. \/ f.suit = "joker" /\ f.rank \in {15, 16}
      \/ f.suit \in Suits /\ f.rank \in 2..14
  BY DEF Faces, SuitedRanks, SmallJoker, BigJoker
<1> QED
  BY <1>1, <1>2 DEF Tier, Suits

(* Neighbouring pairs, at least two, lie in a run: it extends as far as    *)
(* there are pairs.                                                        *)
LEMMA RunExtends ==
  ASSUME NEW cards \in SUBSET Card, NEW trump \in Trumps, NEW t \in Int, NEW e \in Int, t < e,
         \A s \in t..e : \E f \in PairFaces(cards) : Tier(f, trump) = s
  PROVE  \E run \in TractorRuns(cards, trump) : t..e \subseteq run
<1> DEFINE occupied == {Tier(f, trump) : f \in PairFaces(cards)}
           Low == {a \in 0..17 : a <= t /\ a..e \subseteq occupied}
<1>1. occupied \subseteq 0..17
  BY TierBound DEF PairFaces, FacesOf, Card
<1>2. t..e \subseteq occupied
  OBVIOUS
<1> HIDE DEF occupied
<1>3. t \in 0..17 /\ e \in 0..17
  BY <1>1, <1>2
<1>4. PICK a \in Low : \A n \in Low : a <= n
  <2>1. Low \in SUBSET Nat /\ t \in Low
    BY <1>2, <1>3
  <2> HIDE DEF Low
  <2> QED
    BY <2>1, LeastNatural
<1>5. a \in 0..17 /\ a <= t /\ a..e \subseteq occupied /\ a \in occupied
  BY <1>3, <1>4
<1>6. a - 1 \notin occupied
  <2> SUFFICES ASSUME a - 1 \in occupied PROVE FALSE
    OBVIOUS
  <2>1. a - 1 \in 0..17
    BY <1>1
  <2>2. (a - 1)..e \subseteq occupied
    <3> SUFFICES ASSUME NEW x \in (a - 1)..e PROVE x \in occupied
      OBVIOUS
    <3>1. x = a - 1 \/ x \in a..e
      BY <1>3, <1>5
    <3> QED
      BY <1>5, <3>1
  <2>3. a - 1 \in Low
    BY <1>5, <2>1, <2>2
  <2> HIDE DEF Low
  <2>4. a <= a - 1
    BY <1>4, <2>3
  <2> QED
    BY <1>5, <2>4
<1> DEFINE High == {b \in 0..17 : b >= e /\ a..b \subseteq occupied}
<1>7. Max(High) \in High /\ \A n \in High : n <= Max(High)
  <2>1. High \in SUBSET Nat /\ e \in High /\ \A n \in High : n <= 17
    BY <1>3, <1>5
  <2> HIDE DEF High
  <2>2. 17 \in Nat
    OBVIOUS
  <2> QED
    BY <2>1, <2>2, GreatestNatural
<1> DEFINE b == Max(High)
<1>8. b \in 0..17 /\ b >= e /\ a..b \subseteq occupied
  BY <1>7
<1>9. b + 1 \notin occupied
  <2> SUFFICES ASSUME b + 1 \in occupied PROVE FALSE
    OBVIOUS
  <2>1. b + 1 \in 0..17
    BY <1>1
  <2> HIDE DEF b
  <2>2. a..(b + 1) \subseteq occupied
    <3> SUFFICES ASSUME NEW x \in a..(b + 1) PROVE x \in occupied
      OBVIOUS
    <3>1. x = b + 1 \/ x \in a..b
      BY <1>5, <1>8
    <3> QED
      BY <1>8, <3>1
  <2>3. b + 1 \in High
    BY <1>8, <2>1, <2>2
  <2>4. b + 1 <= b
    BY <1>7, <2>3 DEF b
  <2> QED
    BY <1>8, <2>4
<1> HIDE DEF High, Low, b
<1>10. a \in occupied /\ b \in occupied /\ a < b
  BY <1>3, <1>5, <1>8
<1>11. Min(a..b) = a /\ Max(a..b) = b
  BY <1>5, <1>8, <1>10, IntervalEnds
<1>12. Cardinality(a..b) >= 2
  <2>1. Cardinality(a..b) = b - a + 1
    BY <1>5, <1>8, <1>10, FS_Interval
  <2> QED
    BY <1>5, <1>8, <1>10, <2>1
<1>13. a..b \in TractorRuns(cards, trump)
  <2>1. a..b \in {x..y : x \in occupied, y \in occupied}
    BY <1>10
  <2> QED
    BY <1>6, <1>8, <1>9, <1>11, <1>12, <2>1 DEF TractorRuns, occupied
<1>14. t..e \subseteq a..b
  BY <1>3, <1>5, <1>8
<1> QED
  BY <1>13, <1>14
---------------------------------------------------------------------------
(* Comparing plays *)

(* What _compare_same_suit looks at: the longest pattern of a play and the *)
(* strongest card in a pattern of that length.                             *)
Longest(cards, trump) == Max({Level(p) : p \in Analyze(cards, trump)})
Strongest(cards, trump) ==
  MaxOrder(UNION {p.cards : p \in {q \in Analyze(cards, trump) :
                                     Level(q) = Longest(cards, trump)}}, trump)

LEMMA KeyType ==
  ASSUME NEW cards \in SUBSET Card, IsFiniteSet(cards), cards # {}, NEW trump \in Trumps
  PROVE  Longest(cards, trump) \in Nat /\ Strongest(cards, trump) \in Nat
<1> DEFINE levels == {Level(p) : p \in Analyze(cards, trump)}
           longest == {q \in Analyze(cards, trump) : Level(q) = Longest(cards, trump)}
           strong == UNION {p.cards : p \in longest}
<1>1. Longest(cards, trump) \in levels /\ Longest(cards, trump) \in Nat
  <2>1. Cardinality(cards) \in Nat
    BY FS_CardinalityType
  <2>2. \A p \in Analyze(cards, trump) :
          Level(p) \in Nat /\ Level(p) <= Cardinality(cards) + 1
    <3> TAKE p \in Analyze(cards, trump)
    <3>1. p.pairs \in Nat /\ p.pairs <= Cardinality(cards)
      BY PatternSize
    <3> QED
      BY <2>1, <3>1 DEF Level
  <2>3. levels \in SUBSET Nat /\ levels # {} /\ \A n \in levels : n <= Cardinality(cards) + 1
    BY <2>2, AnalyzeNonEmpty
  <2>4. Cardinality(cards) + 1 \in Nat
    BY <2>1
  <2> HIDE DEF levels
  <2>5. Max(levels) \in levels
    BY <2>3, <2>4, GreatestNatural
  <2> QED
    BY <2>3, <2>5 DEF Longest, levels
<1>2. longest # {}
  BY <1>1
<1>3. \A p \in Analyze(cards, trump) : p.cards \in SUBSET cards /\ p.cards # {}
  BY PatternIn
<1>4. strong \in SUBSET Card /\ strong # {}
  <2> HIDE DEF strong
  <2>1. \A p \in longest : p.cards \in SUBSET cards /\ p.cards # {}
    BY <1>3
  <2> HIDE DEF longest
  <2> QED
    BY <1>2, <2>1 DEF strong
<1> HIDE DEF strong
<1>5. MaxOrder(strong, trump) \in Nat
  BY <1>4, MaxOrderType
<1> QED
  BY <1>1, <1>5 DEF Strongest, strong

LEMMA StrongerByKey ==
  ASSUME NEW a, NEW b, NEW trump
  PROVE  StrongerSameSuit(a, b, trump)
           <=> \/ Longest(a, trump) > Longest(b, trump)
               \/ /\ Longest(a, trump) = Longest(b, trump)
                  /\ Strongest(a, trump) > Strongest(b, trump)
BY DEF StrongerSameSuit, Longest, Strongest

IsPlay(cards) == cards \in SUBSET Card /\ IsFiniteSet(cards) /\ cards # {}

(* The comparison is a strict weak order on plays, under any lead: of two  *)
(* plays at most one beats the other, and what beats a play beats whatever *)
(* does not beat that play, or is beaten by it.                            *)
LEMMA WinsOrder ==
  ASSUME NEW a, IsPlay(a), NEW b, IsPlay(b), NEW c, IsPlay(c), NEW lead, NEW trump \in Trumps
  PROVE  /\ ~(Wins(a, b, lead, trump) /\ Wins(b, a, lead, trump))
         /\ Wins(a, c, lead, trump) => Wins(a, b, lead, trump) \/ Wins(b, c, lead, trump)
<1>1. /\ Longest(a, trump) \in Nat /\ Strongest(a, trump) \in Nat
      /\ Longest(b, trump) \in Nat /\ Strongest(b, trump) \in Nat
      /\ Longest(c, trump) \in Nat /\ Strongest(c, trump) \in Nat
  BY KeyType DEF IsPlay
<1>2. ~(StrongerSameSuit(a, b, trump) /\ StrongerSameSuit(b, a, trump))
  BY <1>1, StrongerByKey
<1>3. StrongerSameSuit(a, c, trump)
        => StrongerSameSuit(a, b, trump) \/ StrongerSameSuit(b, c, trump)
  BY <1>1, StrongerByKey
<1>4. \A x : AllOf(x, "trump", trump) \in BOOLEAN
  BY DEF AllOf
<1>5. ~(Wins(a, b, lead, trump) /\ Wins(b, a, lead, trump))
  BY <1>2 DEF Wins
<1>6. Wins(a, c, lead, trump) => Wins(a, b, lead, trump) \/ Wins(b, c, lead, trump)
  BY <1>3, <1>4 DEF Wins
<1> QED
  BY <1>5, <1>6

(* The sequential scan finds a play that no other beats, and of equals the *)
(* earliest.                                                               *)
LEMMA ScanFindsTheBest ==
  ASSUME NEW slots, \A i \in 1..4 : IsPlay(slots[i].cards), NEW trump \in Trumps
  PROVE  \E k \in 1..4 :
           /\ WinningSlot(slots, trump) = slots[k]
           /\ \A i \in 1..4 :
                /\ ~Wins(slots[i].cards, slots[k].cards, slots[1].cards, trump)
                /\ i < k => Wins(slots[k].cards, slots[i].cards, slots[1].cards, trump)
<1> DEFINE W(i, j) == Wins(slots[i].cards, slots[j].cards, slots[1].cards, trump)
           better(i, j) == IF W(j, i) THEN j ELSE i
           Best(n, k) == \A i \in 1..n : ~W(i, k) /\ (i < k => W(k, i))
<1>1. \A i, j, k \in 1..4 : ~(W(i, j) /\ W(j, i)) /\ (W(i, k) => W(i, j) \/ W(j, k))
  BY WinsOrder
<1>2. WinningSlot(slots, trump) = slots[better(better(better(1, 2), 3), 4)]
  BY DEF WinningSlot
<1> HIDE DEF W
<1>3. Best(1, 1)
  BY <1>1
<1>4. ASSUME NEW n \in 1..3, NEW k \in 1..n, Best(n, k)
      PROVE  better(k, n + 1) \in 1..(n + 1) /\ Best(n + 1, better(k, n + 1))
  <2>1. \A i \in 1..(n + 1) : i \in 1..n \/ i = n + 1
    OBVIOUS
  <2>2. k \in 1..4 /\ n + 1 \in 1..4 /\ \A i \in 1..n : i \in 1..4
    OBVIOUS
  <2>3. CASE W(n + 1, k)
    <3>1. \A i \in 1..n : W(n + 1, i) /\ ~W(i, n + 1)
      BY <1>1, <1>4, <2>2, <2>3
    <3>2. ~W(n + 1, n + 1)
      BY <1>1, <2>2
    <3> QED
      BY <2>1, <2>3, <3>1, <3>2
  <2>4. CASE ~W(n + 1, k)
    BY <1>4, <2>1, <2>4
  <2> QED
    BY <2>3, <2>4
<1> DEFINE second == better(1, 2)
           third == better(second, 3)
           fourth == better(third, 4)
<1> HIDE DEF Best, better
<1>5. second \in 1..2 /\ Best(2, second)
  BY <1>3, <1>4
<1>6. third \in 1..3 /\ Best(3, third)
  <2> HIDE DEF second
  <2> QED
    BY <1>4, <1>5
<1>7. fourth \in 1..4 /\ Best(4, fourth)
  <2> HIDE DEF third
  <2> QED
    BY <1>4, <1>6
<1> HIDE DEF fourth
<1>8. WinningSlot(slots, trump) = slots[fourth]
  BY <1>2 DEF fourth
<1> QED
  BY <1>7, <1>8 DEF Best, W

---------------------------------------------------------------------------
(* Patterns of one kind *)

(* Two patterns of one kind: the one with the strongest card is stronger.  *)
LEMMA StrongerAlone ==
  ASSUME NEW a, NEW b, NEW n \in Nat, NEW trump,
         Analyze(a, trump) = {[cards |-> a, pairs |-> n]},
         Analyze(b, trump) = {[cards |-> b, pairs |-> n]}
  PROVE  StrongerSameSuit(a, b, trump) <=> MaxOrder(a, trump) > MaxOrder(b, trump)
<1>1. ASSUME NEW x, NEW pats, pats = {[cards |-> x, pairs |-> n]}
      PROVE  /\ Max({Level(p) : p \in pats}) = n + 1
             /\ UNION {p.cards : p \in {q \in pats : Level(q) = n + 1}} = x
  <2> DEFINE one == [cards |-> x, pairs |-> n]
  <2>1. Level(one) = n + 1 /\ one.cards = x
    BY DEF Level
  <2> HIDE DEF one
  <2>2. {Level(p) : p \in pats} = {n + 1}
    BY <1>1, <2>1 DEF one
  <2>3. Max({n + 1}) = n + 1
    BY DEF Max
  <2>4. {p.cards : p \in {q \in pats : Level(q) = n + 1}} = {x}
    BY <1>1, <2>1 DEF one
  <2> QED
    BY <2>2, <2>3, <2>4
<1>2. ASSUME NEW x, Analyze(x, trump) = {[cards |-> x, pairs |-> n]}
      PROVE  Longest(x, trump) = n + 1 /\ Strongest(x, trump) = MaxOrder(x, trump)
  <2> DEFINE pats == Analyze(x, trump)
  <2>1. /\ Max({Level(p) : p \in pats}) = n + 1
        /\ UNION {p.cards : p \in {q \in pats : Level(q) = n + 1}} = x
    BY <1>1, <1>2
  <2>2. Longest(x, trump) = Max({Level(p) : p \in pats})
    BY DEF Longest
  <2>3. Strongest(x, trump)
          = MaxOrder(UNION {p.cards : p \in {q \in pats : Level(q) = Longest(x, trump)}}, trump)
    BY DEF Strongest
  <2> HIDE DEF pats
  <2> QED
    BY <2>1, <2>2, <2>3
<1>3. ~(n + 1 > n + 1)
  OBVIOUS
<1> QED
  BY <1>2, <1>3, StrongerByKey

(* Of cards that can be led, a part has one suit and can be led as well.   *)
LEMMA OneSuit ==
  ASSUME NEW cards, IsFiniteSet(cards), NEW trump, Analyzable(cards, trump),
         NEW part \in SUBSET cards, part # {}
  PROVE  AllOf(part, LeadSuit(part, trump), trump) /\ Analyzable(part, trump)
<1> DEFINE suits == {EffectiveSuit(c, trump) : c \in cards}
<1>1. IsFiniteSet(suits)
  <2> DEFINE of == [c \in cards |-> EffectiveSuit(c, trump)]
  <2>1. of \in Surjection(cards, suits)
    BY DEF Surjection
  <2> HIDE DEF of, suits
  <2> QED
    BY <2>1, FS_Surjection
<1>2. Cardinality(suits) = 1
  BY DEF Analyzable
<1> HIDE DEF suits
<1>3. PICK x : suits = {x}
  BY <1>1, <1>2, FS_Singleton
<1>4. \A c \in part : EffectiveSuit(c, trump) = x
  BY <1>3 DEF suits
<1>5. (CHOOSE c \in part : TRUE) \in part
  OBVIOUS
<1>6. {EffectiveSuit(c, trump) : c \in part} = {x}
  BY <1>4
<1>7. Cardinality({x}) = 1
  BY FS_Singleton
<1> QED
  BY <1>4, <1>5, <1>6, <1>7 DEF AllOf, LeadSuit, Analyzable

(* A pattern that is not the biggest of its kind is beaten, in its own     *)
(* suit and with as many cards, from one of the other hands.               *)
LEMMA FailingIsBeaten ==
  ASSUME NEW cards \in SUBSET Card, IsFiniteSet(cards), NEW trump \in Trumps,
         Analyzable(cards, trump),
         NEW others, \A hand \in others : hand \in SUBSET Card /\ IsFiniteSet(hand),
         NEW p \in Analyze(cards, trump), ~IsBiggest(p, others, trump)
  PROVE  \E hand \in others :
           \E better \in SUBSET OfSuit(hand, LeadSuit(p.cards, trump), trump) :
             /\ Cardinality(better) = Cardinality(p.cards)
             /\ Shape(better, trump) = Shape(p.cards, trump)
             /\ Wins(better, p.cards, p.cards, trump)
<1> DEFINE suit == EffectiveSuit(CHOOSE c \in p.cards : TRUE, trump)
           top == MaxOrder(p.cards, trump)
           In(hand) == OfSuit(hand, suit, trump)
<1>1. p.cards \in SUBSET cards /\ p.cards # {} /\ p.pairs \in Nat
  BY PatternIn
<1>2. AllOf(p.cards, suit, trump)
  BY <1>1, OneSuit DEF LeadSuit
<1>3. ASSUME NEW hand \in others, NEW better \in SUBSET In(hand),
             Cardinality(better) = Cardinality(p.cards),
             Analyze(better, trump) = {[cards |-> better, pairs |-> p.pairs]},
             Analyze(p.cards, trump) = {[cards |-> p.cards, pairs |-> p.pairs]},
             MaxOrder(better, trump) > top, better # {}
      PROVE  /\ better \in SUBSET OfSuit(hand, LeadSuit(p.cards, trump), trump)
             /\ Cardinality(better) = Cardinality(p.cards)
             /\ Shape(better, trump) = Shape(p.cards, trump)
             /\ Wins(better, p.cards, p.cards, trump)
  <2>1. suit = LeadSuit(p.cards, trump)
    BY DEF LeadSuit
  <2> HIDE DEF suit
  <2>2. AllOf(better, suit, trump)
    BY DEF AllOf, OfSuit
  <2>3. StrongerSameSuit(better, p.cards, trump)
    BY <1>1, <1>3, StrongerAlone
  <2>4. AllOf(better, "trump", trump) = AllOf(p.cards, "trump", trump)
    BY <1>1, <1>2, <1>3, <2>2 DEF AllOf
  <2>5. CanWin(better, p.cards, trump)
    BY <2>1, <2>2 DEF CanWin
  <2>6. Shape(better, trump) = Shape(p.cards, trump)
    BY <1>3, ShapeAlone
  <2> QED
    BY <1>3, <2>1, <2>3, <2>4, <2>5, <2>6 DEF Wins
<1>4. top \in Nat
  BY <1>1, MaxOrderType
<1>5. \A hand \in others : In(hand) \in SUBSET Card /\ IsFiniteSet(In(hand))
  <2> HIDE DEF suit
  <2> TAKE hand \in others
  <2>1. In(hand) \in SUBSET hand
    BY DEF OfSuit
  <2> QED
    BY <2>1, FS_Subset
<1> HIDE DEF suit
<1>6. CASE p.pairs = 0
  <2>1. PICK hand \in others : \E c \in In(hand) : ~(TrumpOrder(c, trump) <= top)
    <3>1. IsBiggest(p, others, trump)
            <=> \A hand \in others : \A c \in In(hand) : TrumpOrder(c, trump) <= top
      BY <1>6 DEF IsBiggest, suit
    <3> HIDE DEF top
    <3> QED
      BY <3>1
  <2>10. PICK c \in In(hand) : ~(TrumpOrder(c, trump) <= top)
    BY <2>1
  <2>2. c \in Card /\ TrumpOrder(c, trump) \in Nat
    BY <1>5, <2>10, TrumpOrderType
  <2>3. MaxOrder({c}, trump) = TrumpOrder(c, trump)
    BY <2>2 DEF MaxOrder, Max
  <2>4. p \in Singles(cards)
    <3>1. \A faces, t : ~IsRun(p.cards, faces, t, p.pairs, trump)
      BY <1>6 DEF IsRun
    <3> QED
      BY <3>1, PatternIsRun
  <2>5. PICK d \in cards : p.cards = {d}
    BY <2>4 DEF Singles
  <2>6. Cardinality({c}) = Cardinality(p.cards)
    BY <2>5, FS_Singleton
  <2>7. /\ Analyze({c}, trump) = {[cards |-> {c}, pairs |-> p.pairs]}
        /\ Analyze(p.cards, trump) = {[cards |-> p.cards, pairs |-> p.pairs]}
    BY <1>6, <2>5, SingleAlone
  <2>8. MaxOrder({c}, trump) > top
    BY <1>4, <2>10, <2>2, <2>3
  <2>9. {c} \in SUBSET In(hand) /\ {c} # {}
    BY <2>10
  <2> QED
    BY <1>3, <2>6, <2>7, <2>8, <2>9
<1>7. ASSUME p.pairs # 0, NEW hand \in others, NEW better \in SUBSET In(hand),
             NEW faces, NEW t, IsRun(better, faces, t, p.pairs, trump),
             ~(MaxOrder(better, trump) <= top)
      PROVE  /\ better \in SUBSET OfSuit(hand, LeadSuit(p.cards, trump), trump)
             /\ Cardinality(better) = Cardinality(p.cards)
             /\ Shape(better, trump) = Shape(p.cards, trump)
             /\ Wins(better, p.cards, p.cards, trump)
  <2>1. p \notin Singles(cards)
    BY <1>7 DEF Singles
  <2>2. PICK led, s : IsRun(p.cards, led, s, p.pairs, trump)
    BY <2>1, PatternIsRun
  <2>3. Cardinality(better) = 2 * p.pairs /\ better # {} /\ better \in SUBSET Card
    BY <1>7, RunSize
  <2>4. Cardinality(p.cards) = 2 * p.pairs
    BY <2>2, RunSize
  <2>5. /\ Analyze(better, trump) = {[cards |-> better, pairs |-> p.pairs]}
        /\ Analyze(p.cards, trump) = {[cards |-> p.cards, pairs |-> p.pairs]}
    BY <1>7, <2>2, PatternAlone
  <2>6. MaxOrder(better, trump) > top
    <3>1. MaxOrder(better, trump) \in Nat
      BY <2>3, MaxOrderType
    <3> QED
      BY <1>4, <1>7, <3>1
  <2> QED
    BY <1>3, <2>3, <2>4, <2>5, <2>6
<1>8. CASE p.pairs = 1
  <2>8. PICK hand \in others : \E f \in PairFaces(In(hand)) :
          ~(MaxOrder(Copies(In(hand), f), trump) <= top)
    <3>1. IsBiggest(p, others, trump)
            <=> \A hand \in others : \A f \in PairFaces(In(hand)) :
                  MaxOrder(Copies(In(hand), f), trump) <= top
      BY <1>8 DEF IsBiggest, suit
    <3> HIDE DEF top
    <3> QED
      BY <3>1
  <2>1. PICK f \in PairFaces(In(hand)) : ~(MaxOrder(Copies(In(hand), f), trump) <= top)
    BY <2>8
  <2> DEFINE own == In(hand)
             pair == Copies(own, f)
  <2>2. own \in SUBSET Card /\ pair \in SUBSET own
    BY <1>5, <2>1 DEF Copies
  <2> HIDE DEF own
  <2>3. f \in Faces /\ [face |-> f, deck |-> 1] \in own /\ [face |-> f, deck |-> 2] \in own
    BY <2>1, <2>2, CopiesOfAFace DEF PairFaces, FacesOf, Card, own
  <2>4. pair = [face : {f}, deck : {1, 2}]
    <3>1. \A c \in pair : c \in [face : {f}, deck : {1, 2}]
      BY <2>2 DEF Card, Copies
    <3>2. ASSUME NEW c \in [face : {f}, deck : {1, 2}] PROVE c \in pair
      <4>1. c.face = f /\ c.deck \in {1, 2} /\ c = [face |-> c.face, deck |-> c.deck]
        OBVIOUS
      <4>2. c = [face |-> f, deck |-> 1] \/ c = [face |-> f, deck |-> 2]
        BY <4>1
      <4> QED
        BY <2>3, <4>1, <4>2 DEF Copies
    <3> QED
      BY <3>1, <3>2
  <2> HIDE DEF pair
  <2>5. IsRun(pair, {f}, Tier(f, trump), p.pairs, trump)
    <3>1. {f} \subseteq Faces /\ \A g, h \in {f} : g = h
      BY <2>3
    <3>2. 1 \in Nat \ {0}
      OBVIOUS
    <3>3. Tier(f, trump) \in Int
      BY <2>3, TierType
    <3>4. {Tier(g, trump) : g \in {f}} = Tier(f, trump)..(Tier(f, trump) + 1 - 1)
      BY <3>3
    <3>5. IsRun(pair, {f}, Tier(f, trump), 1, trump)
      BY <2>4, <3>1, <3>2, <3>3, <3>4, Zenon DEF IsRun
    <3> QED
      BY <1>8, <3>5
  <2>6. ~(MaxOrder(pair, trump) <= top)
    BY <2>1 DEF pair, own
  <2>7. pair \in SUBSET In(hand)
    BY <2>2 DEF own
  <2> QED
    BY <1>7, <1>8, <2>5, <2>6, <2>7
<1>9. CASE p.pairs \notin {0, 1}
  <2>7. PICK hand \in others : \E q \in Tractors(In(hand), trump) :
          \E window \in Windows(q, p.pairs, trump) : ~(MaxOrder(window, trump) <= top)
    <3>1. \/ IsBiggest(p, others, trump)
          \/ ~\A hand \in others : \A q \in Tractors(In(hand), trump) :
                \A window \in Windows(q, p.pairs, trump) : MaxOrder(window, trump) <= top
      BY <1>9 DEF IsBiggest, suit
    <3> HIDE DEF top
    <3> QED
      BY <3>1
  <2>8. PICK q \in Tractors(In(hand), trump) :
          \E window \in Windows(q, p.pairs, trump) : ~(MaxOrder(window, trump) <= top)
    BY <2>7
  <2>1. PICK window \in Windows(q, p.pairs, trump) : ~(MaxOrder(window, trump) <= top)
    BY <2>8
  <2>2. PICK run \in TractorRuns(In(hand), trump) :
          q = PatternOf(In(hand), RunFaces(In(hand), trump, run))
    BY <2>1 DEF Tractors
  <2>3. PICK faces, t : IsRun(q.cards, faces, t, q.pairs, trump)
    BY <1>5, <2>2, RunFacesRun
  <2>4. p.pairs \in Nat \ {0}
    BY <1>1, <1>9
  <2>5. window \in SUBSET q.cards /\ \E some, s : IsRun(window, some, s, p.pairs, trump)
    BY <2>1, <2>3, <2>4, WindowIsRun
  <2>6. q.cards \in SUBSET In(hand)
    BY <2>2 DEF PatternOf
  <2> QED
    BY <1>7, <2>1, <2>4, <2>5, <2>6
<1> QED
  BY <1>6, <1>8, <1>9

(* What beats a pattern with an answer of its kind shows that it was not   *)
(* the biggest, even if the analysis of the hand splits that answer.       *)
LEMMA BeatenIsFailing ==
  ASSUME NEW cards \in SUBSET Card, IsFiniteSet(cards), NEW trump \in Trumps,
         Analyzable(cards, trump), NEW p \in Analyze(cards, trump),
         NEW hand \in SUBSET Card, IsFiniteSet(hand),
         NEW w \in SUBSET OfSuit(hand, LeadSuit(p.cards, trump), trump),
         Cardinality(w) = Cardinality(p.cards),
         Shape(w, trump) = Shape(p.cards, trump),
         Wins(w, p.cards, p.cards, trump)
  PROVE  ~IsBiggest(p, {hand}, trump)
<1> DEFINE suit == EffectiveSuit(CHOOSE c \in p.cards : TRUE, trump)
           top == MaxOrder(p.cards, trump)
           own == OfSuit(hand, suit, trump)
           n == p.pairs
<1>1. /\ p.cards \in SUBSET cards /\ p.cards # {} /\ n \in Nat
      /\ Cardinality(p.cards) = IF n = 0 THEN 1 ELSE 2 * n
      /\ Analyze(p.cards, trump) = {[cards |-> p.cards, pairs |-> n]}
  BY PatternIn, PatternSize
<1>2. /\ own \in SUBSET Card /\ IsFiniteSet(own)
      /\ w \in SUBSET own /\ w \in SUBSET Card /\ IsFiniteSet(w)
  <2>1. own \in SUBSET hand /\ w \in SUBSET own
    BY DEF OfSuit, LeadSuit
  <2> HIDE DEF own
  <2> QED
    BY <2>1, FS_Subset
<1>3. AllOf(p.cards, suit, trump)
  BY <1>1, OneSuit DEF LeadSuit
<1>4. \A c \in own : EffectiveSuit(c, trump) = suit
  BY DEF OfSuit
<1> HIDE DEF n, suit, own
<1>5. PICK q \in Analyze(w, trump) : {x \in Analyze(w, trump) : x.pairs = n} = {q}
  <2> DEFINE Of(x) == {y \in Analyze(x, trump) : y.pairs = n}
  <2>1. n \in 0..Cardinality(p.cards) /\ n \in 0..Cardinality(w)
    BY <1>1
  <2>2. \A x : n \in 0..Cardinality(x) => Shape(x, trump)[n] = Cardinality(Of(x))
    BY DEF Shape
  <2>3. Of(p.cards) = {[cards |-> p.cards, pairs |-> n]}
    BY <1>1
  <2> HIDE DEF Of
  <2>4. Cardinality(Of(p.cards)) = 1
    BY <2>3, FS_Singleton
  <2>5. Cardinality(Of(w)) = 1
    BY <2>1, <2>2, <2>4
  <2>6. IsFiniteSet(Of(w))
    <3>1. Of(w) \in SUBSET Analyze(w, trump)
      BY DEF Of
    <3> QED
      BY <1>2, <3>1, AnalysisFinite, FS_Subset
  <2>7. PICK q : Of(w) = {q}
    BY <2>5, <2>6, FS_Singleton
  <2> QED
    BY <2>7 DEF Of
<1>6. q.pairs = n /\ q.cards = w /\ Analyze(w, trump) = {[cards |-> w, pairs |-> n]}
  <2>1. q.pairs = n
    BY <1>5
  <2>2. Cardinality(q.cards) = Cardinality(w)
    BY <1>1, <1>2, <2>1, PatternSize
  <2>3. q.cards \in SUBSET w
    BY <1>2, PatternIn
  <2>4. q.cards = w
    BY <1>2, <2>2, <2>3, FS_Subset
  <2> QED
    BY <1>2, <2>1, <2>4, PatternSize
<1>7. MaxOrder(w, trump) > top
  <2>1. w # {}
    BY <1>2, <1>6, PatternIn
  <2>2. AllOf(w, "trump", trump) = AllOf(p.cards, "trump", trump)
    BY <1>1, <1>2, <1>3, <1>4, <2>1 DEF AllOf
  <2>3. CanWin(p.cards, p.cards, trump)
    BY <1>3 DEF CanWin, LeadSuit, suit
  <2>4. \A x, y : AllOf(x, y, trump) \in BOOLEAN
    BY DEF AllOf
  <2>5. StrongerSameSuit(w, p.cards, trump)
    BY <2>2, <2>3, <2>4 DEF Wins
  <2> QED
    BY <1>1, <1>6, <2>5, StrongerAlone
<1>8. top \in Nat
  BY <1>1, MaxOrderType
<1> HIDE DEF top
<1>9. IsBiggest(p, {hand}, trump)
        => \/ n = 0 /\ \A c \in own : TrumpOrder(c, trump) <= top
           \/ n = 1 /\ \A f \in PairFaces(own) : MaxOrder(Copies(own, f), trump) <= top
           \/ n \notin {0, 1} /\ \A x \in Tractors(own, trump) :
                x.pairs >= n => \A v \in Windows(x, n, trump) : MaxOrder(v, trump) <= top
  BY DEF IsBiggest, n, own, suit, top
<1>10. MaxOrder(w, trump) \in Nat
  BY <1>2, <1>6, PatternIn, MaxOrderType
<1>11. CASE n = 0
  <2>1. q \in Singles(w)
    <3>1. \A faces, t : ~IsRun(q.cards, faces, t, q.pairs, trump)
      BY <1>6, <1>11 DEF IsRun
    <3> QED
      BY <1>2, <3>1, PatternIsRun
  <2>2. PICK c \in w : w = {c}
    BY <1>6, <2>1 DEF Singles
  <2>3. TrumpOrder(c, trump) \in Nat
    BY <1>2, TrumpOrderType
  <2>4. MaxOrder({c}, trump) = TrumpOrder(c, trump)
    BY <2>3 DEF MaxOrder, Max
  <2>5. ~(TrumpOrder(c, trump) <= top)
    BY <1>7, <1>8, <2>2, <2>3, <2>4
  <2> QED
    BY <1>2, <1>9, <1>11, <2>5
<1>12. ASSUME n # 0 PROVE \E faces, t : IsRun(w, faces, t, n, trump)
  <2>1. q \notin Singles(w)
    BY <1>6, <1>12 DEF Singles
  <2> QED
    BY <1>2, <1>6, <2>1, PatternIsRun
<1>13. ASSUME NEW faces, NEW t, IsRun(w, faces, t, n, trump)
       PROVE  faces \subseteq PairFaces(own)
  <2> SUFFICES ASSUME NEW f \in faces PROVE f \in PairFaces(own)
    OBVIOUS
  <2>1. w = [face : faces, deck : {1, 2}]
    BY <1>13 DEF IsRun
  <2>2. [face |-> f, deck |-> 1] \in own /\ [face |-> f, deck |-> 2] \in own
    BY <1>2, <2>1
  <2>3. Cardinality(Copies(own, f)) = 2
    BY <1>2, <2>2, CopiesOfAFace
  <2> QED
    BY <2>2, <2>3 DEF PairFaces, FacesOf
<1>14. CASE n = 1
  <2>1. PICK faces, t : IsRun(w, faces, t, n, trump)
    BY <1>12, <1>14
  <2>2. w = [face : faces, deck : {1, 2}] /\ IsFiniteSet(faces) /\ Cardinality(faces) = 1
    <3>1. w = [face : faces, deck : {1, 2}]
      BY <2>1 DEF IsRun
    <3>2. IsFiniteSet(faces) /\ Cardinality(faces) = n
      BY <2>1, RunSize
    <3> QED
      BY <1>14, <3>1, <3>2
  <2>3. PICK f : faces = {f}
    BY <2>2, FS_Singleton
  <2>4. Copies(own, f) = w
    BY <1>2, <2>2, <2>3 DEF Copies, Card
  <2>5. f \in PairFaces(own)
    BY <1>13, <2>1, <2>3
  <2>6. ~(MaxOrder(w, trump) <= top)
    BY <1>7, <1>8, <1>10
  <2> QED
    BY <1>9, <1>14, <2>4, <2>5, <2>6
<1>15. CASE n \notin {0, 1}
  <2>1. PICK faces, t : IsRun(w, faces, t, n, trump)
    BY <1>12, <1>15
  <2> DEFINE e == t + n - 1
  <2>2. /\ t \in Int /\ e \in Int /\ t < e
        /\ w = [face : faces, deck : {1, 2}]
        /\ \A s \in t..e : \E f \in faces : Tier(f, trump) = s
        /\ \A f \in faces : Tier(f, trump) \in t..e
    BY <1>1, <1>15, <2>1 DEF IsRun
  <2>3. faces \subseteq PairFaces(own)
    BY <1>13, <2>1
  <2>4. PICK run \in TractorRuns(own, trump) : t..e \subseteq run
    <3> HIDE DEF e
    <3>1. \A s \in t..e : \E f \in PairFaces(own) : Tier(f, trump) = s
      BY <2>2, <2>3
    <3> QED
      BY <1>2, <2>2, <3>1, RunExtends
  <2> DEFINE tractor == PatternOf(own, RunFaces(own, trump, run))
             window == {c \in tractor.cards : Tier(c.face, trump) \in t..e}
  <2>5. tractor \in Tractors(own, trump)
    BY DEF Tractors
  <2>6. PICK s : /\ IsRun(tractor.cards, RunFaces(own, trump, run), s, tractor.pairs, trump)
                 /\ run = s..(s + tractor.pairs - 1)
    BY <1>2, RunFacesRun
  <2>7. tractor.cards \in SUBSET own
    BY DEF PatternOf
  <2> HIDE DEF tractor
  <2>8. tractor.pairs >= n
    <3>1. s \in Int /\ tractor.pairs \in Nat
      BY <2>6 DEF IsRun
    <3>2. t \in s..(s + tractor.pairs - 1) /\ e \in s..(s + tractor.pairs - 1)
      BY <2>2, <2>4, <2>6
    <3> QED
      BY <1>1, <2>2, <3>1, <3>2
  <2>9. \A u \in t..e : \E c \in tractor.cards : Tier(c.face, trump) = u
    <3> TAKE u \in t..e
    <3>1. u \in run
      BY <2>4
    <3>2. PICK f \in RunFaces(own, trump, run) : Tier(f, trump) = u
      BY <2>6, <3>1 DEF IsRun
    <3>3. [face |-> f, deck |-> 1] \in tractor.cards
      BY <2>6, <3>2 DEF IsRun
    <3> QED
      BY <3>2, <3>3
  <2>10. window \in Windows(tractor, n, trump)
    <3>1. t \in {Tier(c.face, trump) : c \in tractor.cards}
      BY <2>2, <2>9
    <3>2. \A k \in 0..(n - 1) : \E c \in tractor.cards : Tier(c.face, trump) = t + k
      <4> TAKE k \in 0..(n - 1)
      <4>1. t + k \in t..e
        BY <1>1, <2>2
      <4> QED
        BY <2>9, <4>1
    <3> QED
      BY <3>1, <3>2 DEF Windows
  <2>11. MaxOrder(window, trump) = MaxOrder(w, trump)
    <3>1. ASSUME NEW c \in window PROVE \E d \in w : TrumpOrder(d, trump) = TrumpOrder(c, trump)
      <4>1. PICK f \in faces : Tier(f, trump) = Tier(c.face, trump)
        BY <2>2
      <4> DEFINE d == [face |-> f, deck |-> 1]
      <4>2. d \in w /\ d.face = f
        BY <2>2
      <4> HIDE DEF d
      <4>3. d \in own /\ c \in own
        BY <1>2, <2>7, <4>2
      <4> QED
        BY <1>2, <1>4, <4>1, <4>2, <4>3, TierOrder
    <3>2. ASSUME NEW d \in w PROVE \E c \in window : TrumpOrder(d, trump) = TrumpOrder(c, trump)
      <4>1. d.face \in faces
        BY <2>2
      <4>2. Tier(d.face, trump) \in t..e
        BY <2>2, <4>1
      <4>3. PICK c \in tractor.cards : Tier(c.face, trump) = Tier(d.face, trump)
        BY <2>9, <4>2
      <4>4. c \in window
        BY <4>2, <4>3
      <4>5. d \in own /\ c \in own
        BY <1>2, <2>7
      <4> QED
        BY <1>2, <1>4, <4>3, <4>4, <4>5, TierOrder
    <3> HIDE DEF window
    <3>3. {TrumpOrder(c, trump) : c \in window} = {TrumpOrder(c, trump) : c \in w}
      BY <3>1, <3>2
    <3> QED
      BY <3>3 DEF MaxOrder
  <2>12. ~(MaxOrder(window, trump) <= top)
    BY <1>7, <1>8, <1>10, <2>11
  <2> HIDE DEF window
  <2> QED
    BY <1>9, <1>15, <2>5, <2>8, <2>10, <2>12
<1> QED
  BY <1>11, <1>14, <1>15
==============================================================================
