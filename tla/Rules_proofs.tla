----------------------------- MODULE Rules_proofs -----------------------------
(***************************************************************************)
(* Leads and comparisons, proved for every pair of hands and every trump,  *)
(* and the decisions of the decoder, proved for every hand and every lead: *)
(* the choices of a mask are the first steps of the legal moves, and what  *)
(* is decided is one of them.  Facts about the operators of the rules are  *)
(* RulesLemmas'.                                                           *)
(***************************************************************************)
EXTENDS MCRules, RulesLemmas

Some(cards) == cards \in SUBSET Card /\ IsFiniteSet(cards)

\* The hands are cards, and what is led could be led.
LeadInv ==
  /\ Some(attempted) /\ Some(opponent)
  /\ attempted # {} => Analyzable(attempted, RuleTrump)

LEMMA CardsFinite == IsFiniteSet(Card)
<1> DEFINE suits == Suits \cup {"joker"}
           all == (suits \X (2..16)) \X (1..2)
           card == [x \in all |-> [face |-> [suit |-> x[1][1], rank |-> x[1][2]], deck |-> x[2]]]
           cards == {card[x] : x \in all}
<1>1. IsFiniteSet(suits)
  <2>1. \A S, x : IsFiniteSet(S) => IsFiniteSet(S \cup {x})
    BY FS_AddElement
  <2>2. IsFiniteSet({})
    BY FS_EmptySet
  <2>3. suits = {} \cup {"hearts"} \cup {"spades"} \cup {"diamonds"} \cup {"clubs"} \cup {"joker"}
    BY DEF Suits
  <2> HIDE DEF suits
  <2> QED
    BY <2>1, <2>2, <2>3
<1>2. IsFiniteSet(2..16) /\ IsFiniteSet(1..2)
  <2>1. \A a, b \in Int : IsFiniteSet(a..b)
    BY FS_Interval
  <2>2. {1, 2, 16} \subseteq Int
    OBVIOUS
  <2> QED
    BY <2>1, <2>2, Zenon
<1>3. IsFiniteSet(all)
  <2>1. \A S, T : IsFiniteSet(S) /\ IsFiniteSet(T) => IsFiniteSet(S \X T)
    BY FS_Product
  <2> HIDE DEF suits
  <2> QED
    BY <1>1, <1>2, <2>1
<1>4. IsFiniteSet(cards)
  <2>1. card \in Surjection(all, cards)
    <3> HIDE DEF all
    <3> QED
      BY DEF Surjection
  <2> HIDE DEF card, cards, all
  <2> QED
    BY <1>3, <2>1, FS_Surjection
<1>5. Card \subseteq cards
  <2> SUFFICES ASSUME NEW c \in Card PROVE c \in cards
    OBVIOUS
  <2> DEFINE x == <<<<c.face.suit, c.face.rank>>, c.deck>>
  <2>1. c.face \in Faces /\ c.deck \in 1..2 /\ c = [face |-> c.face, deck |-> c.deck]
    BY DEF Card
  <2>2. /\ c.face.suit \in suits /\ c.face.rank \in 2..16
        /\ c.face = [suit |-> c.face.suit, rank |-> c.face.rank]
    BY <2>1 DEF Faces, SuitedRanks, SmallJoker, BigJoker
  <2> HIDE DEF suits
  <2>3. x \in all
    BY <2>1, <2>2
  <2> HIDE DEF all
  <2>4. card[x] = [face |-> [suit |-> c.face.suit, rank |-> c.face.rank], deck |-> c.deck]
    BY <2>3
  <2> HIDE DEF card
  <2> QED
    BY <2>1, <2>2, <2>3, <2>4
<1> HIDE DEF cards
<1> QED
  BY <1>4, <1>5, FS_Subset

LEMMA LeadAlways == Spec => []LeadInv
<1>1. Init => LeadInv
  <2> SUFFICES ASSUME Init PROVE LeadInv
    OBVIOUS
  <2>1. CASE DecoderInit /\ LeadIdle
    BY <2>1, FS_EmptySet DEF LeadIdle, LeadInv, Some
  <2>2. CASE LeadInit /\ DecoderIdle
    <3>1. PICK h \in RuleHands : \E f, g \in [h.faces -> 0..2] :
            attempted = First(f) /\ opponent = Last(g) /\ LegalLead(attempted, RuleTrump)
      BY <2>2 DEF LeadInit
    <3>6. PICK f \in [h.faces -> 0..2], g \in [h.faces -> 0..2] :
            attempted = First(f) /\ opponent = Last(g) /\ LegalLead(attempted, RuleTrump)
      BY <3>1
    <3>2. h.faces \in SUBSET Faces
      BY RuleAssumption
    <3>3. ASSUME NEW k \in 0..2 PROVE 1..k \subseteq {1, 2} /\ \A i \in 1..k : 3 - i \in {1, 2}
      OBVIOUS
    <3>4. First(f) \in SUBSET Card
      BY <3>2, <3>3 DEF First, Card
    <3>5. Last(g) \in SUBSET Card
      BY <3>2, <3>3 DEF Last, Card
    <3> QED
      BY <3>6, <3>4, <3>5, CardsFinite, FS_Subset DEF LeadInv, Some, LegalLead
  <2> QED
    BY <2>1, <2>2 DEF Init
<1>2. LeadInv /\ [Next]_<<decoderVars, leadVars>> => LeadInv'
  <2> SUFFICES ASSUME LeadInv, [Next]_<<decoderVars, leadVars>> PROVE LeadInv'
    OBVIOUS
  <2>1. CASE UNCHANGED leadVars
    BY <2>1 DEF LeadInv, leadVars, Some
  <2>2. CASE Resolve
    <3>1. attempted' \in SUBSET attempted /\ attempted' # {}
      BY <2>2, RuleAssumption, ResolveLeadIn DEF Resolve, LeadInv, Some
    <3>2. IsFiniteSet(attempted')
      BY <3>1, FS_Subset DEF LeadInv, Some
    <3>3. Analyzable(attempted', RuleTrump)
      BY <2>2, <3>1, OneSuit DEF Resolve, LeadInv, Some
    <3> QED
      BY <2>2, <3>1, <3>2, <3>3 DEF Resolve, LeadInv, Some
  <2> QED
    BY <2>1, <2>2 DEF Next, leadVars
<1> QED
  BY <1>1, <1>2, PTL DEF Spec

\* The sequential scan of a trick finds a play no other play of it beats, and
\* of equals the earliest (_complete_trick over compare_plays), for every hand
\* and trump: with CanWin, kills and lengths the comparison is a strict weak
\* order, and the order in which the seats play decides only ties.
THEOREM ScansFindTheBest == Spec => []WinnerUnbeaten
<1>1. LeadInv => WinnerUnbeaten
  <2> SUFFICES ASSUME LeadInv, attempted # {} PROVE WinnerUnbeaten
    BY DEF WinnerUnbeaten
  <2> DEFINE size == Cardinality(attempted)
             slot(a, cards) == [actor |-> a, cards |-> cards]
             plays == {w \in SUBSET opponent : Cardinality(w) = size}
             slots(b, c) == <<slot(1, attempted), slot(2, b), slot(3, c), slot(4, b)>>
             won(b, c) == WinningSlot(slots(b, c), RuleTrump)
  <2>1. size \in Nat \ {0}
    BY FS_CardinalityType, FS_EmptySet DEF LeadInv, Some
  <2>2. IsPlay(attempted) /\ \A w \in plays : IsPlay(w)
    <3>1. \A w \in plays : IsFiniteSet(w) /\ w \in SUBSET Card
      BY FS_Subset DEF LeadInv, Some
    <3>2. \A w \in plays : w # {}
      BY <2>1, FS_EmptySet
    <3> QED
      BY <3>1, <3>2 DEF LeadInv, Some, IsPlay
  <2>3. ASSUME NEW b \in plays, NEW c \in plays, NEW i \in 1..4
        PROVE  /\ ~Wins(slots(b, c)[i].cards, won(b, c).cards, attempted, RuleTrump)
               /\ i < won(b, c).actor
                    => Wins(won(b, c).cards, slots(b, c)[i].cards, attempted, RuleTrump)
    <3>1. /\ \A k \in 1..4 : slots(b, c)[k].actor = k
          /\ slots(b, c)[1].cards = attempted
          /\ \A k \in 1..4 : slots(b, c)[k].cards \in {attempted, b, c}
      OBVIOUS
    <3> HIDE DEF slots
    <3>2. \A k \in 1..4 : IsPlay(slots(b, c)[k].cards)
      BY <2>2, <3>1
    <3>3. RuleTrump \in Trumps
      BY RuleAssumption
    <3> QED
      BY <3>1, <3>2, <3>3, ScanFindsTheBest
  <2> HIDE DEF plays
  <2> QED
    BY <2>3 DEF WinnerUnbeaten, plays
<1> QED
  BY <1>1, LeadAlways, PTL

\* What resolve_lead_throw relies on, for every hand and trump: the greedy
\* analysis loses and repeats no card; _is_biggest, which looks at the analysed
\* patterns of a hand only, is true exactly when no answer of the same kind
\* wins; and a throw that fails is cut down to a pattern that can be beaten and
\* none shorter than it.
THEOREM ThrowsAreJudged == Spec => []ThrowsStand
<1>1. LeadInv => ThrowsStand
  <2> SUFFICES ASSUME LeadInv PROVE ThrowsStand
    OBVIOUS
  <2>1. /\ attempted \in SUBSET Card /\ IsFiniteSet(attempted)
        /\ opponent \in SUBSET Card /\ IsFiniteSet(opponent)
        /\ RuleTrump \in Trumps
    BY RuleAssumption DEF LeadInv, Some
  <2>2. \A p \in Analyze(attempted, RuleTrump) : p.cards \in SUBSET attempted /\ p.cards # {}
    BY <2>1, PatternIn
  <2>3. PatternsPartition
    BY <2>1, Partitioned, PatternSize DEF PatternsPartition
  <2>4. ASSUME NEW p \in Analyze(attempted, RuleTrump)
        PROVE  IsBiggest(p, {opponent}, RuleTrump)
                 <=> \A w \in Answers(p) : ~Wins(w, p.cards, p.cards, RuleTrump)
    <3>1. Analyzable(attempted, RuleTrump)
      BY <2>2 DEF LeadInv
    <3>2. ASSUME ~IsBiggest(p, {opponent}, RuleTrump)
          PROVE  \E w \in Answers(p) : Wins(w, p.cards, p.cards, RuleTrump)
      <4> DEFINE others == {opponent}
      <4>1. \A h \in others : h \in SUBSET Card /\ IsFiniteSet(h)
        BY <2>1
      <4>2. ~IsBiggest(p, others, RuleTrump)
        BY <3>2
      <4> HIDE DEF others
      <4>3. \E h \in others :
              \E w \in SUBSET OfSuit(h, LeadSuit(p.cards, RuleTrump), RuleTrump) :
                /\ Cardinality(w) = Cardinality(p.cards)
                /\ Shape(w, RuleTrump) = Shape(p.cards, RuleTrump)
                /\ Wins(w, p.cards, p.cards, RuleTrump)
        BY <2>1, <3>1, <4>1, <4>2, FailingIsBeaten
      <4> QED
        BY <4>3 DEF Answers, others
    <3>3. ASSUME NEW w \in Answers(p), Wins(w, p.cards, p.cards, RuleTrump)
          PROVE  ~IsBiggest(p, {opponent}, RuleTrump)
      <4>1. /\ w \in SUBSET OfSuit(opponent, LeadSuit(p.cards, RuleTrump), RuleTrump)
            /\ Cardinality(w) = Cardinality(p.cards)
            /\ Shape(w, RuleTrump) = Shape(p.cards, RuleTrump)
        BY DEF Answers
      <4> QED
        BY <2>1, <3>1, <3>3, <4>1, BeatenIsFailing
    <3> QED
      BY <3>2, <3>3
  <2>5. BiggestIsUnbeatable
    BY <2>4 DEF BiggestIsUnbeatable
  <2>6. ForcedIsSmallestBeatable
    <3> DEFINE led == ResolveLead(attempted, {opponent}, RuleTrump)
    <3> SUFFICES ASSUME led # attempted
                 PROVE  \E p \in Analyze(attempted, RuleTrump) :
                          /\ p.cards = led
                          /\ \E w \in Answers(p) : Wins(w, p.cards, p.cards, RuleTrump)
                          /\ \A q \in Analyze(attempted, RuleTrump) :
                               q.pairs < p.pairs
                                 => \A w \in Answers(q) : ~Wins(w, q.cards, q.cards, RuleTrump)
      BY DEF ForcedIsSmallestBeatable
    <3>1. attempted # {}
      <4> SUFFICES ASSUME attempted = {} PROVE FALSE
        OBVIOUS
      <4>1. Analyze(attempted, RuleTrump) = {}
        BY <2>2
      <4> QED
        BY <4>1 DEF ResolveLead
    <3>2. PICK p \in Analyze(attempted, RuleTrump) :
            /\ ~IsBiggest(p, {opponent}, RuleTrump) /\ led = p.cards
            /\ \A q \in Analyze(attempted, RuleTrump) :
                 ~IsBiggest(q, {opponent}, RuleTrump) => p.pairs <= q.pairs
      BY <2>1, <3>1, ResolveLeadIn
    <3>3. \A q \in Analyze(attempted, RuleTrump) : q.pairs \in Nat
      BY <2>1, PatternIn
    <3>4. \A q \in Analyze(attempted, RuleTrump) :
            q.pairs < p.pairs => IsBiggest(q, {opponent}, RuleTrump)
      BY <3>2, <3>3
    <3> HIDE DEF led
    <3> QED
      BY <2>4, <3>2, <3>4
  <2> QED
    BY <2>3, <2>5, <2>6 DEF ThrowsStand
<1> QED
  BY <1>1, LeadAlways, PTL

---------------------------------------------------------------------------
(* Weights: how many cards it is to have one of each face of a set, and    *)
(* another of those counted twice.  What would be proved by induction on a *)
(* set is proved from a smallest set for which it fails.                   *)

Twos(S, v) == {x \in S : v[x] = 2}
Weight(S, v) == Cardinality(S) + Cardinality(Twos(S, v))

LEMMA LeastSubset ==
  ASSUME NEW S, IsFiniteSet(S), NEW B \in SUBSET (SUBSET S), B # {}
  PROVE  \E T \in B : \A U \in B : U \subseteq T => U = T
<1>1. B \subseteq FiniteSubsetsOf(S)
  BY FS_Subset DEF FiniteSubsetsOf
<1>2. PICK T \in B : \A U \in B : ~(<<U, T>> \in StrictSubsetOrdering(S))
  BY <1>1, WFMin, FS_StrictSubsetOrderingWellFounded
<1>3. \A U \in B : U \subseteq T => U = T
  BY <1>2 DEF StrictSubsetOrdering
<1> QED
  BY <1>3

LEMMA WeightType ==
  ASSUME NEW S, IsFiniteSet(S), NEW v
  PROVE  /\ IsFiniteSet(Twos(S, v)) /\ Cardinality(Twos(S, v)) \in Nat
         /\ Cardinality(S) \in Nat /\ Cardinality(Twos(S, v)) <= Cardinality(S)
         /\ Weight(S, v) \in Nat
         /\ Cardinality(S) <= Weight(S, v) /\ Weight(S, v) <= 2 * Cardinality(S)
<1>1. Twos(S, v) \in SUBSET S
  BY DEF Twos
<1>2. IsFiniteSet(Twos(S, v)) /\ Cardinality(Twos(S, v)) <= Cardinality(S)
  BY <1>1, FS_Subset
<1>3. Cardinality(S) \in Nat /\ Cardinality(Twos(S, v)) \in Nat
  BY <1>2, FS_CardinalityType
<1> QED
  BY <1>2, <1>3 DEF Weight

LEMMA WeightEmpty ==
  ASSUME NEW v
  PROVE  Weight({}, v) = 0
<1>1. Twos({}, v) = {} /\ Cardinality({}) = 0
  BY FS_EmptySet DEF Twos
<1> QED
  BY <1>1 DEF Weight

LEMMA DisjointUnion ==
  ASSUME NEW S, IsFiniteSet(S), NEW T, IsFiniteSet(T), S \cap T = {}
  PROVE  /\ IsFiniteSet(S \cup T)
         /\ Cardinality(S \cup T) = Cardinality(S) + Cardinality(T)
<1>1. /\ IsFiniteSet(S \cup T)
      /\ Cardinality(S \cup T) = Cardinality(S) + Cardinality(T) - Cardinality(S \cap T)
  BY FS_Union, Zenon
<1>2. Cardinality(S \cap T) = 0
  BY FS_EmptySet
<1>3. Cardinality(S) \in Nat /\ Cardinality(T) \in Nat
  BY FS_CardinalityType
<1> QED
  BY <1>1, <1>2, <1>3

LEMMA WeightUnion ==
  ASSUME NEW S, IsFiniteSet(S), NEW T, IsFiniteSet(T), S \cap T = {}, NEW v
  PROVE  Weight(S \cup T, v) = Weight(S, v) + Weight(T, v)
<1>1. /\ Twos(S \cup T, v) = Twos(S, v) \cup Twos(T, v)
      /\ Twos(S, v) \cap Twos(T, v) = {}
  BY DEF Twos
<1>2. /\ IsFiniteSet(Twos(S, v)) /\ Cardinality(Twos(S, v)) \in Nat /\ Cardinality(S) \in Nat
      /\ IsFiniteSet(Twos(T, v)) /\ Cardinality(Twos(T, v)) \in Nat /\ Cardinality(T) \in Nat
  BY WeightType
<1>3. Cardinality(S \cup T) = Cardinality(S) + Cardinality(T)
  BY DisjointUnion
<1>4. Cardinality(Twos(S \cup T, v)) = Cardinality(Twos(S, v)) + Cardinality(Twos(T, v))
  BY <1>1, <1>2, DisjointUnion
<1> QED
  BY <1>2, <1>3, <1>4 DEF Weight

LEMMA WeightSame ==
  ASSUME NEW S, NEW v, NEW w, \A x \in S : v[x] = w[x]
  PROVE  Weight(S, v) = Weight(S, w)
<1>1. Twos(S, v) = Twos(S, w)
  BY DEF Twos
<1> QED
  BY <1>1 DEF Weight

LEMMA WeightOfOne ==
  ASSUME NEW x, NEW v, v[x] \in {1, 2}
  PROVE  Weight({x}, v) = v[x]
<1>1. Cardinality({x}) = 1 /\ Cardinality({}) = 0
  BY FS_Singleton, FS_EmptySet
<1>2. Twos({x}, v) = IF v[x] = 2 THEN {x} ELSE {}
  BY DEF Twos
<1> QED
  BY <1>1, <1>2 DEF Weight

LEMMA WeightStep ==
  ASSUME NEW S, IsFiniteSet(S), NEW x \in S, NEW v, v[x] \in {1, 2}
  PROVE  Weight(S, v) = v[x] + Weight(S \ {x}, v)
<1>1. S = {x} \cup (S \ {x}) /\ {x} \cap (S \ {x}) = {}
  OBVIOUS
<1>2. IsFiniteSet({x}) /\ IsFiniteSet(S \ {x})
  BY FS_Singleton, FS_Subset
<1>3. Weight({x} \cup (S \ {x}), v) = Weight({x}, v) + Weight(S \ {x}, v)
  BY <1>1, <1>2, WeightUnion
<1> QED
  BY <1>1, <1>3, WeightOfOne

Pick(s) == CHOOSE x \in s : TRUE

(* The order in which MapThenSumSet adds makes no difference. *)
LEMMA FoldIsWeight ==
  ASSUME NEW S, IsFiniteSet(S), NEW v, \A x \in S : v[x] \in {1, 2}, NEW h,
         \A s \in SUBSET S : h[s] = IF s = {} THEN 0 ELSE v[Pick(s)] + h[s \ {Pick(s)}]
  PROVE  h[S] = Weight(S, v)
<1> DEFINE B == {s \in SUBSET S : h[s] # Weight(s, v)}
<1>1. SUFFICES ASSUME B # {} PROVE FALSE
  BY <1>1
<1>0. B \in SUBSET (SUBSET S)
  OBVIOUS
<1> HIDE DEF B
<1>2. PICK s \in B : \A U \in B : U \subseteq s => U = s
  BY <1>0, <1>1, LeastSubset
<1> USE DEF B
<1>3. s \in SUBSET S /\ IsFiniteSet(s) /\ h[s] # Weight(s, v)
  BY <1>2, FS_Subset
<1>4. s # {}
  BY <1>3, WeightEmpty
<1> DEFINE x == Pick(s)
<1>5. x \in s /\ h[s] = v[x] + h[s \ {x}]
  BY <1>3, <1>4 DEF Pick
<1> HIDE DEF x
<1>6. h[s \ {x}] = Weight(s \ {x}, v)
  BY <1>2, <1>5
<1>7. Weight(s, v) = v[x] + Weight(s \ {x}, v)
  BY <1>3, <1>5, WeightStep
<1> QED
  BY <1>3, <1>5, <1>6, <1>7

LEMMA WeightIterates ==
  ASSUME NEW S, IsFiniteSet(S), NEW v, \A x \in S : v[x] \in {1, 2}, NEW s \in SUBSET S
  PROVE  Weight(s, v) = IF s = {} THEN 0 ELSE v[Pick(s)] + Weight(s \ {Pick(s)}, v)
<1>1. CASE s = {}
  BY <1>1, WeightEmpty
<1>2. CASE s # {}
  <2>1. Pick(s) \in s /\ IsFiniteSet(s)
    BY <1>2, FS_Subset DEF Pick
  <2> QED
    BY <1>2, <2>1, WeightStep
<1> QED
  BY <1>1, <1>2

LEMMA SumOfCounts ==
  ASSUME NEW S, IsFiniteSet(S), NEW v, \A x \in S : v[x] \in {1, 2}
  PROVE  MapThenSumSet(LAMBDA x : v[x], S) = Weight(S, v)
<1> DEFINE P(g) == g = [s \in SUBSET S |-> IF s = {} THEN 0 ELSE v[Pick(s)] + g[s \ {Pick(s)}]]
           h == CHOOSE g : P(g)
           g0 == [s \in SUBSET S |-> Weight(s, v)]
<1>1. MapThenSumSet(LAMBDA x : v[x], S) = h[S]
  BY DEF MapThenSumSet, MapThenFoldSet, Pick
<1>2. P(g0)
  <2>1. \A s \in SUBSET S : g0[s] = IF s = {} THEN 0 ELSE v[Pick(s)] + g0[s \ {Pick(s)}]
    BY WeightIterates
  <2>2. g0 = [s \in SUBSET S |-> g0[s]]
    OBVIOUS
  <2> HIDE DEF g0
  <2> QED
    BY <2>1, <2>2
<1>3. P(h)
  <2> HIDE DEF P
  <2> QED
    BY <1>2
<1> HIDE DEF h
<1>4. \A s \in SUBSET S : h[s] = IF s = {} THEN 0 ELSE v[Pick(s)] + h[s \ {Pick(s)}]
  BY <1>3
<1>5. h[S] = Weight(S, v)
  BY <1>4, FoldIsWeight
<1> QED
  BY <1>1, <1>5

LEMMA SubsetOfSize ==
  ASSUME NEW S, IsFiniteSet(S), NEW k \in Nat, k <= Cardinality(S)
  PROVE  \E T \in SUBSET S : IsFiniteSet(T) /\ Cardinality(T) = k
<1> DEFINE B == {T \in SUBSET S : Cardinality(T) >= k}
<1>1. B # {} /\ B \in SUBSET (SUBSET S)
  <2>1. S \in B
    BY FS_CardinalityType
  <2> QED
    BY <2>1
<1> HIDE DEF B
<1>2. PICK T \in B : \A U \in B : U \subseteq T => U = T
  BY <1>1, LeastSubset
<1>3. T \in SUBSET S /\ IsFiniteSet(T) /\ Cardinality(T) \in Nat /\ Cardinality(T) >= k
  BY <1>2, FS_Subset, FS_CardinalityType DEF B
<1>4. ASSUME Cardinality(T) > k PROVE FALSE
  <2>1. PICK x : x \in T
    BY <1>3, <1>4, FS_EmptySet
  <2>2. Cardinality(T \ {x}) = Cardinality(T) - 1
    BY <1>3, <2>1, FS_RemoveElement
  <2>3. T \ {x} \in B
    BY <1>3, <1>4, <2>2 DEF B
  <2> QED
    BY <1>2, <2>1, <2>3
<1> QED
  BY <1>3, <1>4

(* Of the elements of S, and those of D twice if wanted, k with n twice. *)
LEMMA ChooseWithPairs ==
  ASSUME NEW S, IsFiniteSet(S), NEW D \in SUBSET S, NEW k \in Nat, NEW n \in Nat,
         n <= Cardinality(D), 2 * n <= k, k - n <= Cardinality(S)
  PROVE  \E T \in SUBSET S : \E P \in SUBSET (T \cap D) :
           Cardinality(P) = n /\ Cardinality(T) + Cardinality(P) = k
<1>1. IsFiniteSet(D) /\ Cardinality(S) \in Nat
  BY FS_Subset, FS_CardinalityType
<1>2. PICK P \in SUBSET D : IsFiniteSet(P) /\ Cardinality(P) = n
  BY <1>1, SubsetOfSize
<1>3. IsFiniteSet(S \ P) /\ Cardinality(S \ P) = Cardinality(S) - n
  <2>1. IsFiniteSet(S \ P) /\ Cardinality(S \ P) = Cardinality(S) - Cardinality(S \cap P)
    BY FS_Difference
  <2>2. S \cap P = P
    BY <1>2
  <2> QED
    BY <1>2, <2>1, <2>2
<1>4. k - 2 * n \in Nat /\ k - 2 * n <= Cardinality(S \ P)
  BY <1>1, <1>3
<1>5. PICK U \in SUBSET (S \ P) : IsFiniteSet(U) /\ Cardinality(U) = k - 2 * n
  BY <1>3, <1>4, SubsetOfSize
<1>6. Cardinality(P \cup U) = n + (k - 2 * n)
  BY <1>2, <1>5, DisjointUnion
<1>7. P \cup U \in SUBSET S /\ P \in SUBSET ((P \cup U) \cap D)
  BY <1>2, <1>5
<1>8. Cardinality(P \cup U) + Cardinality(P) = k
  BY <1>2, <1>6
<1> QED
  BY <1>2, <1>7, <1>8

LEMMA ChooseSome ==
  ASSUME NEW S, IsFiniteSet(S), NEW D \in SUBSET S, NEW k \in Nat,
         k <= Cardinality(S) + Cardinality(D)
  PROVE  \E T \in SUBSET S : \E P \in SUBSET (T \cap D) :
           Cardinality(T) + Cardinality(P) = k
<1> DEFINE n == IF k <= Cardinality(S) THEN 0 ELSE k - Cardinality(S)
<1>1. /\ Cardinality(S) \in Nat /\ Cardinality(D) \in Nat
      /\ Cardinality(D) <= Cardinality(S)
  BY FS_Subset, FS_CardinalityType
<1>2. n \in Nat /\ n <= Cardinality(D) /\ 2 * n <= k /\ k - n <= Cardinality(S)
  BY <1>1
<1> HIDE DEF n
<1>3. \E T \in SUBSET S : \E P \in SUBSET (T \cap D) :
        Cardinality(P) = n /\ Cardinality(T) + Cardinality(P) = k
  BY <1>2, ChooseWithPairs
<1> QED
  BY <1>3

---------------------------------------------------------------------------
(* Cards and the counts of their faces                                     *)

LEMMA CopiesSize ==
  ASSUME NEW cards \in SUBSET Card, NEW f
  PROVE  /\ IsFiniteSet(Copies(cards, f)) /\ Cardinality(Copies(cards, f)) \in {0, 1, 2}
         /\ f \in FacesOf(cards) <=> Cardinality(Copies(cards, f)) \in {1, 2}
<1> DEFINE one == [face |-> f, deck |-> 1]
           two == [face |-> f, deck |-> 2]
<1>1. Copies(cards, f) \subseteq {one} \cup {two}
  BY DEF Copies, Card
<1>2. IsFiniteSet({one} \cup {two}) /\ Cardinality({one} \cup {two}) <= 2
  <2> HIDE DEF one, two
  <2>1. IsFiniteSet({one}) /\ Cardinality({one}) = 1
    BY FS_Singleton
  <2>2. /\ IsFiniteSet({one} \cup {two})
        /\ \/ Cardinality({one} \cup {two}) = Cardinality({one})
           \/ Cardinality({one} \cup {two}) = Cardinality({one}) + 1
    BY <2>1, FS_AddElement, Zenon
  <2> QED
    BY <2>1, <2>2
<1> HIDE DEF one, two
<1>3. IsFiniteSet(Copies(cards, f)) /\ Cardinality(Copies(cards, f)) <= 2
  <2>1. /\ IsFiniteSet(Copies(cards, f))
        /\ Cardinality(Copies(cards, f)) <= Cardinality({one} \cup {two})
    BY <1>1, <1>2, FS_Subset, Zenon
  <2>2. Cardinality(Copies(cards, f)) \in Nat /\ Cardinality({one} \cup {two}) \in Nat
    BY <1>2, <2>1, FS_CardinalityType
  <2> QED
    BY <1>2, <2>1, <2>2
<1>4. Cardinality(Copies(cards, f)) \in Nat
  BY <1>3, FS_CardinalityType
<1>5. f \in FacesOf(cards) <=> Copies(cards, f) # {}
  BY DEF FacesOf, Copies
<1>6. Copies(cards, f) # {} <=> Cardinality(Copies(cards, f)) # 0
  BY <1>3, FS_EmptySet
<1> QED
  BY <1>3, <1>4, <1>5, <1>6

LEMMA FacesCounted ==
  ASSUME NEW cards \in SUBSET Card, IsFiniteSet(cards)
  PROVE  /\ IsFiniteSet(FacesOf(cards)) /\ IsFiniteSet(PairFaces(cards))
         /\ Cardinality(cards) = Cardinality(FacesOf(cards)) + Cardinality(PairFaces(cards))
<1> DEFINE other(c) == [face |-> c.face, deck |-> 1]
           seconds == {c \in cards : c.deck = 2 /\ other(c) \in cards}
           firsts == cards \ seconds
           face1 == [c \in firsts |-> c.face]
           face2 == [c \in seconds |-> c.face]
<1>1. IsFiniteSet(firsts) /\ IsFiniteSet(seconds)
  BY FS_Subset
<1>2. face1 \in Surjection(firsts, FacesOf(cards))
  <2>1. ASSUME NEW f \in FacesOf(cards) PROVE \E c \in firsts : c.face = f
    <3>1. PICK c \in cards : c.face = f
      BY DEF FacesOf
    <3>2. CASE c \in firsts
      BY <3>1, <3>2
    <3>3. CASE c \in seconds
      <4>1. other(c) \in cards /\ other(c).deck = 1 /\ other(c).face = f
        BY <3>1, <3>3
      <4> QED
        BY <4>1
    <3> QED
      BY <3>1, <3>2, <3>3
  <2>2. \A c \in firsts : c.face \in FacesOf(cards)
    BY DEF FacesOf
  <2> QED
    BY <2>1, <2>2 DEF Surjection
<1>3. face1 \in Injection(firsts, FacesOf(cards))
  <2>1. ASSUME NEW c \in firsts, NEW d \in firsts, c.face = d.face PROVE c = d
    <3>1. /\ c = [face |-> c.face, deck |-> c.deck] /\ c.deck \in {1, 2}
          /\ d = [face |-> d.face, deck |-> d.deck] /\ d.deck \in {1, 2}
      BY DEF Card
    <3> QED
      BY <2>1, <3>1
  <2>2. face1 \in [firsts -> FacesOf(cards)]
    BY <1>2 DEF Surjection
  <2>3. \A c, d \in firsts : face1[c] = face1[d] => c = d
    BY <2>1
  <2> HIDE DEF face1, firsts
  <2> QED
    BY <2>2, <2>3 DEF Injection, IsInjective
<1>4. face2 \in Surjection(seconds, PairFaces(cards))
  <2>1. ASSUME NEW f \in PairFaces(cards) PROVE \E c \in seconds : c.face = f
    <3> DEFINE c == [face |-> f, deck |-> 2]
    <3>1. c \in cards /\ other(c) \in cards
      BY CopiesOfAFace DEF PairFaces
    <3> QED
      BY <3>1
  <2>2. ASSUME NEW c \in seconds PROVE c.face \in PairFaces(cards)
    <3>1. c = [face |-> c.face, deck |-> 2] /\ other(c) \in cards
      BY DEF Card
    <3> QED
      BY <3>1, CopiesOfAFace DEF PairFaces, FacesOf
  <2> QED
    BY <2>1, <2>2 DEF Surjection
<1>5. face2 \in Injection(seconds, PairFaces(cards))
  <2>1. ASSUME NEW c \in seconds, NEW d \in seconds, c.face = d.face PROVE c = d
    <3>1. c = [face |-> c.face, deck |-> 2] /\ d = [face |-> d.face, deck |-> 2]
      BY DEF Card
    <3> QED
      BY <2>1, <3>1
  <2>2. face2 \in [seconds -> PairFaces(cards)]
    BY <1>4 DEF Surjection
  <2>3. \A c, d \in seconds : face2[c] = face2[d] => c = d
    BY <2>1
  <2> HIDE DEF face2, seconds
  <2> QED
    BY <2>2, <2>3 DEF Injection, IsInjective
<1> HIDE DEF face1, face2
<1>6. cards = firsts \cup seconds /\ firsts \cap seconds = {}
  OBVIOUS
<1> HIDE DEF firsts, seconds
<1>7. IsFiniteSet(FacesOf(cards)) /\ Cardinality(FacesOf(cards)) = Cardinality(firsts)
  BY <1>1, <1>2, <1>3, FS_Surjection
<1>8. IsFiniteSet(PairFaces(cards)) /\ Cardinality(PairFaces(cards)) = Cardinality(seconds)
  BY <1>1, <1>4, <1>5, FS_Surjection
<1>9. Cardinality(cards) = Cardinality(firsts) + Cardinality(seconds)
  BY <1>1, <1>6, DisjointUnion
<1> QED
  BY <1>7, <1>8, <1>9

CardsKnown == hand \in SUBSET Card /\ IsFiniteSet(hand)

\* What may be selected of the hand: some of its faces, once or twice.
Selection(m) ==
  /\ m = [f \in DOMAIN m |-> m[f]] /\ DOMAIN m \subseteq Offered
  /\ \A f \in DOMAIN m : m[f] \in {1, 2} /\ m[f] <= Count(f)

LEMMA OfferedCounts ==
  ASSUME CardsKnown
  PROVE  /\ IsFiniteSet(Offered) /\ Offered \subseteq Faces
         /\ \A f : Count(f) \in {0, 1, 2} /\ (f \in Offered <=> Count(f) \in {1, 2})
         /\ PairFaces(hand) = {f \in Offered : Count(f) = 2}
<1>1. IsFiniteSet(Offered)
  BY FacesCounted DEF CardsKnown, Offered
<1>2. Offered \subseteq Faces
  BY DEF CardsKnown, Offered, FacesOf, Card
<1>3. \A f : Count(f) \in {0, 1, 2} /\ (f \in Offered <=> Count(f) \in {1, 2})
  BY CopiesSize DEF CardsKnown, Offered, Count
<1>4. PairFaces(hand) = {f \in Offered : Count(f) = 2}
  BY DEF PairFaces, Offered, Count
<1> QED
  BY <1>1, <1>2, <1>3, <1>4

LEMMA CountsSelected ==
  ASSUME CardsKnown, NEW cards \in SUBSET hand
  PROVE  /\ Selection(CountsOf(cards)) /\ DOMAIN CountsOf(cards) = FacesOf(cards)
         /\ \A f \in FacesOf(cards) : CountsOf(cards)[f] = Cardinality(Copies(cards, f))
         /\ PairFaces(cards) = Twos(FacesOf(cards), CountsOf(cards))
         /\ IsFiniteSet(cards) /\ IsFiniteSet(FacesOf(cards))
         /\ Cardinality(cards) = Weight(FacesOf(cards), CountsOf(cards))
<1>1. cards \in SUBSET Card /\ IsFiniteSet(cards)
  BY FS_Subset DEF CardsKnown
<1>2. DOMAIN CountsOf(cards) = FacesOf(cards)
  BY DEF CountsOf
<1>3. ASSUME NEW f \in FacesOf(cards)
      PROVE  /\ CountsOf(cards)[f] = Cardinality(Copies(cards, f))
             /\ CountsOf(cards)[f] \in {1, 2} /\ CountsOf(cards)[f] <= Count(f)
             /\ f \in Offered
  <2>1. CountsOf(cards)[f] = Cardinality(Copies(cards, f))
    BY DEF CountsOf
  <2>2. Cardinality(Copies(cards, f)) \in {1, 2}
    BY <1>1, CopiesSize
  <2>3. Copies(cards, f) \in SUBSET Copies(hand, f) /\ IsFiniteSet(Copies(hand, f))
    BY CopiesSize DEF Copies, CardsKnown
  <2>4. Cardinality(Copies(cards, f)) <= Count(f)
    BY <2>3, FS_Subset DEF Count
  <2>5. f \in Offered
    BY DEF FacesOf, Offered
  <2> QED
    BY <2>1, <2>2, <2>4, <2>5
<1>4. Selection(CountsOf(cards))
  <2>1. CountsOf(cards) = [f \in FacesOf(cards) |-> CountsOf(cards)[f]]
    BY DEF CountsOf
  <2> QED
    BY <1>2, <1>3, <2>1 DEF Selection
<1>5. PairFaces(cards) = Twos(FacesOf(cards), CountsOf(cards))
  BY <1>3 DEF PairFaces, Twos
<1>6. IsFiniteSet(FacesOf(cards)) /\ Cardinality(cards) = Weight(FacesOf(cards), CountsOf(cards))
  BY <1>1, <1>5, FacesCounted DEF Weight
<1> QED
  BY <1>1, <1>2, <1>3, <1>4, <1>5, <1>6

LEMMA LeastDeck ==
  ASSUME CardsKnown, NEW f \in Offered
  PROVE  LET least == {c \in Copies(hand, f) : c.deck = Min({d.deck : d \in Copies(hand, f)})}
         IN  Cardinality(least) = 1 /\ least # {}
<1> DEFINE decks == {d.deck : d \in Copies(hand, f)}
           least == {c \in Copies(hand, f) : c.deck = Min(decks)}
<1>1. decks \in SUBSET Nat /\ decks # {}
  <2>1. \A c \in Copies(hand, f) : c.deck \in {1, 2}
    BY DEF CardsKnown, Copies, Card
  <2>2. Copies(hand, f) # {}
    BY DEF Offered, FacesOf, Copies
  <2> QED
    BY <2>1, <2>2
<1>2. \E m \in decks : \A n \in decks : m <= n
  BY <1>1, LeastNatural
<1>3. Min(decks) \in decks
  BY <1>2 DEF Min
<1>4. PICK c \in Copies(hand, f) : c.deck = Min(decks)
  BY <1>3
<1>5. \A d \in Copies(hand, f) : d = [face |-> f, deck |-> d.deck]
  BY DEF CardsKnown, Copies, Card
<1>6. \A d \in Copies(hand, f) : d.deck = Min(decks) => d = c
  BY <1>4, <1>5
<1> HIDE DEF decks
<1>7. least = {c}
  BY <1>4, <1>6
<1>8. Cardinality({c}) = 1
  BY FS_Singleton
<1> QED
  BY <1>7, <1>8 DEF decks

\* bind_face_counts gives back exactly what was selected.
LEMMA BoundCounts ==
  ASSUME CardsKnown, NEW m, Selection(m)
  PROVE  Bound(m) \in SUBSET hand /\ CountsOf(Bound(m)) = m /\ FacesOf(Bound(m)) = DOMAIN m
<1> DEFINE part(f) == {c \in Copies(hand, f) :
                         m[f] = 2 \/ c.deck = Min({d.deck : d \in Copies(hand, f)})}
<1>1. Bound(m) = UNION {part(f) : f \in DOMAIN m}
  BY DEF Bound
<1>2. \A f : \A c \in part(f) : c \in hand /\ c.face = f
  BY DEF Copies
<1>3. ASSUME NEW f \in DOMAIN m PROVE Cardinality(part(f)) = m[f] /\ part(f) # {}
  <2>1. f \in Offered /\ m[f] \in {1, 2} /\ m[f] <= Count(f) /\ Count(f) \in {1, 2}
    BY OfferedCounts DEF Selection
  <2>2. CASE m[f] = 2
    <3>1. part(f) = Copies(hand, f)
      BY <2>2
    <3>2. Count(f) = 2
      BY <2>1, <2>2
    <3>3. Copies(hand, f) # {}
      BY <2>1 DEF Offered, FacesOf, Copies
    <3> QED
      BY <2>2, <3>1, <3>2, <3>3 DEF Count
  <2>3. CASE m[f] = 1
    <3>1. part(f) = {c \in Copies(hand, f) : c.deck = Min({d.deck : d \in Copies(hand, f)})}
      BY <2>3
    <3> QED
      BY <2>1, <2>3, <3>1, LeastDeck
  <2> QED
    BY <2>1, <2>2, <2>3
<1> HIDE DEF part
<1>4. \A f \in DOMAIN m : Copies(Bound(m), f) = part(f)
  BY <1>1, <1>2 DEF Copies
<1>5. Bound(m) \in SUBSET hand
  BY <1>1, <1>2
<1>6. FacesOf(Bound(m)) = DOMAIN m
  <2>1. \A c \in Bound(m) : c.face \in DOMAIN m
    BY <1>1, <1>2
  <2>2. \A f \in DOMAIN m : \E c \in Bound(m) : c.face = f
    <3> TAKE f \in DOMAIN m
    <3>1. PICK c : c \in part(f)
      BY <1>3
    <3>2. c \in Bound(m) /\ c.face = f
      BY <1>1, <1>2, <3>1
    <3> QED
      BY <3>2
  <2> QED
    BY <2>1, <2>2 DEF FacesOf
<1>7. CountsOf(Bound(m)) = [f \in DOMAIN m |-> m[f]]
  BY <1>3, <1>4, <1>6 DEF CountsOf
<1> QED
  BY <1>5, <1>6, <1>7 DEF Selection

---------------------------------------------------------------------------
(* The legal moves, by the counts of their faces                           *)

LEMMA MovesAre ==
  ASSUME NEW m
  PROVE  m \in Moves <=> \E cards \in SUBSET hand : Legal(cards) /\ m = CountsOf(cards)
BY DEF Moves

LEMMA MovesDiscard ==
  ASSUME CardsKnown, query = "discard", NEW m
  PROVE  m \in Moves <=> Selection(m) /\ Weight(DOMAIN m, m) = exact
<1>1. \A cards : Legal(cards) <=> Cardinality(cards) = exact
  BY DEF Legal
<1>2. ASSUME m \in Moves PROVE Selection(m) /\ Weight(DOMAIN m, m) = exact
  BY <1>1, <1>2, MovesAre, CountsSelected
<1>3. ASSUME Selection(m), Weight(DOMAIN m, m) = exact PROVE m \in Moves
  <2>1. Bound(m) \in SUBSET hand /\ CountsOf(Bound(m)) = m /\ FacesOf(Bound(m)) = DOMAIN m
    BY <1>3, BoundCounts
  <2>2. Cardinality(Bound(m)) = Weight(DOMAIN m, m)
    BY <2>1, CountsSelected
  <2> QED
    BY <1>1, <1>3, <2>1, <2>2, MovesAre
<1> QED
  BY <1>2, <1>3

LEMMA LeadBySuit ==
  ASSUME CardsKnown, NEW cards \in SUBSET hand
  PROVE  cards # {} /\ LegalLead(cards, SpaceTrump)
           <=> FacesOf(cards) # {} /\ \A f, g \in FacesOf(cards) : FaceSuit(f) = FaceSuit(g)
<1> DEFINE suits == {EffectiveSuit(c, SpaceTrump) : c \in cards}
<1>1. cards # {} <=> FacesOf(cards) # {}
  BY DEF FacesOf
<1>2. \A c : EffectiveSuit(c, SpaceTrump) = FaceSuit(c.face)
  BY DEF EffectiveSuit, FaceSuit
<1>3. suits = {FaceSuit(f) : f \in FacesOf(cards)}
  BY <1>2 DEF FacesOf
<1>4. IsFiniteSet(suits)
  <2> DEFINE of == [c \in cards |-> EffectiveSuit(c, SpaceTrump)]
  <2>1. of \in Surjection(cards, suits)
    BY DEF Surjection
  <2> HIDE DEF of, suits
  <2> QED
    BY <2>1, FS_Surjection, CountsSelected
<1> HIDE DEF suits
<1>5. Cardinality(suits) = 1 <=> \E x : suits = {x}
  BY <1>4, FS_Singleton
<1>6. FacesOf(cards) # {} =>
        ((\E x : suits = {x}) <=> \A f, g \in FacesOf(cards) : FaceSuit(f) = FaceSuit(g))
  BY <1>3
<1> QED
  BY <1>1, <1>5, <1>6 DEF LegalLead, Analyzable, suits

LEMMA MovesLead ==
  ASSUME CardsKnown, query = "lead_play", NEW m
  PROVE  m \in Moves <=> /\ Selection(m) /\ DOMAIN m # {}
                         /\ \A f, g \in DOMAIN m : FaceSuit(f) = FaceSuit(g)
<1>1. \A cards : Legal(cards) <=> cards # {} /\ LegalLead(cards, SpaceTrump)
  BY DEF Legal
<1>2. ASSUME m \in Moves
      PROVE  /\ Selection(m) /\ DOMAIN m # {}
             /\ \A f, g \in DOMAIN m : FaceSuit(f) = FaceSuit(g)
  <2>1. PICK cards \in SUBSET hand : Legal(cards) /\ m = CountsOf(cards)
    BY <1>2, MovesAre
  <2>2. Selection(m) /\ DOMAIN m = FacesOf(cards)
    BY <2>1, CountsSelected
  <2> QED
    BY <1>1, <2>1, <2>2, LeadBySuit
<1>3. ASSUME Selection(m), DOMAIN m # {}, \A f, g \in DOMAIN m : FaceSuit(f) = FaceSuit(g)
      PROVE  m \in Moves
  <2>1. Bound(m) \in SUBSET hand /\ CountsOf(Bound(m)) = m /\ FacesOf(Bound(m)) = DOMAIN m
    BY <1>3, BoundCounts
  <2>2. Legal(Bound(m))
    BY <1>1, <1>3, <2>1, LeadBySuit
  <2> QED
    BY <2>1, <2>2, MovesAre
<1> QED
  BY <1>2, <1>3

LEMMA SuitCounts ==
  ASSUME CardsKnown, NEW cards \in SUBSET hand
  PROVE  LET suited == OfSuit(cards, Suit, SpaceTrump)
             faces == FacesOf(cards) \cap SameSuit
         IN  /\ FacesOf(suited) = faces
             /\ PairFaces(suited) = Twos(faces, CountsOf(cards))
             /\ Cardinality(suited) = Weight(faces, CountsOf(cards))
             /\ IsFiniteSet(suited)
<1> DEFINE suited == OfSuit(cards, Suit, SpaceTrump)
           faces == FacesOf(cards) \cap SameSuit
<1>1. \A c : EffectiveSuit(c, SpaceTrump) = FaceSuit(c.face)
  BY DEF EffectiveSuit, FaceSuit
<1>2. suited = {c \in cards : FaceSuit(c.face) = Suit}
  BY <1>1 DEF OfSuit
<1>3. suited \in SUBSET hand
  BY <1>2
<1>4. faces = {f \in FacesOf(cards) : FaceSuit(f) = Suit}
  BY DEF SameSuit, Offered, FacesOf
<1>5. FacesOf(suited) = faces
  BY <1>2, <1>4 DEF FacesOf
<1>6. \A f \in faces : Copies(suited, f) = Copies(cards, f)
  BY <1>2, <1>4 DEF Copies
<1>7. \A f \in faces : CountsOf(suited)[f] = CountsOf(cards)[f]
  BY <1>3, <1>4, <1>5, <1>6, CountsSelected
<1> HIDE DEF suited, faces
<1>8. PairFaces(suited) = Twos(faces, CountsOf(suited))
      /\ Cardinality(suited) = Weight(faces, CountsOf(suited)) /\ IsFiniteSet(suited)
  BY <1>3, <1>5, CountsSelected
<1>9. Weight(faces, CountsOf(suited)) = Weight(faces, CountsOf(cards))
  BY <1>7, WeightSame
<1>10. Twos(faces, CountsOf(suited)) = Twos(faces, CountsOf(cards))
  BY <1>7 DEF Twos
<1> QED
  BY <1>5, <1>8, <1>9, <1>10 DEF suited, faces

LEMMA OwnCounts ==
  ASSUME CardsKnown
  PROVE  /\ FacesOf(Own) = SameSuit /\ Own \in SUBSET hand /\ IsFiniteSet(Own)
         /\ PairFaces(Own) = {f \in SameSuit : Count(f) = 2}
         /\ Cardinality(Own) = Cardinality(SameSuit) + Cardinality(PairFaces(Own))
         /\ IsFiniteSet(SameSuit) /\ SameSuit \subseteq Offered /\ IsFiniteSet(PairFaces(Own))
<1>1. SameSuit \subseteq Offered /\ FacesOf(hand) = Offered
  BY DEF SameSuit, Offered
<1>2. Own \in SUBSET hand
  BY DEF Own, OfSuit
<1>3. Own \in SUBSET Card /\ IsFiniteSet(Own)
  BY <1>2, FS_Subset DEF CardsKnown
<1>4. FacesOf(Own) = SameSuit
  BY <1>1, SuitCounts DEF Own
<1>5. PairFaces(Own) = Twos(SameSuit, CountsOf(hand))
  <2>1. FacesOf(hand) \cap SameSuit = SameSuit
    BY <1>1
  <2> QED
    BY <2>1, SuitCounts DEF Own
<1>6. \A f \in SameSuit : CountsOf(hand)[f] = Count(f)
  BY <1>1, CountsSelected DEF Count
<1>7. PairFaces(Own) = {f \in SameSuit : Count(f) = 2}
  BY <1>5, <1>6 DEF Twos
<1>8. /\ IsFiniteSet(SameSuit) /\ IsFiniteSet(PairFaces(Own))
      /\ Cardinality(Own) = Cardinality(SameSuit) + Cardinality(PairFaces(Own))
  BY <1>3, <1>4, FacesCounted
<1> QED
  BY <1>1, <1>2, <1>3, <1>4, <1>7, <1>8

\* What is led behind is known: is_legal_follow compares with its size.
LeadKnown ==
  /\ CardsKnown /\ query = "follow_play"
  /\ lead \in SUBSET Card /\ IsFiniteSet(lead) /\ lead # {}
  /\ exact = Cardinality(lead) /\ Cardinality(hand) >= exact

FollowCounts(m) ==
  /\ Weight(DOMAIN m, m) = exact /\ Weight(DOMAIN m \cap SameSuit, m) = Required
  /\ DOMAIN m \cap SameSuit # {} =>
       ValidPairs(Own, lead, Twos(DOMAIN m \cap SameSuit, m), SpaceTrump)

LEMMA FollowByCounts ==
  ASSUME LeadKnown, NEW cards \in SUBSET hand
  PROVE  LegalFollow(hand, cards, lead, SpaceTrump) <=> FollowCounts(CountsOf(cards))
<1> DEFINE m == CountsOf(cards)
           suited == OfSuit(cards, Suit, SpaceTrump)
           faces == DOMAIN m \cap SameSuit
<1>1. CardsKnown /\ exact = Cardinality(lead) /\ exact \in Nat /\ exact # 0
  BY FS_CardinalityType, FS_EmptySet DEF LeadKnown
<1>2. DOMAIN m = FacesOf(cards) /\ Cardinality(cards) = Weight(DOMAIN m, m) /\ IsFiniteSet(cards)
  BY <1>1, CountsSelected
<1>3. /\ FacesOf(suited) = faces /\ PairFaces(suited) = Twos(faces, m)
      /\ Cardinality(suited) = Weight(faces, m)
  BY <1>1, <1>2, SuitCounts
<1>4. suited # {} <=> faces # {}
  BY <1>3 DEF FacesOf
<1>5. Cardinality(cards) = exact => cards # {}
  BY <1>1, <1>2, FS_EmptySet
<1>6. LegalFollow(hand, cards, lead, SpaceTrump) <=>
        /\ Cardinality(cards) = exact /\ cards # {}
        /\ Cardinality(suited) = Required
        /\ suited # {} => ValidPairs(Own, lead, PairFaces(suited), SpaceTrump)
  BY <1>1 DEF LegalFollow, Required, Own, Suit
<1> HIDE DEF suited, m
<1> QED
  BY <1>2, <1>3, <1>4, <1>5, <1>6 DEF FollowCounts, m

LEMMA MovesFollow ==
  ASSUME LeadKnown, NEW m
  PROVE  m \in Moves <=> Selection(m) /\ FollowCounts(m)
<1>0. CardsKnown /\ query = "follow_play"
  BY DEF LeadKnown
<1>1. \A cards : Legal(cards) <=> LegalFollow(hand, cards, lead, SpaceTrump)
  BY <1>0 DEF Legal
<1>2. ASSUME m \in Moves PROVE Selection(m) /\ FollowCounts(m)
  <2>1. PICK cards \in SUBSET hand : Legal(cards) /\ m = CountsOf(cards)
    BY <1>2, MovesAre
  <2> QED
    BY <1>0, <1>1, <2>1, CountsSelected, FollowByCounts
<1>3. ASSUME Selection(m), FollowCounts(m) PROVE m \in Moves
  <2>1. Bound(m) \in SUBSET hand /\ CountsOf(Bound(m)) = m
    BY <1>0, <1>3, BoundCounts
  <2> QED
    BY <1>1, <1>3, <2>1, FollowByCounts, MovesAre
<1> QED
  BY <1>2, <1>3

LEMMA BoundIsLegalFollow ==
  ASSUME LeadKnown, NEW m, Selection(m)
  PROVE  LegalFollow(hand, Bound(m), lead, SpaceTrump) <=> m \in Moves
<1>1. Bound(m) \in SUBSET hand /\ CountsOf(Bound(m)) = m
  BY BoundCounts DEF LeadKnown
<1> QED
  BY <1>1, FollowByCounts, MovesFollow

---------------------------------------------------------------------------
(* Widths, and what is selected after a selection *)

Base == CardsKnown /\ Offered \subseteq SpaceFaces

Twice == {f \in Offered : Count(f) = 2}

LEMMA EmptySelection ==
  Selection(<< >>) /\ DOMAIN << >> = {} /\ \A f : After(<< >>, f)
<1>1. DOMAIN << >> = {}
  OBVIOUS
<1>2. << >> = [f \in DOMAIN << >> |-> << >>[f]]
  OBVIOUS
<1> QED
  BY <1>1, <1>2 DEF Selection, After

LEMMA WidthIs ==
  ASSUME Base, NEW m, Selection(m), NEW faces
  PROVE  /\ Width(m, faces) = Weight(DOMAIN m \cap faces, m)
         /\ Width(m, SpaceFaces) = Weight(DOMAIN m, m) /\ WidthOf(m) = Weight(DOMAIN m, m)
         /\ IsFiniteSet(DOMAIN m) /\ Weight(DOMAIN m, m) \in Nat
         /\ Weight(DOMAIN m \cap faces, m) \in Nat
         /\ Weight(DOMAIN m \cap faces, m) <= Weight(DOMAIN m, m)
         /\ Cardinality(DOMAIN m) \in Nat /\ Cardinality(DOMAIN m) <= Weight(DOMAIN m, m)
<1>1. IsFiniteSet(DOMAIN m)
  BY OfferedCounts, FS_Subset DEF Selection, Base
<1>2. \A s : Width(m, s) = Weight(DOMAIN m \cap s, m)
  <2> TAKE s
  <2>1. IsFiniteSet(DOMAIN m \cap s) /\ \A x \in DOMAIN m \cap s : m[x] \in {1, 2}
    BY <1>1, FS_Subset DEF Selection
  <2> QED
    BY <2>1, SumOfCounts DEF Width
<1>3. DOMAIN m \cap SpaceFaces = DOMAIN m
  BY DEF Base, Selection
<1>4. Width(m, SpaceFaces) = Weight(DOMAIN m, m)
  BY <1>2, <1>3
<1>5. /\ Weight(DOMAIN m, m) \in Nat /\ Cardinality(DOMAIN m) \in Nat
      /\ Cardinality(DOMAIN m) <= Weight(DOMAIN m, m)
  BY <1>1, WeightType
<1>6. /\ Weight(DOMAIN m \cap faces, m) \in Nat
      /\ Weight(DOMAIN m \cap faces, m) <= Weight(DOMAIN m, m)
  <2> DEFINE a == DOMAIN m \cap faces
             b == DOMAIN m \ faces
  <2>1. IsFiniteSet(a) /\ IsFiniteSet(b) /\ a \cap b = {} /\ DOMAIN m = a \cup b
    BY <1>1, FS_Subset
  <2> HIDE DEF a, b
  <2>2. Weight(DOMAIN m, m) = Weight(a, m) + Weight(b, m) /\ Weight(a, m) \in Nat /\ Weight(b, m) \in Nat
    <3>1. Weight(a \cup b, m) = Weight(a, m) + Weight(b, m)
      BY <2>1, WeightUnion
    <3>2. Weight(a, m) \in Nat /\ Weight(b, m) \in Nat
      BY <2>1, WeightType
    <3> QED
      BY <2>1, <3>1, <3>2
  <2> QED
    BY <2>2 DEF a
<1> QED
  BY <1>1, <1>2, <1>4, <1>5, <1>6 DEF WidthOf

\* The cards of the faces of a set.
LEMMA CardsOfFaces ==
  ASSUME CardsKnown, NEW S \in SUBSET Offered
  PROVE  MapThenSumSet(Count, S) = Cardinality(S) + Cardinality(S \cap Twice)
<1> DEFINE v == [f \in S |-> Count(f)]
           P(g) == g = [s \in SUBSET S |-> IF s = {} THEN 0 ELSE Count(Pick(s)) + g[s \ {Pick(s)}]]
           h == CHOOSE g : P(g)
           g0 == [s \in SUBSET S |-> Weight(s, v)]
<1>0. IsFiniteSet(S) /\ \A x \in S : v[x] \in {1, 2} /\ v[x] = Count(x)
  BY OfferedCounts, FS_Subset
<1>1. MapThenSumSet(Count, S) = h[S]
  BY DEF MapThenSumSet, MapThenFoldSet, Pick
<1>2. P(g0)
  <2>1. \A s \in SUBSET S : g0[s] = IF s = {} THEN 0 ELSE Count(Pick(s)) + g0[s \ {Pick(s)}]
    <3> TAKE s \in SUBSET S
    <3>1. s # {} => Pick(s) \in S
      BY DEF Pick
    <3> HIDE DEF v
    <3>2. Weight(s, v) = IF s = {} THEN 0 ELSE v[Pick(s)] + Weight(s \ {Pick(s)}, v)
      BY <1>0, WeightIterates
    <3> QED
      BY <1>0, <3>1, <3>2
  <2>2. g0 = [s \in SUBSET S |-> g0[s]]
    OBVIOUS
  <2> HIDE DEF g0
  <2> QED
    BY <2>1, <2>2
<1>3. P(h)
  <2> HIDE DEF P
  <2> QED
    BY <1>2
<1> HIDE DEF h
<1>4. \A s \in SUBSET S : h[s] = IF s = {} THEN 0 ELSE v[Pick(s)] + h[s \ {Pick(s)}]
  <2> TAKE s \in SUBSET S
  <2>1. s # {} => v[Pick(s)] = Count(Pick(s))
    BY DEF Pick
  <2> HIDE DEF v
  <2> QED
    BY <1>3, <2>1
<1> HIDE DEF v
<1>5. h[S] = Weight(S, v)
  BY <1>0, <1>4, FoldIsWeight
<1>6. Twos(S, v) = S \cap Twice
  BY <1>0 DEF Twos, Twice
<1> QED
  BY <1>1, <1>5, <1>6 DEF Weight

\* Faces that may still be chosen, and m as what next becomes by choosing them.
Open(next) == {g \in Offered : After(next, g)}
Completion(next, m) ==
  /\ DOMAIN next \subseteq DOMAIN m
  /\ \A f \in DOMAIN next : m[f] = next[f]
  /\ \A f \in DOMAIN m \ DOMAIN next : After(next, f)
Joined(next, T, P) ==
  [g \in DOMAIN next \cup T |-> IF g \in DOMAIN next THEN next[g] ELSE IF g \in P THEN 2 ELSE 1]

LEMMA ContinuesIs ==
  ASSUME NEW next
  PROVE  Continues(next) <=> \E m \in Moves : Completion(next, m)
BY DEF Continues, Completion

LEMMA OpenFaces ==
  ASSUME CardsKnown, NEW next, Selection(next)
  PROVE  Open(next) \cap DOMAIN next = {} /\ IsFiniteSet(Open(next)) /\ Open(next) \subseteq Offered
<1>1. \A f \in Offered : FaceKey(f) \in Nat
  BY OfferedCounts, FaceKeyType
<1>2. \A f \in Offered : ~(FaceKey(f) > FaceKey(f))
  BY <1>1
<1> QED
  BY <1>2, OfferedCounts, FS_Subset DEF Open, After, Selection

\* What m adds to next: the faces T, those of P twice.
Split(next, m, T, P) ==
  /\ Selection(next) /\ Selection(m) /\ Completion(next, m)
  /\ T = DOMAIN m \ DOMAIN next /\ P = Twos(T, m)

LEMMA Splits ==
  ASSUME Base, NEW next, NEW m, NEW T, NEW P, Split(next, m, T, P)
  PROVE  /\ T \in SUBSET Open(next) /\ P \in SUBSET (T \cap Twice)
         /\ Twos(DOMAIN m, m) = Twos(DOMAIN next, next) \cup P
<1> USE DEF Split
<1>1. T \in SUBSET Open(next)
  BY DEF Completion, Open, Selection
<1>2. P \in SUBSET (T \cap Twice)
  <2>1. \A f \in P : f \in T /\ f \in Offered /\ Count(f) = 2
    <3> TAKE f \in P
    <3>1. f \in T /\ m[f] = 2
      BY DEF Twos
    <3>2. f \in Offered /\ m[f] <= Count(f) /\ Count(f) \in {1, 2}
      BY <3>1, OfferedCounts DEF Selection, Base
    <3> QED
      BY <3>1, <3>2
  <2> QED
    BY <2>1 DEF Twice
<1>3. Twos(DOMAIN m, m) = Twos(DOMAIN next, next) \cup P
  BY DEF Completion, Twos
<1> QED
  BY <1>1, <1>2, <1>3

\* The cards of m in S, and those that T and P add there.
Held(m, S) == Weight(DOMAIN m \cap S, m)
Adds(T, P, S) == Cardinality(T \cap S) + Cardinality(P \cap S)

LEMMA SplitsWeight ==
  ASSUME Base, NEW next, NEW m, NEW T, NEW P, Split(next, m, T, P), NEW S
  PROVE  Held(m, S) = Held(next, S) + Adds(T, P, S)
<1> USE DEF Split, Held, Adds
<1> DEFINE A == DOMAIN next \cap S
           B == T \cap S
<1>1. IsFiniteSet(DOMAIN m)
  BY WidthIs
<1>2. IsFiniteSet(A) /\ IsFiniteSet(B) /\ A \cap B = {} /\ DOMAIN m \cap S = A \cup B
  BY <1>1, FS_Subset DEF Completion
<1>3. \A x \in A : m[x] = next[x]
  BY DEF Completion
<1>4. Twos(B, m) = P \cap S
  BY DEF Twos
<1> HIDE DEF A, B
<1>5. Weight(A \cup B, m) = Weight(A, m) + Weight(B, m) /\ Weight(A, m) = Weight(A, next)
  BY <1>2, <1>3, WeightUnion, WeightSame
<1>6. Weight(B, m) = Cardinality(B) + Cardinality(P \cap S)
  BY <1>4 DEF Weight
<1> QED
  BY <1>2, <1>5, <1>6 DEF A, B

LEMMA Joins ==
  ASSUME CardsKnown, NEW next, Selection(next), NEW T \in SUBSET Open(next),
         NEW P \in SUBSET (T \cap Twice), NEW m, m = Joined(next, T, P)
  PROVE  Split(next, m, T, P) /\ DOMAIN m = DOMAIN next \cup T
<1>1. /\ DOMAIN m = DOMAIN next \cup T
      /\ \A g \in DOMAIN next : m[g] = next[g]
      /\ \A g \in DOMAIN m : g \notin DOMAIN next => m[g] = IF g \in P THEN 2 ELSE 1
      /\ m = [g \in DOMAIN m |-> m[g]]
  BY DEF Joined
<1>2. T \cap DOMAIN next = {} /\ T \subseteq Offered /\ \A g \in T : After(next, g)
  BY OpenFaces DEF Open
<1>3. \A g \in T : m[g] \in {1, 2} /\ m[g] <= Count(g)
  <2> TAKE g \in T
  <2>1. m[g] = IF g \in P THEN 2 ELSE 1
    BY <1>1, <1>2
  <2>2. Count(g) \in {1, 2} /\ (g \in P => Count(g) = 2)
    BY <1>2, OfferedCounts DEF Twice
  <2> QED
    BY <2>1, <2>2
<1>4. Selection(m)
  BY <1>1, <1>2, <1>3 DEF Selection
<1>5. Completion(next, m) /\ DOMAIN m \ DOMAIN next = T
  BY <1>1, <1>2 DEF Completion
<1>6. Twos(T, m) = P
  BY <1>1, <1>2 DEF Twos
<1> QED
  BY <1>1, <1>4, <1>5, <1>6 DEF Split

\* One more face is chosen, in canonical order.
Chosen(sel, f, n, next) ==
  /\ Selection(sel) /\ f \in Offered /\ After(sel, f) /\ n \in {1, 2} /\ n <= Count(f)
  /\ next = Extended(sel, f, n)

LEMMA ChosenSelection ==
  ASSUME Base, NEW sel, NEW f, NEW n, NEW next, Chosen(sel, f, n, next)
  PROVE  /\ Selection(sel) /\ f \in Offered /\ n \in {1, 2} /\ n <= Count(f)
         /\ Selection(next) /\ DOMAIN next = DOMAIN sel \cup {f} /\ f \notin DOMAIN sel
         /\ next[f] = n /\ Completion(sel, next) /\ CardsKnown
<1> USE DEF Chosen
<1>0. (\A g \in Offered : FaceKey(g) \in Nat) /\ CardsKnown
  BY OfferedCounts, FaceKeyType DEF Base
<1>1. f \notin DOMAIN sel
  BY <1>0 DEF After
<1>2. /\ DOMAIN next = DOMAIN sel \cup {f} /\ next[f] = n
      /\ \A g \in DOMAIN sel : next[g] = sel[g]
      /\ next = [g \in DOMAIN next |-> next[g]]
  BY <1>1 DEF Extended
<1>3. Selection(next)
  BY <1>2 DEF Selection
<1>7. Completion(sel, next)
  BY <1>2 DEF Completion
<1> QED
  BY <1>0, <1>1, <1>2, <1>3, <1>7

LEMMA ChosenWidth ==
  ASSUME Base, NEW sel, NEW f, NEW n, NEW next, Chosen(sel, f, n, next)
  PROVE  Weight(DOMAIN next, next) = WidthOf(sel) + n /\ WidthOf(sel) \in Nat
<1>1. /\ Selection(sel) /\ n \in {1, 2} /\ Selection(next) /\ DOMAIN next = DOMAIN sel \cup {f}
      /\ f \notin DOMAIN sel /\ next[f] = n /\ Completion(sel, next)
  BY ChosenSelection
<1>2. IsFiniteSet(DOMAIN next)
  BY <1>1, WidthIs
<1>3. Weight(DOMAIN next, next) = n + Weight(DOMAIN next \ {f}, next)
  BY <1>1, <1>2, WeightStep
<1>4. DOMAIN next \ {f} = DOMAIN sel
  BY <1>1
<1>5. \A g \in DOMAIN sel : next[g] = sel[g]
  BY <1>1 DEF Completion
<1>6. Weight(DOMAIN sel, next) = Weight(DOMAIN sel, sel)
  BY <1>5, WeightSame
<1>7. Weight(DOMAIN sel, sel) \in Nat /\ WidthOf(sel) = Weight(DOMAIN sel, sel)
  BY <1>1, WidthIs
<1> QED
  BY <1>1, <1>3, <1>4, <1>6, <1>7

LEMMA ChosenOpen ==
  ASSUME Base, NEW sel, NEW f, NEW n, NEW next, Chosen(sel, f, n, next), NEW g \in Offered
  PROVE  /\ After(next, g) <=> FaceKey(g) > FaceKey(f)
         /\ g \in Open(next) <=> FaceKey(g) > FaceKey(f)
<1>0. \A h \in Offered : FaceKey(h) \in Nat
  BY OfferedCounts, FaceKeyType DEF Base
<1>1. Selection(next) /\ DOMAIN next = DOMAIN sel \cup {f} /\ f \in Offered
  BY ChosenSelection
<1>2. After(sel, f)
  BY DEF Chosen
<1>4. After(next, g) <=> FaceKey(g) > FaceKey(f)
  <2>1. After(next, g) => FaceKey(g) > FaceKey(f)
    BY <1>1 DEF After
  <2>2. ASSUME FaceKey(g) > FaceKey(f) PROVE After(next, g)
    <3> SUFFICES ASSUME NEW h \in DOMAIN next PROVE FaceKey(g) > FaceKey(h)
      BY DEF After
    <3>1. h \in Offered /\ FaceKey(h) \in Nat /\ FaceKey(f) \in Nat /\ FaceKey(g) \in Nat
      BY <1>0, <1>1 DEF Selection
    <3>2. h = f \/ FaceKey(f) > FaceKey(h)
      BY <1>1, <1>2 DEF After
    <3> QED
      BY <2>2, <3>1, <3>2
  <2> QED
    BY <2>1, <2>2
<1> QED
  BY <1>4 DEF Open

---------------------------------------------------------------------------
(* Discards and leads: the mask counts cards *)

LEMMA Fills ==
  ASSUME NEW S, IsFiniteSet(S), NEW D, NEW k \in Int
  PROVE  (\E T \in SUBSET S : \E P \in SUBSET (T \cap D) : Cardinality(T) + Cardinality(P) = k)
           <=> 0 <= k /\ k <= Cardinality(S) + Cardinality(S \cap D)
<1>0. IsFiniteSet(S \cap D) /\ S \cap D \in SUBSET S
  BY FS_Subset
<1>1. ASSUME NEW T \in SUBSET S, NEW P \in SUBSET (T \cap D), Cardinality(T) + Cardinality(P) = k
      PROVE  0 <= k /\ k <= Cardinality(S) + Cardinality(S \cap D)
  <2>1. IsFiniteSet(T) /\ IsFiniteSet(P) /\ Cardinality(T) <= Cardinality(S)
        /\ Cardinality(P) <= Cardinality(S \cap D)
    <3>1. P \in SUBSET (S \cap D)
      OBVIOUS
    <3> QED
      BY <1>0, <3>1, FS_Subset
  <2>2. Cardinality(T) \in Nat /\ Cardinality(P) \in Nat /\ Cardinality(S) \in Nat
        /\ Cardinality(S \cap D) \in Nat
    BY <1>0, <2>1, FS_CardinalityType
  <2> QED
    BY <1>1, <2>1, <2>2
<1>2. ASSUME 0 <= k, k <= Cardinality(S) + Cardinality(S \cap D)
      PROVE  \E T \in SUBSET S : \E P \in SUBSET (T \cap D) : Cardinality(T) + Cardinality(P) = k
  <2> DEFINE E == S \cap D
  <2>1. E \in SUBSET S /\ k \in Nat /\ k <= Cardinality(S) + Cardinality(E)
    BY <1>0, <1>2
  <2> HIDE DEF E
  <2>2. \E T \in SUBSET S : \E P \in SUBSET (T \cap E) : Cardinality(T) + Cardinality(P) = k
    BY <2>1, ChooseSome
  <2>3. \A T : \A P \in SUBSET (T \cap E) : P \in SUBSET (T \cap D)
    BY DEF E
  <2> QED
    BY <2>2, <2>3
<1> QED
  BY <1>1, <1>2

\* The cards of the faces of S: all of them, and those after f.
CardsIn(S) == Cardinality(S) + Cardinality(S \cap Twice)
CardsLater(S, sel, f) == MapThenSumSet(Count, Later(S \ DOMAIN sel, f))

LEMMA LaterIs ==
  ASSUME Base, NEW sel, NEW f, NEW n, NEW next, Chosen(sel, f, n, next),
         NEW S, S \subseteq Offered
  PROVE  Later(S \ DOMAIN sel, f) = S \cap Open(next)
<1> DEFINE rest == S \cap Open(next)
<1>1. Selection(next) /\ DOMAIN next = DOMAIN sel \cup {f} /\ CardsKnown
  BY ChosenSelection
<1>2. \A g \in Offered : g \in Open(next) <=> FaceKey(g) > FaceKey(f)
  BY ChosenOpen
<1>3. DOMAIN sel \cap rest = {}
  BY <1>1, OpenFaces
<1> QED
  BY <1>2, <1>3 DEF Later

LEMMA LaterCount ==
  ASSUME Base, NEW sel, NEW f, NEW n, NEW next, Chosen(sel, f, n, next),
         NEW S, S \subseteq Offered
  PROVE  CardsLater(S, sel, f) = CardsIn(S \cap Open(next))
<1>1. Later(S \ DOMAIN sel, f) = S \cap Open(next)
  BY LaterIs
<1>2. CardsKnown /\ S \cap Open(next) \in SUBSET Offered
  BY DEF Base
<1> HIDE DEF Base
<1> DEFINE rest == S \cap Open(next)
<1> HIDE DEF rest
<1>3. MapThenSumSet(Count, rest) = CardsIn(rest)
  <2>1. rest \in SUBSET Offered
    BY <1>2 DEF rest
  <2> QED
    BY <1>2, <2>1, CardsOfFaces DEF CardsIn
<1> QED
  BY <1>1, <1>3 DEF rest, CardsLater

LEMMA CardsInType ==
  ASSUME CardsKnown, NEW S, S \subseteq Offered
  PROVE  CardsIn(S) \in Nat /\ IsFiniteSet(S) /\ Cardinality(S) \in Nat /\ Cardinality(S) <= CardsIn(S)
<1>1. IsFiniteSet(S) /\ IsFiniteSet(S \cap Twice)
  BY OfferedCounts, FS_Subset
<1> QED
  BY <1>1, FS_CardinalityType DEF CardsIn

LEMMA DiscardContinues ==
  ASSUME Base, query = "discard", exact \in Nat, NEW next, Selection(next)
  PROVE  Continues(next) <=>
           /\ Weight(DOMAIN next, next) <= exact
           /\ exact - Weight(DOMAIN next, next) <= CardsIn(Open(next))
<1> DEFINE w == Weight(DOMAIN next, next)
           S == Open(next)
<1>0. w \in Nat /\ CardsKnown
  BY WidthIs DEF Base
<1>1. IsFiniteSet(S)
  BY <1>0, OpenFaces
<1>2. Continues(next) <=>
        \E T \in SUBSET S : \E P \in SUBSET (T \cap Twice) : Cardinality(T) + Cardinality(P) = exact - w
  <2>1. ASSUME NEW m \in Moves, Completion(next, m)
        PROVE  \E T \in SUBSET S : \E P \in SUBSET (T \cap Twice) :
                 Cardinality(T) + Cardinality(P) = exact - w
    <3>1. Selection(m) /\ Weight(DOMAIN m, m) = exact
      BY <1>0, MovesDiscard
    <3>9. PICK T : T = DOMAIN m \ DOMAIN next
      OBVIOUS
    <3>10. PICK P : P = Twos(T, m)
      OBVIOUS
    <3>11. Split(next, m, T, P)
      BY <2>1, <3>1, <3>9, <3>10 DEF Split
    <3>2. T \in SUBSET S /\ P \in SUBSET (T \cap Twice)
      BY <3>11, Splits
    <3>3. Held(m, Offered) = Held(next, Offered) + Adds(T, P, Offered)
      BY <3>11, SplitsWeight
    <3>4. /\ DOMAIN m \cap Offered = DOMAIN m /\ DOMAIN next \cap Offered = DOMAIN next
          /\ T \cap Offered = T /\ P \cap Offered = P
      BY <1>0, <1>1, <3>1, <3>2 DEF Selection, Open
    <3>5. IsFiniteSet(T) /\ IsFiniteSet(P)
      BY <1>1, <3>2, FS_Subset
    <3>6. Cardinality(T) \in Nat /\ Cardinality(P) \in Nat
      BY <3>5, FS_CardinalityType
    <3>7. exact = w + (Cardinality(T) + Cardinality(P))
      BY <3>1, <3>3, <3>4 DEF Held, Adds
    <3>8. Cardinality(T) + Cardinality(P) = exact - w
      BY <1>0, <3>6, <3>7
    <3> QED
      BY <3>2, <3>8
  <2>2. ASSUME NEW T \in SUBSET S, NEW P \in SUBSET (T \cap Twice),
               Cardinality(T) + Cardinality(P) = exact - w
        PROVE  \E m \in Moves : Completion(next, m)
    <3> DEFINE m == Joined(next, T, P)
    <3> HIDE DEF m
    <3>0. Split(next, m, T, P)
      BY <1>0, Joins DEF m
    <3>1. /\ Selection(m) /\ Completion(next, m)
          /\ DOMAIN m \ DOMAIN next = T /\ Twos(T, m) = P
      BY <3>0 DEF Split
    <3>2. Held(m, Offered) = Held(next, Offered) + Adds(T, P, Offered)
      BY <3>0, SplitsWeight
    <3>3. /\ DOMAIN m \cap Offered = DOMAIN m /\ DOMAIN next \cap Offered = DOMAIN next
          /\ T \cap Offered = T /\ P \cap Offered = P
      BY <3>1, <1>0, OpenFaces DEF Selection
    <3>4. Weight(DOMAIN m, m) = w + (exact - w)
      BY <2>2, <3>2, <3>3 DEF Held, Adds
    <3>5. m \in Moves
      BY <1>0, <3>1, <3>4, MovesDiscard
    <3> QED
      BY <3>1, <3>5
  <2> QED
    BY <2>1, <2>2, ContinuesIs
<1>3. exact - w \in Int
  BY <1>0
<1> HIDE DEF w, S
<1>4. (\E T \in SUBSET S : \E P \in SUBSET (T \cap Twice) : Cardinality(T) + Cardinality(P) = exact - w)
        <=> 0 <= exact - w /\ exact - w <= Cardinality(S) + Cardinality(S \cap Twice)
  BY <1>1, <1>3, Fills
<1>5. 0 <= exact - w <=> w <= exact
  BY <1>0
<1> QED
  BY <1>2, <1>4, <1>5 DEF w, S, CardsIn

LEMMA DiscardExact ==
  ASSUME Base, query = "discard", exact \in Nat,
         NEW sel, NEW f, NEW n, NEW next, Chosen(sel, f, n, next)
  PROVE  Selectable(sel, f, n) <=> Continues(next)
<1>1. /\ Selection(next) /\ Weight(DOMAIN next, next) = WidthOf(sel) + n /\ WidthOf(sel) \in Nat
      /\ n \in {1, 2} /\ n <= Count(f)
  BY ChosenSelection, ChosenWidth
<1>9. CardsKnown
  BY DEF Base
<1>2. Offered \cap Open(next) = Open(next)
  BY DEF Open
<1>3. CardsLater(Offered, sel, f) = CardsIn(Offered \cap Open(next)) /\ CardsIn(Offered \cap Open(next)) \in Nat
  <2>1. CardsLater(Offered, sel, f) = CardsIn(Offered \cap Open(next))
    BY LaterCount
  <2> QED
    BY <1>9, <2>1, CardsInType
<1>5. Selectable(sel, f, n) <=> WidthOf(sel) + n <= exact /\ HasRemainingCapacity(sel, f, n, Offered)
  BY <1>1 DEF Chosen, Selectable, MaxSelect
<1>6. HasRemainingCapacity(sel, f, n, Offered)
        <=> exact - (WidthOf(sel) + n) <= CardsIn(Offered \cap Open(next))
  BY <1>1, <1>3 DEF CardsLater, HasRemainingCapacity
<1> QED
  BY <1>1, <1>2, <1>5, <1>6, DiscardContinues

LEMMA LeadExact ==
  ASSUME Base, query = "lead_play",
         NEW sel, NEW f, NEW n, NEW next, Chosen(sel, f, n, next)
  PROVE  Selectable(sel, f, n) <=> Continues(next)
<1> DEFINE same == \A g \in DOMAIN sel : FaceSuit(g) = FaceSuit(f)
<1>0. CardsKnown
  BY DEF Base
<1>1. /\ Selection(next) /\ DOMAIN next = DOMAIN sel \cup {f} /\ n \in {1, 2} /\ n <= Count(f)
      /\ Weight(DOMAIN next, next) = WidthOf(sel) + n
  BY ChosenSelection, ChosenWidth
<1>2. WidthOf(sel) + n <= Cardinality(hand)
  <2>1. Bound(next) \in SUBSET hand /\ CountsOf(Bound(next)) = next
    BY <1>0, <1>1, BoundCounts
  <2>2. Cardinality(Bound(next)) = Weight(DOMAIN next, next)
    BY <1>0, <2>1, CountsSelected
  <2>3. Cardinality(Bound(next)) <= Cardinality(hand)
    BY <1>0, <2>1, FS_Subset DEF CardsKnown
  <2> QED
    BY <1>1, <2>2, <2>3
<1>3. Selectable(sel, f, n) <=> same
  BY <1>1, <1>2 DEF Chosen, Selectable, MaxSelect
<1>4. ASSUME same PROVE Continues(next)
  <2>1. next \in Moves
    BY <1>0, <1>1, <1>4, MovesLead
  <2>2. Completion(next, next)
    BY DEF Completion
  <2> QED
    BY <2>1, <2>2, ContinuesIs
<1>5. ASSUME Continues(next) PROVE same
  <2>1. PICK m \in Moves : Completion(next, m)
    BY <1>5, ContinuesIs
  <2> QED
    BY <1>0, <1>1, <2>1, MovesLead DEF Completion
<1> QED
  BY <1>3, <1>4, <1>5

---------------------------------------------------------------------------
(* Follows with enough cards of the suit: what completes a selection       *)

FollowBase == LeadKnown /\ Base

LEMMA FollowKnown ==
  ASSUME FollowBase
  PROVE  /\ CardsKnown /\ Base /\ LeadKnown /\ query = "follow_play"
         /\ exact \in Nat /\ exact > 0 /\ Target = exact /\ Required \in Nat /\ Required <= exact
         /\ SameSuit \subseteq Offered /\ IsFiniteSet(SameSuit)
         /\ PairFaces(Own) = SameSuit \cap Twice /\ IsFiniteSet(PairFaces(Own))
         /\ PairFloor(Own, lead) \in Nat
<1>1. CardsKnown /\ query = "follow_play" /\ Base /\ LeadKnown
  BY DEF FollowBase, LeadKnown
<1>2. exact \in Nat /\ exact > 0 /\ Target = exact
  <2>1. Cardinality(lead) \in Nat /\ Cardinality(lead) # 0
    BY <1>1, FS_CardinalityType, FS_EmptySet DEF LeadKnown
  <2> QED
    BY <1>1, <2>1 DEF LeadKnown, Target
<1>3. /\ SameSuit \subseteq Offered /\ IsFiniteSet(SameSuit) /\ IsFiniteSet(PairFaces(Own))
      /\ PairFaces(Own) = {f \in SameSuit : Count(f) = 2} /\ IsFiniteSet(Own)
  BY <1>1, OwnCounts
<1>4. PairFaces(Own) = SameSuit \cap Twice
  BY <1>3 DEF Twice
<1>5. Required \in Nat /\ Required <= exact
  <2>1. Cardinality(Own) \in Nat
    BY <1>3, FS_CardinalityType
  <2> QED
    BY <1>2, <2>1 DEF Required, RequiredOfSuit, Own, Target
<1>6. PairFloor(Own, lead) \in Nat
  <2>1. IsFiniteSet(PairFaces(lead))
    BY <1>1, FacesCounted DEF LeadKnown
  <2>2. Cardinality(PairFaces(lead)) \in Nat /\ Cardinality(PairFaces(Own)) \in Nat
    BY <1>3, <2>1, FS_CardinalityType
  <2> QED
    BY <2>2 DEF PairFloor
<1> QED
  BY <1>1, <1>2, <1>3, <1>4, <1>5, <1>6

LEMMA AllInside ==
  ASSUME Base, NEW m, Selection(m), NEW S
  PROVE  Weight(DOMAIN m \cap S, m) = Weight(DOMAIN m, m) <=> DOMAIN m \subseteq S
<1> DEFINE a == DOMAIN m \cap S
           b == DOMAIN m \ S
<1>1. IsFiniteSet(DOMAIN m)
  BY WidthIs
<1>2. IsFiniteSet(a) /\ IsFiniteSet(b) /\ a \cap b = {} /\ DOMAIN m = a \cup b
      /\ (b = {} <=> DOMAIN m \subseteq S)
  BY <1>1, FS_Subset
<1> HIDE DEF a, b
<1>3. Weight(a \cup b, m) = Weight(a, m) + Weight(b, m)
  BY <1>2, WeightUnion
<1>4. Weight(a, m) \in Nat /\ Weight(b, m) \in Nat /\ Cardinality(b) \in Nat /\ Cardinality(b) <= Weight(b, m)
  BY <1>2, WeightType
<1>5. b = {} <=> Cardinality(b) = 0
  BY <1>2, FS_EmptySet
<1>6. b = {} => Weight(b, m) = 0
  BY WeightEmpty
<1> QED
  BY <1>2, <1>3, <1>4, <1>5, <1>6 DEF a

\* T, those of P twice, makes a legal follow of next, all of it in the suit.
Ahead(next) == SameSuit \cap Open(next)
Fit(next, T, P) ==
  /\ Weight(DOMAIN next, next) + (Cardinality(T) + Cardinality(P)) = exact
  /\ ValidPairs(Own, lead, SelectedPairs(next) \cup P, SpaceTrump)
Fits(next) == \E T \in SUBSET Ahead(next) : \E P \in SUBSET (T \cap Twice) : Fit(next, T, P)

LEMMA AheadIs ==
  ASSUME FollowBase, NEW next, Selection(next)
  PROVE  /\ IsFiniteSet(Ahead(next)) /\ Ahead(next) \subseteq Offered /\ Ahead(next) \subseteq SameSuit
         /\ Ahead(next) \subseteq Open(next) /\ Ahead(next) \cap DOMAIN next = {}
         /\ Cardinality(Ahead(next)) \in Nat
         /\ IsFiniteSet(Ahead(next) \cap Twice) /\ Cardinality(Ahead(next) \cap Twice) \in Nat
<1>1. /\ Open(next) \cap DOMAIN next = {} /\ IsFiniteSet(Open(next)) /\ Open(next) \subseteq Offered
  BY FollowKnown, OpenFaces
<1>2. IsFiniteSet(Ahead(next)) /\ IsFiniteSet(Ahead(next) \cap Twice)
  <2>1. Ahead(next) \subseteq Open(next) /\ Ahead(next) \cap Twice \subseteq Open(next)
    BY DEF Ahead
  <2> QED
    BY <1>1, <2>1, FS_Subset
<1> QED
  BY <1>1, <1>2, FS_CardinalityType DEF Ahead

LEMMA SelectedIs ==
  ASSUME NEW next
  PROVE  SelectedPairs(next) = Twos(DOMAIN next, next)
BY DEF SelectedPairs, Twos

LEMMA MovesInSuit ==
  ASSUME FollowBase, Required = exact, NEW m
  PROVE  m \in Moves <=> /\ Selection(m) /\ DOMAIN m \subseteq SameSuit
                         /\ Weight(DOMAIN m, m) = exact
                         /\ ValidPairs(Own, lead, SelectedPairs(m), SpaceTrump)
<1>0. exact > 0 /\ LeadKnown /\ exact \in Nat /\ Base
  BY FollowKnown
<1>1. m \in Moves <=> Selection(m) /\ FollowCounts(m)
  BY <1>0, MovesFollow
<1> SUFFICES ASSUME Selection(m)
    PROVE  FollowCounts(m) <=> /\ DOMAIN m \subseteq SameSuit
                               /\ Weight(DOMAIN m, m) = exact
                               /\ ValidPairs(Own, lead, SelectedPairs(m), SpaceTrump)
  BY <1>1
<1>2. Weight(DOMAIN m \cap SameSuit, m) = Weight(DOMAIN m, m) <=> DOMAIN m \subseteq SameSuit
  BY <1>0, AllInside
<1>3. DOMAIN m \subseteq SameSuit => DOMAIN m \cap SameSuit = DOMAIN m
  OBVIOUS
<1>4. DOMAIN m = {} => Weight(DOMAIN m, m) = 0
  BY WeightEmpty
<1>5. SelectedPairs(m) = Twos(DOMAIN m, m)
  BY SelectedIs
<1> QED
  BY <1>0, <1>2, <1>3, <1>4, <1>5 DEF FollowCounts

LEMMA FollowContinues ==
  ASSUME FollowBase, Required = exact, NEW next, Selection(next)
  PROVE  Continues(next) <=> DOMAIN next \subseteq SameSuit /\ Fits(next)
<1>0. CardsKnown /\ Base /\ SameSuit \subseteq Offered
  BY FollowKnown
<1>1. ASSUME NEW m \in Moves, Completion(next, m)
      PROVE  DOMAIN next \subseteq SameSuit /\ Fits(next)
  <2>1. /\ Selection(m) /\ DOMAIN m \subseteq SameSuit /\ Weight(DOMAIN m, m) = exact
        /\ ValidPairs(Own, lead, SelectedPairs(m), SpaceTrump)
    BY MovesInSuit
  <2>2. PICK T : T = DOMAIN m \ DOMAIN next
    OBVIOUS
  <2>3. PICK P : P = Twos(T, m)
    OBVIOUS
  <2>4. Split(next, m, T, P)
    BY <1>1, <2>1, <2>2, <2>3 DEF Split
  <2>5. /\ T \in SUBSET Open(next) /\ P \in SUBSET (T \cap Twice)
        /\ Twos(DOMAIN m, m) = Twos(DOMAIN next, next) \cup P
    BY <1>0, <2>4, Splits
  <2>6. Held(m, Offered) = Held(next, Offered) + Adds(T, P, Offered)
    BY <1>0, <2>4, SplitsWeight
  <2>7. /\ DOMAIN m \cap Offered = DOMAIN m /\ DOMAIN next \cap Offered = DOMAIN next
        /\ T \cap Offered = T /\ P \cap Offered = P
    BY <2>1, <2>5 DEF Selection, Open
  <2>8. Fit(next, T, P)
    BY <2>1, <2>5, <2>6, <2>7, SelectedIs DEF Fit, Held, Adds
  <2>9. T \in SUBSET Ahead(next) /\ DOMAIN next \subseteq SameSuit
    BY <1>1, <2>1, <2>2, <2>5 DEF Ahead, Completion
  <2> QED
    BY <2>5, <2>8, <2>9 DEF Fits
<1>2. ASSUME DOMAIN next \subseteq SameSuit, Fits(next)
      PROVE  \E m \in Moves : Completion(next, m)
  <2>1. PICK T \in SUBSET Ahead(next) : \E P \in SUBSET (T \cap Twice) : Fit(next, T, P)
    BY <1>2 DEF Fits
  <2>2. PICK P \in SUBSET (T \cap Twice) : Fit(next, T, P)
    BY <2>1
  <2>3. PICK m : m = Joined(next, T, P)
    OBVIOUS
  <2>4. T \in SUBSET Open(next) /\ T \subseteq SameSuit
    BY DEF Ahead
  <2>5. Split(next, m, T, P) /\ DOMAIN m = DOMAIN next \cup T
    BY <1>0, <2>3, <2>4, Joins
  <2>6. Twos(DOMAIN m, m) = Twos(DOMAIN next, next) \cup P
    BY <1>0, <2>5, Splits
  <2>7. Held(m, Offered) = Held(next, Offered) + Adds(T, P, Offered)
    BY <1>0, <2>5, SplitsWeight
  <2>8. Selection(m) /\ Completion(next, m)
    BY <2>5 DEF Split
  <2>9. /\ DOMAIN m \cap Offered = DOMAIN m /\ DOMAIN next \cap Offered = DOMAIN next
        /\ T \cap Offered = T /\ P \cap Offered = P
    BY <2>4, <2>8 DEF Selection, Open
  <2>10. Weight(DOMAIN m, m) = exact
    BY <2>2, <2>7, <2>9 DEF Fit, Held, Adds
  <2>11. ValidPairs(Own, lead, SelectedPairs(m), SpaceTrump)
    BY <2>2, <2>6, SelectedIs DEF Fit
  <2>12. DOMAIN m \subseteq SameSuit
    BY <1>2, <2>4, <2>5
  <2>13. m \in Moves
    BY <2>8, <2>10, <2>11, <2>12, MovesInSuit
  <2> QED
    BY <2>8, <2>13
<1> QED
  BY <1>1, <1>2, ContinuesIs

---------------------------------------------------------------------------
(* When the pairs of a follow are valid                                    *)

LEMMA OwnKnown ==
  ASSUME FollowBase
  PROVE  /\ Own \in SUBSET Card /\ SpaceTrump \in Trumps
         /\ PairFaces(Own) \subseteq Faces
         /\ Cardinality(PairFaces(Own)) \in Nat /\ Cardinality(PairFaces(lead)) \in Nat
<1>1. Own \in SUBSET hand /\ hand \in SUBSET Card /\ SpaceTrump \in Trumps
  BY FollowKnown, OwnCounts, SpaceAssumption DEF CardsKnown
<1>2. IsFiniteSet(PairFaces(Own)) /\ IsFiniteSet(PairFaces(lead))
  <2>1. IsFiniteSet(PairFaces(lead))
    BY FacesCounted DEF LeadKnown, FollowBase
  <2> QED
    BY <2>1, FollowKnown
<1>3. PairFaces(Own) \subseteq Faces
  BY <1>1 DEF PairFaces, FacesOf, Card
<1> QED
  BY <1>1, <1>2, <1>3, FS_CardinalityType

LEMMA RunsOfOwn ==
  ASSUME FollowBase, NEW r \in TractorRuns(Own, SpaceTrump)
  PROVE  \E a, b \in Int : /\ a < b /\ r = a..b
           /\ \A t \in a..b : \E f \in PairFaces(Own) : Tier(f, SpaceTrump) = t
<1>1. Own \in SUBSET Card /\ SpaceTrump \in Trumps
  BY OwnKnown
<1> QED
  BY <1>1, RunIsAnInterval, Zenon

LEMMA SomeDecomposition ==
  ASSUME FollowBase
  PROVE  \E d : d \in Decompositions(Own, SpaceTrump)
<1> DEFINE runs == TractorRuns(Own, SpaceTrump)
           pairs == PairFaces(Own)
           d == [t \in UNION runs |-> CHOOSE f \in pairs : Tier(f, SpaceTrump) = t]
<1>1. ASSUME NEW r \in runs, NEW t \in r PROVE \E f \in pairs : Tier(f, SpaceTrump) = t
  <2>1. PICK a, b \in Int : /\ a < b /\ r = a..b
           /\ \A u \in a..b : \E f \in PairFaces(Own) : Tier(f, SpaceTrump) = u
    BY RunsOfOwn
  <2> QED
    BY <2>1
<1> HIDE DEF runs, pairs
<1>2. \A t \in UNION runs : d[t] \in pairs /\ Tier(d[t], SpaceTrump) = t
  BY <1>1
<1>3. d \in [UNION runs -> pairs]
  BY <1>2
<1> HIDE DEF d
<1>4. d \in Decompositions(Own, SpaceTrump)
  BY <1>2, <1>3 DEF Decompositions, runs, pairs
<1> QED
  BY <1>4

\* The conditions of the priority, level by level.
LevelOf(d, f) == SegmentLevel(Own, d, f, SpaceTrump)
AtLevel(d, S, l) == Cardinality({f \in S : LevelOf(d, f) = l})
AboveLevel(d, S, l) == Cardinality({f \in S : LevelOf(d, f) > l})
LevelKept(d, chosen, needed, l) ==
  \/ AtLevel(d, chosen, l) >= AtLevel(d, PairFaces(Own), l)
  \/ AtLevel(d, chosen, l) >= needed - AboveLevel(d, chosen, l)

LEMMA PriorityByLevel ==
  ASSUME NEW d, NEW chosen \in SUBSET PairFaces(Own), NEW needed
  PROVE  PriorityKept(Own, d, chosen, needed, SpaceTrump)
           <=> \A f \in PairFaces(Own) : LevelKept(d, chosen, needed, LevelOf(d, f))
<1> DEFINE level == [f \in PairFaces(Own) |-> SegmentLevel(Own, d, f, SpaceTrump)]
<1>1. \A f \in PairFaces(Own) : level[f] = LevelOf(d, f)
  BY DEF LevelOf
<1>2. \A l : /\ {f \in PairFaces(Own) : level[f] = l} = {f \in PairFaces(Own) : LevelOf(d, f) = l}
             /\ {f \in chosen : level[f] = l} = {f \in chosen : LevelOf(d, f) = l}
             /\ {f \in chosen : level[f] > l} = {f \in chosen : LevelOf(d, f) > l}
  BY <1>1
<1>3. PriorityKept(Own, d, chosen, needed, SpaceTrump)
        <=> \A l \in {level[f] : f \in PairFaces(Own)} : LevelKept(d, chosen, needed, l)
  <2>1. \A l : LevelKept(d, chosen, needed, l) <=>
          \/ Cardinality({f \in chosen : level[f] = l}) >= Cardinality({f \in PairFaces(Own) : level[f] = l})
          \/ Cardinality({f \in chosen : level[f] = l})
               >= needed - Cardinality({f \in chosen : level[f] > l})
    <3> TAKE l
    <3> HIDE DEF level
    <3> QED
      BY <1>2 DEF LevelKept, AtLevel, AboveLevel
  <2> HIDE DEF LevelKept
  <2>2. PriorityKept(Own, d, chosen, needed, SpaceTrump)
        <=> \A l \in {level[f] : f \in PairFaces(Own)} :
              \/ Cardinality({f \in chosen : level[f] = l}) >= Cardinality({f \in PairFaces(Own) : level[f] = l})
              \/ Cardinality({f \in chosen : level[f] = l})
                   >= needed - Cardinality({f \in chosen : level[f] > l})
    BY DEF PriorityKept
  <2> HIDE DEF level
  <2> QED
    BY <2>1, <2>2
<1> HIDE DEF level
<1> QED
  BY <1>1, <1>3

\* Without a run only the number of pairs counts.
LEMMA NoTractor ==
  ASSUME FollowBase, ~HasTractor, NEW chosen
  PROVE  ValidPairs(Own, lead, chosen, SpaceTrump)
           <=> chosen \in SUBSET PairFaces(Own) /\ Cardinality(chosen) >= PairFloor(Own, lead)
<1> DEFINE led == Cardinality(PairFaces(lead))
           pairs == PairFaces(Own)
<1>0. TractorRuns(Own, SpaceTrump) = {}
  BY DEF HasTractor
<1> SUFFICES ASSUME chosen \in SUBSET pairs, Cardinality(chosen) >= PairFloor(Own, lead)
             PROVE  ValidPairs(Own, lead, chosen, SpaceTrump)
  BY DEF ValidPairs
<1>1. PICK d : d \in Decompositions(Own, SpaceTrump)
  BY SomeDecomposition
<1>2. DOMAIN d = {}
  BY <1>0, <1>1 DEF Decompositions
<1>3. \A f : LevelOf(d, f) = 1
  BY <1>2 DEF LevelOf, SegmentLevel
<1>4. IsFiniteSet(chosen) /\ Cardinality(chosen) \in Nat /\ led \in Nat /\ Cardinality(pairs) \in Nat
  BY FollowKnown, OwnKnown, FS_Subset, FS_CardinalityType
<1>5. AtLevel(d, chosen, 1) = Cardinality(chosen) /\ AtLevel(d, pairs, 1) = Cardinality(pairs)
  <2>1. {f \in chosen : LevelOf(d, f) = 1} = chosen /\ {f \in pairs : LevelOf(d, f) = 1} = pairs
    BY <1>3
  <2> QED
    BY <2>1 DEF AtLevel
<1>6. AboveLevel(d, chosen, 1) = 0
  <2>1. {f \in chosen : LevelOf(d, f) > 1} = {}
    BY <1>3
  <2> QED
    BY <2>1, FS_EmptySet DEF AboveLevel
<1>7. LevelKept(d, chosen, led, 1)
  BY <1>4, <1>5, <1>6 DEF LevelKept, PairFloor
<1>8. PriorityKept(Own, d, chosen, led, SpaceTrump)
  BY <1>3, <1>7, PriorityByLevel
<1>9. Unbroken(Own, d, chosen, SpaceTrump)
  BY <1>0 DEF Unbroken
<1> QED
  BY <1>1, <1>8, <1>9 DEF ValidPairs

LEMMA AtMostOne ==
  ASSUME NEW S, IsFiniteSet(S), Cardinality(S) <= 1, NEW x \in S, NEW y \in S
  PROVE  x = y
<1> SUFFICES ASSUME x # y PROVE FALSE
  OBVIOUS
<1>1. IsFiniteSet(S \ {x}) /\ Cardinality(S \ {x}) = Cardinality(S) - 1
  BY FS_RemoveElement
<1>2. Cardinality(S \ {x}) \in Nat /\ Cardinality(S) \in Nat
  BY <1>1, FS_CardinalityType
<1>3. Cardinality(S \ {x}) = 0
  BY <1>1, <1>2
<1>4. S \ {x} = {}
  BY <1>1, <1>3, FS_EmptySet
<1> QED
  BY <1>4

\* Where no pair is asked for and no run can be broken every choice is valid.
LEMMA FreePairs ==
  ASSUME FollowBase, PairFloor(Own, lead) = 0,
         exact < 4 \/ \A r \in TractorRuns(Own, SpaceTrump) : ~(Cardinality(r) >= 3),
         NEW chosen \in SUBSET PairFaces(Own), 2 * Cardinality(chosen) <= exact
  PROVE  ValidPairs(Own, lead, chosen, SpaceTrump)
<1> DEFINE led == Cardinality(PairFaces(lead))
           pairs == PairFaces(Own)
<1>1. IsFiniteSet(chosen) /\ Cardinality(chosen) \in Nat /\ led \in Nat /\ Cardinality(pairs) \in Nat
      /\ IsFiniteSet(pairs) /\ exact \in Nat
  BY FollowKnown, OwnKnown, FS_Subset, FS_CardinalityType
<1>2. CASE ~HasTractor
  BY <1>1, <1>2, NoTractor
<1>3. ASSUME HasTractor PROVE ValidPairs(Own, lead, chosen, SpaceTrump)
  <2>1. pairs # {}
    <3>1. PICK r : r \in TractorRuns(Own, SpaceTrump)
      BY <1>3 DEF HasTractor
    <3>2. PICK a, b \in Int : /\ a < b /\ r = a..b
           /\ \A t \in a..b : \E f \in PairFaces(Own) : Tier(f, SpaceTrump) = t
      BY <3>1, RunsOfOwn
    <3>3. a \in a..b
      BY <3>2
    <3> QED
      BY <3>2, <3>3
  <2>2. led = 0
    <3>1. Cardinality(pairs) # 0
      BY <1>1, <2>1, FS_EmptySet
    <3> QED
      BY <1>1, <3>1 DEF PairFloor
  <2>3. PICK d : d \in Decompositions(Own, SpaceTrump)
    BY SomeDecomposition
  <2>4. PriorityKept(Own, d, chosen, led, SpaceTrump)
    <3>1. ASSUME NEW l PROVE LevelKept(d, chosen, led, l)
      <4>1. {f \in chosen : LevelOf(d, f) = l} \subseteq chosen
            /\ {f \in chosen : LevelOf(d, f) > l} \subseteq chosen
        OBVIOUS
      <4>2. AtLevel(d, chosen, l) \in Nat /\ AboveLevel(d, chosen, l) \in Nat
        BY <1>1, <4>1, FS_Subset, FS_CardinalityType DEF AtLevel, AboveLevel
      <4> QED
        BY <2>2, <4>2 DEF LevelKept
    <3> QED
      BY <3>1, PriorityByLevel
  <2>5. Unbroken(Own, d, chosen, SpaceTrump)
    <3> SUFFICES ASSUME NEW r \in TractorRuns(Own, SpaceTrump), NEW used,
                        used = {t \in r : d[t] \in chosen}, used # {}
                 PROVE  used = Min(used)..Max(used)
      BY DEF Unbroken
    <3>1. PICK a, b \in Int : /\ a < b /\ r = a..b
           /\ \A t \in a..b : \E f \in PairFaces(Own) : Tier(f, SpaceTrump) = t
      BY RunsOfOwn
    <3>2. \A t \in used : Tier(d[t], SpaceTrump) = t /\ d[t] \in chosen /\ t \in a..b
      BY <2>3, <3>1 DEF Decompositions
    <3>3. \E x, y \in Int : x <= y /\ used = x..y
      <4>1. PICK t : t \in used
        OBVIOUS
      <4>2. CASE exact < 4
        <5>1. Cardinality(chosen) <= 1
          BY <1>1, <4>2
        <5>2. \A u \in used : d[u] = d[t]
          BY <1>1, <3>2, <4>1, <5>1, AtMostOne
        <5>3. \A u \in used : u = t
          BY <3>2, <4>1, <5>2
        <5>4. used = t..t /\ t \in Int
          BY <3>2, <4>1, <5>3
        <5> QED
          BY <5>4
      <4>3. CASE ~(Cardinality(r) >= 3)
        <5>1. Cardinality(a..b) = b - a + 1
          <6>1. a \in Int /\ b \in Int /\ ~(a > b)
            BY <3>1
          <6>2. Cardinality(a..b) = IF a > b THEN 0 ELSE b - a + 1
            BY <6>1, FS_Interval
          <6> QED
            BY <6>1, <6>2
        <5>2. b = a + 1
          BY <3>1, <4>3, <5>1
        <5>3. used = a..a \/ used = b..b \/ used = a..b
          BY <3>1, <3>2, <4>1, <5>2
        <5> QED
          BY <3>1, <5>3
      <4> QED
        BY <4>2, <4>3
    <3>4. PICK x \in Int, y \in Int : x <= y /\ used = x..y
      BY <3>3
    <3>5. Min(x..y) = x /\ Max(x..y) = y
      BY <3>4, IntervalEnds
    <3> QED
      BY <3>4, <3>5
  <2>6. Cardinality(chosen) >= PairFloor(Own, lead)
    BY <1>1
  <2> QED
    BY <2>3, <2>4, <2>5, <2>6 DEF ValidPairs
<1> QED
  BY <1>2, <1>3

---------------------------------------------------------------------------
(* What completes a follow of the suit, by counting and by plans           *)

Left(next) == exact - Weight(DOMAIN next, next)
SinglesAhead(next, taken) == Cardinality(Ahead(next) \ taken)

PairsFit(next) ==
  \E n \in Nat : /\ n <= Cardinality(Ahead(next) \cap Twice) /\ 2 * n <= Left(next)
                 /\ Left(next) - n <= Cardinality(Ahead(next))
                 /\ Cardinality(SelectedPairs(next)) + n >= PairFloor(Own, lead)

PlanFits(next, planned) ==
  /\ SelectedPairs(next) \subseteq planned
  /\ planned \ SelectedPairs(next) \subseteq Ahead(next)
  /\ Left(next) - 2 * Cardinality(planned \ SelectedPairs(next))
       \in 0..SinglesAhead(next, planned)

LEMMA SelectedKnown ==
  ASSUME FollowBase, NEW next, Selection(next)
  PROVE  /\ IsFiniteSet(SelectedPairs(next)) /\ SelectedPairs(next) \subseteq DOMAIN next
         /\ SelectedPairs(next) \subseteq Twice
         /\ Cardinality(SelectedPairs(next)) \in Nat /\ Left(next) \in Int
         /\ 2 * Cardinality(SelectedPairs(next)) <= Weight(DOMAIN next, next)
         /\ Weight(DOMAIN next, next) \in Nat
<1>1. IsFiniteSet(DOMAIN next) /\ Weight(DOMAIN next, next) \in Nat /\ exact \in Nat
  BY FollowKnown, WidthIs
<1>2. SelectedPairs(next) \subseteq DOMAIN next
  BY DEF SelectedPairs
<1>3. IsFiniteSet(SelectedPairs(next)) /\ Cardinality(SelectedPairs(next)) <= Cardinality(DOMAIN next)
  BY <1>1, <1>2, FS_Subset
<1>4. Cardinality(SelectedPairs(next)) \in Nat /\ Cardinality(DOMAIN next) \in Nat
  BY <1>1, <1>3, FS_CardinalityType
<1>5. Weight(DOMAIN next, next) = Cardinality(DOMAIN next) + Cardinality(SelectedPairs(next))
  BY SelectedIs DEF Weight
<1>6. SelectedPairs(next) \subseteq Twice
  <2>1. \A f \in SelectedPairs(next) : f \in Offered /\ Count(f) \in {1, 2} /\ 2 <= Count(f)
    <3> TAKE f \in SelectedPairs(next)
    <3>1. f \in DOMAIN next /\ next[f] = 2
      BY DEF SelectedPairs
    <3>2. CardsKnown
      BY FollowKnown
    <3> QED
      BY <3>1, <3>2, OfferedCounts DEF Selection
  <2>2. \A f \in SelectedPairs(next) : f \in Offered /\ Count(f) = 2
    BY <2>1
  <2> QED
    BY <2>2 DEF Twice
<1> QED
  BY <1>1, <1>2, <1>3, <1>4, <1>5, <1>6 DEF Left

\* What is chosen with P is chosen of the suit.
LEMMA ChosenPairs ==
  ASSUME FollowBase, NEW next, Selection(next), DOMAIN next \subseteq SameSuit,
         NEW T \in SUBSET Ahead(next), NEW P \in SUBSET (T \cap Twice)
  PROVE  /\ SelectedPairs(next) \cup P \in SUBSET PairFaces(Own)
         /\ SelectedPairs(next) \cap P = {} /\ IsFiniteSet(T) /\ IsFiniteSet(P)
         /\ Cardinality(T) \in Nat /\ Cardinality(P) \in Nat /\ Cardinality(P) <= Cardinality(T)
         /\ Cardinality(SelectedPairs(next) \cup P) = Cardinality(SelectedPairs(next)) + Cardinality(P)
         /\ Cardinality(T) <= Cardinality(Ahead(next))
         /\ Cardinality(P) <= Cardinality(Ahead(next) \cap Twice)
<1>1. /\ IsFiniteSet(Ahead(next)) /\ Ahead(next) \subseteq SameSuit
      /\ Ahead(next) \cap DOMAIN next = {} /\ IsFiniteSet(Ahead(next) \cap Twice)
  BY AheadIs
<1>2. /\ IsFiniteSet(SelectedPairs(next)) /\ SelectedPairs(next) \subseteq DOMAIN next
      /\ SelectedPairs(next) \subseteq Twice
  BY SelectedKnown
<1>3. PairFaces(Own) = SameSuit \cap Twice
  BY FollowKnown
<1>4. SelectedPairs(next) \cup P \in SUBSET PairFaces(Own) /\ SelectedPairs(next) \cap P = {}
  BY <1>1, <1>2, <1>3
<1>5. IsFiniteSet(T) /\ Cardinality(T) <= Cardinality(Ahead(next))
  BY <1>1, FS_Subset
<1>6. IsFiniteSet(P) /\ Cardinality(P) <= Cardinality(T)
  <2>1. P \subseteq T
    OBVIOUS
  <2> QED
    BY <1>5, <2>1, FS_Subset
<1>7. Cardinality(P) <= Cardinality(Ahead(next) \cap Twice)
  <2>1. P \subseteq Ahead(next) \cap Twice
    OBVIOUS
  <2> QED
    BY <1>1, <2>1, FS_Subset
<1>8. Cardinality(SelectedPairs(next) \cup P) = Cardinality(SelectedPairs(next)) + Cardinality(P)
  BY <1>2, <1>4, <1>6, DisjointUnion
<1>9. Cardinality(T) \in Nat /\ Cardinality(P) \in Nat
  BY <1>5, <1>6, FS_CardinalityType
<1> QED
  BY <1>4, <1>5, <1>6, <1>7, <1>8, <1>9

LEMMA FitsByPairs ==
  ASSUME FollowBase, ~HasTractor, NEW next, Selection(next), DOMAIN next \subseteq SameSuit
  PROVE  Fits(next) <=> PairsFit(next)
<1> DEFINE w == Weight(DOMAIN next, next)
           floor == PairFloor(Own, lead)
<1>0. /\ Left(next) = exact - w /\ w \in Nat /\ exact \in Nat /\ floor \in Nat
      /\ Cardinality(SelectedPairs(next)) \in Nat
  BY FollowKnown, SelectedKnown DEF Left
<1>1. ASSUME Fits(next) PROVE PairsFit(next)
  <2>1. PICK T \in SUBSET Ahead(next) : \E P \in SUBSET (T \cap Twice) : Fit(next, T, P)
    BY <1>1 DEF Fits
  <2>2. PICK P \in SUBSET (T \cap Twice) : Fit(next, T, P)
    BY <2>1
  <2>3. /\ Cardinality(T) \in Nat /\ Cardinality(P) \in Nat /\ Cardinality(P) <= Cardinality(T)
        /\ Cardinality(SelectedPairs(next) \cup P) = Cardinality(SelectedPairs(next)) + Cardinality(P)
        /\ Cardinality(T) <= Cardinality(Ahead(next))
        /\ Cardinality(P) <= Cardinality(Ahead(next) \cap Twice)
    BY ChosenPairs
  <2>4. w + (Cardinality(T) + Cardinality(P)) = exact
        /\ Cardinality(SelectedPairs(next) \cup P) >= floor
    BY <2>2, NoTractor DEF Fit
  <2>5. Cardinality(Ahead(next)) \in Nat /\ Cardinality(Ahead(next) \cap Twice) \in Nat
    BY AheadIs
  <2>6. /\ Cardinality(P) <= Cardinality(Ahead(next) \cap Twice) /\ 2 * Cardinality(P) <= Left(next)
        /\ Left(next) - Cardinality(P) <= Cardinality(Ahead(next))
        /\ Cardinality(SelectedPairs(next)) + Cardinality(P) >= floor
    <3> HIDE DEF w, floor
    <3> QED
      BY <1>0, <2>3, <2>4, <2>5
  <2> QED
    BY <2>3, <2>6 DEF PairsFit
<1>2. ASSUME PairsFit(next) PROVE Fits(next)
  <2>1. PICK n \in Nat :
          /\ n <= Cardinality(Ahead(next) \cap Twice) /\ 2 * n <= Left(next)
          /\ Left(next) - n <= Cardinality(Ahead(next))
          /\ Cardinality(SelectedPairs(next)) + n >= floor
    BY <1>2 DEF PairsFit
  <2> DEFINE S == Ahead(next)
             D == Ahead(next) \cap Twice
  <2>2. IsFiniteSet(S) /\ D \in SUBSET S /\ Left(next) \in Nat
    <3>1. Left(next) \in Nat
      <4> HIDE DEF w
      <4> QED
        BY <1>0, <2>1
    <3> QED
      BY <3>1, AheadIs
  <2>10. n <= Cardinality(D) /\ 2 * n <= Left(next) /\ Left(next) - n <= Cardinality(S)
    BY <2>1
  <2> HIDE DEF S, D
  <2>3. \E T \in SUBSET S : \E P \in SUBSET (T \cap D) :
           Cardinality(P) = n /\ Cardinality(T) + Cardinality(P) = Left(next)
    BY <2>2, <2>10, ChooseWithPairs
  <2>4. PICK T \in SUBSET S : \E P \in SUBSET (T \cap D) :
           Cardinality(P) = n /\ Cardinality(T) + Cardinality(P) = Left(next)
    BY <2>3
  <2>5. PICK P \in SUBSET (T \cap D) :
           Cardinality(P) = n /\ Cardinality(T) + Cardinality(P) = Left(next)
    BY <2>4
  <2>6. T \in SUBSET Ahead(next) /\ P \in SUBSET (T \cap Twice)
    BY DEF S, D
  <2>7. /\ SelectedPairs(next) \cup P \in SUBSET PairFaces(Own)
        /\ Cardinality(SelectedPairs(next) \cup P) = Cardinality(SelectedPairs(next)) + Cardinality(P)
        /\ Cardinality(T) \in Nat /\ Cardinality(P) \in Nat
    BY <2>6, ChosenPairs
  <2>8. ValidPairs(Own, lead, SelectedPairs(next) \cup P, SpaceTrump)
    BY <2>1, <2>5, <2>7, NoTractor
  <2>9. w + (Cardinality(T) + Cardinality(P)) = exact
    BY <1>0, <2>5, <2>7
  <2> QED
    BY <2>6, <2>8, <2>9 DEF Fits, Fit
<1> QED
  BY <1>1, <1>2

LEMMA PlanSplits ==
  ASSUME FollowBase, NEW next, Selection(next), DOMAIN next \subseteq SameSuit
  PROVE  Fits(next) <=> \E planned \in PairPlans : PlanFits(next, planned)
<1> DEFINE w == Weight(DOMAIN next, next)
           pairs == SelectedPairs(next)
<1>0. /\ Left(next) = exact - w /\ w \in Nat /\ exact \in Nat /\ Target = exact
      /\ Cardinality(pairs) \in Nat /\ 2 * Cardinality(pairs) <= w /\ pairs \subseteq DOMAIN next
      /\ IsFiniteSet(pairs)
  BY FollowKnown, SelectedKnown DEF Left
<1>9. IsFiniteSet(Ahead(next)) /\ Ahead(next) \cap DOMAIN next = {}
  BY AheadIs
<1>1. ASSUME NEW T \in SUBSET Ahead(next), NEW P \in SUBSET (T \cap Twice), Fit(next, T, P)
      PROVE  \E planned \in PairPlans : PlanFits(next, planned)
  <2>1. PICK planned : planned = pairs \cup P
    OBVIOUS
  <2>2. /\ planned \in SUBSET PairFaces(Own) /\ pairs \cap P = {}
        /\ Cardinality(T) \in Nat /\ Cardinality(P) \in Nat /\ Cardinality(P) <= Cardinality(T)
        /\ Cardinality(planned) = Cardinality(pairs) + Cardinality(P)
        /\ IsFiniteSet(T) /\ IsFiniteSet(P)
    BY <2>1, ChosenPairs
  <2>3. w + (Cardinality(T) + Cardinality(P)) = exact
        /\ ValidPairs(Own, lead, planned, SpaceTrump)
    BY <1>1, <2>1 DEF Fit
  <2>4. 2 * Cardinality(planned) <= Target
    BY <1>0, <2>2, <2>3
  <2>5. planned \in PairPlans
    BY <2>2, <2>3, <2>4 DEF PairPlans
  <2>6. planned \ pairs = P /\ P \subseteq Ahead(next)
    BY <2>1, <2>2
  <2>7. Cardinality(T \ P) = Cardinality(T) - Cardinality(P) /\ IsFiniteSet(T \ P)
    <3>1. Cardinality(T \ P) = Cardinality(T) - Cardinality(T \cap P) /\ IsFiniteSet(T \ P)
      BY <2>2, FS_Difference
    <3>2. T \cap P = P
      OBVIOUS
    <3> QED
      BY <3>1, <3>2
  <2>8. Cardinality(T \ P) <= SinglesAhead(next, planned) /\ SinglesAhead(next, planned) \in Nat
    <3>1. T \ P \subseteq Ahead(next) \ planned
      BY <1>0, <1>9, <2>1
    <3>2. IsFiniteSet(Ahead(next) \ planned)
      BY <1>9, FS_Difference
    <3> QED
      BY <3>1, <3>2, FS_Subset, FS_CardinalityType DEF SinglesAhead
  <2>9. Left(next) - 2 * Cardinality(P) \in 0..SinglesAhead(next, planned)
    <3> HIDE DEF w
    <3>1. Left(next) - 2 * Cardinality(P) = Cardinality(T) - Cardinality(P)
      BY <1>0, <2>2, <2>3
    <3> QED
      BY <2>2, <2>7, <2>8, <3>1
  <2>10. PlanFits(next, planned)
    BY <2>1, <2>6, <2>9 DEF PlanFits
  <2> QED
    BY <2>5, <2>10
<1>2. ASSUME NEW planned \in PairPlans, PlanFits(next, planned) PROVE Fits(next)
  <2>1. PICK P : P = planned \ pairs
    OBVIOUS
  <2>2. /\ planned = pairs \cup P /\ P \subseteq Ahead(next) /\ P \subseteq Twice
        /\ Left(next) - 2 * Cardinality(P) \in 0..SinglesAhead(next, planned)
        /\ ValidPairs(Own, lead, planned, SpaceTrump)
    <3>1. PairFaces(Own) = SameSuit \cap Twice
      BY FollowKnown
    <3> QED
      BY <1>2, <2>1, <3>1 DEF PlanFits, PairPlans
  <2>3. IsFiniteSet(P) /\ Cardinality(P) \in Nat
    BY <1>9, <2>2, FS_Subset, FS_CardinalityType
  <2>4. IsFiniteSet(Ahead(next) \ planned)
    BY <1>9, FS_Difference
  <2>5. PICK k \in Nat : k = Left(next) - 2 * Cardinality(P) /\ k <= Cardinality(Ahead(next) \ planned)
    <3>1. SinglesAhead(next, planned) \in Nat
      BY <2>4, FS_CardinalityType DEF SinglesAhead
    <3> QED
      BY <2>2, <3>1 DEF SinglesAhead
  <2>6. PICK U \in SUBSET (Ahead(next) \ planned) : IsFiniteSet(U) /\ Cardinality(U) = k
    BY <2>4, <2>5, SubsetOfSize
  <2>7. PICK T : T = P \cup U
    OBVIOUS
  <2>8. P \cap U = {} /\ T \in SUBSET Ahead(next) /\ P \in SUBSET (T \cap Twice)
    BY <2>2, <2>6, <2>7
  <2>9. Cardinality(T) = Cardinality(P) + Cardinality(U)
    BY <2>3, <2>6, <2>7, <2>8, DisjointUnion
  <2>10. w + (Cardinality(T) + Cardinality(P)) = exact
    <3> HIDE DEF w
    <3> QED
      BY <1>0, <2>3, <2>5, <2>6, <2>9
  <2>11. Fit(next, T, P)
    BY <2>2, <2>10 DEF Fit
  <2> QED
    BY <2>8, <2>11 DEF Fits
<1> QED
  BY <1>1, <1>2 DEF Fits

LEMMA FitsFree ==
  ASSUME FollowBase, PairFloor(Own, lead) = 0,
         exact < 4 \/ \A r \in TractorRuns(Own, SpaceTrump) : ~(Cardinality(r) >= 3),
         NEW next, Selection(next), DOMAIN next \subseteq SameSuit
  PROVE  Fits(next) <=> 0 <= Left(next) /\ Left(next) <= CardsIn(Ahead(next))
<1> DEFINE w == Weight(DOMAIN next, next)
           S == Ahead(next)
<1>0. /\ Left(next) = exact - w /\ w \in Nat /\ exact \in Nat /\ Left(next) \in Int
      /\ Cardinality(SelectedPairs(next)) \in Nat /\ 2 * Cardinality(SelectedPairs(next)) <= w
  BY FollowKnown, SelectedKnown DEF Left
<1>1. ASSUME NEW T \in SUBSET S, NEW P \in SUBSET (T \cap Twice)
      PROVE  Fit(next, T, P) <=> Cardinality(T) + Cardinality(P) = Left(next)
  <2>1. /\ SelectedPairs(next) \cup P \in SUBSET PairFaces(Own)
        /\ Cardinality(T) \in Nat /\ Cardinality(P) \in Nat /\ Cardinality(P) <= Cardinality(T)
        /\ Cardinality(SelectedPairs(next) \cup P) = Cardinality(SelectedPairs(next)) + Cardinality(P)
    BY ChosenPairs
  <2>2. w + (Cardinality(T) + Cardinality(P)) = exact <=> Cardinality(T) + Cardinality(P) = Left(next)
    <3> HIDE DEF w
    <3> QED
      BY <1>0, <2>1
  <2>3. ASSUME w + (Cardinality(T) + Cardinality(P)) = exact
        PROVE  ValidPairs(Own, lead, SelectedPairs(next) \cup P, SpaceTrump)
    <3>1. 2 * Cardinality(SelectedPairs(next) \cup P) <= exact
      <4> HIDE DEF w
      <4> QED
        BY <1>0, <2>1, <2>3
    <3> QED
      BY <2>1, <3>1, FreePairs
  <2> QED
    BY <2>2, <2>3 DEF Fit
<1>2. IsFiniteSet(S)
  BY AheadIs
<1>3. Fits(next) <=> \E T \in SUBSET S : \E P \in SUBSET (T \cap Twice) :
                       Cardinality(T) + Cardinality(P) = Left(next)
  BY <1>1 DEF Fits
<1> HIDE DEF S
<1>4. (\E T \in SUBSET S : \E P \in SUBSET (T \cap Twice) : Cardinality(T) + Cardinality(P) = Left(next))
        <=> 0 <= Left(next) /\ Left(next) <= Cardinality(S) + Cardinality(S \cap Twice)
  BY <1>0, <1>2, Fills
<1> QED
  BY <1>3, <1>4 DEF S, CardsIn

\* Whatever fits, there are cards enough for it.
LEMMA FitsHasCards ==
  ASSUME FollowBase, NEW next, Selection(next), DOMAIN next \subseteq SameSuit, Fits(next)
  PROVE  Left(next) <= CardsIn(Ahead(next))
<1> DEFINE w == Weight(DOMAIN next, next)
<1>0. Left(next) = exact - w /\ w \in Nat /\ exact \in Nat
  BY FollowKnown, SelectedKnown DEF Left
<1>1. PICK T \in SUBSET Ahead(next) : \E P \in SUBSET (T \cap Twice) : Fit(next, T, P)
  BY DEF Fits
<1>2. PICK P \in SUBSET (T \cap Twice) : Fit(next, T, P)
  BY <1>1
<1>3. /\ Cardinality(T) \in Nat /\ Cardinality(P) \in Nat
      /\ Cardinality(T) <= Cardinality(Ahead(next))
      /\ Cardinality(P) <= Cardinality(Ahead(next) \cap Twice)
  BY ChosenPairs
<1>4. Cardinality(Ahead(next)) \in Nat /\ Cardinality(Ahead(next) \cap Twice) \in Nat
  BY AheadIs
<1>5. w + (Cardinality(T) + Cardinality(P)) = exact
  BY <1>2 DEF Fit
<1> HIDE DEF w
<1> QED
  BY <1>0, <1>3, <1>4, <1>5 DEF CardsIn

---------------------------------------------------------------------------
(* Two analyses of a follow of the suit: the device and can_complete       *)

LEMMA FitsWithin ==
  ASSUME FollowBase, NEW next, Selection(next), Fits(next)
  PROVE  Weight(DOMAIN next, next) <= exact
<1> DEFINE w == Weight(DOMAIN next, next)
<1>0. exact \in Nat /\ w \in Nat
  BY FollowKnown, SelectedKnown
<1>1. PICK T \in SUBSET Ahead(next) : \E P \in SUBSET (T \cap Twice) : Fit(next, T, P)
  BY DEF Fits
<1>2. PICK P \in SUBSET (T \cap Twice) : Fit(next, T, P)
  BY <1>1
<1>3. IsFiniteSet(T) /\ IsFiniteSet(P)
  <2>1. IsFiniteSet(T)
    BY AheadIs, FS_Subset
  <2> QED
    BY <2>1, FS_Subset
<1>4. Cardinality(T) \in Nat /\ Cardinality(P) \in Nat
  BY <1>3, FS_CardinalityType
<1>5. w + (Cardinality(T) + Cardinality(P)) = exact
  BY <1>2 DEF Fit
<1> HIDE DEF w
<1>6. w <= exact
  BY <1>0, <1>4, <1>5
<1> QED
  BY <1>6 DEF w

LEMMA FitsFull ==
  ASSUME FollowBase, NEW next, Selection(next), DOMAIN next \subseteq SameSuit,
         Weight(DOMAIN next, next) = exact
  PROVE  Fits(next) <=> ValidPairs(Own, lead, SelectedPairs(next), SpaceTrump)
<1>0. exact \in Nat
  BY FollowKnown
<1>1. ASSUME Fits(next) PROVE ValidPairs(Own, lead, SelectedPairs(next), SpaceTrump)
  <2>1. PICK T \in SUBSET Ahead(next) : \E P \in SUBSET (T \cap Twice) : Fit(next, T, P)
    BY <1>1 DEF Fits
  <2>2. PICK P \in SUBSET (T \cap Twice) : Fit(next, T, P)
    BY <2>1
  <2>3. Cardinality(T) \in Nat /\ Cardinality(P) \in Nat /\ IsFiniteSet(P)
    BY ChosenPairs
  <2>4. Cardinality(P) = 0
    BY <1>0, <2>2, <2>3 DEF Fit
  <2>5. P = {}
    BY <2>3, <2>4, FS_EmptySet
  <2>6. SelectedPairs(next) \cup P = SelectedPairs(next)
    BY <2>5
  <2> QED
    BY <2>2, <2>6 DEF Fit
<1>2. ASSUME ValidPairs(Own, lead, SelectedPairs(next), SpaceTrump) PROVE Fits(next)
  <2>1. PICK N : N = {}
    OBVIOUS
  <2>2. Cardinality(N) = 0 /\ SelectedPairs(next) \cup N = SelectedPairs(next)
    BY <2>1, FS_EmptySet
  <2>3. Fit(next, N, N)
    <3>1. Weight(DOMAIN next, next) + (Cardinality(N) + Cardinality(N)) = exact
      BY <1>0, <2>2
    <3>2. ValidPairs(Own, lead, SelectedPairs(next) \cup N, SpaceTrump)
      BY <1>2, <2>2, Zenon
    <3> QED
      BY <3>1, <3>2 DEF Fit
  <2>4. N \in SUBSET Ahead(next) /\ N \in SUBSET (N \cap Twice)
    BY <2>1
  <2> QED
    BY <2>3, <2>4 DEF Fits
<1> QED
  BY <1>1, <1>2

SuitFaces == {f \in SpaceFaces : FaceSuit(f) = Suit}

LEMMA CanCompleteIs ==
  ASSUME FollowBase, NEW next, Selection(next)
  PROVE  CanComplete(next) <=>
           /\ Weight(DOMAIN next, next) <= exact
           /\ Weight(DOMAIN next \cap SameSuit, next) <= Required
           /\ Weight(DOMAIN next, next) - Weight(DOMAIN next \cap SameSuit, next) <= exact - Required
           /\ IF Required = exact THEN CompletesInSuit(next) ELSE CompletesExhausting(next)
<1>0. Base /\ Target = exact /\ CardsKnown
  BY FollowKnown
<1>1. DOMAIN next \cap SuitFaces = DOMAIN next \cap SameSuit
  BY <1>0 DEF SuitFaces, SameSuit, Selection, Base
<1>2. Width(next, SuitFaces) = Weight(DOMAIN next \cap SameSuit, next)
  <2>1. Width(next, SuitFaces) = Weight(DOMAIN next \cap SuitFaces, next)
    BY <1>0, WidthIs
  <2> QED
    BY <1>1, <2>1
<1>3. Width(next, SpaceFaces) = Weight(DOMAIN next, next)
  BY <1>0, WidthIs
<1>4. \A f \in DOMAIN next : next[f] <= Count(f)
  BY DEF Selection
<1>5. Width(next, {f \in SpaceFaces : FaceSuit(f) = Suit}) = Weight(DOMAIN next \cap SameSuit, next)
  BY <1>2 DEF SuitFaces
<1> QED
  BY <1>0, <1>3, <1>4, <1>5 DEF CanComplete

LEMMA LeftForSingles ==
  ASSUME FollowBase, NEW next, Selection(next), NEW taken
  PROVE  /\ SinglesLeft(next, DOMAIN next \cup taken) = SinglesAhead(next, taken)
         /\ SinglesAhead(next, taken) \in Nat
<1>1. FacesOf(Own) = SameSuit /\ SameSuit \subseteq Offered
  BY FollowKnown, OwnCounts
<1>2. {f \in SameSuit \ (DOMAIN next \cup taken) : After(next, f)} = Ahead(next) \ taken
  BY <1>1, AheadIs DEF Ahead, Open
<1>3. IsFiniteSet(Ahead(next) \ taken)
  BY AheadIs, FS_Difference
<1> QED
  BY <1>1, <1>2, <1>3, FS_CardinalityType DEF SinglesLeft, SinglesAhead

LEMMA PlansOfTheHost ==
  ASSUME FollowBase, NEW next, Selection(next), NEW planned \in PairPlans
  PROVE  PlanFits(next, planned) <=>
           LET width == Width(next, SpaceFaces) + 2 * Cardinality(planned \ SelectedPairs(next))
           IN /\ SelectedPairs(next) \subseteq planned
              /\ \A f \in planned : f \in DOMAIN next => f \in SelectedPairs(next)
              /\ \A f \in planned \ SelectedPairs(next) : After(next, f)
              /\ width <= Target
              /\ Target - width <= SinglesLeft(next, DOMAIN next \cup planned)
<1> DEFINE w == Weight(DOMAIN next, next)
           coming == planned \ SelectedPairs(next)
<1>0. /\ Base /\ Target = exact /\ exact \in Nat /\ w \in Nat /\ Left(next) = exact - w
      /\ PairFaces(Own) = SameSuit \cap Twice /\ SameSuit \subseteq Offered
      /\ IsFiniteSet(PairFaces(Own))
  BY FollowKnown, SelectedKnown DEF Left
<1>1. planned \in SUBSET PairFaces(Own)
  BY DEF PairPlans
<1>2. IsFiniteSet(coming) /\ Cardinality(coming) \in Nat
  <2>1. coming \subseteq PairFaces(Own)
    BY <1>1
  <2> QED
    BY <1>0, <2>1, FS_Subset, FS_CardinalityType
<1>3. /\ SinglesLeft(next, DOMAIN next \cup planned) = SinglesAhead(next, planned)
      /\ SinglesAhead(next, planned) \in Nat
  BY LeftForSingles
<1>4. /\ \A f \in planned : f \in DOMAIN next => f \in SelectedPairs(next)
      /\ \A f \in coming : After(next, f)
      <=> coming \subseteq Ahead(next)
  <2>1. Ahead(next) \cap DOMAIN next = {}
    BY AheadIs
  <2> QED
    BY <1>0, <1>1, <2>1 DEF Ahead, Open
<1>5. Width(next, SpaceFaces) = w
  BY <1>0, WidthIs
<1>6. Left(next) - 2 * Cardinality(coming) \in 0..SinglesAhead(next, planned)
        <=> /\ w + 2 * Cardinality(coming) <= Target
            /\ Target - (w + 2 * Cardinality(coming)) <= SinglesAhead(next, planned)
  <2> HIDE DEF w, coming
  <2> QED
    BY <1>0, <1>2, <1>3
<1> QED
  BY <1>3, <1>4, <1>5, <1>6 DEF PlanFits

LEMMA HostInSuit ==
  ASSUME FollowBase, Required = exact, NEW next, Selection(next), DOMAIN next \subseteq SameSuit,
         Weight(DOMAIN next, next) <= exact
  PROVE  CompletesInSuit(next) <=> Fits(next)
<1> DEFINE w == Weight(DOMAIN next, next)
<1>0. /\ Base /\ Target = exact /\ exact \in Nat /\ w \in Nat /\ Left(next) = exact - w /\ LeadKnown
      /\ Cardinality(SelectedPairs(next)) \in Nat /\ PairFloor(Own, lead) \in Nat
      /\ PairFaces(Own) = SameSuit \cap Twice /\ SameSuit \subseteq Offered
  BY FollowKnown, SelectedKnown DEF Left
<1>1. Width(next, SpaceFaces) = w
  BY <1>0, WidthIs
<1>2. {f \in DOMAIN next : next[f] = 2} = SelectedPairs(next)
  BY DEF SelectedPairs
<1>3. ASSUME w = exact PROVE CompletesInSuit(next) <=> Fits(next)
  <2>1. CompletesInSuit(next) <=> LegalFollow(hand, Bound(next), lead, SpaceTrump)
    BY <1>0, <1>1, <1>3 DEF CompletesInSuit
  <2>2. LegalFollow(hand, Bound(next), lead, SpaceTrump) <=> next \in Moves
    BY <1>0, BoundIsLegalFollow
  <2>3. next \in Moves <=> ValidPairs(Own, lead, SelectedPairs(next), SpaceTrump)
    BY <1>3, MovesInSuit
  <2>4. Fits(next) <=> ValidPairs(Own, lead, SelectedPairs(next), SpaceTrump)
    BY <1>3, FitsFull
  <2> QED
    BY <2>1, <2>2, <2>3, <2>4
<1>4. ASSUME w # exact, HasTractor PROVE CompletesInSuit(next) <=> Fits(next)
  <2>1. CompletesInSuit(next) <=> CompletesWithPlan(next)
    BY <1>0, <1>1, <1>4 DEF CompletesInSuit
  <2>2. CompletesWithPlan(next) <=> \E planned \in PairPlans : PlanFits(next, planned)
    BY <1>2, PlansOfTheHost DEF CompletesWithPlan
  <2> QED
    BY <2>1, <2>2, PlanSplits
<1>5. ASSUME w # exact, ~HasTractor PROVE CompletesInSuit(next) <=> Fits(next)
  <2>1. CompletesInSuit(next) <=> CompletesWithPairs(next)
    BY <1>0, <1>1, <1>5 DEF CompletesInSuit
  <2>2. {f \in PairFaces(Own) \ DOMAIN next : After(next, f)} = Ahead(next) \cap Twice
    <3>1. Ahead(next) \cap DOMAIN next = {}
      BY AheadIs
    <3> QED
      BY <1>0, <3>1 DEF Ahead, Open
  <2>3. SinglesLeft(next, DOMAIN next) = Cardinality(Ahead(next))
    <3>1. PICK N : N = {}
      OBVIOUS
    <3>2. SinglesLeft(next, DOMAIN next \cup N) = SinglesAhead(next, N)
      BY LeftForSingles
    <3>3. DOMAIN next \cup N = DOMAIN next /\ Ahead(next) \ N = Ahead(next)
      BY <3>1
    <3> QED
      BY <3>2, <3>3 DEF SinglesAhead
  <2>4. Cardinality(Ahead(next)) \in Nat /\ Cardinality(Ahead(next) \cap Twice) \in Nat
    BY AheadIs
  <2>5. CompletesWithPairs(next) <=>
          \E n \in 0..Cardinality(Ahead(next) \cap Twice) :
            /\ Cardinality(SelectedPairs(next)) + n >= PairFloor(Own, lead)
            /\ w + 2 * n <= Target
            /\ Target - (w + 2 * n) <= Cardinality(Ahead(next)) - n
    <3> HIDE DEF w
    <3> QED
      BY <1>1, <1>2, <2>2, <2>3 DEF CompletesWithPairs
  <2>6. CompletesWithPairs(next) <=> PairsFit(next)
    <3> DEFINE ahead == Cardinality(Ahead(next))
               twice == Cardinality(Ahead(next) \cap Twice)
               chosen == Cardinality(SelectedPairs(next))
               floor == PairFloor(Own, lead)
    <3> HIDE DEF w
    <3>1. ahead \in Nat /\ twice \in Nat /\ chosen \in Nat /\ floor \in Nat
      BY <1>0, <2>4
    <3>2. CompletesWithPairs(next) <=>
            \E n \in 0..twice : chosen + n >= floor /\ w + 2 * n <= exact /\ exact - (w + 2 * n) <= ahead - n
      BY <1>0, <2>5
    <3>3. PairsFit(next) <=>
            \E n \in Nat : n <= twice /\ 2 * n <= exact - w /\ (exact - w) - n <= ahead /\ chosen + n >= floor
      BY <1>0 DEF PairsFit
    <3> HIDE DEF ahead, twice, chosen, floor
    <3>4. \A n \in Nat :
            /\ 2 * n <= exact - w <=> w + 2 * n <= exact
            /\ (exact - w) - n <= ahead <=> exact - (w + 2 * n) <= ahead - n
      BY <1>0, <3>1
    <3>5. \A n : n \in 0..twice <=> n \in Nat /\ n <= twice
      BY <3>1
    <3> QED
      BY <3>2, <3>3, <3>4, <3>5
  <2> QED
    BY <1>5, <2>1, <2>6, FitsByPairs
<1> QED
  BY <1>3, <1>4, <1>5

LEMMA AllowedInSuit ==
  ASSUME FollowBase, Required = exact, NEW sel, NEW f, NEW n, NEW next, Chosen(sel, f, n, next),
         WidthOf(sel) < exact
  PROVE  Allowed(sel, f, n) <=> Continues(next)
<1> DEFINE w == Weight(DOMAIN next, next)
           s == Weight(DOMAIN next \cap SameSuit, next)
<1>0. Base /\ Target = exact /\ exact \in Nat
  BY FollowKnown
<1>1. Selection(next) /\ n <= Count(f)
  BY <1>0, ChosenSelection
<1>2. Allowed(sel, f, n) <=> CanComplete(next)
  <2>1. Width(sel, SpaceFaces) < Target
    BY <1>0 DEF WidthOf
  <2>2. next = [g \in DOMAIN sel \cup {f} |-> IF g = f THEN n ELSE sel[g]] /\ After(sel, f)
    BY DEF Chosen, Extended
  <2> QED
    BY <1>1, <2>1, <2>2 DEF Allowed
<1>3. /\ w \in Nat /\ s \in Nat /\ s <= w
  BY <1>0, <1>1, WidthIs
<1>4. s = w <=> DOMAIN next \subseteq SameSuit
  BY <1>0, <1>1, AllInside
<1>5. CanComplete(next) <=> /\ w <= exact /\ s <= Required /\ w - s <= exact - Required
                            /\ IF Required = exact THEN CompletesInSuit(next) ELSE CompletesExhausting(next)
  BY <1>1, CanCompleteIs
<1>6. CanComplete(next) <=> w <= exact /\ DOMAIN next \subseteq SameSuit /\ CompletesInSuit(next)
  <2> HIDE DEF w, s
  <2> QED
    BY <1>0, <1>3, <1>4, <1>5
<1>7. Fits(next) => w <= exact
  BY <1>1, FitsWithin
<1>8. DOMAIN next \subseteq SameSuit /\ w <= exact => (CompletesInSuit(next) <=> Fits(next))
  BY <1>1, HostInSuit
<1>9. Continues(next) <=> DOMAIN next \subseteq SameSuit /\ Fits(next)
  BY <1>1, FollowContinues
<1> QED
  BY <1>2, <1>6, <1>7, <1>8, <1>9

---------------------------------------------------------------------------
(* Follows of the suit: what the device counts                          *)

LEMMA GreatestOfThree ==
  ASSUME NEW a \in Int, NEW b \in Int, NEW c \in Int
  PROVE  /\ Max({a, b, c}) \in {a, b, c}
         /\ a <= Max({a, b, c}) /\ b <= Max({a, b, c}) /\ c <= Max({a, b, c})
<1>1. \E x \in {a, b, c} : \A y \in {a, b, c} : x >= y
  OBVIOUS
<1> DEFINE S == {a, b, c}
<1>2. \E x \in S : \A y \in S : x >= y
  BY <1>1
<1> HIDE DEF S
<1>3. Max(S) \in S /\ \A y \in S : Max(S) >= y
  BY <1>2 DEF Max
<1> QED
  BY <1>3 DEF S

LEMMA LeastOfTwo ==
  ASSUME NEW a \in Int, NEW b \in Int
  PROVE  Min({a, b}) \in {a, b} /\ Min({a, b}) <= a /\ Min({a, b}) <= b
<1>1. \E x \in {a, b} : \A y \in {a, b} : x <= y
  OBVIOUS
<1> DEFINE S == {a, b}
<1>2. \E x \in S : \A y \in S : x <= y
  BY <1>1
<1> HIDE DEF S
<1>3. Min(S) \in S /\ \A y \in S : Min(S) <= y
  BY <1>2 DEF Min
<1> QED
  BY <1>3 DEF S

LEMMA DeviceSingles ==
  ASSUME FollowBase, NEW sel, NEW f, NEW n, NEW next, Chosen(sel, f, n, next), NEW taken
  PROVE  /\ SingleCapacity(sel, f, taken) = SinglesAhead(next, taken)
         /\ SinglesAhead(next, taken) \in Nat
<1>1. Base
  BY FollowKnown
<1>0. PICK S : S = SameSuit \ taken /\ S \subseteq Offered
  BY FollowKnown
<1>6. Later(S \ DOMAIN sel, f) = S \cap Open(next)
  BY <1>0, <1>1, LaterIs
<1>2. Later((SameSuit \ taken) \ DOMAIN sel, f) = (SameSuit \ taken) \cap Open(next)
  BY <1>0, <1>6
<1>3. SameSuit \ (DOMAIN sel \cup taken) = (SameSuit \ taken) \ DOMAIN sel
  OBVIOUS
<1>4. (SameSuit \ taken) \cap Open(next) = Ahead(next) \ taken
  BY DEF Ahead
<1>5. SinglesAhead(next, taken) \in Nat
  BY <1>1, ChosenSelection, LeftForSingles
<1> QED
  BY <1>2, <1>3, <1>4, <1>5 DEF SingleCapacity, SinglesAhead

LEMMA DevicePairs ==
  ASSUME FollowBase, NEW sel, NEW f, NEW n, NEW next, Chosen(sel, f, n, next),
         DOMAIN next \subseteq SameSuit, Weight(DOMAIN next, next) <= exact
  PROVE  PairsWithoutTractor(sel, f, n) <=> PairsFit(next)
<1> DEFINE pairs == SelectedPairs(Extended(sel, f, n))
           left == exact - (WidthOf(sel) + n)
           chosen == Cardinality(pairs \cap PairFaces(Own))
           floor == PairFloor(Own, lead)
           ahead == SingleCapacity(sel, f, pairs)
           twice == Cardinality(Later(PairFaces(Own) \ DOMAIN sel, f))
<1>0. /\ Base /\ exact \in Nat /\ floor \in Nat /\ SameSuit \subseteq Offered
      /\ PairFaces(Own) = SameSuit \cap Twice
  BY FollowKnown
<1>1. Selection(next) /\ next = Extended(sel, f, n)
  BY <1>0, ChosenSelection DEF Chosen
<1>2. pairs = SelectedPairs(next)
  BY <1>1
<1>3. left = Left(next) /\ left \in Nat
  <2>1. Weight(DOMAIN next, next) = WidthOf(sel) + n
    BY <1>0, ChosenWidth
  <2>2. Left(next) \in Int /\ Weight(DOMAIN next, next) \in Nat
    BY <1>1, SelectedKnown
  <2> QED
    BY <1>0, <2>1, <2>2 DEF Left
<1>4. chosen = Cardinality(SelectedPairs(next)) /\ chosen \in Nat
  <2>1. /\ SelectedPairs(next) \subseteq DOMAIN next /\ SelectedPairs(next) \subseteq Twice
        /\ Cardinality(SelectedPairs(next)) \in Nat
    BY <1>1, SelectedKnown
  <2>2. pairs \cap PairFaces(Own) = SelectedPairs(next)
    BY <1>0, <1>2, <2>1
  <2> QED
    BY <2>1, <2>2
<1>5. ahead = Cardinality(Ahead(next)) /\ ahead \in Nat
  <2>1. ahead = SinglesAhead(next, pairs)
    BY DeviceSingles
  <2>2. Ahead(next) \ pairs = Ahead(next) /\ Cardinality(Ahead(next)) \in Nat
    <3>1. SelectedPairs(next) \subseteq DOMAIN next
      BY <1>1, SelectedKnown
    <3>2. Ahead(next) \cap DOMAIN next = {} /\ Cardinality(Ahead(next)) \in Nat
      BY <1>1, AheadIs
    <3> QED
      BY <1>2, <3>1, <3>2
  <2> QED
    BY <2>1, <2>2 DEF SinglesAhead
<1>6. twice = Cardinality(Ahead(next) \cap Twice) /\ twice \in Nat
  <2>1. PairFaces(Own) \subseteq Offered
    BY <1>0
  <2>2. Later(PairFaces(Own) \ DOMAIN sel, f) = PairFaces(Own) \cap Open(next)
    BY <1>0, <2>1, LaterIs
  <2>3. PairFaces(Own) \cap Open(next) = Ahead(next) \cap Twice
    BY <1>0 DEF Ahead
  <2>4. Cardinality(Ahead(next) \cap Twice) \in Nat
    BY <1>1, AheadIs
  <2> QED
    BY <2>2, <2>3, <2>4
<1>7. PairsWithoutTractor(sel, f, n)
        <=> Max({0, floor - chosen, left - ahead}) <= Min({twice, left \div 2})
  BY DEF PairsWithoutTractor
<1>8. PairsFit(next) <=> \E k \in Nat : k <= twice /\ 2 * k <= left /\ left - k <= ahead /\ chosen + k >= floor
  BY <1>3, <1>4, <1>5, <1>6 DEF PairsFit
<1> HIDE DEF pairs, left, chosen, floor, ahead, twice
<1>9. PICK half \in Nat : half = left \div 2 /\ \A k \in Nat : k <= half <=> 2 * k <= left
  BY <1>3
<1>10. PICK least : least = Max({0, floor - chosen, left - ahead})
  OBVIOUS
<1>11. PICK most : most = Min({twice, half})
  OBVIOUS
<1>12. /\ least \in {0, floor - chosen, left - ahead}
       /\ 0 <= least /\ floor - chosen <= least /\ left - ahead <= least
  <2>1. 0 \in Int /\ floor - chosen \in Int /\ left - ahead \in Int
    BY <1>0, <1>3, <1>4, <1>5
  <2> QED
    BY <1>10, <2>1, GreatestOfThree
<1>13. most \in {twice, half} /\ most <= twice /\ most <= half
  <2>1. twice \in Int /\ half \in Int
    BY <1>6
  <2> QED
    BY <1>11, <2>1, LeastOfTwo
<1>14. PairsWithoutTractor(sel, f, n) <=> least <= most
  BY <1>7, <1>9, <1>10, <1>11
<1>15. ASSUME least <= most PROVE PairsFit(next)
  <2>1. least \in Nat /\ least <= twice /\ least <= half /\ left - least <= ahead /\ chosen + least >= floor
    BY <1>0, <1>3, <1>4, <1>5, <1>6, <1>12, <1>13, <1>15
  <2> QED
    BY <1>8, <1>9, <2>1
<1>16. ASSUME PairsFit(next) PROVE least <= most
  <2>1. PICK k \in Nat : k <= twice /\ 2 * k <= left /\ left - k <= ahead /\ chosen + k >= floor
    BY <1>8, <1>16
  <2>2. k <= half
    BY <1>9, <2>1
  <2>3. least <= k
    BY <1>0, <1>3, <1>4, <1>5, <1>12, <2>1
  <2>4. k <= most
    BY <1>13, <2>1, <2>2
  <2>5. least \in Int /\ most \in Int
    BY <1>0, <1>3, <1>4, <1>5, <1>6, <1>12, <1>13
  <2> QED
    BY <2>3, <2>4, <2>5
<1> QED
  BY <1>14, <1>15, <1>16

LEMMA DevicePlan ==
  ASSUME FollowBase, NEW sel, NEW f, NEW n, NEW next, Chosen(sel, f, n, next),
         NEW planned \in PairPlans
  PROVE  PlanFits(next, planned) <=>
           LET coming == planned \ SelectedPairs(next)
               left == exact - (WidthOf(sel) + n + 2 * Cardinality(coming))
           IN /\ PlanAgrees(planned, next)
              /\ coming = Later(coming, f)
              /\ left \in 0..SingleCapacity(sel, f, planned)
<1> DEFINE coming == planned \ SelectedPairs(next)
           w == Weight(DOMAIN next, next)
<1>0. /\ Base /\ exact \in Nat /\ PairFaces(Own) = SameSuit \cap Twice /\ SameSuit \subseteq Offered
      /\ IsFiniteSet(PairFaces(Own))
  BY FollowKnown
<1>1. Selection(next)
  BY <1>0, ChosenSelection
<1>2. w = WidthOf(sel) + n /\ w \in Nat
  BY <1>0, <1>1, ChosenWidth, SelectedKnown
<1>3. coming \subseteq SameSuit /\ IsFiniteSet(coming) /\ Cardinality(coming) \in Nat
  <2>1. coming \subseteq PairFaces(Own)
    BY DEF PairPlans
  <2> QED
    BY <1>0, <2>1, FS_Subset, FS_CardinalityType
<1>4. coming = Later(coming, f) <=> coming \subseteq Ahead(next)
  <2>1. \A g \in Offered : g \in Open(next) <=> FaceKey(g) > FaceKey(f)
    BY <1>0, ChosenOpen
  <2> HIDE DEF coming
  <2> QED
    BY <1>0, <1>3, <2>1 DEF Later, Ahead
<1>5. coming \subseteq Ahead(next) => (PlanAgrees(planned, next) <=> SelectedPairs(next) \subseteq planned)
  <2>1. Ahead(next) \cap DOMAIN next = {}
    BY <1>1, AheadIs
  <2>2. \A g \in SelectedPairs(next) : next[g] = 2
    BY DEF SelectedPairs
  <2> QED
    BY <2>1, <2>2 DEF PlanAgrees
<1>6. PlanAgrees(planned, next) => SelectedPairs(next) \subseteq planned
  BY DEF PlanAgrees
<1>7. SingleCapacity(sel, f, planned) = SinglesAhead(next, planned)
  BY DeviceSingles
<1>8. exact - (WidthOf(sel) + n + 2 * Cardinality(coming)) = Left(next) - 2 * Cardinality(coming)
  <2>1. Left(next) = exact - w
    BY DEF Left
  <2>2. exact - (w + 2 * Cardinality(coming)) = (exact - w) - 2 * Cardinality(coming)
    <3> HIDE DEF w, coming
    <3> QED
      BY <1>0, <1>2, <1>3
  <2> QED
    BY <1>2, <2>1, <2>2
<1> QED
  BY <1>4, <1>5, <1>6, <1>7, <1>8 DEF PlanFits

LEMMA DevicePlans ==
  ASSUME FollowBase, NEW sel, NEW f, NEW n, NEW next, Chosen(sel, f, n, next)
  PROVE  PairsOfAPlan(sel, f, n) <=> \E planned \in PairPlans : PlanFits(next, planned)
<1>1. next = Extended(sel, f, n)
  BY DEF Chosen
<1> QED
  BY <1>1, DevicePlan DEF PairsOfAPlan

LEMMA DeviceCards ==
  ASSUME FollowBase, NEW sel, NEW f, NEW n, NEW next, Chosen(sel, f, n, next)
  PROVE  /\ HasRemainingCapacity(sel, f, n, SameSuit) <=> Left(next) <= CardsIn(Ahead(next))
         /\ CardsIn(Ahead(next)) \in Nat
<1>0. Base /\ exact \in Nat /\ SameSuit \subseteq Offered /\ CardsKnown
  BY FollowKnown
<1>1. CardsLater(SameSuit, sel, f) = CardsIn(SameSuit \cap Open(next))
  BY <1>0, LaterCount
<1>2. Weight(DOMAIN next, next) = WidthOf(sel) + n
  BY <1>0, ChosenWidth
<1>3. Selection(next)
  BY <1>0, ChosenSelection
<1>4. Ahead(next) \subseteq Offered
  BY <1>3, AheadIs
<1>5. CardsIn(Ahead(next)) \in Nat
  BY <1>0, <1>4, CardsInType
<1>6. Left(next) = exact - (WidthOf(sel) + n) /\ Left(next) \in Int
  BY <1>2, <1>3, SelectedKnown DEF Left
<1>7. HasRemainingCapacity(sel, f, n, SameSuit) <=> CardsIn(Ahead(next)) >= Left(next)
  BY <1>1, <1>6 DEF HasRemainingCapacity, CardsLater, Ahead
<1> QED
  BY <1>5, <1>6, <1>7

LEMMA DeviceInSuit ==
  ASSUME FollowBase, ~BreaksUnseen, Required = exact,
         NEW sel, NEW f, NEW n, NEW next, Chosen(sel, f, n, next),
         DOMAIN next \subseteq SameSuit, Weight(DOMAIN next, next) <= exact
  PROVE  SameSuitCompletes(sel, f, n) <=> Fits(next)
<1> DEFINE w == Weight(DOMAIN next, next)
<1>0. Base /\ exact \in Nat /\ query = "follow_play"
  BY FollowKnown
<1>1. Selection(next)
  BY <1>0, ChosenSelection
<1>2. w = WidthOf(sel) + n /\ w \in Nat /\ Left(next) = exact - w
  BY <1>0, <1>1, ChosenWidth, SelectedKnown DEF Left
<1>3. /\ HasRemainingCapacity(sel, f, n, SameSuit) <=> Left(next) <= CardsIn(Ahead(next))
      /\ CardsIn(Ahead(next)) \in Nat
  BY DeviceCards
<1>4. WidthOf(sel) + n = exact \/ HasRemainingCapacity(sel, f, n, SameSuit)
        <=> Left(next) <= CardsIn(Ahead(next))
  <2> HIDE DEF w
  <2> QED
    BY <1>0, <1>2, <1>3
<1>5. ASSUME PairFloor(Own, lead) = 0 PROVE SameSuitCompletes(sel, f, n) <=> Fits(next)
  <2>1. exact < 4 \/ \A r \in TractorRuns(Own, SpaceTrump) : ~(Cardinality(r) >= 3)
    BY <1>0, <1>5 DEF BreaksUnseen
  <2>2. Fits(next) <=> 0 <= Left(next) /\ Left(next) <= CardsIn(Ahead(next))
    BY <1>1, <1>5, <2>1, FitsFree
  <2>3. 0 <= Left(next)
    <3> HIDE DEF w
    <3>1. w <= exact
      BY DEF w
    <3> QED
      BY <1>0, <1>2, <3>1
  <2> QED
    BY <1>4, <1>5, <2>2, <2>3 DEF SameSuitCompletes
<1>6. Fits(next) => Left(next) <= CardsIn(Ahead(next))
  BY <1>1, FitsHasCards
<1>7. ASSUME PairFloor(Own, lead) # 0, HasTractor PROVE SameSuitCompletes(sel, f, n) <=> Fits(next)
  <2>1. PairsOfAPlan(sel, f, n) <=> Fits(next)
    BY <1>1, DevicePlans, PlanSplits
  <2> QED
    BY <1>4, <1>6, <1>7, <2>1 DEF SameSuitCompletes
<1>8. ASSUME PairFloor(Own, lead) # 0, ~HasTractor PROVE SameSuitCompletes(sel, f, n) <=> Fits(next)
  <2>1. PairsWithoutTractor(sel, f, n) <=> Fits(next)
    BY <1>1, <1>8, DevicePairs, FitsByPairs
  <2> QED
    BY <1>4, <1>6, <1>8, <2>1 DEF SameSuitCompletes
<1> QED
  BY <1>5, <1>7, <1>8

LEMMA OffSuitWidth ==
  ASSUME FollowBase, NEW m, Selection(m)
  PROVE  /\ Width(m, SameSuit) = Weight(DOMAIN m \cap SameSuit, m)
         /\ Width(m, OffSuit) = Weight(DOMAIN m \cap OffSuit, m)
         /\ Weight(DOMAIN m \cap SameSuit, m) \in Nat /\ Weight(DOMAIN m \cap OffSuit, m) \in Nat
         /\ Weight(DOMAIN m, m) = Weight(DOMAIN m \cap SameSuit, m) + Weight(DOMAIN m \cap OffSuit, m)
<1>0. Base
  BY FollowKnown
<1>1. /\ Width(m, SameSuit) = Weight(DOMAIN m \cap SameSuit, m)
      /\ Weight(DOMAIN m \cap SameSuit, m) \in Nat /\ IsFiniteSet(DOMAIN m)
  BY <1>0, WidthIs
<1>2. /\ Width(m, OffSuit) = Weight(DOMAIN m \cap OffSuit, m)
      /\ Weight(DOMAIN m \cap OffSuit, m) \in Nat
  BY <1>0, WidthIs
<1> DEFINE a == DOMAIN m \cap SameSuit
           b == DOMAIN m \cap OffSuit
<1>3. IsFiniteSet(a) /\ IsFiniteSet(b) /\ a \cap b = {} /\ DOMAIN m = a \cup b
  BY <1>1, FS_Subset DEF OffSuit, Selection
<1> HIDE DEF a, b
<1>4. Weight(a \cup b, m) = Weight(a, m) + Weight(b, m)
  BY <1>3, WeightUnion
<1> QED
  BY <1>1, <1>2, <1>3, <1>4 DEF a, b

LEMMA SelectableInSuit ==
  ASSUME FollowBase, ~BreaksUnseen, Required = exact,
         NEW sel, NEW f, NEW n, NEW next, Chosen(sel, f, n, next)
  PROVE  Selectable(sel, f, n) <=> Continues(next)
<1> DEFINE w == Weight(DOMAIN next, next)
           s == Weight(DOMAIN next \cap SameSuit, next)
           o == Weight(DOMAIN next \cap OffSuit, next)
<1>0. Base /\ exact \in Nat /\ query = "follow_play"
  BY FollowKnown
<1>12. Selection(next) /\ n <= Count(f) /\ DOMAIN next = DOMAIN sel \cup {f}
  BY <1>0, ChosenSelection
<1>1. Selection(next) /\ n <= Count(f) /\ f \in DOMAIN next
  BY <1>12
<1>2. w = WidthOf(sel) + n
  BY <1>0, ChosenWidth
<1>3. /\ Width(next, SameSuit) = s /\ Width(next, OffSuit) = o /\ s \in Nat /\ o \in Nat /\ w = s + o
  BY <1>1, OffSuitWidth
<1>4. s = w <=> DOMAIN next \subseteq SameSuit
  BY <1>0, <1>1, AllInside
<1>5. next = Extended(sel, f, n) /\ After(sel, f)
  BY DEF Chosen
<1>6. FollowCompletes(sel, f, n) <=> s <= exact /\ o <= exact - exact /\ f \in SameSuit /\ SameSuitCompletes(sel, f, n)
  BY <1>3, <1>5 DEF FollowCompletes
<1>7. Selectable(sel, f, n) <=> w <= exact /\ FollowCompletes(sel, f, n)
  BY <1>0, <1>1, <1>2, <1>5 DEF Selectable, MaxSelect
<1>8. Selectable(sel, f, n) <=> w <= exact /\ DOMAIN next \subseteq SameSuit /\ SameSuitCompletes(sel, f, n)
  <2> HIDE DEF w, s, o
  <2>1. o <= exact - exact <=> s = w
    BY <1>0, <1>3
  <2>2. w <= exact => s <= exact
    BY <1>0, <1>3
  <2> QED
    BY <1>1, <1>4, <1>6, <1>7, <2>1, <2>2
<1>9. DOMAIN next \subseteq SameSuit /\ w <= exact => (SameSuitCompletes(sel, f, n) <=> Fits(next))
  BY DeviceInSuit
<1>10. Fits(next) => w <= exact
  BY <1>1, FitsWithin
<1>11. Continues(next) <=> DOMAIN next \subseteq SameSuit /\ Fits(next)
  BY <1>1, FollowContinues
<1> QED
  BY <1>8, <1>9, <1>10, <1>11

---------------------------------------------------------------------------
(* Follows that exhaust the suit                                           *)

\* All pairs of the hand are a valid choice of pairs.
LEMMA AllPairsValid ==
  ASSUME FollowBase
  PROVE  ValidPairs(Own, lead, PairFaces(Own), SpaceTrump)
<1> DEFINE pairs == PairFaces(Own)
           led == Cardinality(PairFaces(lead))
<1>0. IsFiniteSet(pairs) /\ Cardinality(pairs) \in Nat /\ led \in Nat
  BY FollowKnown, OwnKnown
<1>1. PICK d : d \in Decompositions(Own, SpaceTrump)
  BY SomeDecomposition
<1>2. \A l : LevelKept(d, pairs, led, l)
  <2> TAKE l
  <2>1. {f \in pairs : LevelOf(d, f) = l} \subseteq pairs
    OBVIOUS
  <2>2. AtLevel(d, pairs, l) \in Nat
    BY <1>0, <2>1, FS_Subset, FS_CardinalityType DEF AtLevel
  <2> QED
    BY <2>2 DEF LevelKept
<1>3. PriorityKept(Own, d, pairs, led, SpaceTrump)
  BY <1>2, PriorityByLevel
<1>4. Unbroken(Own, d, pairs, SpaceTrump)
  <2> SUFFICES ASSUME NEW r \in TractorRuns(Own, SpaceTrump), NEW used,
                      used = {t \in r : d[t] \in pairs}
               PROVE  used = Min(used)..Max(used)
    BY DEF Unbroken
  <2>1. PICK a, b \in Int : /\ a < b /\ r = a..b
         /\ \A t \in a..b : \E f \in PairFaces(Own) : Tier(f, SpaceTrump) = t
    BY RunsOfOwn
  <2>2. used = a..b
    BY <1>1, <2>1 DEF Decompositions
  <2>3. Min(a..b) = a /\ Max(a..b) = b
    BY <2>1, IntervalEnds
  <2> QED
    BY <2>2, <2>3
<1>5. Cardinality(pairs) >= PairFloor(Own, lead)
  BY <1>0 DEF PairFloor
<1> QED
  BY <1>1, <1>3, <1>4, <1>5 DEF ValidPairs

\* Every card of the suit is in the selection.
Full(m) == \A f \in SameSuit : f \in DOMAIN m /\ m[f] = Count(f)

LEMMA FullWeight ==
  ASSUME FollowBase, NEW m, Selection(m)
  PROVE  /\ Cardinality(Own) = CardsIn(SameSuit) /\ Cardinality(Own) \in Nat
         /\ Weight(DOMAIN m \cap SameSuit, m) <= Cardinality(Own)
         /\ Weight(DOMAIN m \cap SameSuit, m) = Cardinality(Own) <=> Full(m)
<1> DEFINE A == DOMAIN m \cap SameSuit
           B == Twos(A, m)
           pairs == SameSuit \cap Twice
<1>0. CardsKnown /\ IsFiniteSet(SameSuit) /\ SameSuit \subseteq Offered /\ PairFaces(Own) = pairs
      /\ IsFiniteSet(pairs)
  BY FollowKnown
<1>1. Cardinality(Own) = Cardinality(SameSuit) + Cardinality(pairs)
  <2>1. Cardinality(Own) = Cardinality(SameSuit) + Cardinality(PairFaces(Own))
    BY <1>0, OwnCounts
  <2> QED
    BY <1>0, <2>1
<1>2. A \in SUBSET SameSuit /\ B \in SUBSET pairs
  <2>1. \A f \in B : f \in SameSuit /\ f \in Offered /\ Count(f) = 2
    <3> TAKE f \in B
    <3>1. f \in A /\ m[f] = 2
      BY DEF Twos
    <3>2. Count(f) \in {1, 2} /\ m[f] <= Count(f) /\ f \in Offered
      BY <1>0, <3>1, OfferedCounts DEF Selection
    <3> QED
      BY <3>1, <3>2
  <2> QED
    BY <2>1 DEF Twice
<1>3. /\ IsFiniteSet(A) /\ Cardinality(A) <= Cardinality(SameSuit)
      /\ Cardinality(A) = Cardinality(SameSuit) => A = SameSuit
      /\ IsFiniteSet(B) /\ Cardinality(B) <= Cardinality(pairs)
      /\ Cardinality(B) = Cardinality(pairs) => B = pairs
  <2>1. IsFiniteSet(A) /\ Cardinality(A) <= Cardinality(SameSuit)
        /\ (Cardinality(A) = Cardinality(SameSuit) => A = SameSuit)
    BY <1>0, <1>2, FS_Subset
  <2>2. IsFiniteSet(B) /\ Cardinality(B) <= Cardinality(pairs)
        /\ (Cardinality(B) = Cardinality(pairs) => B = pairs)
    BY <1>0, <1>2, FS_Subset
  <2> QED
    BY <2>1, <2>2
<1>4. /\ Cardinality(A) \in Nat /\ Cardinality(B) \in Nat
      /\ Cardinality(SameSuit) \in Nat /\ Cardinality(pairs) \in Nat
  BY <1>0, <1>3, FS_CardinalityType
<1>5. Weight(A, m) = Cardinality(A) + Cardinality(B)
  BY DEF Weight
<1>6. Full(m) <=> A = SameSuit /\ B = pairs
  <2>1. ASSUME Full(m) PROVE A = SameSuit /\ B = pairs
    <3>1. A = SameSuit
      BY <2>1 DEF Full
    <3>2. \A f \in pairs : f \in B
      BY <2>1 DEF Full, Twos, Twice
    <3> QED
      BY <1>2, <3>1, <3>2
  <2>2. ASSUME A = SameSuit, B = pairs PROVE Full(m)
    <3> SUFFICES ASSUME NEW f \in SameSuit PROVE f \in DOMAIN m /\ m[f] = Count(f)
      BY DEF Full
    <3>1. f \in A /\ f \in DOMAIN m /\ f \in Offered
      BY <1>0, <2>2
    <3>2. m[f] \in {1, 2} /\ m[f] <= Count(f) /\ Count(f) \in {1, 2}
      BY <1>0, <3>1, OfferedCounts DEF Selection
    <3>3. Count(f) = 2 => m[f] = 2
      <4>1. Count(f) = 2 => f \in pairs
        BY <3>1 DEF Twice
      <4>2. f \in B => m[f] = 2
        BY DEF Twos
      <4> QED
        BY <2>2, <4>1, <4>2
    <3> QED
      BY <3>1, <3>2, <3>3
  <2> QED
    BY <2>1, <2>2
<1>7. CardsIn(SameSuit) = Cardinality(SameSuit) + Cardinality(pairs)
  BY DEF CardsIn
<1>8. Weight(A, m) <= Cardinality(Own) /\ (Weight(A, m) = Cardinality(Own) <=> Full(m))
  <2> HIDE DEF A, B, pairs
  <2> QED
    BY <1>1, <1>3, <1>4, <1>5, <1>6
<1> QED
  BY <1>1, <1>4, <1>7, <1>8

LEMMA MovesExhausting ==
  ASSUME FollowBase, Required # exact, NEW m
  PROVE  /\ m \in Moves <=> Selection(m) /\ Full(m) /\ Weight(DOMAIN m, m) = exact
         /\ Required = Cardinality(Own) /\ Required < exact
<1>0. LeadKnown /\ exact \in Nat /\ CardsKnown /\ Target = exact
  BY FollowKnown
<1>1. Required = Cardinality(Own) /\ Required < exact
  BY <1>0 DEF Required, RequiredOfSuit, Own, Target
<1>2. m \in Moves <=> Selection(m) /\ FollowCounts(m)
  BY <1>0, MovesFollow
<1>3. ASSUME Selection(m)
      PROVE  FollowCounts(m) <=> Full(m) /\ Weight(DOMAIN m, m) = exact
  <2>1. Weight(DOMAIN m \cap SameSuit, m) = Cardinality(Own) <=> Full(m)
    BY <1>3, FullWeight
  <2>2. ASSUME Full(m)
        PROVE  ValidPairs(Own, lead, Twos(DOMAIN m \cap SameSuit, m), SpaceTrump)
    <3>1. DOMAIN m \cap SameSuit = SameSuit
      BY <2>2 DEF Full
    <3>2. PairFaces(Own) = {f \in SameSuit : Count(f) = 2}
      BY <1>0, OwnCounts
    <3>3. Twos(SameSuit, m) = PairFaces(Own)
      BY <2>2, <3>2 DEF Full, Twos
    <3> QED
      BY <3>1, <3>3, AllPairsValid
  <2> QED
    BY <1>1, <2>1, <2>2 DEF FollowCounts
<1> QED
  BY <1>1, <1>2, <1>3

\* No card of the suit is passed over, and the other suits can fill the rest.
NoneSkipped(next) ==
  \A f \in SameSuit : ~After(next, f) => f \in DOMAIN next /\ next[f] = Count(f)
OffAhead(next) == OffSuit \cap Open(next)
OffLeft(next) == exact - Required - Weight(DOMAIN next \cap OffSuit, next)

LEMMA ExhaustingContinues ==
  ASSUME FollowBase, Required # exact, NEW next, Selection(next)
  PROVE  Continues(next) <=> /\ NoneSkipped(next)
                             /\ 0 <= OffLeft(next) /\ OffLeft(next) <= CardsIn(OffAhead(next))
<1> DEFINE o == Weight(DOMAIN next \cap OffSuit, next)
           S == OffAhead(next)
<1>0. /\ Base /\ CardsKnown /\ exact \in Nat /\ Required \in Nat /\ SameSuit \subseteq Offered
      /\ Required = Cardinality(Own)
  BY FollowKnown, MovesExhausting
<1>1. /\ Open(next) \cap DOMAIN next = {} /\ IsFiniteSet(Open(next)) /\ Open(next) \subseteq Offered
      /\ IsFiniteSet(S)
  <2>1. Open(next) \cap DOMAIN next = {} /\ IsFiniteSet(Open(next)) /\ Open(next) \subseteq Offered
    BY <1>0, OpenFaces
  <2>2. S \subseteq Open(next)
    BY DEF OffAhead
  <2> QED
    BY <2>1, <2>2, FS_Subset
<1>2. o \in Nat /\ OffLeft(next) = exact - Required - o /\ OffLeft(next) \in Int
  <2>1. o \in Nat
    BY OffSuitWidth
  <2> QED
    BY <1>0, <2>1 DEF OffLeft
<1>3. ASSUME NEW m \in Moves, Completion(next, m)
      PROVE  /\ NoneSkipped(next)
             /\ \E T \in SUBSET S : \E P \in SUBSET (T \cap Twice) : Cardinality(T) + Cardinality(P) = OffLeft(next)
  <2>1. Selection(m) /\ Full(m) /\ Weight(DOMAIN m, m) = exact
    BY MovesExhausting
  <2>2. PICK T : T = DOMAIN m \ DOMAIN next
    OBVIOUS
  <2>3. PICK P : P = Twos(T, m)
    OBVIOUS
  <2>4. Split(next, m, T, P)
    BY <1>3, <2>1, <2>2, <2>3 DEF Split
  <2>5. T \in SUBSET Open(next) /\ P \in SUBSET (T \cap Twice)
    BY <1>0, <2>4, Splits
  <2>6. Held(m, OffSuit) = Held(next, OffSuit) + Adds(T, P, OffSuit)
    BY <1>0, <2>4, SplitsWeight
  <2>7. /\ Weight(DOMAIN m \cap SameSuit, m) = Required
        /\ Weight(DOMAIN m \cap OffSuit, m) \in Nat
        /\ Weight(DOMAIN m, m) = Weight(DOMAIN m \cap SameSuit, m) + Weight(DOMAIN m \cap OffSuit, m)
    <3>1. Weight(DOMAIN m \cap SameSuit, m) = Cardinality(Own)
      BY <2>1, FullWeight
    <3> QED
      BY <1>0, <2>1, <3>1, OffSuitWidth
  <2>8. /\ T \cap OffSuit \in SUBSET S
        /\ P \cap OffSuit \in SUBSET ((T \cap OffSuit) \cap Twice)
    BY <2>5 DEF OffAhead
  <2>9. Cardinality(T \cap OffSuit) \in Nat /\ Cardinality(P \cap OffSuit) \in Nat
    <3>1. IsFiniteSet(T \cap OffSuit)
      BY <1>1, <2>8, FS_Subset
    <3>2. IsFiniteSet(P \cap OffSuit)
      BY <2>8, <3>1, FS_Subset
    <3> QED
      BY <3>1, <3>2, FS_CardinalityType
  <2>10. Cardinality(T \cap OffSuit) + Cardinality(P \cap OffSuit) = OffLeft(next)
    <3>1. Weight(DOMAIN m \cap OffSuit, m) = o + (Cardinality(T \cap OffSuit) + Cardinality(P \cap OffSuit))
      BY <2>6 DEF Held, Adds
    <3> HIDE DEF o
    <3> QED
      BY <1>0, <1>2, <2>1, <2>7, <2>9, <3>1
  <2>11. NoneSkipped(next)
    <3> SUFFICES ASSUME NEW f \in SameSuit, ~After(next, f)
                 PROVE  f \in DOMAIN next /\ next[f] = Count(f)
      BY DEF NoneSkipped
    <3>1. f \in DOMAIN m /\ m[f] = Count(f)
      BY <2>1 DEF Full
    <3> QED
      BY <1>3, <3>1 DEF Completion
  <2> HIDE DEF S
  <2> QED
    BY <2>8, <2>10, <2>11
<1>4. ASSUME NoneSkipped(next), NEW T0 \in SUBSET S, NEW P0 \in SUBSET (T0 \cap Twice),
             Cardinality(T0) + Cardinality(P0) = OffLeft(next)
      PROVE  \E m \in Moves : Completion(next, m)
  <2>1. PICK T : T = T0 \cup Ahead(next)
    OBVIOUS
  <2>2. PICK P : P = P0 \cup (Ahead(next) \cap Twice)
    OBVIOUS
  <2>3. PICK m : m = Joined(next, T, P)
    OBVIOUS
  <2>4. T \in SUBSET Open(next) /\ P \in SUBSET (T \cap Twice)
    BY <2>1, <2>2 DEF OffAhead, Ahead
  <2>5. Split(next, m, T, P) /\ DOMAIN m = DOMAIN next \cup T
    BY <1>0, <2>3, <2>4, Joins
  <2>6. Selection(m) /\ Completion(next, m) /\ P = Twos(T, m)
    BY <2>5 DEF Split
  <2>7. T \cap OffSuit = T0 /\ P \cap OffSuit = P0
    BY <2>1, <2>2 DEF OffAhead, Ahead, OffSuit
  <2>8. Full(m)
    <3> SUFFICES ASSUME NEW f \in SameSuit PROVE f \in DOMAIN m /\ m[f] = Count(f)
      BY DEF Full
    <3>0. f \in Offered /\ Count(f) \in {1, 2}
      BY <1>0, OfferedCounts
    <3>1. CASE f \in DOMAIN next
      <4>1. ~After(next, f)
        BY <1>1, <3>0, <3>1 DEF Open
      <4>2. next[f] = Count(f)
        BY <1>4, <4>1 DEF NoneSkipped
      <4> QED
        BY <2>6, <3>1, <4>2 DEF Completion
    <3>2. CASE f \notin DOMAIN next
      <4>1. f \in Ahead(next)
        BY <1>4, <3>0, <3>2 DEF NoneSkipped, Ahead, Open
      <4>2. f \in T /\ f \in DOMAIN m
        BY <2>1, <2>5, <4>1
      <4>3. f \in P <=> Count(f) = 2
        <5>1. f \notin P0
          BY DEF OffAhead, OffSuit
        <5> QED
          BY <2>2, <3>0, <4>1, <5>1 DEF Twice
      <4>4. f \in P <=> m[f] = 2
        BY <2>6, <4>2 DEF Twos
      <4>5. m[f] \in {1, 2}
        BY <2>6, <4>2 DEF Selection
      <4> QED
        BY <3>0, <4>2, <4>3, <4>4, <4>5
    <3> QED
      BY <3>1, <3>2
  <2>9. Held(m, OffSuit) = Held(next, OffSuit) + Adds(T, P, OffSuit)
    BY <1>0, <2>5, SplitsWeight
  <2>10. Weight(DOMAIN m \cap OffSuit, m) = exact - Required
    <3>1. Weight(DOMAIN m \cap OffSuit, m) = o + (Cardinality(T0) + Cardinality(P0))
      BY <2>7, <2>9 DEF Held, Adds
    <3> HIDE DEF o
    <3> QED
      BY <1>0, <1>2, <1>4, <3>1
  <2>11. Weight(DOMAIN m \cap SameSuit, m) = Cardinality(Own)
    BY <2>6, <2>8, FullWeight
  <2>12. Weight(DOMAIN m, m) = exact
    <3>1. Weight(DOMAIN m, m) = Weight(DOMAIN m \cap SameSuit, m) + Weight(DOMAIN m \cap OffSuit, m)
      BY <2>6, OffSuitWidth
    <3> QED
      BY <1>0, <2>10, <2>11, <3>1
  <2>13. m \in Moves
    BY <2>6, <2>8, <2>12, MovesExhausting
  <2> QED
    BY <2>6, <2>13
<1>5. Continues(next) <=>
        /\ NoneSkipped(next)
        /\ \E T \in SUBSET S : \E P \in SUBSET (T \cap Twice) : Cardinality(T) + Cardinality(P) = OffLeft(next)
  <2> HIDE DEF S
  <2> QED
    BY <1>3, <1>4, ContinuesIs
<1> HIDE DEF S
<1>6. (\E T \in SUBSET S : \E P \in SUBSET (T \cap Twice) : Cardinality(T) + Cardinality(P) = OffLeft(next))
        <=> 0 <= OffLeft(next) /\ OffLeft(next) <= Cardinality(S) + Cardinality(S \cap Twice)
  BY <1>1, <1>2, Fills
<1> QED
  BY <1>5, <1>6 DEF S, CardsIn

---------------------------------------------------------------------------
(* Exhausting the suit: the device and can_complete                     *)

LEMMA CardsOffAhead ==
  ASSUME FollowBase, NEW next, Selection(next)
  PROVE  OffAhead(next) \subseteq Offered /\ CardsIn(OffAhead(next)) \in Nat
         /\ MapThenSumSet(Count, OffAhead(next)) = CardsIn(OffAhead(next))
<1>1. CardsKnown
  BY FollowKnown
<1>2. OffAhead(next) \subseteq Offered
  BY DEF OffAhead, Open
<1>3. CardsIn(OffAhead(next)) \in Nat
  BY <1>1, <1>2, CardsInType
<1> DEFINE S == OffAhead(next)
<1>4. S \in SUBSET Offered
  BY <1>2
<1> HIDE DEF S
<1>5. MapThenSumSet(Count, S) = CardsIn(S)
  BY <1>1, <1>4, CardsOfFaces DEF CardsIn
<1> QED
  BY <1>2, <1>3, <1>5 DEF S

LEMMA DeviceExhausting ==
  ASSUME FollowBase, Required # exact, NEW sel, NEW f, NEW n, NEW next, Chosen(sel, f, n, next)
  PROVE  ExhaustingCompletes(sel, f, n)
           <=> /\ NoneSkipped(next)
               /\ 0 <= OffLeft(next) /\ OffLeft(next) <= CardsIn(OffAhead(next))
<1>0. Base /\ exact \in Nat /\ Required \in Nat /\ SameSuit \subseteq Offered
  BY FollowKnown
<1>1. Selection(next)
  BY <1>0, ChosenSelection
<1>2. next = Extended(sel, f, n)
  BY DEF Chosen
<1>3. \A g \in Offered : After(next, g) <=> FaceKey(g) > FaceKey(f)
  BY <1>0, ChosenOpen
<1>4. SameSuit \ Later(SameSuit, f) = {g \in SameSuit : ~After(next, g)}
  BY <1>0, <1>3 DEF Later
<1>5. CardsLater(OffSuit, sel, f) = CardsIn(OffSuit \cap Open(next))
  <2>1. OffSuit \subseteq Offered
    BY DEF OffSuit
  <2> QED
    BY <1>0, <2>1, LaterCount
<1>6. Width(next, OffSuit) = Weight(DOMAIN next \cap OffSuit, next)
      /\ Weight(DOMAIN next \cap OffSuit, next) \in Nat
  BY <1>1, OffSuitWidth
<1>7. CardsIn(OffAhead(next)) \in Nat
  BY <1>1, CardsOffAhead
<1>8. ExhaustingCompletes(sel, f, n) <=>
        /\ \A g \in SameSuit \ Later(SameSuit, f) : g \in DOMAIN next /\ next[g] = Count(g)
        /\ OffLeft(next) \in 0..CardsIn(OffAhead(next))
  BY <1>2, <1>5, <1>6 DEF ExhaustingCompletes, CardsLater, OffLeft, OffAhead
<1>9. OffLeft(next) \in Int
  BY <1>0, <1>6 DEF OffLeft
<1> QED
  BY <1>4, <1>7, <1>8, <1>9 DEF NoneSkipped

LEMMA HostExhausting ==
  ASSUME FollowBase, Required # exact, NEW next, Selection(next)
  PROVE  CompletesExhausting(next)
           <=> NoneSkipped(next) /\ OffLeft(next) <= CardsIn(OffAhead(next))
<1> DEFINE off == FacesOf(hand \ Own)
           passed(f) == \E g \in DOMAIN next : FaceKey(f) <= FaceKey(g)
<1>0. /\ Base /\ exact \in Nat /\ Required \in Nat /\ SameSuit \subseteq Offered /\ Target = exact
      /\ CardsKnown /\ FacesOf(Own) = SameSuit
  BY FollowKnown, OwnCounts
<1>1. off = OffSuit
  <2>1. \A c : EffectiveSuit(c, SpaceTrump) = FaceSuit(c.face)
    BY DEF EffectiveSuit, FaceSuit
  <2>2. \A c \in hand : c \in hand \ Own <=> FaceSuit(c.face) # Suit
    BY <2>1 DEF Own, OfSuit
  <2> QED
    BY <2>2 DEF FacesOf, OffSuit, SameSuit, Offered
<1>2. \A f \in Offered : passed(f) <=> ~After(next, f)
  <2>1. \A f \in Offered : FaceKey(f) \in Nat
    BY <1>0, OfferedCounts, FaceKeyType
  <2> TAKE f \in Offered
  <2>2. \A g \in DOMAIN next : FaceKey(f) <= FaceKey(g) <=> ~(FaceKey(f) > FaceKey(g))
    BY <2>1 DEF Selection
  <2> QED
    BY <2>2 DEF After
<1>3. {f \in off : ~passed(f)} = OffAhead(next)
  BY <1>1, <1>2 DEF OffAhead, OffSuit, Open
<1>4. /\ CardsIn(OffAhead(next)) \in Nat
      /\ MapThenSumSet(Count, OffAhead(next)) = CardsIn(OffAhead(next))
  BY CardsOffAhead
<1>5. Width(next, OffSuit) = Weight(DOMAIN next \cap OffSuit, next)
      /\ Weight(DOMAIN next \cap OffSuit, next) \in Nat
  BY OffSuitWidth
<1>6. (\A f \in FacesOf(Own) : passed(f) => f \in DOMAIN next /\ next[f] = Count(f)) <=> NoneSkipped(next)
  BY <1>0, <1>2 DEF NoneSkipped
<1>7. CompletesExhausting(next) <=>
        /\ \A f \in FacesOf(Own) : passed(f) => f \in DOMAIN next /\ next[f] = Count(f)
        /\ MapThenSumSet(Count, {f \in off : ~passed(f)}) >= Target - Required - Width(next, off)
  BY DEF CompletesExhausting
<1> HIDE DEF off, passed
<1>8. MapThenSumSet(Count, {f \in off : ~passed(f)}) = CardsIn(OffAhead(next))
  BY <1>3, <1>4
<1>9. Target - Required - Width(next, off) = OffLeft(next) /\ OffLeft(next) \in Int
  BY <1>0, <1>1, <1>5 DEF OffLeft
<1>10. CardsIn(OffAhead(next)) >= OffLeft(next) <=> OffLeft(next) <= CardsIn(OffAhead(next))
  BY <1>4, <1>9
<1> QED
  BY <1>6, <1>7, <1>8, <1>9, <1>10

LEMMA ExhaustingWidths ==
  ASSUME FollowBase, Required # exact, NEW next, Selection(next)
  PROVE  /\ Weight(DOMAIN next \cap SameSuit, next) <= Required
         /\ Weight(DOMAIN next \cap SameSuit, next) \in Nat
         /\ Weight(DOMAIN next \cap OffSuit, next) \in Nat
         /\ Weight(DOMAIN next, next)
              = Weight(DOMAIN next \cap SameSuit, next) + Weight(DOMAIN next \cap OffSuit, next)
         /\ 0 <= OffLeft(next) <=> Weight(DOMAIN next \cap OffSuit, next) <= exact - Required
<1>0. exact \in Nat /\ Required \in Nat /\ Required = Cardinality(Own)
  BY FollowKnown, MovesExhausting
<1>1. Weight(DOMAIN next \cap SameSuit, next) <= Cardinality(Own)
  BY FullWeight
<1>2. /\ Weight(DOMAIN next \cap SameSuit, next) \in Nat
      /\ Weight(DOMAIN next \cap OffSuit, next) \in Nat
      /\ Weight(DOMAIN next, next)
           = Weight(DOMAIN next \cap SameSuit, next) + Weight(DOMAIN next \cap OffSuit, next)
  BY OffSuitWidth
<1>3. 0 <= OffLeft(next) <=> Weight(DOMAIN next \cap OffSuit, next) <= exact - Required
  BY <1>0, <1>2 DEF OffLeft
<1> QED
  BY <1>0, <1>1, <1>2, <1>3

LEMMA SelectableExhausting ==
  ASSUME FollowBase, Required # exact, NEW sel, NEW f, NEW n, NEW next, Chosen(sel, f, n, next)
  PROVE  Selectable(sel, f, n) <=> Continues(next)
<1> DEFINE w == Weight(DOMAIN next, next)
           s == Weight(DOMAIN next \cap SameSuit, next)
           o == Weight(DOMAIN next \cap OffSuit, next)
<1>0. Base /\ exact \in Nat /\ Required \in Nat /\ query = "follow_play"
  BY FollowKnown
<1>1. Selection(next) /\ n <= Count(f)
  BY <1>0, ChosenSelection
<1>2. w = WidthOf(sel) + n
  BY <1>0, ChosenWidth
<1>3. Width(next, SameSuit) = s /\ Width(next, OffSuit) = o
  BY <1>1, OffSuitWidth
<1>4. s <= Required /\ s \in Nat /\ o \in Nat /\ w = s + o /\ (0 <= OffLeft(next) <=> o <= exact - Required)
  BY <1>1, ExhaustingWidths
<1>5. next = Extended(sel, f, n) /\ After(sel, f)
  BY DEF Chosen
<1>6. Selectable(sel, f, n) <=>
        w <= exact /\ s <= Required /\ o <= exact - Required /\ ExhaustingCompletes(sel, f, n)
  <2>1. FollowCompletes(sel, f, n) <=> s <= Required /\ o <= exact - Required /\ ExhaustingCompletes(sel, f, n)
    BY <1>3, <1>5 DEF FollowCompletes
  <2> QED
    BY <1>0, <1>1, <1>2, <1>5, <2>1 DEF Selectable, MaxSelect
<1>7. o <= exact - Required => w <= exact
  <2> HIDE DEF w, s, o
  <2> QED
    BY <1>0, <1>4
<1>8. ExhaustingCompletes(sel, f, n)
        <=> /\ NoneSkipped(next)
            /\ 0 <= OffLeft(next) /\ OffLeft(next) <= CardsIn(OffAhead(next))
  BY DeviceExhausting
<1>9. Continues(next) <=> /\ NoneSkipped(next)
                          /\ 0 <= OffLeft(next) /\ OffLeft(next) <= CardsIn(OffAhead(next))
  BY <1>1, ExhaustingContinues
<1> QED
  BY <1>4, <1>6, <1>7, <1>8, <1>9

LEMMA AllowedIsCanComplete ==
  ASSUME FollowBase, NEW sel, NEW f, NEW n, NEW next, Chosen(sel, f, n, next), WidthOf(sel) < exact
  PROVE  Allowed(sel, f, n) <=> CanComplete(next)
<1>0. Base /\ Target = exact
  BY FollowKnown
<1>1. n <= Count(f)
  BY <1>0, ChosenSelection
<1>2. Width(sel, SpaceFaces) < Target
  BY <1>0 DEF WidthOf
<1>3. next = [g \in DOMAIN sel \cup {f} |-> IF g = f THEN n ELSE sel[g]] /\ After(sel, f)
  BY DEF Chosen, Extended
<1> QED
  BY <1>1, <1>2, <1>3 DEF Allowed

LEMMA AllowedExhausting ==
  ASSUME FollowBase, Required # exact, NEW sel, NEW f, NEW n, NEW next, Chosen(sel, f, n, next),
         WidthOf(sel) < exact
  PROVE  Allowed(sel, f, n) <=> Continues(next)
<1> DEFINE w == Weight(DOMAIN next, next)
           s == Weight(DOMAIN next \cap SameSuit, next)
           o == Weight(DOMAIN next \cap OffSuit, next)
<1>0. Base /\ exact \in Nat /\ Required \in Nat
  BY FollowKnown
<1>1. Selection(next)
  BY <1>0, ChosenSelection
<1>2. s <= Required /\ s \in Nat /\ o \in Nat /\ w = s + o /\ (0 <= OffLeft(next) <=> o <= exact - Required)
  BY <1>1, ExhaustingWidths
<1>3. CanComplete(next) <=> /\ w <= exact /\ s <= Required /\ w - s <= exact - Required
                            /\ IF Required = exact THEN CompletesInSuit(next) ELSE CompletesExhausting(next)
  BY <1>1, CanCompleteIs
<1>4. CompletesExhausting(next) <=> NoneSkipped(next) /\ OffLeft(next) <= CardsIn(OffAhead(next))
  BY <1>1, HostExhausting
<1>5. Continues(next) <=> /\ NoneSkipped(next)
                          /\ 0 <= OffLeft(next) /\ OffLeft(next) <= CardsIn(OffAhead(next))
  BY <1>1, ExhaustingContinues
<1>6. (w <= exact /\ s <= Required /\ w - s <= exact - Required) <=> 0 <= OffLeft(next)
  <2> HIDE DEF w, s, o
  <2> QED
    BY <1>0, <1>2
<1>7. Allowed(sel, f, n) <=> CanComplete(next)
  BY AllowedIsCanComplete
<1> QED
  BY <1>3, <1>4, <1>5, <1>6, <1>7

\* The two analyses of a follow, both exact.
LEMMA FollowSelectable ==
  ASSUME FollowBase, ~BreaksUnseen, NEW sel, NEW f, NEW n, NEW next, Chosen(sel, f, n, next)
  PROVE  Selectable(sel, f, n) <=> Continues(next)
BY SelectableInSuit, SelectableExhausting

LEMMA FollowAllowed ==
  ASSUME FollowBase, NEW sel, NEW f, NEW n, NEW next, Chosen(sel, f, n, next), WidthOf(sel) < exact
  PROVE  Allowed(sel, f, n) <=> Continues(next)
BY AllowedInSuit, AllowedExhausting

---------------------------------------------------------------------------
(* Bids and stirs: complete traces of one face                             *)

OneFace(cards, f, n) ==
  cards \in SUBSET hand /\ FacesOf(cards) = {f} /\ Cardinality(cards) = n /\ n \in {1, 2}
Revealing == query \in {"bid", "stir"}
\* A choice of bid_card_candidates that the kind of decision offers.
Revealed(f, n) ==
  /\ [face |-> f, count |-> n] \in Reveals
  /\ (query = "bid" /\ ~current.own) \/ (query = "stir" /\ n = 2)

LEMMA OneFaceIs ==
  ASSUME CardsKnown, NEW f, NEW n, NEW cards, OneFace(cards, f, n)
  PROVE  /\ cards # {} /\ (\A c \in cards : c.face = f) /\ (CHOOSE c \in cards : TRUE).face = f
         /\ f \in Offered /\ n <= Count(f) /\ n \in {1, 2} /\ cards \in SUBSET hand
         /\ Cardinality(cards) = n
<1>1. \A c \in cards : c.face = f
  BY DEF OneFace, FacesOf
<1>2. cards # {}
  BY DEF OneFace, FacesOf
<1>3. (CHOOSE c \in cards : TRUE).face = f
  <2>1. (CHOOSE c \in cards : TRUE) \in cards
    BY <1>2
  <2> QED
    BY <1>1, <2>1
<1>4. f \in Offered
  BY DEF OneFace, FacesOf, Offered
<1>5. n <= Count(f)
  <2>1. cards \in SUBSET Copies(hand, f) /\ IsFiniteSet(Copies(hand, f))
    BY <1>1, CopiesSize DEF OneFace, Copies, CardsKnown
  <2> QED
    BY <2>1, FS_Subset DEF OneFace, Count
<1> QED
  BY <1>1, <1>2, <1>3, <1>4, <1>5 DEF OneFace

LEMMA FirstCopiesAre ==
  ASSUME CardsKnown, NEW f \in Offered, NEW n \in {1, 2}, n <= Count(f)
  PROVE  OneFace(FirstCopies(f, n), f, n)
<1>1. FirstCopies(f, n) \in SUBSET hand /\ \A c \in FirstCopies(f, n) : c.face = f
  BY DEF FirstCopies, Copies
<1>2. Cardinality(FirstCopies(f, n)) = n /\ FirstCopies(f, n) # {}
  <2>1. CASE n = 2
    <3>1. FirstCopies(f, n) = Copies(hand, f)
      BY <2>1 DEF FirstCopies
    <3>2. Count(f) = 2
      BY <2>1, OfferedCounts
    <3>3. Copies(hand, f) # {}
      BY DEF Offered, FacesOf, Copies
    <3> QED
      BY <2>1, <3>1, <3>2, <3>3 DEF Count
  <2>2. CASE n = 1
    <3> DEFINE least == {c \in Copies(hand, f) : c.deck = Min({d.deck : d \in Copies(hand, f)})}
    <3>1. FirstCopies(f, n) = least
      BY <2>2 DEF FirstCopies
    <3>2. Cardinality(least) = 1 /\ least # {}
      BY LeastDeck
    <3> QED
      BY <2>2, <3>1, <3>2
  <2> QED
    BY <2>1, <2>2
<1>3. FacesOf(FirstCopies(f, n)) = {f}
  BY <1>1, <1>2 DEF FacesOf
<1> QED
  BY <1>1, <1>2, <1>3 DEF OneFace

LEMMA ShapeOfOne ==
  ASSUME CardsKnown, NEW f, NEW n, NEW cards, OneFace(cards, f, n)
  PROVE  /\ ValidShape(cards, Rank) <=> f.rank = Rank \/ (f.suit = "joker" /\ n = 2)
         /\ ValidShape(cards, Rank) <=> [face |-> f, count |-> n] \in RevealChoices
<1>1. /\ cards # {} /\ (\A c \in cards : c.face = f)
      /\ f \in Offered /\ n \in {1, 2} /\ Cardinality(cards) = n
  BY OneFaceIs
<1>2. ValidShape(cards, Rank) <=> f.rank = Rank \/ (f.suit = "joker" /\ n = 2)
  BY <1>1 DEF ValidShape, IsJoker
<1>3. [face |-> f, count |-> n] \in RevealChoices <=> f.rank = Rank \/ (f.suit = "joker" /\ n = 2)
  <2>1. PICK c : c = [face |-> f, count |-> n]
    OBVIOUS
  <2>2. c.face = f /\ c.count = n
    BY <2>1
  <2>3. ASSUME c \in RevealChoices PROVE f.rank = Rank \/ (f.suit = "joker" /\ n = 2)
    BY <2>2, <2>3 DEF RevealChoices
  <2>4. ASSUME f.rank = Rank PROVE c \in RevealChoices
    <3> DEFINE ranked == {h \in Offered : h.rank = Rank}
               counts == {1, 2}
    <3>1. f \in ranked /\ n \in counts
      BY <1>1, <2>4
    <3>2. c \in {[face |-> g, count |-> k] : g \in ranked, k \in counts}
      <4> HIDE DEF ranked, counts
      <4> QED
        BY <2>1, <3>1
    <3> QED
      BY <3>2 DEF RevealChoices
  <2>5. ASSUME f.suit = "joker", n = 2 PROVE c \in RevealChoices
    <3>1. f \in {g \in Offered : g.suit = "joker"}
      BY <1>1, <2>5
    <3>2. c \in {[face |-> g, count |-> 2] : g \in {h \in Offered : h.suit = "joker"}}
      BY <2>1, <2>5, <3>1
    <3> QED
      BY <3>2 DEF RevealChoices
  <2> QED
    BY <2>1, <2>3, <2>4, <2>5
<1> QED
  BY <1>2, <1>3

\* Declarations of as many cards of one face are worth the same.
LEMMA WorthTheSame ==
  ASSUME CardsKnown, NEW f, NEW n, NEW a, NEW b, OneFace(a, f, n), OneFace(b, f, n)
  PROVE  Beats(a, Rank, current.cards) <=> Beats(b, Rank, current.cards)
<1>1. /\ (CHOOSE c \in a : TRUE).face = f /\ Cardinality(a) = n
      /\ ValidShape(a, Rank) <=> f.rank = Rank \/ (f.suit = "joker" /\ n = 2)
  <2>1. (CHOOSE c \in a : TRUE).face = f /\ Cardinality(a) = n
    BY OneFaceIs
  <2>2. ValidShape(a, Rank) <=> f.rank = Rank \/ (f.suit = "joker" /\ n = 2)
    BY ShapeOfOne
  <2> QED
    BY <2>1, <2>2
<1>2. /\ (CHOOSE c \in b : TRUE).face = f /\ Cardinality(b) = n
      /\ ValidShape(b, Rank) <=> f.rank = Rank \/ (f.suit = "joker" /\ n = 2)
  <2>1. (CHOOSE c \in b : TRUE).face = f /\ Cardinality(b) = n
    BY OneFaceIs
  <2>2. ValidShape(b, Rank) <=> f.rank = Rank \/ (f.suit = "joker" /\ n = 2)
    BY ShapeOfOne
  <2> QED
    BY <2>1, <2>2
<1>3. BidValue(a, Rank) = BidValue(b, Rank)
  BY <1>1, <1>2 DEF BidValue
<1> QED
  BY <1>3 DEF Beats

LEMMA LegalOfOne ==
  ASSUME CardsKnown, Revealing, NEW f, NEW n, NEW cards, OneFace(cards, f, n)
  PROVE  Legal(cards) <=> Revealed(f, n)
<1>1. /\ cards # {} /\ f \in Offered /\ n \in {1, 2} /\ Cardinality(cards) = n /\ n <= Count(f)
  BY OneFaceIs
<1>2. ValidShape(cards, Rank) <=> [face |-> f, count |-> n] \in RevealChoices
  BY ShapeOfOne
<1>3. OneFace(FirstCopies(f, n), f, n)
  BY <1>1, FirstCopiesAre
<1>4. Beats(cards, Rank, current.cards) <=> Beats(FirstCopies(f, n), Rank, current.cards)
  BY <1>3, WorthTheSame
<1>5. ValidReveal(cards, Rank, current.cards) <=> [face |-> f, count |-> n] \in Reveals
  BY <1>1, <1>2, <1>4 DEF ValidReveal, Reveals
<1> QED
  BY <1>1, <1>5 DEF Legal, Revealed, ValidStir, Revealing

\* What is legal has one face.
LEMMA LegalHasOneFace ==
  ASSUME CardsKnown, Revealing, NEW cards \in SUBSET hand, Legal(cards)
  PROVE  \E f \in Offered : \E n \in {1, 2} : OneFace(cards, f, n)
<1>1. cards # {} /\ ValidShape(cards, Rank)
  BY DEF Legal, Revealing, ValidStir, ValidReveal
<1>2. PICK c \in cards : TRUE
  BY <1>1
<1>3. \A d \in cards : d.face = [suit |-> d.face.suit, rank |-> d.face.rank]
  BY DEF CardsKnown, Card, Faces
<1>4. \A d \in cards : d.face.suit = c.face.suit /\ d.face.rank = c.face.rank
  BY <1>1, <1>2 DEF ValidShape, IsJoker
<1>5. \A d \in cards : d.face = c.face
  BY <1>2, <1>3, <1>4
<1>6. FacesOf(cards) = {c.face} /\ c.face \in Offered
  BY <1>2, <1>5 DEF FacesOf, Offered
<1>7. Cardinality(cards) \in {1, 2}
  BY <1>1 DEF ValidShape
<1> QED
  BY <1>6, <1>7 DEF OneFace

LEMMA OneIs ==
  ASSUME NEW f, NEW n
  PROVE  /\ DOMAIN Extended(<< >>, f, n) = {f} /\ Extended(<< >>, f, n)[f] = n
         /\ Extended(<< >>, f, n) = [g \in {f} |-> n]
<1>1. DOMAIN << >> = {}
  OBVIOUS
<1>2. DOMAIN << >> \cup {f} = {f}
  BY <1>1
<1>3. Extended(<< >>, f, n) = [g \in {f} |-> IF g = f THEN n ELSE << >>[g]]
  BY <1>2 DEF Extended
<1>4. Extended(<< >>, f, n) = [g \in {f} |-> n]
  BY <1>3
<1> QED
  BY <1>4

LEMMA CountsOfOne ==
  ASSUME CardsKnown, NEW f, NEW n, NEW cards, OneFace(cards, f, n)
  PROVE  CountsOf(cards) = Extended(<< >>, f, n)
<1>1. cards \in SUBSET hand /\ FacesOf(cards) = {f} /\ \A c \in cards : c.face = f
  BY OneFaceIs DEF OneFace
<1>2. Copies(cards, f) = cards /\ Cardinality(cards) = n
  BY <1>1 DEF Copies, OneFace
<1>3. CountsOf(cards) = [g \in {f} |-> n]
  <2>1. CountsOf(cards) = [g \in {f} |-> Cardinality(Copies(cards, g))]
    BY <1>1 DEF CountsOf
  <2>2. \A g \in {f} : Cardinality(Copies(cards, g)) = n
    BY <1>2
  <2> QED
    BY <2>1, <2>2
<1> QED
  BY <1>3, OneIs

LEMMA MovesReveal ==
  ASSUME CardsKnown, Revealing, NEW m
  PROVE  m \in Moves <=> \E f \in Offered : \E n \in {1, 2} :
                           n <= Count(f) /\ Revealed(f, n) /\ m = Extended(<< >>, f, n)
<1>1. ASSUME m \in Moves
      PROVE  \E f \in Offered : \E n \in {1, 2} :
               n <= Count(f) /\ Revealed(f, n) /\ m = Extended(<< >>, f, n)
  <2>1. PICK cards \in SUBSET hand : Legal(cards) /\ m = CountsOf(cards)
    BY <1>1, MovesAre
  <2>2. PICK f \in Offered : \E n \in {1, 2} : OneFace(cards, f, n)
    BY <2>1, LegalHasOneFace
  <2>3. PICK n \in {1, 2} : OneFace(cards, f, n)
    BY <2>2
  <2>4. Revealed(f, n) /\ n <= Count(f)
    BY <2>1, <2>3, LegalOfOne, OneFaceIs
  <2>5. CountsOf(cards) = Extended(<< >>, f, n)
    BY <2>3, CountsOfOne
  <2> QED
    BY <2>1, <2>4, <2>5
<1>2. ASSUME NEW f \in Offered, NEW n \in {1, 2}, n <= Count(f), Revealed(f, n),
             m = Extended(<< >>, f, n)
      PROVE  m \in Moves
  <2>1. PICK cards : cards = FirstCopies(f, n)
    OBVIOUS
  <2>2. OneFace(cards, f, n)
    BY <1>2, <2>1, FirstCopiesAre
  <2>3. Legal(cards) /\ cards \in SUBSET hand
    BY <1>2, <2>2, LegalOfOne, OneFaceIs
  <2>4. CountsOf(cards) = Extended(<< >>, f, n)
    BY <2>2, CountsOfOne
  <2> QED
    BY <1>2, <2>3, <2>4, MovesAre
<1> QED
  BY <1>1, <1>2

LEMMA RevealContinues ==
  ASSUME CardsKnown, Revealing, NEW f \in Offered, NEW n \in {1, 2}, n <= Count(f)
  PROVE  Continues(Extended(<< >>, f, n)) <=> Revealed(f, n)
<1>1. PICK next : next = Extended(<< >>, f, n)
  OBVIOUS
<1>2. DOMAIN next = {f} /\ next[f] = n
  BY <1>1, OneIs
<1>3. ASSUME NEW m \in Moves, Completion(next, m) PROVE Revealed(f, n)
  <2>1. PICK g \in Offered : \E k \in {1, 2} :
          k <= Count(g) /\ Revealed(g, k) /\ m = Extended(<< >>, g, k)
    BY MovesReveal
  <2>2. PICK k \in {1, 2} : Revealed(g, k) /\ m = Extended(<< >>, g, k)
    BY <2>1
  <2>3. DOMAIN m = {g} /\ m[g] = k
    BY <2>2, OneIs
  <2>4. g = f /\ k = n
    BY <1>2, <1>3, <2>3 DEF Completion
  <2> QED
    BY <2>2, <2>4
<1>4. ASSUME Revealed(f, n) PROVE \E m \in Moves : Completion(next, m)
  <2>1. next \in Moves
    BY <1>1, <1>4, MovesReveal
  <2>2. Completion(next, next)
    BY DEF Completion
  <2> QED
    BY <2>1, <2>2
<1> QED
  BY <1>1, <1>3, <1>4, ContinuesIs

\* The complete traces of a bid or a stir are its legal moves.
LEMMA TracesAreLegal ==
  ASSUME CardsKnown, Revealing
  PROVE  BidSpace \cup StirSpace
           = {c \in CardChoices : c.count <= Count(c.face) /\ Continues(Extended(<< >>, c.face, c.count))}
<1>1. \A c \in Reveals : c \in CardChoices /\ c.count <= Count(c.face)
  BY DEF Reveals, RevealChoices, CardChoices
<1>2. \A c : c \in BidSpace \cup StirSpace <=>
        c \in Reveals /\ ((query = "bid" /\ ~current.own) \/ (query = "stir" /\ c.count = 2))
  BY DEF BidSpace, StirSpace
<1>3. ASSUME NEW c \in CardChoices
      PROVE  /\ c = [face |-> c.face, count |-> c.count] /\ c.face \in Offered /\ c.count \in {1, 2}
             /\ c \in BidSpace \cup StirSpace <=> Revealed(c.face, c.count)
  <2>1. c = [face |-> c.face, count |-> c.count] /\ c.face \in Offered /\ c.count \in {1, 2}
    BY DEF CardChoices
  <2> QED
    BY <1>2, <2>1 DEF Revealed
<1>4. ASSUME NEW c \in CardChoices, c.count <= Count(c.face)
      PROVE  Continues(Extended(<< >>, c.face, c.count)) <=> c \in BidSpace \cup StirSpace
  BY <1>3, <1>4, RevealContinues
<1>5. \A c \in BidSpace \cup StirSpace : c \in CardChoices /\ c.count <= Count(c.face)
  BY <1>1, <1>2
<1> QED
  BY <1>4, <1>5

---------------------------------------------------------------------------
(* The decisions                                                           *)

\* What a decision keeps: the hand and the lead are cards, a part of the hand
\* within the size is selected, and a lead of one suit.
DecisionInv ==
  /\ CardsKnown /\ Offered \subseteq SpaceFaces
  /\ query \in Kinds =>
       /\ Selection(prefix)
       /\ query \in {"discard", "follow_play"} => exact \in Nat /\ WidthOf(prefix) <= exact
       /\ query = "follow_play" => LeadKnown
       /\ query = "lead_play" => \A f, g \in DOMAIN prefix : FaceSuit(f) = FaceSuit(g)

LEMMA InitDecides ==
  ASSUME DecoderInit
  PROVE  DecisionInv
<1>1. PICK n \in [SpaceFaces -> 0..2] :
        hand = UNION {{[face |-> f, deck |-> k] : k \in 1..n[f]} : f \in SpaceFaces}
  BY DEF DecoderInit
<1>2. \A f \in SpaceFaces : \A k \in 1..n[f] : k \in {1, 2} /\ f \in Faces
  BY SpaceAssumption
<1>3. \A c \in hand : c \in Card /\ c.face \in SpaceFaces
  BY <1>1, <1>2 DEF Card
<1>4. CardsKnown /\ Offered \subseteq SpaceFaces
  BY <1>3, CardsFinite, FS_Subset DEF CardsKnown, Offered, FacesOf
<1>5. Selection(prefix) /\ DOMAIN prefix = {} /\ Base
  BY <1>4, EmptySelection DEF DecoderInit, Base
<1>6. WidthOf(prefix) = 0
  <2>1. WidthOf(prefix) = Weight(DOMAIN prefix, prefix)
    BY <1>5, WidthIs
  <2> QED
    BY <1>5, <2>1, WeightEmpty
<1>7. ASSUME query = "follow_play" PROVE LeadKnown
  <2>1. lead \in Leads /\ exact = Cardinality(lead) /\ Cardinality(hand) >= exact
    BY <1>7 DEF DecoderInit, Asked
  <2>2. lead \in SUBSET Card /\ lead # {} /\ IsFiniteSet(lead)
    BY <2>1, SpaceAssumption, CardsFinite, FS_Subset DEF Analyzable
  <2> QED
    BY <1>4, <1>7, <2>1, <2>2 DEF LeadKnown
<1>8. ASSUME query \in {"discard", "follow_play"} PROVE exact \in Nat /\ WidthOf(prefix) <= exact
  <2>1. query = "follow_play" => exact \in Nat
    BY <1>7, FS_CardinalityType DEF LeadKnown
  <2>2. query = "discard" => exact \in Nat
    BY DecoderAssumption DEF DecoderInit, Asked
  <2> QED
    BY <1>6, <1>8, <2>1, <2>2
<1> QED
  BY <1>4, <1>5, <1>7, <1>8 DEF DecisionInv

LEMMA DecisionBase ==
  ASSUME DecisionInv, query \in Kinds
  PROVE  /\ Base /\ CardsKnown /\ Selection(prefix) /\ WidthOf(prefix) \in Nat
         /\ WidthOf(prefix) = Weight(DOMAIN prefix, prefix)
         /\ query = "follow_play" => FollowBase
         /\ query \in {"discard", "follow_play"} => exact \in Nat /\ WidthOf(prefix) <= exact
         /\ query \in {"discard", "follow_play"} /\ ~Done => WidthOf(prefix) < exact
         /\ ~Done /\ query \in {"bid", "stir"} => prefix = << >>
<1>1. Base /\ CardsKnown /\ Selection(prefix)
  BY DEF DecisionInv, Base
<1>2. WidthOf(prefix) \in Nat /\ WidthOf(prefix) = Weight(DOMAIN prefix, prefix)
  BY <1>1, WidthIs
<1>3. query \in {"discard", "follow_play"} => exact \in Nat /\ WidthOf(prefix) <= exact
  BY DEF DecisionInv
<1>4. ~Done /\ query \in {"discard", "follow_play"} => WidthOf(prefix) # exact
  BY DEF Done
<1>5. ~Done /\ query \in {"bid", "stir"} => prefix = << >>
  BY DEF Done
<1>6. query = "follow_play" => FollowBase
  BY <1>1 DEF DecisionInv, FollowBase
<1> HIDE DEF DecisionInv, Done
<1> QED
  BY <1>1, <1>2, <1>3, <1>4, <1>5, <1>6

\* A choice of the mask is a face of the hand or ends the decision.
LEMMA MaskChoices ==
  ASSUME DecisionInv, query \in Kinds, NEW c \in Mask, c \notin {Pass, Finish},
         NEW next, next = Extended(prefix, c.face, c.count)
  PROVE  /\ Chosen(prefix, c.face, c.count, next) /\ ~Done
         /\ query \in {"discard", "lead_play", "follow_play"} => Selectable(prefix, c.face, c.count)
         /\ query \in {"bid", "stir"} => c \in BidSpace \cup StirSpace
<1>0. ~Done
  BY DEF Mask
<1>1. CardsKnown /\ Selection(prefix)
  BY DecisionBase
<1>2. ASSUME query \in {"bid", "stir"}
      PROVE  /\ c.face \in Offered /\ c.count \in {1, 2} /\ c.count <= Count(c.face)
             /\ After(prefix, c.face) /\ c \in BidSpace \cup StirSpace
  <2>1. c \in BidSpace \cup StirSpace
    BY <1>0, <1>2 DEF Mask, TraceChoices
  <2>2. c \in CardChoices /\ c.count <= Count(c.face)
    BY <1>1, <1>2, <2>1, TracesAreLegal DEF Revealing
  <2>3. prefix = << >>
    BY <1>0, <1>2, DecisionBase
  <2>4. After(prefix, c.face)
    BY <2>3, EmptySelection
  <2> QED
    BY <2>1, <2>2, <2>4 DEF CardChoices
<1>3. ASSUME query \notin {"bid", "stir"}
      PROVE  /\ c.face \in Offered /\ c.count \in {1, 2} /\ c.count <= Count(c.face)
             /\ After(prefix, c.face) /\ Selectable(prefix, c.face, c.count)
  <2>1. c \in CardChoices /\ Selectable(prefix, c.face, c.count)
    BY <1>0, <1>3 DEF Mask
  <2> QED
    BY <2>1 DEF CardChoices, Selectable
<1>4. c.face \in Offered /\ c.count \in {1, 2} /\ c.count <= Count(c.face) /\ After(prefix, c.face)
  BY <1>2, <1>3
<1>5. Chosen(prefix, c.face, c.count, next)
  BY <1>1, <1>4 DEF Chosen
<1> QED
  BY <1>0, <1>2, <1>3, <1>5

LEMMA ChoiceKeeps ==
  ASSUME DecisionInv, query \in Kinds, NEW c \in Mask, c \notin {Pass, Finish},
         NEW next, next = Extended(prefix, c.face, c.count)
  PROVE  /\ Selection(next)
         /\ query \in {"discard", "follow_play"} => WidthOf(next) <= exact
         /\ query = "lead_play" => \A f, g \in DOMAIN next : FaceSuit(f) = FaceSuit(g)
<1>0. Base
  BY DecisionBase
<1>1. /\ Chosen(prefix, c.face, c.count, next)
      /\ query \in {"discard", "lead_play", "follow_play"} => Selectable(prefix, c.face, c.count)
  BY MaskChoices
<1>2. Selection(next) /\ DOMAIN next = DOMAIN prefix \cup {c.face}
  <2>1. PICK f : f = c.face
    OBVIOUS
  <2>2. PICK n : n = c.count
    OBVIOUS
  <2>3. Chosen(prefix, f, n, next)
    BY <1>1, <2>1, <2>2
  <2>4. Selection(next) /\ DOMAIN next = DOMAIN prefix \cup {f}
    BY ONLY <1>0, <2>3, ChosenSelection
  <2> QED
    BY <2>1, <2>4
<1>3. WidthOf(next) = WidthOf(prefix) + c.count
  <2>1. Weight(DOMAIN next, next) = WidthOf(prefix) + c.count
    BY <1>0, <1>1, ChosenWidth
  <2>2. WidthOf(next) = Weight(DOMAIN next, next)
    BY <1>0, <1>2, WidthIs
  <2> QED
    BY <2>1, <2>2
<1>4. query \in {"discard", "follow_play"} => WidthOf(next) <= exact
  BY <1>1, <1>3 DEF Selectable, MaxSelect
<1>5. ASSUME query = "lead_play"
      PROVE  \A f, g \in DOMAIN next : FaceSuit(f) = FaceSuit(g)
  <2>1. \A g \in DOMAIN prefix : FaceSuit(g) = FaceSuit(c.face)
    BY <1>1, <1>5 DEF Selectable
  <2> QED
    BY <1>2, <2>1
<1> QED
  BY <1>2, <1>4, <1>5

LEMMA DecidesAlways == Spec => []DecisionInv
<1>1. Init => DecisionInv
  <2>1. ASSUME DecoderIdle PROVE DecisionInv
    <3>1. hand = {} /\ query = "none"
      BY <2>1 DEF DecoderIdle
    <3> QED
      BY <3>1, FS_EmptySet DEF DecisionInv, CardsKnown, Offered, FacesOf, Kinds
  <2> QED
    BY <2>1, InitDecides DEF Init
<1>2. DecisionInv /\ [Next]_<<decoderVars, leadVars>> => DecisionInv'
  <2> SUFFICES ASSUME DecisionInv, [Next]_<<decoderVars, leadVars>> PROVE DecisionInv'
    OBVIOUS
  <2>1. CASE UNCHANGED decoderVars
    <3>1. /\ hand' = hand /\ lead' = lead /\ query' = query /\ exact' = exact /\ prefix' = prefix
      BY <2>1 DEF decoderVars, plan
    <3> QED
      BY <3>1 DEF DecisionInv, CardsKnown, Offered, Selection, Count, LeadKnown
  <2>2. ASSUME NEW c \in CardChoices \cup {Pass, Finish}, Choose(c) PROVE DecisionInv'
    <3>1. /\ hand' = hand /\ lead' = lead /\ query' = query /\ exact' = exact
      BY <2>2 DEF Choose, plan
    <3>2. c \in Mask
      BY <2>2 DEF Choose, Sampled
    <3>3. PICK next : next = Extended(prefix, c.face, c.count)
      OBVIOUS
    <3>4. prefix' = IF c \in {Pass, Finish} THEN prefix ELSE next
      BY <2>2, <3>3 DEF Choose
    <3>5. CASE c \in {Pass, Finish}
      BY <3>1, <3>4, <3>5 DEF DecisionInv, CardsKnown, Offered, Selection, Count, LeadKnown
    <3>6. CASE c \notin {Pass, Finish}
      <4>1. query \in Kinds =>
              /\ Selection(next)
              /\ query \in {"discard", "follow_play"} => WidthOf(next) <= exact
              /\ query = "lead_play" => \A f, g \in DOMAIN next : FaceSuit(f) = FaceSuit(g)
        BY <3>2, <3>3, <3>6, ChoiceKeeps
      <4>2. prefix' = next
        BY <3>4, <3>6
      <4> QED
        BY <3>1, <4>1, <4>2 DEF DecisionInv, CardsKnown, Offered, Selection, Count, LeadKnown
    <3> QED
      BY <3>5, <3>6
  <2> QED
    BY <2>1, <2>2 DEF Next, DecoderNext, Bind, Refuse
<1> QED
  BY <1>1, <1>2, PTL DEF Spec

LEMMA CardsOfTheMask ==
  ASSUME DecisionInv, query \in {"discard", "lead_play", "follow_play"}, ~BreaksUnseen,
         NEW c \in CardChoices
  PROVE  Selectable(prefix, c.face, c.count)
           <=> c \in Possible /\ Continues(Extended(prefix, c.face, c.count))
<1>0. query \in Kinds
  BY DEF Kinds
<1>1. Base /\ Selection(prefix) /\ (query = "follow_play" => FollowBase) /\ (query = "discard" => exact \in Nat)
  BY <1>0, DecisionBase
<1>2. c \in Possible <=> c.count <= Count(c.face) /\ After(prefix, c.face)
  BY DEF Possible
<1>3. Selectable(prefix, c.face, c.count) => c \in Possible
  BY <1>2 DEF Selectable
<1> SUFFICES ASSUME c \in Possible
             PROVE  Selectable(prefix, c.face, c.count) <=> Continues(Extended(prefix, c.face, c.count))
  BY <1>3
<1>4. PICK next : next = Extended(prefix, c.face, c.count)
  OBVIOUS
<1>5. Chosen(prefix, c.face, c.count, next)
  BY <1>1, <1>2, <1>4 DEF Chosen, CardChoices
<1>6. Selectable(prefix, c.face, c.count) <=> Continues(next)
  <2>1. CASE query = "discard"
    BY <1>1, <1>5, <2>1, DiscardExact
  <2>2. CASE query = "lead_play"
    BY <1>1, <1>5, <2>2, LeadExact
  <2>3. CASE query = "follow_play"
    BY <1>1, <1>5, <2>3, FollowSelectable
  <2> QED
    BY <2>1, <2>2, <2>3
<1> QED
  BY <1>4, <1>6

LEMMA LeadEnds ==
  ASSUME DecisionInv, query = "lead_play"
  PROVE  prefix \in Moves <=> WidthOf(prefix) >= 1
<1>0. query \in Kinds
  BY DEF Kinds
<1>1. /\ Base /\ CardsKnown /\ Selection(prefix) /\ WidthOf(prefix) \in Nat
      /\ WidthOf(prefix) = Weight(DOMAIN prefix, prefix)
  BY <1>0, DecisionBase
<1>2. \A f, g \in DOMAIN prefix : FaceSuit(f) = FaceSuit(g)
  BY <1>0 DEF DecisionInv
<1>3. prefix \in Moves <=> DOMAIN prefix # {}
  BY <1>1, <1>2, MovesLead
<1>4. DOMAIN prefix = {} => WidthOf(prefix) = 0
  BY <1>1, WeightEmpty
<1>5. DOMAIN prefix # {} => WidthOf(prefix) # 0
  <2>1. /\ IsFiniteSet(DOMAIN prefix) /\ Cardinality(DOMAIN prefix) \in Nat
        /\ Cardinality(DOMAIN prefix) <= Weight(DOMAIN prefix, prefix)
    BY <1>1, WidthIs
  <2>2. DOMAIN prefix # {} => Cardinality(DOMAIN prefix) # 0
    BY <2>1, FS_EmptySet
  <2> QED
    BY <1>1, <2>1, <2>2
<1> QED
  BY <1>1, <1>3, <1>4, <1>5

LEMMA MaskExact ==
  ASSUME DecisionInv, ~BreaksUnseen
  PROVE  MaskIsExact
<1> SUFFICES ASSUME query \in Kinds, ~Done
    PROVE  Mask = {c \in Possible : Continues(Extended(prefix, c.face, c.count))}
                    \cup {c \in {Pass} : query \in {"bid", "stir"}}
                    \cup {c \in {Finish} : prefix \in Moves /\ query = "lead_play"}
  BY DEF MaskIsExact
<1> DEFINE cards == {c \in Possible : Continues(Extended(prefix, c.face, c.count))}
           ends == {c \in {Finish} : prefix \in Moves /\ query = "lead_play"}
<1>1. CASE query \in {"bid", "stir"}
  <2>1. prefix = << >> /\ CardsKnown
    BY <1>1, DecisionBase
  <2>2. \A f : After(prefix, f)
    BY <2>1, EmptySelection
  <2>3. Possible = {c \in CardChoices : c.count <= Count(c.face)}
    BY <2>2 DEF Possible
  <2>4. BidSpace \cup StirSpace
          = {c \in CardChoices : c.count <= Count(c.face) /\ Continues(Extended(<< >>, c.face, c.count))}
    BY <1>1, <2>1, TracesAreLegal DEF Revealing
  <2>5. cards = BidSpace \cup StirSpace
    BY <2>1, <2>3, <2>4
  <2>6. Mask = BidSpace \cup StirSpace \cup {Pass}
    BY <1>1 DEF Mask, TraceChoices
  <2> HIDE DEF cards
  <2> QED
    BY <1>1, <2>5, <2>6 DEF cards
<1>2. CASE query \in {"discard", "lead_play", "follow_play"}
  <2>1. \A c \in CardChoices : Selectable(prefix, c.face, c.count)
          <=> c \in Possible /\ Continues(Extended(prefix, c.face, c.count))
    BY <1>2, CardsOfTheMask
  <2>2. {c \in CardChoices : Selectable(prefix, c.face, c.count)} = cards
    BY <2>1 DEF Possible
  <2>3. {c \in {Finish} : query = "lead_play" /\ WidthOf(prefix) >= 1} = ends
    BY LeadEnds
  <2>4. Mask = {c \in CardChoices : Selectable(prefix, c.face, c.count)}
                 \cup {c \in {Finish} : query = "lead_play" /\ WidthOf(prefix) >= 1}
    BY <1>2 DEF Mask
  <2> HIDE DEF cards, ends
  <2>5. Mask = cards \cup {c \in {Pass} : query \in {"bid", "stir"}} \cup ends
    BY <1>2, <2>2, <2>3, <2>4
  <2> QED
    BY <2>5 DEF cards, ends
<1> QED
  BY <1>1, <1>2 DEF Kinds

LEMMA AllowedExact ==
  ASSUME DecisionInv
  PROVE  AllowedIsExact
<1> SUFFICES ASSUME query = "follow_play", ~Done, NEW c \in Possible
    PROVE  Allowed(prefix, c.face, c.count) <=> Continues(Extended(prefix, c.face, c.count))
  BY DEF AllowedIsExact
<1>1. FollowBase /\ Selection(prefix) /\ WidthOf(prefix) < exact
  BY DecisionBase DEF Kinds
<1>2. PICK next : next = Extended(prefix, c.face, c.count)
  OBVIOUS
<1>3. Chosen(prefix, c.face, c.count, next)
  BY <1>1, <1>2 DEF Chosen, Possible, CardChoices
<1> QED
  BY <1>1, <1>2, <1>3, FollowAllowed

\* What is offered at every step of a decision is exact, for every hand, lead,
\* declaration in force and trump: can_complete of a follow, by pair plans or by
\* counting, and the device masks of the five kinds of decision allow a face
\* exactly if a legal move continues the selection with it.  The one exception
\* is the run of three pairs the device may break behind a lead without pairs.
THEOREM ChoicesAreExact == Spec => []ChoicesExact
<1>1. DecisionInv => ChoicesExact
  BY MaskExact, AllowedExact DEF ChoicesExact
<1> QED
  BY <1>1, DecidesAlways, PTL

---------------------------------------------------------------------------
(* A valid choice of pairs of every number the floor allows                *)

LEMMA LeastOf ==
  ASSUME NEW S, S # {}, NEW v, \A x \in S : v[x] \in Nat
  PROVE  \E x \in S : \A y \in S : v[x] <= v[y]
<1> DEFINE K == {v[x] : x \in S}
<1>1. K \in SUBSET Nat /\ K # {}
  OBVIOUS
<1>2. PICK k \in K : \A j \in K : k <= j
  BY <1>1, LeastNatural
<1>3. PICK x \in S : k = v[x]
  OBVIOUS
<1>4. \A y \in S : v[y] \in K
  OBVIOUS
<1> QED
  BY <1>2, <1>3, <1>4

\* T has with an element all those of S above it.
Topmost(T, S, v) == T \in SUBSET S /\ \A x \in T : \A y \in S : v[y] > v[x] => y \in T

LEMMA TopOfSize ==
  ASSUME NEW S, IsFiniteSet(S), NEW v, \A x \in S : v[x] \in Nat,
         NEW k \in Nat, k <= Cardinality(S)
  PROVE  \E T : Topmost(T, S, v) /\ IsFiniteSet(T) /\ Cardinality(T) = k
<1> DEFINE B == {T \in SUBSET S : Topmost(T, S, v) /\ Cardinality(T) >= k}
<1>1. B # {} /\ B \in SUBSET (SUBSET S)
  <2>1. S \in B
    BY FS_CardinalityType DEF Topmost
  <2> QED
    BY <2>1
<1>2. PICK T \in B : \A U \in B : U \subseteq T => U = T
  <2> HIDE DEF B
  <2> QED
    BY <1>1, LeastSubset
<1>3. T \in SUBSET S /\ Topmost(T, S, v) /\ Cardinality(T) >= k
  OBVIOUS
<1>4. IsFiniteSet(T) /\ Cardinality(T) \in Nat
  BY <1>3, FS_Subset, FS_CardinalityType
<1>5. ASSUME Cardinality(T) > k PROVE FALSE
  <2>1. T # {}
    BY <1>5, FS_EmptySet
  <2>2. PICK x \in T : \A y \in T : v[x] <= v[y]
    BY <1>3, <2>1, LeastOf
  <2>3. PICK U : U = T \ {x}
    OBVIOUS
  <2>4. Cardinality(U) = Cardinality(T) - 1
    BY <1>4, <2>3, FS_RemoveElement
  <2>5. Topmost(U, S, v)
    <3> SUFFICES ASSUME NEW y \in U, NEW z \in S, v[z] > v[y] PROVE z \in U
      BY <1>3, <2>3 DEF Topmost
    <3>1. z \in T
      BY <1>3, <2>3 DEF Topmost
    <3>2. v[x] <= v[y] /\ v[x] \in Nat /\ v[y] \in Nat /\ v[z] \in Nat
      BY <1>3, <2>2, <2>3
    <3>3. z # x
      BY <3>2
    <3> QED
      BY <2>3, <3>1, <3>3
  <2>6. U \in B
    BY <1>3, <1>4, <1>5, <2>3, <2>4, <2>5
  <2> QED
    BY <1>2, <2>3, <2>6
<1> QED
  BY <1>3, <1>4, <1>5

LEMMA TierRange ==
  ASSUME NEW f \in Faces
  PROVE  Tier(f, SpaceTrump) \in 0..99
<1>1. f.rank \in 2..16 /\ SpaceTrump.rank \in 2..14
  BY SpaceAssumption DEF Faces, Trumps, SuitedRanks, SmallJoker, BigJoker
<1> QED
  BY <1>1 DEF Tier

\* Longer segments first, and in a segment the higher tiers.
Reach(d, f) == 100 * LevelOf(d, f) + Tier(f, SpaceTrump)

LEMMA LevelsAre ==
  ASSUME FollowBase, NEW d \in Decompositions(Own, SpaceTrump)
  PROVE  /\ \A f \in PairFaces(Own) : LevelOf(d, f) \in Nat /\ Tier(f, SpaceTrump) \in 0..99
         /\ \A f \in PairFaces(Own) : Reach(d, f) \in Nat
         /\ \A r \in TractorRuns(Own, SpaceTrump) : \A t \in r :
              /\ d[t] \in PairFaces(Own) /\ Tier(d[t], SpaceTrump) = t
              /\ LevelOf(d, d[t]) = Cardinality(r)
<1> DEFINE runs == TractorRuns(Own, SpaceTrump)
           pairs == PairFaces(Own)
<1>1. \A r \in runs : Cardinality(r) \in Nat
  <2> TAKE r \in runs
  <2>1. PICK a, b \in Int : r = a..b
    BY RunsOfOwn
  <2>2. IsFiniteSet(a..b)
    BY FS_Interval, Zenon
  <2> QED
    BY <2>1, <2>2, FS_CardinalityType
<1>2. ASSUME NEW r \in runs, NEW t \in r
      PROVE  (CHOOSE s \in runs : t \in s) = r
  <2>1. (CHOOSE s \in runs : t \in s) \in runs /\ t \in (CHOOSE s \in runs : t \in s)
    BY <1>2
  <2>2. PICK s : s = (CHOOSE q \in runs : t \in q)
    OBVIOUS
  <2>3. s \in runs /\ r \cap s # {}
    BY <1>2, <2>1, <2>2
  <2>4. Own \in SUBSET Card /\ SpaceTrump \in Trumps
    BY OwnKnown
  <2>5. r = s
    BY <2>3, <2>4, RunsApart
  <2> QED
    BY <2>2, <2>5
<1>3. DOMAIN d = UNION runs /\ \A t \in UNION runs : d[t] \in pairs /\ Tier(d[t], SpaceTrump) = t
  BY DEF Decompositions
<1>4. ASSUME NEW f \in pairs
      PROVE  LevelOf(d, f) \in Nat /\ Tier(f, SpaceTrump) \in 0..99
  <2>1. Tier(f, SpaceTrump) \in 0..99
    BY OwnKnown, TierRange
  <2>2. PICK t : t = Tier(f, SpaceTrump)
    OBVIOUS
  <2>3. CASE t \in DOMAIN d /\ d[t] = f
    <3>1. PICK r \in runs : t \in r
      BY <1>3, <2>3
    <3>2. LevelOf(d, f) = Cardinality(CHOOSE s \in runs : t \in s)
      BY <2>2, <2>3 DEF LevelOf, SegmentLevel
    <3> QED
      BY <1>1, <1>2, <2>1, <3>1, <3>2
  <2>4. CASE ~(t \in DOMAIN d /\ d[t] = f)
    BY <2>1, <2>2, <2>4 DEF LevelOf, SegmentLevel
  <2> QED
    BY <2>3, <2>4
<1>5. \A f \in pairs : Reach(d, f) \in Nat
  BY <1>4 DEF Reach
<1>6. ASSUME NEW r \in runs, NEW t \in r
      PROVE  /\ d[t] \in pairs /\ Tier(d[t], SpaceTrump) = t
             /\ LevelOf(d, d[t]) = Cardinality(r)
  <2>1. t \in DOMAIN d /\ d[t] \in pairs /\ Tier(d[t], SpaceTrump) = t
    BY <1>3
  <2>2. LevelOf(d, d[t]) = Cardinality(CHOOSE s \in runs : t \in s)
    BY <2>1 DEF LevelOf, SegmentLevel
  <2> QED
    BY <1>2, <2>1, <2>2
<1> QED
  BY <1>4, <1>5, <1>6

\* Of two levels of a topmost choice the higher is used up first.
LEMMA TopKeepsPriority ==
  ASSUME FollowBase, NEW d \in Decompositions(Own, SpaceTrump), NEW v,
         v = [f \in PairFaces(Own) |-> Reach(d, f)],
         NEW chosen, Topmost(chosen, PairFaces(Own), v),
         Cardinality(chosen) >= PairFloor(Own, lead)
  PROVE  PriorityKept(Own, d, chosen, Cardinality(PairFaces(lead)), SpaceTrump)
<1> DEFINE pairs == PairFaces(Own)
           led == Cardinality(PairFaces(lead))
<1>0. /\ chosen \in SUBSET pairs /\ IsFiniteSet(pairs) /\ IsFiniteSet(chosen)
      /\ Cardinality(chosen) \in Nat /\ led \in Nat /\ Cardinality(pairs) \in Nat
  BY FollowKnown, OwnKnown, FS_Subset, FS_CardinalityType DEF Topmost
<1>1. \A f \in pairs : LevelOf(d, f) \in Nat /\ Tier(f, SpaceTrump) \in 0..99
  BY LevelsAre
<1>2. ASSUME NEW g \in pairs PROVE LevelKept(d, chosen, led, LevelOf(d, g))
  <2> DEFINE l == LevelOf(d, g)
             at == {f \in chosen : LevelOf(d, f) = l}
             above == {f \in chosen : LevelOf(d, f) > l}
             held == {f \in pairs : LevelOf(d, f) = l}
  <2>1. CASE held \subseteq chosen
    <3>1. held = at
      BY <1>0, <2>1
    <3>2. IsFiniteSet(held)
      BY <1>0, FS_Subset
    <3>3. Cardinality(held) \in Nat
      BY <3>2, FS_CardinalityType
    <3> QED
      BY <3>1, <3>3 DEF LevelKept, AtLevel
  <2>2. CASE ~(held \subseteq chosen)
    <3>1. PICK x \in held : x \notin chosen
      BY <2>2
    <3>2. \A f \in chosen : LevelOf(d, f) >= l
      <4> TAKE f \in chosen
      <4>1. v[f] = Reach(d, f) /\ v[x] = Reach(d, x) /\ ~(v[x] > v[f])
        BY <1>0, <3>1 DEF Topmost
      <4>2. LevelOf(d, x) = l
        BY <3>1
      <4>3. /\ LevelOf(d, f) \in Nat /\ Tier(f, SpaceTrump) \in 0..99
            /\ LevelOf(d, x) \in Nat /\ Tier(x, SpaceTrump) \in 0..99
        BY <1>0, <1>1, <3>1
      <4> QED
        BY <4>1, <4>2, <4>3 DEF Reach
    <3>3. chosen = at \cup above /\ at \cap above = {}
      <4>1. \A f \in chosen : LevelOf(d, f) \in Nat /\ l \in Nat
        BY <1>0, <1>1
      <4> QED
        BY <3>2, <4>1
    <3>4. IsFiniteSet(at) /\ IsFiniteSet(above)
      BY <1>0, FS_Subset
    <3>5. Cardinality(chosen) = Cardinality(at) + Cardinality(above)
      <4> HIDE DEF at, above
      <4> QED
        BY <3>3, <3>4, DisjointUnion
    <3>6. Cardinality(at) \in Nat /\ Cardinality(above) \in Nat
      BY <3>4, FS_CardinalityType
    <3>7. Cardinality(chosen) < Cardinality(pairs)
      <4>1. chosen # pairs
        BY <3>1
      <4>2. Cardinality(chosen) <= Cardinality(pairs)
            /\ (Cardinality(chosen) = Cardinality(pairs) => chosen = pairs)
        BY <1>0, FS_Subset
      <4> QED
        BY <1>0, <4>1, <4>2
    <3>8. Cardinality(chosen) >= led
      BY <1>0, <3>7 DEF PairFloor
    <3>9. Cardinality(at) >= led - Cardinality(above)
      BY <1>0, <3>5, <3>6, <3>8
    <3> QED
      BY <3>9 DEF LevelKept, AtLevel, AboveLevel
  <2> QED
    BY <2>1, <2>2
<1> QED
  BY <1>0, <1>2, PriorityByLevel

\* A topmost choice takes the upper end of a run.
LEMMA TopUnbroken ==
  ASSUME FollowBase, NEW d \in Decompositions(Own, SpaceTrump), NEW v,
         v = [f \in PairFaces(Own) |-> Reach(d, f)],
         NEW chosen, Topmost(chosen, PairFaces(Own), v)
  PROVE  Unbroken(Own, d, chosen, SpaceTrump)
<1> SUFFICES ASSUME NEW r \in TractorRuns(Own, SpaceTrump), NEW used,
                    used = {t \in r : d[t] \in chosen}, used # {}
             PROVE  used = Min(used)..Max(used)
  BY DEF Unbroken
<1>1. PICK a, b \in Int : a < b /\ r = a..b
  BY RunsOfOwn
<1>2. \A t \in r : /\ d[t] \in PairFaces(Own) /\ Tier(d[t], SpaceTrump) = t
                   /\ LevelOf(d, d[t]) = Cardinality(r)
                   /\ LevelOf(d, d[t]) \in Nat /\ t \in 0..99
  BY LevelsAre
<1>3. ASSUME NEW t \in used, NEW u \in r, u > t PROVE u \in used
  <2>1. t \in r /\ d[t] \in chosen
    OBVIOUS
  <2>2. v[d[t]] = Reach(d, d[t]) /\ v[d[u]] = Reach(d, d[u])
    BY <1>2, <2>1
  <2>3. Reach(d, d[u]) > Reach(d, d[t])
    <3>1. /\ Tier(d[t], SpaceTrump) = t /\ Tier(d[u], SpaceTrump) = u
          /\ LevelOf(d, d[u]) = LevelOf(d, d[t]) /\ LevelOf(d, d[t]) \in Nat
          /\ t \in 0..99 /\ u \in 0..99
      BY <1>2, <2>1
    <3> QED
      BY <1>3, <3>1 DEF Reach
  <2>4. d[u] \in chosen
    BY <1>2, <2>1, <2>2, <2>3 DEF Topmost
  <2> QED
    BY <2>4
<1>4. used \in SUBSET Nat /\ used # {}
  BY <1>2
<1>5. PICK x \in used : \A t \in used : x <= t
  BY <1>4, LeastNatural
<1>6. x \in Int /\ x <= b /\ used = x..b
  <2>1. x \in a..b /\ x \in Int
    BY <1>1
  <2>2. \A t \in used : t \in a..b /\ x <= t
    BY <1>1, <1>5
  <2>3. \A t \in x..b : t \in used
    <3> TAKE t \in x..b
    <3>1. t \in r
      BY <1>1, <2>1
    <3>2. t = x \/ t > x
      BY <2>1
    <3> QED
      BY <1>3, <3>1, <3>2
  <2> QED
    BY <1>1, <2>1, <2>2, <2>3
<1>7. Min(x..b) = x /\ Max(x..b) = b
  BY <1>1, <1>6, IntervalEnds
<1> QED
  BY <1>6, <1>7

\* Whatever the runs of the hand, it can follow with any number of pairs from
\* the floor of the lead up to all it has: is_legal_follow never asks for what
\* the suit does not hold.
THEOREM PairsOfEverySize ==
  ASSUME FollowBase, NEW k \in Nat, PairFloor(Own, lead) <= k, k <= Cardinality(PairFaces(Own))
  PROVE  \E P : /\ ValidPairs(Own, lead, P, SpaceTrump) /\ P \in SUBSET PairFaces(Own)
                /\ IsFiniteSet(P) /\ Cardinality(P) = k
<1>1. PICK d : d \in Decompositions(Own, SpaceTrump)
  BY SomeDecomposition
<1>2. PICK v : v = [f \in PairFaces(Own) |-> Reach(d, f)]
  OBVIOUS
<1>3. \A f \in PairFaces(Own) : v[f] \in Nat
  BY <1>1, <1>2, LevelsAre
<1>4. IsFiniteSet(PairFaces(Own))
  BY FollowKnown
<1>5. PICK P : Topmost(P, PairFaces(Own), v) /\ IsFiniteSet(P) /\ Cardinality(P) = k
  BY <1>3, <1>4, TopOfSize
<1>6. PriorityKept(Own, d, P, Cardinality(PairFaces(lead)), SpaceTrump)
  BY <1>1, <1>2, <1>5, TopKeepsPriority
<1>7. Unbroken(Own, d, P, SpaceTrump)
  BY <1>1, <1>2, <1>5, TopUnbroken
<1>8. P \in SUBSET PairFaces(Own) /\ Cardinality(P) >= PairFloor(Own, lead)
  BY <1>5 DEF Topmost
<1> QED
  BY <1>1, <1>5, <1>6, <1>7, <1>8 DEF ValidPairs

---------------------------------------------------------------------------
(* Every decision has a legal move                                         *)

LEMMA NothingSelected ==
  ASSUME Base
  PROVE  /\ Selection(<< >>) /\ DOMAIN << >> = {} /\ Open(<< >>) = Offered
         /\ Weight(DOMAIN << >>, << >>) = 0 /\ SelectedPairs(<< >>) = {}
         /\ \A S : Weight(DOMAIN << >> \cap S, << >>) = 0
<1>1. Selection(<< >>) /\ DOMAIN << >> = {} /\ \A f : After(<< >>, f)
  BY EmptySelection
<1>2. Open(<< >>) = Offered
  BY <1>1 DEF Open
<1>3. Weight({}, << >>) = 0
  BY WeightEmpty
<1>4. \A S : DOMAIN << >> \cap S = {}
  BY <1>1
<1> QED
  BY <1>1, <1>2, <1>3, <1>4 DEF SelectedPairs

LEMMA CardsOfHand ==
  ASSUME CardsKnown
  PROVE  /\ Cardinality(hand) = CardsIn(Offered) /\ Cardinality(hand) \in Nat
         /\ Cardinality(Offered) <= Cardinality(hand)
<1>1. Cardinality(hand) = Cardinality(FacesOf(hand)) + Cardinality(PairFaces(hand))
  BY FacesCounted DEF CardsKnown
<1>2. PairFaces(hand) = {f \in Offered : Count(f) = 2}
  BY OfferedCounts
<1>3. PairFaces(hand) = Offered \cap Twice
  BY <1>2 DEF Twice
<1>4. CardsIn(Offered) \in Nat /\ Cardinality(Offered) <= CardsIn(Offered)
  BY CardsInType
<1> QED
  BY <1>1, <1>3, <1>4 DEF CardsIn, Offered

LEMMA CardsOffSuit ==
  ASSUME FollowBase
  PROVE  CardsIn(OffSuit) = Cardinality(hand) - Cardinality(Own)
<1>0. CardsKnown /\ Base /\ SameSuit \subseteq Offered
  BY FollowKnown
<1>1. Cardinality(hand) = CardsIn(Offered)
  BY <1>0, CardsOfHand
<1>2. Cardinality(Own) = CardsIn(SameSuit)
  BY <1>0, NothingSelected, FullWeight
<1>3. PICK A : A = SameSuit
  OBVIOUS
<1>4. PICK B : B = OffSuit
  OBVIOUS
<1>5. A \cup B = Offered /\ A \cap B = {} /\ B \subseteq Offered /\ A \subseteq Offered
  BY <1>0, <1>3, <1>4 DEF OffSuit
<1>6. IsFiniteSet(A) /\ IsFiniteSet(B) /\ Cardinality(A) \in Nat /\ Cardinality(B) \in Nat
  BY <1>0, <1>5, CardsInType
<1>7. PICK C1 : C1 = A \cap Twice
  OBVIOUS
<1>8. PICK C2 : C2 = B \cap Twice
  OBVIOUS
<1>9. C1 \cup C2 = Offered \cap Twice /\ C1 \cap C2 = {}
  BY <1>5, <1>7, <1>8
<1>10. IsFiniteSet(C1) /\ IsFiniteSet(C2)
  BY <1>6, <1>7, <1>8, FS_Subset
<1>11. Cardinality(C1) \in Nat /\ Cardinality(C2) \in Nat
  BY <1>10, FS_CardinalityType
<1>12. Cardinality(A \cup B) = Cardinality(A) + Cardinality(B)
  BY <1>5, <1>6, DisjointUnion
<1>13. Cardinality(C1 \cup C2) = Cardinality(C1) + Cardinality(C2)
  BY <1>9, <1>10, DisjointUnion
<1>14. CardsIn(Offered) = Cardinality(A) + Cardinality(B) + Cardinality(C1) + Cardinality(C2)
  <2>1. Cardinality(Offered) = Cardinality(A) + Cardinality(B)
    BY <1>5, <1>12
  <2>2. Cardinality(Offered \cap Twice) = Cardinality(C1) + Cardinality(C2)
    BY <1>9, <1>13
  <2>3. CardsIn(Offered) = Cardinality(Offered) + Cardinality(Offered \cap Twice)
    BY DEF CardsIn
  <2> QED
    BY <1>6, <1>11, <2>1, <2>2, <2>3
<1>15. CardsIn(SameSuit) = Cardinality(A) + Cardinality(C1)
       /\ CardsIn(OffSuit) = Cardinality(B) + Cardinality(C2)
  BY <1>3, <1>4, <1>7, <1>8 DEF CardsIn
<1> QED
  BY <1>1, <1>2, <1>6, <1>11, <1>14, <1>15

\* A lead has at most half as many pairs as cards.
LEMMA PairsLed ==
  ASSUME FollowBase
  PROVE  2 * PairFloor(Own, lead) <= exact /\ PairFloor(Own, lead) <= Cardinality(PairFaces(Own))
<1>0. lead \in SUBSET Card /\ IsFiniteSet(lead) /\ exact = Cardinality(lead)
  BY FollowKnown DEF LeadKnown
<1>1. /\ IsFiniteSet(FacesOf(lead)) /\ IsFiniteSet(PairFaces(lead))
      /\ exact = Cardinality(FacesOf(lead)) + Cardinality(PairFaces(lead))
  BY <1>0, FacesCounted
<1>2. PairFaces(lead) \in SUBSET FacesOf(lead)
  BY DEF PairFaces
<1>3. Cardinality(PairFaces(lead)) <= Cardinality(FacesOf(lead))
  BY <1>1, <1>2, FS_Subset
<1>4. Cardinality(PairFaces(lead)) \in Nat /\ Cardinality(FacesOf(lead)) \in Nat
      /\ Cardinality(PairFaces(Own)) \in Nat
  BY <1>1, OwnKnown, FS_CardinalityType
<1> QED
  BY <1>1, <1>3, <1>4 DEF PairFloor

LEMMA SomeFitOfSuit ==
  ASSUME FollowBase, Required = exact
  PROVE  Fits(<< >>)
<1> DEFINE s == Cardinality(SameSuit)
           p == Cardinality(PairFaces(Own))
           floor == PairFloor(Own, lead)
           k == IF floor >= exact - s THEN floor ELSE exact - s
<1>0. /\ Base /\ CardsKnown /\ exact \in Nat /\ SameSuit \subseteq Offered /\ IsFiniteSet(SameSuit)
      /\ PairFaces(Own) = SameSuit \cap Twice /\ floor \in Nat /\ Target = exact
  BY FollowKnown
<1>1. Ahead(<< >>) = SameSuit
  BY <1>0, NothingSelected DEF Ahead
<1>2. s \in Nat /\ p \in Nat /\ p <= s
  <2>1. PairFaces(Own) \in SUBSET SameSuit
    BY <1>0
  <2>2. p <= s
    BY <1>0, <2>1, FS_Subset
  <2> QED
    BY <1>0, <2>2, OwnKnown, FS_CardinalityType
<1>3. exact <= s + p
  <2>1. Cardinality(Own) = s + p
    BY <1>0, OwnCounts
  <2>2. exact <= Cardinality(Own)
    BY <1>0, <1>2, <2>1 DEF Required, RequiredOfSuit, Own, Target
  <2> QED
    BY <2>1, <2>2
<1>4. 2 * floor <= exact /\ floor <= p
  BY PairsLed
<1> HIDE DEF s, p, floor
<1>5. k \in Nat /\ floor <= k /\ k <= p /\ 2 * k <= exact /\ exact - k <= s
  BY <1>0, <1>2, <1>3, <1>4
<1> HIDE DEF k
<1>6. PICK P : /\ ValidPairs(Own, lead, P, SpaceTrump) /\ P \in SUBSET PairFaces(Own)
               /\ IsFiniteSet(P) /\ Cardinality(P) = k
  BY <1>5, PairsOfEverySize DEF floor, p
<1>7. \E T : T \in SUBSET SameSuit /\ P \in SUBSET T /\ IsFiniteSet(T) /\ Cardinality(T) = exact - k
  <2>1. PICK rest : rest = SameSuit \ P
    OBVIOUS
  <2>2. IsFiniteSet(rest) /\ Cardinality(rest) = s - k
    <3>1. P \in SUBSET SameSuit
      BY <1>0, <1>6
    <3>2. SameSuit = P \cup rest /\ P \cap rest = {} /\ IsFiniteSet(rest)
      BY <1>0, <2>1, <3>1, FS_Subset
    <3>3. Cardinality(P \cup rest) = Cardinality(P) + Cardinality(rest)
      BY <1>6, <3>2, DisjointUnion
    <3>4. Cardinality(rest) \in Nat
      BY <3>2, FS_CardinalityType
    <3> QED
      BY <1>2, <1>5, <1>6, <3>2, <3>3, <3>4 DEF s
  <2>3. exact - 2 * k \in Nat /\ exact - 2 * k <= Cardinality(rest)
    BY <1>0, <1>2, <1>5, <2>2
  <2>4. PICK Q \in SUBSET rest : IsFiniteSet(Q) /\ Cardinality(Q) = exact - 2 * k
    BY <2>2, <2>3, SubsetOfSize
  <2>5. P \cap Q = {} /\ P \cup Q \in SUBSET SameSuit
    BY <1>0, <1>6, <2>1
  <2>6. IsFiniteSet(P \cup Q) /\ Cardinality(P \cup Q) = k + (exact - 2 * k)
    BY <1>6, <2>4, <2>5, DisjointUnion
  <2>7. k + (exact - 2 * k) = exact - k
    BY <1>0, <1>5
  <2> QED
    BY <2>5, <2>6, <2>7
<1>8. PICK T : T \in SUBSET SameSuit /\ P \in SUBSET T /\ Cardinality(T) = exact - k
  BY <1>7
<1>9. P \in SUBSET (T \cap Twice) /\ T \in SUBSET Ahead(<< >>)
  BY <1>0, <1>1, <1>6, <1>8
<1>10. Weight(DOMAIN << >>, << >>) = 0 /\ SelectedPairs(<< >>) \cup P = P
  BY <1>0, NothingSelected
<1>11. 0 + (Cardinality(T) + Cardinality(P)) = exact
  BY <1>0, <1>5, <1>6, <1>8
<1>12. Fit(<< >>, T, P)
  BY <1>6, <1>10, <1>11 DEF Fit
<1> QED
  BY <1>9, <1>12 DEF Fits

LEMMA SomeFollow ==
  ASSUME FollowBase
  PROVE  Continues(<< >>)
<1>0. /\ Base /\ CardsKnown /\ exact \in Nat /\ Required \in Nat /\ Required <= exact
  BY FollowKnown
<1>1. Selection(<< >>) /\ DOMAIN << >> = {}
  BY <1>0, NothingSelected
<1>2. CASE Required = exact
  BY <1>1, <1>2, SomeFitOfSuit, FollowContinues
<1>3. CASE Required # exact
  <2>1. Required = Cardinality(Own) /\ Cardinality(hand) >= exact /\ Cardinality(hand) \in Nat
    BY <1>0, <1>3, MovesExhausting, CardsOfHand, FollowKnown DEF LeadKnown
  <2>2. OffLeft(<< >>) = exact - Required
    BY <1>0, NothingSelected DEF OffLeft
  <2>3. OffAhead(<< >>) = OffSuit
    BY <1>0, NothingSelected DEF OffAhead, OffSuit
  <2>4. CardsIn(OffSuit) = Cardinality(hand) - Required
    BY <2>1, CardsOffSuit
  <2>5. NoneSkipped(<< >>)
    BY EmptySelection DEF NoneSkipped
  <2>6. 0 <= OffLeft(<< >>) /\ OffLeft(<< >>) <= CardsIn(OffAhead(<< >>))
    BY <1>0, <2>1, <2>2, <2>3, <2>4
  <2> QED
    BY <1>1, <1>3, <2>5, <2>6, ExhaustingContinues
<1> QED
  BY <1>2, <1>3

LEMMA SomeDiscard ==
  ASSUME Base, query = "discard", exact \in Nat, Cardinality(hand) >= exact
  PROVE  Continues(<< >>)
<1>1. Selection(<< >>) /\ Weight(DOMAIN << >>, << >>) = 0 /\ Open(<< >>) = Offered
  BY NothingSelected
<1>2. Cardinality(hand) = CardsIn(Offered) /\ Cardinality(hand) \in Nat
  BY CardsOfHand DEF Base
<1> QED
  BY <1>1, <1>2, DiscardContinues

LEMMA SomeLead ==
  ASSUME Base, query = "lead_play", hand # {}
  PROVE  Continues(<< >>)
<1>0. CardsKnown
  BY DEF Base
<1>1. PICK f : f \in Offered
  BY DEF Offered, FacesOf
<1>2. PICK m : m = [g \in {f} |-> 1]
  OBVIOUS
<1>3. DOMAIN m = {f} /\ m[f] = 1 /\ Count(f) \in {1, 2}
  BY <1>0, <1>1, <1>2, OfferedCounts
<1>4. Selection(m)
  BY <1>1, <1>2, <1>3 DEF Selection
<1>5. m \in Moves
  BY <1>0, <1>3, <1>4, MovesLead
<1>6. Completion(<< >>, m)
  BY EmptySelection DEF Completion
<1> QED
  BY <1>5, <1>6, ContinuesIs

---------------------------------------------------------------------------
(* From what is selected to a legal move, and back                         *)

LEMMA OneKeyPerFace ==
  ASSUME NEW f \in Faces, NEW g \in Faces, FaceKey(f) = FaceKey(g)
  PROVE  f = g
<1>1. /\ f.rank \in 2..16 /\ f.suit \in {"hearts", "spades", "diamonds", "clubs", "joker"}
      /\ f = [suit |-> f.suit, rank |-> f.rank]
  BY DEF Faces, Suits, SuitedRanks, SmallJoker, BigJoker
<1>2. /\ g.rank \in 2..16 /\ g.suit \in {"hearts", "spades", "diamonds", "clubs", "joker"}
      /\ g = [suit |-> g.suit, rank |-> g.rank]
  BY DEF Faces, Suits, SuitedRanks, SmallJoker, BigJoker
<1>3. /\ FaceKey(f) = 100 * SuitPosition[f.suit] + f.rank
      /\ FaceKey(g) = 100 * SuitPosition[g.suit] + g.rank
  BY DEF FaceKey
<1>4. SuitPosition[f.suit] \in 0..4 /\ SuitPosition[g.suit] \in 0..4
  BY <1>1, <1>2 DEF SuitPosition
<1>5. SuitPosition[f.suit] = SuitPosition[g.suit] /\ f.rank = g.rank
  <2>1. PICK p, q \in 0..4 : p = SuitPosition[f.suit] /\ q = SuitPosition[g.suit]
    BY <1>4
  <2>2. PICK x, y \in 2..16 : x = f.rank /\ y = g.rank
    BY <1>1, <1>2
  <2>3. 100 * p + x = 100 * q + y
    BY <1>3, <2>1, <2>2
  <2>4. p = q /\ x = y
    BY ONLY <2>3
  <2> QED
    BY <2>1, <2>2, <2>4
<1>6. f.suit = g.suit
  BY <1>1, <1>2, <1>5 DEF SuitPosition
<1> QED
  BY <1>1, <1>2, <1>5, <1>6

LEMMA SameSelection ==
  ASSUME NEW a, NEW b, Selection(a), Selection(b), DOMAIN a = DOMAIN b,
         \A f \in DOMAIN a : a[f] = b[f]
  PROVE  a = b
BY DEF Selection

\* A move that goes on is reached by one more choice.
LEMMA NextChoice ==
  ASSUME Base, NEW sel, Selection(sel), NEW m, Selection(m), Completion(sel, m), m # sel
  PROVE  \E f \in Offered : \E n \in {1, 2} : \E next :
           Chosen(sel, f, n, next) /\ Completion(next, m)
<1>0. CardsKnown
  BY DEF Base
<1>1. \A f \in Offered : FaceKey(f) \in Nat /\ f \in Faces
  BY <1>0, OfferedCounts, FaceKeyType
<1>2. PICK rest : rest = DOMAIN m \ DOMAIN sel
  OBVIOUS
<1>3. rest # {}
  <2> SUFFICES ASSUME rest = {} PROVE FALSE
    OBVIOUS
  <2>1. DOMAIN m = DOMAIN sel /\ \A f \in DOMAIN m : m[f] = sel[f]
    BY <1>2 DEF Completion
  <2> QED
    BY <2>1, SameSelection
<1>4. rest \subseteq Offered
  BY <1>2 DEF Selection
<1>5. PICK v : v = [f \in rest |-> FaceKey(f)]
  OBVIOUS
<1>6. \A f \in rest : v[f] \in Nat
  BY <1>1, <1>4, <1>5
<1>7. PICK f \in rest : \A g \in rest : v[f] <= v[g]
  BY <1>3, <1>6, LeastOf
<1>8. PICK n : n = m[f]
  OBVIOUS
<1>9. PICK next : next = Extended(sel, f, n)
  OBVIOUS
<1>10. f \in Offered /\ n \in {1, 2} /\ n <= Count(f) /\ After(sel, f)
  BY <1>2, <1>4, <1>8 DEF Selection, Completion
<1>11. Chosen(sel, f, n, next)
  BY <1>9, <1>10 DEF Chosen
<1>12. DOMAIN next = DOMAIN sel \cup {f} /\ next[f] = n /\ \A g \in DOMAIN sel : next[g] = sel[g]
  BY <1>2, <1>9 DEF Extended
<1>13. Completion(next, m)
  <2>1. DOMAIN next \subseteq DOMAIN m /\ \A g \in DOMAIN next : m[g] = next[g]
    BY <1>2, <1>8, <1>12 DEF Completion
  <2>2. ASSUME NEW g \in DOMAIN m \ DOMAIN next PROVE After(next, g)
    <3>1. g \in rest /\ g # f /\ After(sel, g)
      BY <1>2, <1>12 DEF Completion
    <3>2. FaceKey(f) <= FaceKey(g)
      BY <1>5, <1>7, <3>1
    <3>3. FaceKey(f) # FaceKey(g)
      BY <1>1, <1>4, <3>1, OneKeyPerFace
    <3>4. FaceKey(g) > FaceKey(f)
      BY <1>1, <1>4, <3>1, <3>2, <3>3
    <3> QED
      BY <1>12, <3>1, <3>4 DEF After
  <2> QED
    BY <2>1, <2>2 DEF Completion
<1> QED
  BY <1>10, <1>11, <1>13

\* Two choices lead to two moves.
LEMMA ChoicesDiffer ==
  ASSUME Base, NEW sel, NEW f, NEW n, NEW a, Chosen(sel, f, n, a),
         NEW g, NEW k, NEW b, Chosen(sel, g, k, b), NEW m, Completion(a, m), Completion(b, m)
  PROVE  f = g /\ n = k
<1>0. Base /\ Chosen(sel, f, n, a)
  OBVIOUS
<1>1. /\ DOMAIN a = DOMAIN sel \cup {f} /\ f \notin DOMAIN sel /\ a[f] = n
      /\ f \in Offered
  <2>1. DOMAIN a = DOMAIN sel \cup {f}
    BY ONLY <1>0, ChosenSelection
  <2>2. f \notin DOMAIN sel
    BY ONLY <1>0, ChosenSelection
  <2>3. a[f] = n /\ f \in Offered
    BY DEF Chosen, Extended
  <2> QED
    BY <2>1, <2>2, <2>3
<1>2. DOMAIN b = DOMAIN sel \cup {g} /\ g \notin DOMAIN sel /\ b[g] = k /\ g \in Offered
  BY ChosenSelection
<1>3. FaceKey(f) \in Nat /\ FaceKey(g) \in Nat
  BY <1>1, <1>2, OfferedCounts, FaceKeyType DEF Base
<1>4. ASSUME f # g PROVE FALSE
  <2>1. FaceKey(g) > FaceKey(f)
    BY <1>1, <1>2, <1>4 DEF Completion, After
  <2>2. FaceKey(f) > FaceKey(g)
    BY <1>1, <1>2, <1>4 DEF Completion, After
  <2> QED
    BY <1>3, <2>1, <2>2
<1>5. m[f] = n /\ m[g] = k
  BY <1>1, <1>2 DEF Completion
<1> QED
  BY <1>4, <1>5

\* A completion is all there is when nothing is left to choose.
LEMMA CompleteIsSame ==
  ASSUME Base, NEW next, Selection(next), NEW m, Selection(m), Completion(next, m),
         Weight(DOMAIN m, m) = Weight(DOMAIN next, next)
  PROVE  m = next
<1>1. PICK T : T = DOMAIN m \ DOMAIN next
  OBVIOUS
<1>2. PICK P : P = Twos(T, m)
  OBVIOUS
<1>3. Split(next, m, T, P)
  BY <1>1, <1>2 DEF Split
<1>4. T \in SUBSET Open(next) /\ P \in SUBSET (T \cap Twice) /\ CardsKnown
  BY <1>3, Splits DEF Base
<1>5. Held(m, Offered) = Held(next, Offered) + Adds(T, P, Offered)
  BY <1>3, SplitsWeight
<1>6. /\ DOMAIN m \cap Offered = DOMAIN m /\ DOMAIN next \cap Offered = DOMAIN next
      /\ T \cap Offered = T /\ P \cap Offered = P
  BY <1>4 DEF Selection, Open
<1>7. IsFiniteSet(T) /\ IsFiniteSet(P)
  BY <1>4, OpenFaces, FS_Subset
<1>8. Cardinality(T) \in Nat /\ Cardinality(P) \in Nat /\ Weight(DOMAIN next, next) \in Nat
  BY <1>7, FS_CardinalityType, WidthIs
<1>9. Cardinality(T) = 0
  BY <1>5, <1>6, <1>8 DEF Held, Adds
<1>10. T = {}
  BY <1>7, <1>9, FS_EmptySet
<1>11. DOMAIN m = DOMAIN next /\ \A f \in DOMAIN m : m[f] = next[f]
  BY <1>1, <1>10 DEF Completion
<1> QED
  BY <1>11, SameSelection

LEMMA MovesSelected ==
  ASSUME CardsKnown, NEW m \in Moves
  PROVE  Selection(m)
BY MovesAre, CountsSelected

LEMMA MovesFinite ==
  ASSUME CardsKnown
  PROVE  IsFiniteSet(Moves)
<1> DEFINE legal == {m \in SUBSET hand : Legal(m)}
           of == [cards \in legal |-> CountsOf(cards)]
<1>1. IsFiniteSet(SUBSET hand)
  BY FS_SUBSET DEF CardsKnown
<1>2. IsFiniteSet(legal)
  BY <1>1, FS_Subset
<1>3. Moves = {CountsOf(cards) : cards \in legal}
  BY DEF Moves
<1> HIDE DEF legal
<1>4. of \in Surjection(legal, Moves)
  BY <1>3 DEF Surjection
<1> HIDE DEF of
<1> QED
  BY <1>2, <1>4, FS_Surjection

LEMMA MaskFinite ==
  ASSUME CardsKnown
  PROVE  IsFiniteSet(Mask) /\ Mask \subseteq CardChoices \cup {Pass, Finish}
<1> DEFINE all == Offered \X {1, 2}
           of == [x \in all |-> [face |-> x[1], count |-> x[2]]]
<1>1. IsFiniteSet(Offered) /\ IsFiniteSet({1, 2})
  <2>1. IsFiniteSet({1} \cup {2})
    BY FS_Singleton, FS_AddElement
  <2>2. {1} \cup {2} = {1, 2}
    OBVIOUS
  <2> QED
    BY <2>1, <2>2, OfferedCounts
<1>2. IsFiniteSet(all)
  BY <1>1, FS_Product
<1>3. of \in Surjection(all, CardChoices)
  <2>1. \A x \in all : of[x] \in CardChoices
    BY DEF CardChoices
  <2>2. \A c \in CardChoices : \E x \in all : of[x] = c
    <3> TAKE c \in CardChoices
    <3>1. c = [face |-> c.face, count |-> c.count] /\ c.face \in Offered /\ c.count \in {1, 2}
      BY DEF CardChoices
    <3>2. <<c.face, c.count>> \in all
      BY <3>1
    <3> QED
      BY <3>1, <3>2
  <2> QED
    BY <2>1, <2>2 DEF Surjection
<1>4. IsFiniteSet(CardChoices)
  <2> HIDE DEF all, of
  <2> QED
    BY <1>2, <1>3, FS_Surjection
<1>5. IsFiniteSet(CardChoices \cup {Pass, Finish})
  <2>1. IsFiniteSet((CardChoices \cup {Pass}) \cup {Finish})
    BY <1>4, FS_AddElement
  <2>2. (CardChoices \cup {Pass}) \cup {Finish} = CardChoices \cup {Pass, Finish}
    OBVIOUS
  <2> QED
    BY <2>1, <2>2
<1>6. \A c \in BidSpace \cup StirSpace : c \in CardChoices
  BY DEF BidSpace, StirSpace, Reveals, RevealChoices, CardChoices
<1>7. Mask \subseteq CardChoices \cup {Pass, Finish}
  BY <1>6 DEF Mask, TraceChoices
<1> QED
  BY <1>5, <1>7, FS_Subset

---------------------------------------------------------------------------
(* What the mask offers, move by move                                      *)

Playing == query \in {"discard", "lead_play", "follow_play"}
Deciding == DecisionInv /\ ~BreaksUnseen /\ query \in Kinds /\ ~Done
Choice(f, n) == [face |-> f, count |-> n]
TwoMoves == \E m1, m2 \in Moves : m1 # m2

LEMMA EndsApart ==
  /\ Pass # Finish /\ Pass \notin CardChoices /\ Finish \notin CardChoices
  /\ \A f, n : Choice(f, n) = Choice(f, n) /\ Choice(f, n).face = f /\ Choice(f, n).count = n
  /\ \A c \in CardChoices : c = Choice(c.face, c.count) /\ c.face \in Offered /\ c.count \in {1, 2}
<1>1. Pass.face.suit = "pass" /\ Finish.face.suit = "finish" /\ Pass.count = 0 /\ Finish.count = 0
  BY DEF Pass, Finish
<1>2. Pass # Finish
  BY <1>1
<1>3. \A c \in CardChoices : c = Choice(c.face, c.count) /\ c.face \in Offered /\ c.count \in {1, 2}
  BY DEF CardChoices, Choice
<1>4. Pass \notin CardChoices /\ Finish \notin CardChoices
  BY <1>1, <1>3
<1> QED
  BY <1>2, <1>3, <1>4 DEF Choice

LEMMA DecidingKnown ==
  ASSUME Deciding
  PROVE  /\ Base /\ CardsKnown /\ Selection(prefix) /\ (Revealing <=> ~Playing)
         /\ Revealing => prefix = << >>
         /\ query \in {"discard", "follow_play"} => exact \in Nat /\ WidthOf(prefix) < exact
<1>1. query \in Kinds /\ DecisionInv /\ ~Done
  BY DEF Deciding
<1> QED
  BY <1>1, DecisionBase DEF Kinds, Revealing, Playing

LEMMA MaskEnds ==
  ASSUME Deciding
  PROVE  /\ Pass \in Mask <=> Revealing
         /\ Finish \in Mask <=> query = "lead_play" /\ prefix \in Moves
<1>1. /\ Pass \in Mask <=> query \in {"bid", "stir"}
      /\ Finish \in Mask <=> query = "lead_play" /\ prefix \in Moves
  <2>1. Mask = {c \in Possible : Continues(Extended(prefix, c.face, c.count))}
                 \cup {c \in {Pass} : query \in {"bid", "stir"}}
                 \cup {c \in {Finish} : prefix \in Moves /\ query = "lead_play"}
    BY MaskExact DEF Deciding, MaskIsExact
  <2>2. Pass \notin Possible /\ Finish \notin Possible
    BY EndsApart DEF Possible
  <2> DEFINE cards == {c \in Possible : Continues(Extended(prefix, c.face, c.count))}
  <2>3. Pass \notin cards /\ Finish \notin cards
    BY <2>2
  <2> HIDE DEF cards
  <2> QED
    BY <2>1, <2>3, EndsApart DEF cards
<1> QED
  BY <1>1 DEF Revealing

LEMMA MaskCards ==
  ASSUME Deciding, NEW f, NEW n, NEW next, Chosen(prefix, f, n, next)
  PROVE  Choice(f, n) \in Mask <=> Continues(next)
<1>1. Mask = {c \in Possible : Continues(Extended(prefix, c.face, c.count))}
               \cup {c \in {Pass} : query \in {"bid", "stir"}}
               \cup {c \in {Finish} : prefix \in Moves /\ query = "lead_play"}
  BY MaskExact DEF Deciding, MaskIsExact
<1>2. /\ f \in Offered /\ n \in {1, 2} /\ n <= Count(f) /\ After(prefix, f)
      /\ next = Extended(prefix, f, n)
  BY DEF Chosen
<1>3. PICK c : c = Choice(f, n)
  OBVIOUS
<1>4. c.face = f /\ c.count = n /\ c \in CardChoices
  BY <1>2, <1>3 DEF Choice, CardChoices
<1>5. c \in Possible
  BY <1>2, <1>4 DEF Possible
<1>6. c # Pass /\ c # Finish
  BY <1>4, EndsApart
<1>7. c \in Mask <=> Continues(Extended(prefix, c.face, c.count))
  BY <1>1, <1>5, <1>6
<1> QED
  BY <1>2, <1>3, <1>4, <1>7

LEMMA MaskChosen ==
  ASSUME Deciding, NEW c \in Mask, c \notin {Pass, Finish}
  PROVE  \E f \in Offered : \E n \in {1, 2} : \E next :
           /\ c = Choice(f, n) /\ Chosen(prefix, f, n, next) /\ Continues(next)
           /\ next = Extended(prefix, c.face, c.count)
<1>0. CardsKnown
  BY DecidingKnown
<1>1. PICK next : next = Extended(prefix, c.face, c.count)
  OBVIOUS
<1>2. c \in CardChoices
  BY <1>0, MaskFinite
<1>3. PICK f \in Offered : f = c.face
  BY <1>2, EndsApart
<1>4. PICK n \in {1, 2} : n = c.count
  BY <1>2, EndsApart
<1>5. Chosen(prefix, c.face, c.count, next)
  BY <1>1, MaskChoices DEF Deciding
<1>6. c = Choice(f, n)
  BY <1>2, <1>3, <1>4, EndsApart
<1>7. Chosen(prefix, f, n, next)
  BY <1>3, <1>4, <1>5
<1>8. Continues(next)
  BY <1>6, <1>7, MaskCards
<1> QED
  BY <1>1, <1>6, <1>7, <1>8

\* A move that goes on is reached through the mask.
LEMMA MaskReaches ==
  ASSUME Deciding, NEW m \in Moves, Completion(prefix, m), m # prefix
  PROVE  \E f \in Offered : \E n \in {1, 2} : \E next :
           Choice(f, n) \in Mask /\ Chosen(prefix, f, n, next) /\ Completion(next, m)
<1>1. Base /\ CardsKnown /\ Selection(prefix) /\ Selection(m)
  BY DecidingKnown, MovesSelected
<1>2. PICK f \in Offered : \E n \in {1, 2} : \E next :
        Chosen(prefix, f, n, next) /\ Completion(next, m)
  BY <1>1, NextChoice
<1>3. PICK n \in {1, 2} : \E next : Chosen(prefix, f, n, next) /\ Completion(next, m)
  BY <1>2
<1>4. PICK next : Chosen(prefix, f, n, next) /\ Completion(next, m)
  BY <1>3
<1>5. Continues(next)
  BY <1>4, ContinuesIs
<1> QED
  BY <1>4, <1>5, MaskCards

LEMMA MoveWidth ==
  ASSUME DecisionInv, query \in {"discard", "follow_play"}, NEW m \in Moves
  PROVE  Weight(DOMAIN m, m) = exact
<1>0. Base /\ CardsKnown /\ (query = "follow_play" => LeadKnown)
  BY DecisionBase DEF Kinds, FollowBase
<1>1. CASE query = "discard"
  BY <1>0, <1>1, MovesDiscard
<1>2. CASE query = "follow_play"
  BY <1>0, <1>2, MovesFollow DEF FollowCounts
<1> QED
  BY <1>1, <1>2

\* Only a lead is a move before it is decided.
LEMMA ShortOfMove ==
  ASSUME Deciding, NEW m \in Moves, m = prefix
  PROVE  query = "lead_play"
<1>0. Base /\ CardsKnown /\ Selection(prefix) /\ (Revealing <=> ~Playing) /\ DecisionInv
  BY DecidingKnown DEF Deciding
<1>1. ASSUME query \in {"discard", "follow_play"} PROVE FALSE
  <2>1. exact \in Nat /\ WidthOf(prefix) < exact
    BY <1>1, DecidingKnown
  <2>2. WidthOf(prefix) = Weight(DOMAIN prefix, prefix)
    BY <1>0, WidthIs
  <2> QED
    BY <1>0, <1>1, <2>1, <2>2, MoveWidth
<1>2. ASSUME Revealing PROVE FALSE
  <2>1. PICK g, k : m = Extended(<< >>, g, k)
    BY <1>0, <1>2, MovesReveal
  <2>2. DOMAIN m = {g} /\ prefix = << >>
    BY <1>2, <2>1, OneIs, DecidingKnown
  <2> QED
    BY <2>2, EmptySelection
<1> QED
  BY <1>0, <1>1, <1>2 DEF Playing

LEMMA TwoChoices ==
  ASSUME Deciding, Playing, NEW c \in Mask, NEW e \in Mask, c # e
  PROVE  TwoMoves
<1>0. Base /\ ~Revealing /\ Pass \notin Mask
  BY DecidingKnown, MaskEnds
<1>1. ASSUME NEW x \in Mask, x # Finish, Finish \in Mask PROVE TwoMoves
  <2>2. PICK f, n, next : Chosen(prefix, f, n, next) /\ Continues(next)
    BY <1>0, <1>1, MaskChosen
  <2>3. PICK m \in Moves : Completion(next, m)
    BY <2>2, ContinuesIs
  <2>4. f \notin DOMAIN prefix /\ DOMAIN next = DOMAIN prefix \cup {f}
    BY <1>0, <2>2, ChosenSelection
  <2>5. m # prefix
    BY <2>3, <2>4 DEF Completion
  <2>6. prefix \in Moves
    BY <1>1, MaskEnds
  <2> QED
    BY <2>5, <2>6 DEF TwoMoves
<1>2. ASSUME c # Finish, e # Finish PROVE TwoMoves
  <2>1. PICK f, n, a : c = Choice(f, n) /\ Chosen(prefix, f, n, a) /\ Continues(a)
    BY <1>0, <1>2, MaskChosen
  <2>2. PICK g, k, b : e = Choice(g, k) /\ Chosen(prefix, g, k, b) /\ Continues(b)
    BY <1>0, <1>2, MaskChosen
  <2>3. PICK m1 \in Moves : Completion(a, m1)
    BY <2>1, ContinuesIs
  <2>4. PICK m2 \in Moves : Completion(b, m2)
    BY <2>2, ContinuesIs
  <2>5. ~(f = g /\ n = k)
    BY <2>1, <2>2
  <2>6. Chosen(prefix, f, n, a) /\ Chosen(prefix, g, k, b)
    BY <2>1, <2>2
  <2>7. ASSUME m1 = m2 PROVE FALSE
    <3>1. Completion(a, m1) /\ Completion(b, m1)
      BY <2>3, <2>4, <2>7
    <3>2. f = g /\ n = k
      BY <1>0, <2>6, <3>1, ChoicesDiffer
    <3> QED
      BY <2>5, <3>2
  <2> QED
    BY <2>7 DEF TwoMoves
<1> QED
  BY <1>1, <1>2

---------------------------------------------------------------------------
(* Forced choices and what a finished decision is worth                    *)

\* Sel is selected and the decision ended or not; each choice so far was the
\* only one or not.
DoneAt(sel, end) ==
  \/ end
  \/ Revealing /\ sel # << >>
  \/ query \in {"discard", "follow_play"} /\ WidthOf(sel) = exact
Undecided(sel, only) ==
  IF Revealing THEN sel = << >> /\ only
  ELSE Continues(sel) /\ (only => \A m \in Moves : Completion(sel, m))
Decided(sel, end, only) ==
  /\ IF Revealing /\ end THEN sel = << >> ELSE sel \in Moves /\ (end <=> query = "lead_play")
  /\ only => Moves = IF Revealing THEN {} ELSE {sel}
StandAt(sel, end, only) ==
  /\ ~DoneAt(sel, end) => Undecided(sel, only)
  /\ DoneAt(sel, end) => Decided(sel, end, only)
  /\ ~only => IF Revealing THEN Moves # {} ELSE TwoMoves

LEMMA FirstStands ==
  ASSUME Base, query \in Kinds, query = "follow_play" => FollowBase,
         query = "discard" => exact \in Nat /\ exact # 0 /\ Cardinality(hand) >= exact,
         query = "lead_play" => hand # {}
  PROVE  StandAt(<< >>, FALSE, TRUE)
<1>1. /\ Weight(DOMAIN << >>, << >>) = 0 /\ Selection(<< >>)
      /\ \A m : Completion(<< >>, m)
  BY NothingSelected, EmptySelection DEF Completion
<1>2. WidthOf(<< >>) = 0
  BY <1>1, WidthIs
<1>3. query = "follow_play" => exact \in Nat /\ exact # 0
  BY FollowKnown
<1>4. ~DoneAt(<< >>, FALSE)
  BY <1>2, <1>3 DEF DoneAt
<1>5. ~Revealing => Continues(<< >>)
  BY SomeFollow, SomeDiscard, SomeLead DEF Kinds, Revealing
<1>6. Undecided(<< >>, TRUE)
  BY <1>1, <1>5 DEF Undecided
<1> QED
  BY <1>4, <1>6 DEF StandAt

\* Whether the mask has one choice, and what that says of the moves.
LEMMA OnlyChoice ==
  ASSUME Deciding, NEW c \in Mask
  PROVE  Cardinality(Mask) = 1 <=> Mask = {c}
<1>1. IsFiniteSet(Mask)
  BY MaskFinite, DecidingKnown
<1>2. PICK S : S = Mask
  OBVIOUS
<1>3. Cardinality(S) = 1 <=> \E x : S = {x}
  BY <1>1, <1>2, FS_Singleton
<1>4. c \in S
  BY <1>2
<1>5. Cardinality(S) = 1 <=> S = {c}
  BY <1>3, <1>4
<1> QED
  BY <1>2, <1>5

LEMMA StillOnly ==
  ASSUME Deciding, StandAt(prefix, ended, forced), NEW c \in Mask
  PROVE  /\ StillForced(Mask) <=> forced /\ Mask = {c}
         /\ ~StillForced(Mask) /\ Playing => TwoMoves
         /\ StillForced(Mask) /\ Playing => \A m \in Moves : Completion(prefix, m)
<1>0. /\ ~DoneAt(prefix, ended) /\ Undecided(prefix, forced) /\ (Revealing <=> ~Playing)
      /\ ~forced /\ Playing => TwoMoves
  <2>1. ~DoneAt(prefix, ended)
    BY DEF Deciding, Done, DoneAt, Revealing
  <2>2. Revealing <=> ~Playing
    BY DecidingKnown
  <2> QED
    BY <2>1, <2>2 DEF StandAt
<1>1. StillForced(Mask) <=> forced /\ Mask = {c}
  BY OnlyChoice DEF StillForced
<1>2. ASSUME ~StillForced(Mask), Playing PROVE TwoMoves
  <2>1. CASE ~forced
    BY <1>0, <1>2, <2>1
  <2>2. CASE Mask # {c}
    <3>1. PICK e \in Mask : e # c
      BY <2>2
    <3> QED
      BY <1>2, <3>1, TwoChoices
  <2> QED
    BY <1>1, <1>2, <2>1, <2>2
<1> QED
  BY <1>0, <1>1, <1>2 DEF Undecided

\* A card is chosen.
LEMMA CardStands ==
  ASSUME Deciding, StandAt(prefix, ended, forced), NEW c \in Mask, c \notin {Pass, Finish},
         NEW next, next = Extended(prefix, c.face, c.count)
  PROVE  StandAt(next, FALSE, StillForced(Mask))
<1>0. Base /\ CardsKnown /\ Selection(prefix) /\ (Revealing <=> ~Playing)
      /\ (Revealing => prefix = << >>)
  BY DecidingKnown
<1>1. PICK f, n : c = Choice(f, n) /\ Chosen(prefix, f, n, next) /\ Continues(next)
  BY MaskChosen
<1>2. /\ StillForced(Mask) <=> forced /\ Mask = {c}
      /\ ~StillForced(Mask) /\ Playing => TwoMoves
      /\ StillForced(Mask) /\ Playing => \A m \in Moves : Completion(prefix, m)
  BY StillOnly
<1>3. Selection(next) /\ DOMAIN next = DOMAIN prefix \cup {f} /\ f \notin DOMAIN prefix
  <2>1. Base /\ Chosen(prefix, f, n, next)
    BY <1>0, <1>1
  <2> QED
    BY ONLY <2>1, ChosenSelection
<1>4. PICK m0 \in Moves : Completion(next, m0)
  BY <1>1, ContinuesIs
<1>5. ASSUME Revealing PROVE StandAt(next, FALSE, StillForced(Mask))
  <2>1. prefix = << >>
    BY <1>0, <1>5
  <2>2. next # << >>
    BY <1>3, EmptySelection
  <2>3. DoneAt(next, FALSE)
    BY <1>5, <2>2 DEF DoneAt
  <2>4. ~StillForced(Mask)
    BY <1>2, <1>5, MaskEnds
  <2>5. next \in Moves
    <3>1. PICK g \in Offered, k \in {1, 2} : m0 = Extended(<< >>, g, k)
      BY <1>0, <1>5, MovesReveal
    <3>2. DOMAIN m0 = {g} /\ m0[g] = k
      BY <3>1, OneIs
    <3>3. next = Extended(<< >>, f, n)
      BY <1>1, <2>1 DEF Chosen
    <3>4. DOMAIN next = {f} /\ next[f] = n
      BY <3>3, OneIs
    <3>5. f = g /\ n = k
      BY <1>4, <3>2, <3>4 DEF Completion
    <3> QED
      BY <3>1, <3>3, <3>5
  <2>6. query # "lead_play"
    BY <1>5 DEF Revealing
  <2> QED
    BY <1>5, <2>3, <2>4, <2>5, <2>6 DEF StandAt, Decided
<1>6. ASSUME Playing PROVE StandAt(next, FALSE, StillForced(Mask))
  <2>1. ~Revealing
    BY <1>0, <1>6
  <2>2. ASSUME StillForced(Mask), NEW m \in Moves PROVE Completion(next, m)
    <3>1. Completion(prefix, m) /\ Mask = {c}
      BY <1>2, <1>6, <2>2
    <3>2. m # prefix
      <4>1. ASSUME m = prefix PROVE FALSE
        <5>1. Finish \in Mask
          BY <4>1, ShortOfMove, MaskEnds
        <5> QED
          BY <3>1, <5>1
      <4> QED
        BY <4>1
    <3>3. PICK g, k, a : Choice(g, k) \in Mask /\ Chosen(prefix, g, k, a) /\ Completion(a, m)
      BY <3>1, <3>2, MaskReaches
    <3>4. Choice(g, k) = Choice(f, n)
      BY <1>1, <3>1, <3>3
    <3>5. g = f /\ k = n
      BY <3>4, EndsApart
    <3>6. a = next
      BY <1>1, <3>3, <3>5 DEF Chosen
    <3> QED
      BY <3>3, <3>6
  <2>3. ASSUME ~DoneAt(next, FALSE) PROVE Undecided(next, StillForced(Mask))
    BY <1>1, <2>1, <2>2 DEF Undecided
  <2>4. ASSUME DoneAt(next, FALSE) PROVE Decided(next, FALSE, StillForced(Mask))
    <3>1. query \in {"discard", "follow_play"} /\ WidthOf(next) = exact
      BY <2>1, <2>4 DEF DoneAt
    <3>2. Weight(DOMAIN next, next) = exact
      BY <1>0, <1>3, <3>1, WidthIs
    <3>3. ASSUME NEW m \in Moves, Completion(next, m) PROVE m = next
      <4>1. Selection(m)
        BY <1>0, MovesSelected
      <4>2. Weight(DOMAIN m, m) = exact
        BY <3>1, MoveWidth DEF Deciding
      <4> QED
        BY <1>0, <1>3, <3>2, <3>3, <4>1, <4>2, CompleteIsSame
    <3>4. next \in Moves
      BY <1>4, <3>3
    <3>5. StillForced(Mask) => Moves = {next}
      BY <2>2, <3>3, <3>4
    <3> QED
      BY <2>1, <3>1, <3>4, <3>5 DEF Decided
  <2> QED
    BY <1>2, <1>6, <2>1, <2>3, <2>4 DEF StandAt
<1> QED
  BY <1>0, <1>5, <1>6

\* Pass or finish is chosen.
LEMMA EndStands ==
  ASSUME Deciding, StandAt(prefix, ended, forced), NEW c \in Mask, c \in {Pass, Finish}
  PROVE  StandAt(prefix, TRUE, StillForced(Mask))
<1>0. Base /\ CardsKnown /\ Selection(prefix) /\ (Revealing <=> ~Playing)
      /\ (Revealing => prefix = << >>)
  BY DecidingKnown
<1>1. /\ StillForced(Mask) <=> forced /\ Mask = {c}
      /\ ~StillForced(Mask) /\ Playing => TwoMoves
      /\ StillForced(Mask) /\ Playing => \A m \in Moves : Completion(prefix, m)
  BY StillOnly
<1>2. DoneAt(prefix, TRUE)
  BY DEF DoneAt
<1>3. /\ ~DoneAt(prefix, ended) /\ Undecided(prefix, forced)
  BY DEF Deciding, Done, DoneAt, Revealing, StandAt
<1>4. ASSUME Revealing PROVE StandAt(prefix, TRUE, StillForced(Mask))
  <2>1. prefix = << >> /\ forced
    BY <1>3, <1>4 DEF Undecided
  <2>2. c = Pass
    BY <1>4, MaskEnds DEF Revealing
  <2>3. ASSUME NEW m \in Moves PROVE Mask # {c}
    <3>1. Completion(prefix, m) /\ m # prefix
      BY <1>4, <2>1, ShortOfMove, EmptySelection DEF Completion, Revealing
    <3>2. PICK g, k, a : Choice(g, k) \in Mask /\ Chosen(prefix, g, k, a)
      BY <3>1, MaskReaches
    <3>3. Choice(g, k) \in CardChoices
      BY <3>2 DEF Chosen, Choice, CardChoices
    <3> QED
      BY <2>2, <3>2, <3>3, EndsApart
  <2>4. ASSUME Moves = {} PROVE Mask = {c}
    <3> SUFFICES ASSUME NEW e \in Mask, e # Pass PROVE FALSE
      BY <2>2
    <3>1. e # Finish
      BY <2>4, MaskEnds
    <3>2. \E next : Continues(next)
      BY <3>1, MaskChosen
    <3> QED
      BY <2>4, <3>2, ContinuesIs
  <2>5. StillForced(Mask) <=> Moves = {}
    BY <1>1, <2>1, <2>3, <2>4
  <2> QED
    BY <1>2, <1>4, <2>1, <2>5 DEF StandAt, Decided
<1>5. ASSUME Playing PROVE StandAt(prefix, TRUE, StillForced(Mask))
  <2>1. ~Revealing /\ c = Finish
    BY <1>0, <1>5, MaskEnds
  <2>2. query = "lead_play" /\ prefix \in Moves
    BY <2>1, MaskEnds
  <2>3. ASSUME StillForced(Mask), NEW m \in Moves PROVE m = prefix
    <3> SUFFICES ASSUME m # prefix PROVE FALSE
      OBVIOUS
    <3>1. Completion(prefix, m) /\ Mask = {c}
      BY <1>1, <1>5, <2>3
    <3>2. PICK g, k, a : Choice(g, k) \in Mask /\ Chosen(prefix, g, k, a)
      BY <3>1, MaskReaches
    <3>3. Choice(g, k) \in CardChoices
      BY <3>2 DEF Chosen, Choice, CardChoices
    <3> QED
      BY <2>1, <3>1, <3>2, <3>3, EndsApart
  <2>4. StillForced(Mask) => Moves = {prefix}
    BY <2>2, <2>3
  <2> QED
    BY <1>1, <1>2, <1>5, <2>1, <2>2, <2>4 DEF StandAt, Decided
<1> QED
  BY <1>0, <1>4, <1>5

StandInv == query \in Kinds /\ ~BreaksUnseen => StandAt(prefix, ended, forced)

\* What a decision is about stays, and with it its moves.
LEMMA PlanStays ==
  ASSUME plan' = plan
  PROVE  /\ Moves' = Moves /\ (BreaksUnseen' <=> BreaksUnseen)
         /\ hand' = hand /\ lead' = lead /\ query' = query /\ exact' = exact /\ current' = current
<1>1. /\ hand' = hand /\ lead' = lead /\ query' = query /\ exact' = exact /\ current' = current
  BY DEF plan
<1>2. Moves' = Moves
  BY <1>1 DEF Moves, Legal, CountsOf, Rank
<1>3. BreaksUnseen' <=> BreaksUnseen
  BY <1>1 DEF BreaksUnseen, Own, Suit, Required
<1> QED
  BY <1>1, <1>2, <1>3

LEMMA InitStands ==
  ASSUME DecoderInit
  PROVE  StandInv
<1> SUFFICES ASSUME query \in Kinds PROVE StandAt(prefix, ended, forced)
  BY DEF StandInv
<1>1. prefix = << >> /\ ended = FALSE /\ forced = TRUE /\ Asked
  BY DEF DecoderInit
<1>2. DecisionInv
  BY InitDecides
<1>3. Base /\ (query = "follow_play" => FollowBase)
  BY <1>2, DecisionBase
<1>4. query = "discard" => exact \in Nat /\ exact # 0 /\ Cardinality(hand) >= exact
  BY <1>1, DecoderAssumption DEF Asked
<1>5. query = "lead_play" => hand # {}
  BY <1>1 DEF Asked
<1>6. StandAt(<< >>, FALSE, TRUE)
  BY <1>3, <1>4, <1>5, FirstStands
<1> QED
  BY <1>1, <1>6

LEMMA ChooseStands ==
  ASSUME DecisionInv, StandInv, query \in Kinds, ~BreaksUnseen,
         NEW c \in CardChoices \cup {Pass, Finish}, Choose(c)
  PROVE  StandAt(prefix', ended', forced')
<1>1. /\ c \in Mask /\ forced' = StillForced(Mask) /\ ended' = (c \in {Pass, Finish})
      /\ prefix' = IF c \in {Pass, Finish} THEN prefix ELSE Extended(prefix, c.face, c.count)
  BY DEF Choose, Sampled
<1>2. Deciding /\ StandAt(prefix, ended, forced)
  BY <1>1 DEF Deciding, Mask, StandInv
<1>3. CASE c \in {Pass, Finish}
  <2>1. StandAt(prefix, TRUE, StillForced(Mask))
    BY <1>1, <1>2, <1>3, EndStands
  <2>2. prefix' = prefix /\ ended' = TRUE
    BY <1>1, <1>3
  <2> QED
    BY <1>1, <2>1, <2>2
<1>4. CASE c \notin {Pass, Finish}
  <2>1. PICK next : next = Extended(prefix, c.face, c.count)
    OBVIOUS
  <2>2. StandAt(next, FALSE, StillForced(Mask))
    BY <1>1, <1>2, <1>4, <2>1, CardStands
  <2>3. prefix' = next
    BY <1>1, <1>4, <2>1
  <2>4. ended' = FALSE
    <3>1. (c \in {Pass, Finish}) = FALSE
      BY <1>4
    <3>2. ended' = (c \in {Pass, Finish})
      BY DEF Choose
    <3> QED
      BY <3>1, <3>2
  <2> QED
    BY <1>1, <2>2, <2>3, <2>4
<1> QED
  BY <1>3, <1>4

LEMMA StandsAlways == Spec => []StandInv
<1>1. Init => StandInv
  <2>1. ASSUME DecoderIdle PROVE StandInv
    BY <2>1 DEF DecoderIdle, StandInv, Kinds
  <2> QED
    BY <2>1, InitStands DEF Init
<1>2. DecisionInv /\ StandInv /\ [Next]_<<decoderVars, leadVars>> => StandInv'
  <2> SUFFICES ASSUME DecisionInv, StandInv, [Next]_<<decoderVars, leadVars>> PROVE StandInv'
    OBVIOUS
  <2>1. plan' = plan
    BY DEF Next, DecoderNext, Bind, Refuse, Choose, decoderVars
  <2>2. Moves' = Moves /\ (BreaksUnseen' <=> BreaksUnseen) /\ query' = query /\ exact' = exact
    BY <2>1, PlanStays
  <2>3. ASSUME query \in Kinds, ~BreaksUnseen PROVE StandAt(prefix', ended', forced')
    <3>1. CASE UNCHANGED decoderVars
      <4>1. prefix' = prefix /\ ended' = ended /\ forced' = forced
        BY <3>1 DEF decoderVars
      <4>2. StandAt(prefix, ended, forced)
        BY <2>3 DEF StandInv
      <4> QED
        BY <4>1, <4>2
    <3>2. ASSUME NEW c \in CardChoices \cup {Pass, Finish}, Choose(c)
          PROVE  StandAt(prefix', ended', forced')
      BY <2>3, <3>2, ChooseStands
    <3> QED
      BY <3>1, <3>2 DEF Next, DecoderNext, Bind, Refuse
  <2> QED
    BY <2>2, <2>3 DEF StandInv, StandAt, DoneAt, Undecided, Decided, TwoMoves, Continues, Revealing
<1> QED
  BY <1>1, <1>2, DecidesAlways, PTL DEF Spec

---------------------------------------------------------------------------
(* The moves of finished decisions                                         *)

LEMMA ForcedUnique ==
  ASSUME DecisionInv, StandInv, ~BreaksUnseen
  PROVE  ForcedIsUnique
<1> SUFFICES ASSUME query \in Kinds, Done
    PROVE  forced <=> Cardinality(Moves) = IF query \in {"bid", "stir"} THEN 0 ELSE 1
  BY DEF ForcedIsUnique
<1>1. CardsKnown /\ Base
  BY DecisionBase
<1>2. IsFiniteSet(Moves)
  BY <1>1, MovesFinite
<1>3. DoneAt(prefix, ended)
  BY DEF Done, DoneAt, Revealing
<1>4. /\ IF Revealing /\ ended THEN prefix = << >> ELSE prefix \in Moves /\ (ended <=> query = "lead_play")
      /\ forced => Moves = IF Revealing THEN {} ELSE {prefix}
      /\ ~forced => IF Revealing THEN Moves # {} ELSE TwoMoves
  BY <1>3 DEF StandInv, StandAt, Decided
<1>5. PICK S : S = Moves
  OBVIOUS
<1>6. /\ Cardinality(S) = 0 <=> S = {}
      /\ Cardinality(S) = 1 <=> \E x : S = {x}
  BY <1>2, <1>5, FS_EmptySet, FS_Singleton
<1>7. TwoMoves => ~\E x : S = {x}
  BY <1>5 DEF TwoMoves
<1>8. CASE Revealing
  <2>1. forced <=> S = {}
    BY <1>4, <1>5, <1>8
  <2> QED
    BY <1>5, <1>6, <1>8, <2>1 DEF Revealing
<1>9. CASE ~Revealing
  <2>1. forced <=> \E x : S = {x}
    BY <1>4, <1>5, <1>7, <1>9
  <2> QED
    BY <1>5, <1>6, <1>9, <2>1 DEF Revealing
<1> QED
  BY <1>8, <1>9

LEMMA MoveIsLegal ==
  ASSUME DecisionInv, query \in Kinds, NEW m \in Moves
  PROVE  Legal(Bound(m))
<1>0. Base /\ CardsKnown /\ (query = "follow_play" => LeadKnown) /\ Selection(m)
  BY DecisionBase, MovesSelected DEF FollowBase
<1>1. Bound(m) \in SUBSET hand /\ CountsOf(Bound(m)) = m /\ FacesOf(Bound(m)) = DOMAIN m
  BY <1>0, BoundCounts
<1>2. Cardinality(Bound(m)) = Weight(DOMAIN m, m)
  BY <1>0, <1>1, CountsSelected
<1>3. CASE query = "discard"
  BY <1>2, <1>3, MoveWidth DEF Legal
<1>4. CASE query = "lead_play"
  <2>1. DOMAIN m # {} /\ \A f, g \in DOMAIN m : FaceSuit(f) = FaceSuit(g)
    BY <1>0, <1>4, MovesLead
  <2>2. Bound(m) # {} /\ LegalLead(Bound(m), SpaceTrump)
    BY <1>0, <1>1, <2>1, LeadBySuit
  <2> QED
    BY <1>4, <2>2 DEF Legal
<1>5. CASE query = "follow_play"
  <2>1. LegalFollow(hand, Bound(m), lead, SpaceTrump)
    BY <1>0, <1>5, BoundIsLegalFollow
  <2> QED
    BY <1>5, <2>1 DEF Legal
<1>6. CASE Revealing
  <2>1. PICK f \in Offered, n \in {1, 2} : Revealed(f, n) /\ m = Extended(<< >>, f, n)
    BY <1>0, <1>6, MovesReveal
  <2>2. DOMAIN m = {f} /\ m[f] = n
    BY <2>1, OneIs
  <2>3. Weight({f}, m) = n
    BY <2>2, WeightOfOne
  <2>4. OneFace(Bound(m), f, n)
    BY <1>1, <1>2, <2>2, <2>3 DEF OneFace
  <2> QED
    BY <1>0, <1>6, <2>1, <2>4, LegalOfOne
<1> QED
  BY <1>3, <1>4, <1>5, <1>6 DEF Kinds, Revealing

LEMMA OneSuitCounted ==
  ASSUME CardsKnown, NEW m, Selection(m), DOMAIN m # {},
         \A f, g \in DOMAIN m : FaceSuit(f) = FaceSuit(g)
  PROVE  Cardinality({FaceSuit(f) : f \in DOMAIN m}) = 1
<1>1. PICK S : S = {FaceSuit(f) : f \in DOMAIN m}
  OBVIOUS
<1>2. PICK f \in DOMAIN m : TRUE
  OBVIOUS
<1>3. PICK x : x = FaceSuit(f)
  OBVIOUS
<1>4. S = {x}
  BY <1>1, <1>2, <1>3
<1>5. Cardinality({x}) = 1
  BY FS_Singleton
<1> QED
  BY <1>1, <1>4, <1>5

LEMMA DoneDecodes ==
  ASSUME DecisionInv, StandInv, query \in Kinds, ~BreaksUnseen, Done
  PROVE  Decodes /\ (prefix = << >> \/ Legal(Bound(prefix)))
<1>0. /\ Base /\ CardsKnown /\ (query = "follow_play" => FollowBase /\ LeadKnown) /\ Selection(prefix)
      /\ WidthOf(prefix) = Weight(DOMAIN prefix, prefix)
  BY DecisionBase DEF FollowBase
<1>1. IF Revealing /\ ended THEN prefix = << >> ELSE prefix \in Moves /\ (ended <=> query = "lead_play")
  BY DEF StandInv, StandAt, Decided, Done, DoneAt, Revealing
<1>2. CASE Revealing /\ ended
  BY <1>1, <1>2 DEF Decodes, TraceDecodes, Revealing
<1>3. ASSUME ~(Revealing /\ ended) PROVE Decodes /\ Legal(Bound(prefix))
  <2>1. prefix \in Moves /\ (ended <=> query = "lead_play") /\ Legal(Bound(prefix))
    BY <1>1, <1>3, MoveIsLegal
  <2>2. CASE Revealing
    <3>1. PICK f \in Offered, n \in {1, 2} :
            n <= Count(f) /\ Revealed(f, n) /\ prefix = Extended(<< >>, f, n)
      BY <1>0, <2>1, <2>2, MovesReveal
    <3>2. PICK c : c = Choice(f, n)
      OBVIOUS
    <3>3. c.face = f /\ c.count = n
      BY <3>2, EndsApart
    <3>4. c \in BidSpace \cup StirSpace
      BY <3>1, <3>2, <3>3 DEF Revealed, Choice, BidSpace, StirSpace
    <3>5. ~ended
      BY <1>3, <2>2
    <3> QED
      BY <2>1, <2>2, <3>1, <3>3, <3>4, <3>5 DEF Decodes, TraceDecodes, Revealing
  <2>3. CASE query = "discard"
    <3>1. WidthOf(prefix) = exact
      BY <1>0, <2>1, <2>3, MoveWidth
    <3> QED
      BY <2>1, <2>3, <3>1 DEF Decodes, DiscardDecodes
  <2>4. CASE query = "lead_play"
    <3>1. Cardinality({FaceSuit(f) : f \in DOMAIN prefix}) = 1
      BY <1>0, <2>1, <2>4, MovesLead, OneSuitCounted
    <3> QED
      BY <2>1, <2>4, <3>1 DEF Decodes, LeadDecodes
  <2>5. CASE query = "follow_play"
    <3>1. WidthOf(prefix) = exact
      BY <1>0, <2>1, <2>5, MoveWidth
    <3>2. Target = exact
      BY <1>0, <2>5, FollowKnown
    <3>3. LegalFollow(hand, Bound(prefix), lead, SpaceTrump)
      BY <2>1, <2>5 DEF Legal
    <3> QED
      BY <2>1, <2>5, <3>1, <3>2, <3>3 DEF Decodes, FollowDecodes
  <2> QED
    BY <2>1, <2>2, <2>3, <2>4, <2>5 DEF Kinds, Revealing
<1> QED
  BY <1>2, <1>3, <1>1

LEMMA ChoicesLeft ==
  ASSUME DecisionInv, StandInv, query \in Kinds, ~BreaksUnseen, ~Done
  PROVE  Sampled # {}
<1>0. Deciding /\ Undecided(prefix, forced)
  BY DEF Deciding, StandInv, StandAt, Done, DoneAt, Revealing
<1>1. /\ Base /\ CardsKnown /\ Selection(prefix) /\ (Revealing <=> ~Playing)
      /\ Revealing => prefix = << >>
      /\ query \in {"discard", "follow_play"} => exact \in Nat /\ WidthOf(prefix) < exact
  BY <1>0, DecidingKnown
<1>2. Mask # {}
  <2>1. CASE Revealing
    BY <1>0, <2>1, MaskEnds
  <2>2. CASE ~Revealing
    <3>1. PICK m \in Moves : Completion(prefix, m)
      BY <1>0, <2>2, ContinuesIs DEF Undecided
    <3>2. CASE m = prefix
      BY <1>0, <3>2, ShortOfMove, MaskEnds
    <3>3. CASE m # prefix
      BY <1>0, <3>1, <3>3, MaskReaches
    <3> QED
      BY <3>2, <3>3
  <2> QED
    BY <2>1, <2>2
<1>3. Steps < StepCount
  <2>1. /\ Cardinality(DOMAIN prefix) \in Nat /\ IsFiniteSet(DOMAIN prefix)
        /\ Cardinality(DOMAIN prefix) <= Weight(DOMAIN prefix, prefix)
        /\ WidthOf(prefix) = Weight(DOMAIN prefix, prefix) /\ WidthOf(prefix) \in Nat
    BY <1>1, WidthIs
  <2>2. ~ended
    BY DEF Done
  <2>3. Steps = Cardinality(DOMAIN prefix)
    BY <2>1, <2>2 DEF Steps
  <2>4. CASE Revealing
    <3>1. Cardinality(DOMAIN prefix) = 0
      BY <1>1, <2>4, EmptySelection, FS_EmptySet
    <3> QED
      BY <2>3, <2>4, <3>1 DEF StepCount, Revealing
  <2>5. CASE query = "lead_play"
    <3>1. /\ Cardinality(hand) \in Nat /\ Cardinality(Offered) <= Cardinality(hand)
          /\ IsFiniteSet(Offered)
      BY <1>1, CardsOfHand, OfferedCounts
    <3>2. DOMAIN prefix \in SUBSET Offered
      BY <1>1 DEF Selection
    <3>3. Cardinality(DOMAIN prefix) <= Cardinality(Offered)
      BY <3>1, <3>2, FS_Subset
    <3>4. Cardinality(Offered) \in Nat
      BY <3>1, FS_CardinalityType
    <3>5. StepCount = Cardinality(hand) + 1
      BY <2>5 DEF StepCount, MaxSelect
    <3> QED
      BY <2>1, <2>3, <3>1, <3>3, <3>4, <3>5
  <2>6. CASE query \in {"discard", "follow_play"}
    <3>1. StepCount = exact
      BY <2>6 DEF StepCount
    <3> QED
      BY <1>1, <2>1, <2>3, <2>6, <3>1
  <2> QED
    BY <1>1, <2>4, <2>5, <2>6 DEF Playing
<1> QED
  BY <1>2, <1>3 DEF Sampled

\* Behind every decision short of the run the device may break is a legal move:
\* whatever is sampled, the mask is never empty and the steps of the plan
\* suffice, the finished trace decodes and binds to cards the game accepts, and
\* a decision whose choices were the only ones all along is one with a single
\* legal move, and every such one is found.
THEOREM DecisionsAlwaysStand == Spec => []DecisionsStand
<1>1. DecisionInv /\ StandInv => DecisionsStand
  <2> SUFFICES ASSUME DecisionInv, StandInv, ~BreaksUnseen PROVE ForcedIsUnique /\ TracesComplete
    BY DEF DecisionsStand
  <2>1. ForcedIsUnique
    BY ForcedUnique
  <2>2. TracesComplete
    BY DoneDecodes, ChoicesLeft DEF TracesComplete
  <2> QED
    BY <2>1, <2>2
<1> QED
  BY <1>1, DecidesAlways, StandsAlways, PTL
=============================================================================
