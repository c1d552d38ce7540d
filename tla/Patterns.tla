------------------------------ MODULE Patterns ------------------------------
(***************************************************************************)
(* server/game/rules/_patterns: the singles, pairs and tractors of a set   *)
(* of cards of one effective suit.  A tier is a position in the fixed      *)
(* weak-to-strong topology of a suit; the faces of one tier (the trump     *)
(* rank in the side suits) are interchangeable in a tractor, and the       *)
(* analysis takes the first of them.                                       *)
(***************************************************************************)
EXTENDS Cards, FiniteSetsExt

\* The index of a face in pair_tiers(effective_suit, trump): the ordinary
\* ranks without the trump rank, then the side-suit trump ranks, the main
\* trump rank and the jokers.
Tier(f, trump) ==
  CASE f.suit = "joker" -> IF trump.suit = NoSuit THEN f.rank ELSE f.rank + 1
    [] f.rank = trump.rank /\ f.suit # trump.suit -> 14
    [] f.rank = trump.rank /\ f.suit = trump.suit -> 15
    [] OTHER -> IF f.rank > trump.rank THEN f.rank - 1 ELSE f.rank

PairFaces(cards) == {f \in FacesOf(cards) : Cardinality(Copies(cards, f)) = 2}

\* The maximal intervals of at least two occupied tiers (_tractor_runs).
TractorRuns(cards, trump) ==
  LET occupied == {Tier(f, trump) : f \in PairFaces(cards)}
  IN {r \in {a..b : a \in occupied, b \in occupied} :
        /\ Cardinality(r) >= 2
        /\ r \subseteq occupied
        /\ Min(r) - 1 \notin occupied
        /\ Max(r) + 1 \notin occupied}

FirstFace(faces) == CHOOSE f \in faces : \A g \in faces : FaceKey(f) <= FaceKey(g)

\* The faces a run's tractor is made of: one per tier.
RunFaces(cards, trump, run) ==
  {FirstFace({f \in PairFaces(cards) : Tier(f, trump) = t}) : t \in run}

\* A pattern: its cards and its number of pairs (0 for a single).
PatternOf(cards, faces) ==
  [cards |-> {c \in cards : c.face \in faces}, pairs |-> Cardinality(faces)]

Tractors(cards, trump) ==
  {PatternOf(cards, RunFaces(cards, trump, r)) : r \in TractorRuns(cards, trump)}

LoosePairs(cards, trump) ==
  LET used == UNION {RunFaces(cards, trump, r) : r \in TractorRuns(cards, trump)}
  IN {PatternOf(cards, {f}) : f \in PairFaces(cards) \ used}

Singles(cards) ==
  {[cards |-> {c}, pairs |-> 0] : c \in {d \in cards : d.face \notin PairFaces(cards)}}

\* analyze_patterns: the disjoint patterns of the cards.
Analyze(cards, trump) ==
  Tractors(cards, trump) \cup LoosePairs(cards, trump) \cup Singles(cards)

\* The assertion at the head of analyze_patterns.
Analyzable(cards, trump) ==
  /\ cards # {}
  /\ Cardinality({EffectiveSuit(c, trump) : c \in cards}) = 1

Level(p) == p.pairs + 1

MaxOrder(cards, trump) == Max({TrumpOrder(c, trump) : c \in cards})

\* _shape_signature: how many patterns of each pair count there are.
Shape(cards, trump) ==
  [n \in 0..Cardinality(cards) |->
     Cardinality({p \in Analyze(cards, trump) : p.pairs = n})]

\* tractor_windows: the runs of n neighbouring pairs inside a tractor.
Windows(p, n, trump) ==
  {{c \in p.cards : Tier(c.face, trump) \in t..(t + n - 1)} :
     t \in {s \in {Tier(c.face, trump) : c \in p.cards} :
              \A k \in 0..(n - 1) : \E c \in p.cards : Tier(c.face, trump) = s + k}}
=============================================================================
