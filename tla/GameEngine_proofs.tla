-------------------------- MODULE GameEngine_proofs --------------------------
(***************************************************************************)
(* Proofs about GameEngine for every deck, set of shuffles, positions and  *)
(* mandatory levels.                                                       *)
(***************************************************************************)
EXTENDS GameEngine, RulesLemmas, SequenceTheorems

(* TypeOK is not inductive alone: a deal can only be finished by a known   *)
(* seat, a declaration has an actor and cards, and every slot of a trick   *)
(* holds cards.                                                            *)
Typed ==
  /\ TypeOK
  /\ phase # "AwaitingStart" => start \in Seats
  /\ declaration # NoDeclaration => declaration.actor \in Seats /\ declaration.cards # {}
  /\ \A i \in DOMAIN slots : slots[i].cards # {}

LEMMA SeatArithmetic ==
  ASSUME NEW s \in Seats
  PROVE  /\ NextSeat(s) \in Seats /\ PartnerSeat(s) \in Seats
         /\ Team(s) \in Teams /\ 1 - Team(s) \in Teams
         /\ \A i \in Nat : (s + i) % 4 \in Seats
BY DEF Seats, NextSeat, PartnerSeat, Team, Teams

LEMMA DeckFinite ==
  ASSUME NEW cards \in SUBSET Deck
  PROVE  cards \in SUBSET Card /\ IsFiniteSet(cards)
BY DeckAssumption, FS_Subset

(* A shuffle splits into the bottom and the cards to deal, all of the deck. *)
LEMMA ShuffleSplits ==
  ASSUME NEW shuffle \in Shuffles
  PROVE  LET dealt == SubSeq(shuffle, BottomCount + 1, Len(shuffle))
         IN  /\ dealt \in Seq(Deck)
             /\ Len(dealt) = Len(shuffle) - BottomCount /\ Len(dealt) > 0
             /\ \A i \in 1..Len(dealt) : dealt[i] = shuffle[BottomCount + i]
             /\ \A i \in 1..Len(shuffle) : shuffle[i] \in Deck
             /\ shuffle[BottomCount + 1] = dealt[1]
             /\ BottomCount \in Nat /\ Len(shuffle) \in Nat /\ BottomCount < Len(shuffle)
<1>1. shuffle \in Seq(Deck) /\ Len(shuffle) = Cardinality(Deck)
  BY ShuffleAssumption
<1>2. BottomCount \in Nat \ {0} /\ Len(shuffle) > BottomCount /\ Len(shuffle) \in Nat
  BY <1>1, DeckAssumption
<1>3. \A i \in 1..Len(shuffle) : shuffle[i] \in Deck
  BY <1>1
<1> DEFINE dealt == SubSeq(shuffle, BottomCount + 1, Len(shuffle))
<1>4. /\ dealt \in Seq(Deck)
      /\ Len(dealt) = Len(shuffle) - BottomCount
      /\ \A i \in 1..Len(dealt) : dealt[i] = shuffle[BottomCount + i]
  BY <1>1, <1>2, SubSeqProperties
<1> QED
  BY <1>1, <1>2, <1>3, <1>4

LEMMA StartRoundTyped ==
  ASSUME NEW n \in Nat, NEW lv \in [Teams -> SuitedRanks],
         NEW declarer \in Seats \cup {NoSeat}, NEW s \in Seats,
         NEW shuffle \in Shuffles, StartRound(n, lv, declarer, s, shuffle)
  PROVE  Typed'
<1>1. /\ hands' \in [Seats -> SUBSET Deck] /\ bottom' \subseteq Deck
      /\ deck' \in Seq(Deck) /\ cursor' \in 0..Len(deck')
  BY ShuffleSplits DEF StartRound
<1>2. /\ contract' \in [declarer : Seats \cup {NoSeat}, trump : Trumps]
      /\ completed' \in [winners : 0..2, nextDeclarer : Seats \cup {NoSeat},
                         total : Int, levelsAfter : [Teams -> SuitedRanks]]
      /\ declaration' \in [actor : Seats \cup {NoSeat}, cards : SUBSET Deck]
      /\ failed' \in [attempted : SUBSET Deck, forced : SUBSET Deck]
  BY DEF StartRound, NoContract, NoResult, NoDeclaration, NoThrow, Trumps, SuitedRanks
<1> QED
  BY <1>1, <1>2 DEF Typed, TypeOK, StartRound, Phases

LEMMA InitTyped == Init => Typed
<1> SUFFICES ASSUME Init PROVE Typed
  OBVIOUS
<1>1. /\ contract \in [declarer : Seats \cup {NoSeat}, trump : Trumps]
      /\ completed \in [winners : 0..2, nextDeclarer : Seats \cup {NoSeat},
                        total : Int, levelsAfter : [Teams -> SuitedRanks]]
      /\ declaration \in [actor : Seats \cup {NoSeat}, cards : SUBSET Deck]
      /\ failed \in [attempted : SUBSET Deck, forced : SUBSET Deck]
  BY DEF Init, NoContract, NoResult, NoDeclaration, NoThrow, Trumps, SuitedRanks
<1>2. CASE InitCreate
  BY <1>1, <1>2 DEF Init, InitCreate, Typed, TypeOK, Phases, SuitedRanks, Seats, NoSeat
<1>3. CASE InitPosition
  <2>1. PICK p \in Positions, shuffle \in Shuffles :
          /\ phase = "DealBid" /\ round = p.round /\ levels = p.levels
          /\ fixed = p.fixed /\ start = p.start /\ actor = p.start
          /\ bottom = {shuffle[i] : i \in 1..BottomCount}
          /\ deck = SubSeq(shuffle, BottomCount + 1, Len(shuffle))
          /\ hands = [t \in Seats |-> IF t = p.start THEN {shuffle[BottomCount + 1]} ELSE {}]
          /\ cursor = 1
    BY <1>3 DEF InitPosition
  <2>2. p \in [round : Nat \ {0}, levels : [Teams -> SuitedRanks],
               fixed : Seats \cup {NoSeat}, start : Seats]
    BY PositionAssumption
  <2>3. /\ hands \in [Seats -> SUBSET Deck] /\ bottom \subseteq Deck
        /\ deck \in Seq(Deck) /\ cursor \in 0..Len(deck)
    BY <2>1, <2>2, ShuffleSplits
  <2> QED
    BY <1>1, <2>1, <2>2, <2>3 DEF Init, Typed, TypeOK, Phases
<1> QED
  BY <1>2, <1>3 DEF Init

LEMMA ConfirmTyped == Typed /\ Confirm => Typed'
<1> SUFFICES ASSUME Typed, NEW s \in Seats, ConfirmStart(s) \/ ConfirmReview(s)
             PROVE  Typed'
  BY DEF Confirm
<1>1. CASE ConfirmStart(s)
  <2>1. CASE confirmed \cup {s} = Seats
    <3>1. PICK shuffle \in Shuffles, opener \in Openers(NoSeat) :
            StartRound(1, levels, NoSeat, opener, shuffle)
      BY <1>1, <2>1 DEF ConfirmStart
    <3> QED
      BY <3>1, StartRoundTyped DEF Typed, TypeOK, Openers
  <2>2. CASE confirmed \cup {s} # Seats
    BY <1>1, <2>2 DEF ConfirmStart, Typed, TypeOK, dealVars, bidVars, stirVars, playVars
  <2> QED
    BY <2>1, <2>2
<1>2. CASE ConfirmReview(s)
  <2>1. CASE confirmed \cup {s} = Seats
    <3>1. PICK shuffle \in Shuffles, opener \in Openers(completed.nextDeclarer) :
            StartRound(round + 1, completed.levelsAfter, completed.nextDeclarer, opener, shuffle)
      BY <1>2, <2>1 DEF ConfirmReview
    <3>2. /\ completed.nextDeclarer \in Seats \cup {NoSeat}
          /\ completed.levelsAfter \in [Teams -> SuitedRanks]
          /\ round + 1 \in Nat
      BY DEF Typed, TypeOK
    <3>3. opener \in Seats
      BY <3>2 DEF Openers
    <3> QED
      BY <3>1, <3>2, <3>3, StartRoundTyped
  <2>2. CASE confirmed \cup {s} # Seats
    BY <1>2, <2>2 DEF ConfirmReview, Typed, TypeOK, dealVars, bidVars, stirVars, playVars
  <2> QED
    BY <2>1, <2>2
<1> QED
  BY <1>1, <1>2

(* One card dealt, or the deal finished, with a declaration already typed. *)
LEMMA AdvanceDealTyped ==
  ASSUME Typed, phase = "DealBid", NEW decl, AdvanceDeal(decl), declaration' = decl,
         decl \in [actor : Seats \cup {NoSeat}, cards : SUBSET Deck],
         decl # NoDeclaration => decl.actor \in Seats /\ decl.cards # {},
         reveals' \in Seq([actor : Seats, cards : SUBSET Deck])
  PROVE  Typed'
<1>1. CASE cursor = Len(deck)
  <2> DEFINE declarer == IF fixed # NoSeat THEN fixed
                         ELSE IF decl # NoDeclaration THEN decl.actor ELSE start
             suit == IF decl = NoDeclaration THEN NoSuit ELSE DeclaredSuit(decl.cards)
  <2>1. declarer \in Seats
    BY DEF Typed, TypeOK
  <2>2. suit \in Suits \cup {NoSuit}
    BY DeckFinite, DeclaredSuitType
  <2>3. TrumpRank(levels, declarer) \in SuitedRanks
    BY <2>1, SeatArithmetic DEF TrumpRank, Typed, TypeOK, Seats, NoSeat, Teams
  <2>4. /\ phase' = "BottomExchange"
        /\ contract' = [declarer |-> declarer,
                        trump |-> [suit |-> suit, rank |-> TrumpRank(levels, declarer)]]
        /\ actor' = declarer /\ pickup' = hands[declarer] \cup bottom /\ cause' = "INITIAL"
        /\ UNCHANGED <<hands, cursor, owner, passed, stirs, exchanges>>
        /\ UNCHANGED <<dealVars, bottom, playVars, reviewVars>>
    BY <1>1 DEF AdvanceDeal, FinishDeal, PickUp
  <2> HIDE DEF declarer, suit
  <2>5. contract' \in [declarer : Seats \cup {NoSeat}, trump : Trumps] /\ contract'.declarer \in Seats
    BY <2>1, <2>2, <2>3, <2>4 DEF Trumps
  <2>6. pickup' \subseteq Deck
    BY <2>1, <2>4 DEF Typed, TypeOK
  <2> QED
    BY <2>1, <2>4, <2>5, <2>6 DEF Typed, TypeOK, Phases, dealVars, playVars, reviewVars
<1>2. CASE cursor # Len(deck)
  <2>1. /\ actor' = NextSeat(actor)
        /\ hands' = [hands EXCEPT ![NextSeat(actor)] = @ \cup {deck[cursor + 1]}]
        /\ cursor' = cursor + 1
        /\ UNCHANGED <<phase, contract, stirVars>>
        /\ UNCHANGED <<dealVars, bottom, playVars, reviewVars>>
    BY <1>2 DEF AdvanceDeal
  <2>2. actor \in Seats /\ NextSeat(actor) \in Seats
    BY SeatArithmetic DEF Typed, TypeOK
  <2>3. cursor + 1 \in 1..Len(deck) /\ deck[cursor + 1] \in Deck
    BY <1>2 DEF Typed, TypeOK
  <2>4. hands' \in [Seats -> SUBSET Deck] /\ cursor' \in 0..Len(deck)
    BY <2>1, <2>2, <2>3 DEF Typed, TypeOK
  <2> QED
    BY <2>1, <2>2, <2>4
       DEF Typed, TypeOK, Phases, dealVars, stirVars, playVars, reviewVars
<1> QED
  BY <1>1, <1>2

LEMMA BidTyped == Typed /\ Bid => Typed'
<1> SUFFICES ASSUME Typed, Bid PROVE Typed'
  OBVIOUS
<1>1. CASE PassBid
  BY <1>1, AdvanceDealTyped DEF PassBid, Bid, bidVars, Typed, TypeOK
<1>2. ASSUME NEW cards \in SUBSET hands[actor], RevealBid(cards)
      PROVE  Typed'
  <2> DEFINE decl == [actor |-> actor, cards |-> cards]
  <2>1. actor \in Seats /\ cards \in SUBSET Deck
    BY DEF Bid, Typed, TypeOK
  <2>2. cards # {}
    BY <1>2, ShapeNotEmpty DEF RevealBid, ValidReveal
  <2>3. decl \in [actor : Seats, cards : SUBSET Deck]
    BY <2>1
  <2>4. reveals' \in Seq([actor : Seats, cards : SUBSET Deck])
    BY <1>2, <2>3 DEF RevealBid, Typed, TypeOK
  <2>5. decl \in [actor : Seats \cup {NoSeat}, cards : SUBSET Deck]
          /\ decl.actor \in Seats /\ decl.cards # {}
    BY <2>1, <2>2
  <2>6. declaration' = decl /\ AdvanceDeal(decl) /\ phase = "DealBid"
    BY <1>2 DEF RevealBid, Bid
  <2> QED
    BY <2>4, <2>5, <2>6, AdvanceDealTyped
<1> QED
  BY <1>1, <1>2 DEF Bid

LEMMA ExchangeTyped == Typed /\ Exchange => Typed'
<1> SUFFICES ASSUME Typed, phase = "BottomExchange",
                    NEW cards \in SUBSET pickup, Bury(cards)
             PROVE  Typed'
  BY DEF Exchange
<1> DEFINE stirIndex == IF cause = "STIR" THEN Len(stirs) ELSE 0
           event == [actor |-> actor, cause |-> cause, stir |-> stirIndex]
<1>1. /\ hands' = [hands EXCEPT ![actor] = pickup \ cards]
      /\ bottom' = cards /\ owner' = actor /\ passed' = {actor} /\ pickup' = {}
      /\ exchanges' = Append(exchanges, event)
      /\ UNCHANGED <<dealVars, cursor, bidVars, contract, cause, stirs, reviewVars>>
  BY DEF Bury, StirIndex
<1>2. actor \in Seats /\ pickup \subseteq Deck /\ contract.declarer \in Seats
  BY DEF Typed, TypeOK
<1>3. hands' \in [Seats -> SUBSET Deck]
  BY <1>1, <1>2 DEF Typed, TypeOK
<1>4. exchanges' \in Seq([actor : Seats, cause : {"INITIAL", "STIR"}, stir : Nat])
  <2>1. event \in [actor : Seats, cause : {"INITIAL", "STIR"}, stir : Nat]
    BY <1>2 DEF Typed, TypeOK
  <2> QED
    BY <1>1, <2>1 DEF Typed, TypeOK
<1>5. CASE BeginPlaying
  BY <1>1, <1>2, <1>3, <1>4, <1>5
     DEF BeginPlaying, NoThrow, Typed, TypeOK, Phases, dealVars, bidVars, reviewVars
<1>6. CASE phase' = "StirDecision" /\ actor' = NextSeat(actor) /\ UNCHANGED playVars
  BY <1>1, <1>2, <1>3, <1>4, <1>6, SeatArithmetic
     DEF Typed, TypeOK, Phases, dealVars, bidVars, playVars, reviewVars
<1> QED
  BY <1>5, <1>6 DEF Bury, StirIndex

LEMMA OvercallTyped == Typed /\ Overcall => Typed'
<1> SUFFICES ASSUME Typed, Overcall PROVE Typed'
  OBVIOUS
<1>1. /\ phase = "StirDecision" /\ actor \in Seats /\ contract.declarer \in Seats
      /\ NextSeat(actor) \in Seats
  BY SeatArithmetic DEF Overcall, Typed, TypeOK
<1>2. CASE PassStir
  <2>1. stirs' \in Seq([actor : Seats, cards : SUBSET Deck])
    <3>1. [actor |-> actor, cards |-> {}] \in [actor : Seats, cards : SUBSET Deck]
      BY <1>1
    <3> QED
      BY <1>2, <3>1 DEF PassStir, Declined, Typed, TypeOK
  <2>2. CASE passed \cup {actor} = Seats
    BY <1>1, <1>2, <2>1, <2>2
       DEF PassStir, Declined, BeginPlaying, NoThrow, Typed, TypeOK, Phases, dealVars, bidVars, reviewVars
  <2>3. CASE passed \cup {actor} # Seats
    BY <1>1, <1>2, <2>1, <2>3
       DEF PassStir, Declined, Typed, TypeOK, Phases, dealVars, bidVars, playVars, reviewVars
  <2> QED
    BY <2>2, <2>3
<1>3. ASSUME NEW cards \in SUBSET hands[actor], Stir(cards)
      PROVE  Typed'
  <2>1. cards \in SUBSET Deck
    BY <1>1 DEF Typed, TypeOK
  <2>2. cards # {}
    BY <1>3, ShapeNotEmpty DEF Stir, PickUp, Redeclared, ValidStir, ValidReveal
  <2>3. DeclaredSuit(cards) \in Suits \cup {NoSuit}
    BY <2>1, <2>2, DeckFinite, DeclaredSuitType
  <2> DEFINE event == [actor |-> actor, cards |-> cards]
  <2>4. event \in [actor : Seats, cards : SUBSET Deck]
    BY <1>1, <2>1
  <2>5. /\ phase' = "BottomExchange" /\ declaration' = event
        /\ contract' = [contract EXCEPT !.trump.suit = DeclaredSuit(cards)]
        /\ stirs' = Append(stirs, event)
        /\ pickup' = hands[actor] \cup bottom /\ cause' = "STIR"
        /\ UNCHANGED <<dealVars, cursor, hands, bottom, actor, reveals, owner, passed,
                       exchanges, playVars, reviewVars>>
    BY <1>3 DEF Stir, PickUp, Redeclared
  <2>6. contract' \in [declarer : Seats \cup {NoSeat}, trump : Trumps]
          /\ contract'.declarer \in Seats
    BY <1>1, <2>3, <2>5 DEF Typed, TypeOK, Trumps
  <2>7. stirs' \in Seq([actor : Seats, cards : SUBSET Deck]) /\ pickup' \subseteq Deck
    BY <1>1, <2>4, <2>5 DEF Typed, TypeOK
  <2>8. declaration' \in [actor : Seats \cup {NoSeat}, cards : SUBSET Deck]
          /\ declaration'.actor \in Seats /\ declaration'.cards # {}
    BY <1>1, <2>1, <2>2, <2>5
  <2> QED
    BY <1>1, <2>5, <2>6, <2>7, <2>8
       DEF Typed, TypeOK, Phases, dealVars, playVars, reviewVars
<1> QED
  BY <1>1, <1>2, <1>3 DEF Overcall

(* The end of a trick: four plays of cards, and the hands that are left. *)
LEMMA CompleteTrickTyped ==
  ASSUME Typed, phase = "Playing",
         NEW rest \in [Seats -> SUBSET Deck],
         NEW played \in Seq([actor : Seats, cards : SUBSET Deck]),
         Len(played) = 4, \A i \in 1..4 : played[i].cards # {},
         CompleteTrick(rest, played)
  PROVE  Typed'
<1> DEFINE winner == WinningSlot(played, Trump)
           cards == UNION {played[i].cards : i \in DOMAIN played}
           points == IF Team(winner.actor) = Team(contract.declarer) THEN captured
                     ELSE captured \cup {c \in cards : Points(c) > 0}
<1>0. DOMAIN played = 1..4 /\ \A i \in 1..4 : played[i] \in [actor : Seats, cards : SUBSET Deck]
  <2>1. DOMAIN played = 1..Len(played)
    OBVIOUS
  <2>2. \A i \in 1..Len(played) : played[i] \in [actor : Seats, cards : SUBSET Deck]
    BY ElementOfSeq
  <2> QED
    BY <2>1, <2>2
<1>1. winner \in [actor : Seats, cards : SUBSET Deck] /\ winner.cards # {}
  <2>1. PICK i \in 1..4 : winner = played[i]
    BY WinningSlotIn
  <2> QED
    BY <1>0, <2>1
<1>2. points \subseteq Deck
  <2>1. cards \subseteq Deck
    BY <1>0
  <2> QED
    BY <2>1 DEF Typed, TypeOK
<1>3. /\ hands' = rest /\ captured' = points /\ actor' = winner.actor
      /\ slots' = <<>> /\ failed' = NoThrow
      /\ IF \A s \in Seats : rest[s] = {} THEN FinishRound(points, winner)
         ELSE UNCHANGED <<phase, reviewVars>>
      /\ UNCHANGED <<dealVars, cursor, bottom, bidVars, contract, stirVars>>
  BY DEF CompleteTrick
<1> HIDE DEF winner, cards, points
<1>4. CASE FinishRound(points, winner)
  <2> DEFINE declarers == Team(contract.declarer)
             total == TotalPoints(points, bottom, winner.cards,
                                  Team(winner.actor) # declarers, Trump)
             winners == IF DefendersWin(total) THEN 1 - declarers ELSE declarers
             advance == [t \in Teams |->
                           Advance(levels[t], IF t = winners THEN LevelGain(total) ELSE 0,
                                   t = declarers, MandatoryLevels)]
  <2>1. contract.declarer \in Seats /\ declarers \in Teams /\ 1 - declarers \in Teams
    BY SeatArithmetic DEF Typed, TypeOK
  <2>2. total \in Int
    BY <1>1, <1>2, DeckFinite, TotalPointsType DEF Typed, TypeOK
  <2> HIDE DEF total
  <2>3. winners \in Teams /\ LevelGain(total) \in Nat
    BY <2>1, <2>2, LevelGainType
  <2> HIDE DEF winners
  <2>4. \A t \in Teams : advance[t].level \in SuitedRanks
    <3> TAKE t \in Teams
    <3>1. levels[t] \in SuitedRanks /\ MandatoryLevels \in SUBSET SuitedRanks
      BY LevelAssumption DEF Typed, TypeOK
    <3>2. (IF t = winners THEN LevelGain(total) ELSE 0) \in Nat
      BY <2>3
    <3> QED
      BY <3>1, <3>2, AdvanceStaysInStage
  <2> HIDE DEF advance
  <2>5. /\ completed' = [winners |-> winners,
                         nextDeclarer |-> IF DefendersWin(total)
                                          THEN NextSeat(contract.declarer)
                                          ELSE PartnerSeat(contract.declarer),
                         total |-> total,
                         levelsAfter |-> [t \in Teams |-> advance[t].level]]
        /\ phase' \in {"Finished", "RoundReview"}
        /\ confirmed' = {}
    BY <1>4 DEF FinishRound, total, winners, advance
  <2>6. completed' \in [winners : 0..2, nextDeclarer : Seats \cup {NoSeat},
                        total : Int, levelsAfter : [Teams -> SuitedRanks]]
    BY <2>1, <2>2, <2>3, <2>4, <2>5, SeatArithmetic DEF Teams
  <2> QED
    BY <1>1, <1>2, <1>3, <2>1, <2>5, <2>6
       DEF NoThrow, Typed, TypeOK, Phases, dealVars, bidVars, stirVars
<1>5. CASE UNCHANGED <<phase, reviewVars>>
  BY <1>1, <1>2, <1>3, <1>5
     DEF NoThrow, Typed, TypeOK, Phases, dealVars, bidVars, stirVars, reviewVars
<1> QED
  BY <1>3, <1>4, <1>5

LEMMA LeadTyped ==
  ASSUME Typed, phase = "Playing", NEW attempted, PlayLead(attempted)
  PROVE  Typed'
<1> DEFINE others == {hands[s] : s \in Seats \ {actor}}
           cards == ResolveLead(attempted, others, Trump)
           rest == [hands EXCEPT ![actor] = @ \ cards]
           slot == [actor |-> actor, cards |-> cards]
           Forced(i) == (actor + i) % 4
           played == <<slot>> \o [i \in 1..3 |-> [actor |-> Forced(i), cards |-> hands[Forced(i)]]]
<1>1. /\ actor \in Seats /\ contract.declarer \in Seats /\ Trump \in Trumps
      /\ hands[actor] \subseteq Deck /\ attempted \in SUBSET hands[actor]
  BY DEF PlayLead, Without, Trump, Typed, TypeOK
<1>2. attempted \in SUBSET Card /\ IsFiniteSet(attempted) /\ attempted # {}
  BY <1>1, DeckFinite DEF PlayLead, Without, LegalLead, Analyzable
<1>3. cards \in SUBSET attempted /\ cards # {}
  BY <1>1, <1>2, ResolveLeadIn
<1>4. /\ IF LastLead(rest, actor, cards)
         THEN /\ \A s \in Seats \ {actor} : LegalFollow(hands[s], hands[s], cards, Trump)
              /\ CompleteTrick([s \in Seats |-> {}], played)
         ELSE /\ hands' = rest /\ slots' = <<slot>>
              /\ failed' = IF cards = attempted THEN NoThrow
                           ELSE [attempted |-> attempted, forced |-> cards]
              /\ actor' = NextSeat(actor)
              /\ UNCHANGED <<phase, dealVars, cursor, bottom, bidVars, contract,
                             stirVars, captured, reviewVars>>
  BY DEF PlayLead, Without
<1>5. slot \in [actor : Seats, cards : SUBSET Deck] /\ slot.cards # {}
  BY <1>1, <1>3
<1> HIDE DEF cards
<1>6. CASE LastLead(rest, actor, cards)
  <2>1. \A s \in Seats \ {actor} : hands[s] # {}
    BY <1>4, <1>6 DEF LegalFollow
  <2>2. \A i \in 1..3 : Forced(i) \in Seats \ {actor}
    BY <1>1 DEF Seats
  <2>3. [i \in 1..3 |-> [actor |-> Forced(i), cards |-> hands[Forced(i)]]]
          \in Seq([actor : Seats, cards : SUBSET Deck])
    BY <2>2 DEF Typed, TypeOK
  <2>4. played \in Seq([actor : Seats, cards : SUBSET Deck]) /\ Len(played) = 4
    BY <1>5, <2>3
  <2>5. \A i \in 1..4 : played[i].cards # {}
    BY <1>5, <2>1, <2>2
  <2>6. [s \in Seats |-> {}] \in [Seats -> SUBSET Deck]
    OBVIOUS
  <2> HIDE DEF played
  <2> QED
    BY <1>4, <1>6, <2>4, <2>5, <2>6, CompleteTrickTyped
<1>7. CASE ~LastLead(rest, actor, cards)
  <2>1. rest \in [Seats -> SUBSET Deck]
    BY <1>1 DEF Typed, TypeOK
  <2>2. failed' \in [attempted : SUBSET Deck, forced : SUBSET Deck]
    BY <1>1, <1>3, <1>4, <1>7 DEF NoThrow
  <2> HIDE DEF slot, rest
  <2>3. slots' = <<slot>>
    BY <1>4, <1>7
  <2>4. slots' \in Seq([actor : Seats, cards : SUBSET Deck])
          /\ \A i \in DOMAIN slots' : slots'[i].cards # {}
    BY <1>5, <2>3
  <2> QED
    BY <1>1, <1>4, <1>7, <2>1, <2>2, <2>4, SeatArithmetic
       DEF Typed, TypeOK, Phases, dealVars, bidVars, stirVars, reviewVars
<1> QED
  BY <1>6, <1>7

LEMMA FollowTyped ==
  ASSUME Typed, phase = "Playing", NEW cards, PlayFollow(cards)
  PROVE  Typed'
<1> DEFINE rest == [hands EXCEPT ![actor] = @ \ cards]
           slot == [actor |-> actor, cards |-> cards]
           played == Append(slots, slot)
<1>1. /\ actor \in Seats /\ contract.declarer \in Seats
      /\ hands[actor] \subseteq Deck /\ cards \subseteq hands[actor] /\ cards # {}
  BY DEF PlayFollow, Without, LegalFollow, Typed, TypeOK
<1>2. slot \in [actor : Seats, cards : SUBSET Deck] /\ slot.cards # {}
  BY <1>1
<1>3. rest \in [Seats -> SUBSET Deck]
  BY <1>1 DEF Typed, TypeOK
<1>4. IF Len(played) = 4 THEN CompleteTrick(rest, played)
      ELSE /\ hands' = rest /\ slots' = played
           /\ actor' = NextSeat(actor)
           /\ UNCHANGED <<phase, dealVars, cursor, bottom, bidVars, contract,
                          stirVars, failed, captured, reviewVars>>
  BY DEF PlayFollow, Without
<1> HIDE DEF rest, slot
<1>5. /\ played \in Seq([actor : Seats, cards : SUBSET Deck])
      /\ \A i \in DOMAIN played : played[i].cards # {}
  <2>1. slots \in Seq([actor : Seats, cards : SUBSET Deck])
    BY DEF Typed, TypeOK
  <2>2. \A i \in 1..Len(slots) : slots[i].cards # {}
    BY <2>1 DEF Typed
  <2> QED
    BY <1>2, <2>1, <2>2, AppendProperties
<1> HIDE DEF played
<1>6. CASE Len(played) = 4
  <2>1. \A i \in 1..4 : played[i].cards # {}
    BY <1>5, <1>6
  <2> QED
    BY <1>3, <1>4, <1>5, <1>6, <2>1, CompleteTrickTyped
<1>7. CASE Len(played) # 4
  BY <1>1, <1>3, <1>4, <1>5, <1>7, SeatArithmetic
     DEF Typed, TypeOK, Phases, dealVars, bidVars, stirVars, reviewVars
<1> QED
  BY <1>6, <1>7

LEMMA StepTyped == Typed /\ [Next]_vars => Typed'
<1> SUFFICES ASSUME Typed, [Next]_vars PROVE Typed'
  OBVIOUS
<1>1. CASE Confirm
  BY <1>1, ConfirmTyped
<1>2. CASE Bid
  BY <1>2, BidTyped
<1>3. CASE Exchange
  BY <1>3, ExchangeTyped
<1>4. CASE Overcall
  BY <1>4, OvercallTyped
<1>5. CASE PlayCards
  BY <1>5, LeadTyped, FollowTyped DEF PlayCards
<1>6. CASE UNCHANGED vars
  BY <1>6 DEF vars, dealVars, bidVars, stirVars, playVars, reviewVars, Typed, TypeOK
<1> QED
  BY <1>1, <1>2, <1>3, <1>4, <1>5, <1>6 DEF Next, Command, Over

(* Every reachable state is one the phase classes describe. *)
THEOREM TypeCorrect == Spec => []TypeOK
<1>1. Typed => TypeOK
  BY DEF Typed
<1> QED
  BY <1>1, InitTyped, StepTyped, PTL DEF Spec

---------------------------------------------------------------------------
(* Where the cards are *)

Distinct(seq) == \A i, j \in 1..Len(seq) : seq[i] = seq[j] => i = j

(* The inductive invariant: no card in two places, none lost before play,  *)
(* and the order still to be dealt repeats none.                           *)
Placed ==
  /\ CardsInOnePlace
  /\ NoCardLost
  /\ Distinct(deck)

(* A shuffle is the whole deck. *)
LEMMA ShuffleCovers ==
  ASSUME NEW shuffle \in Shuffles
  PROVE  Deck = {shuffle[i] : i \in 1..Len(shuffle)}
<1> DEFINE n == Len(shuffle)
           S == {shuffle[i] : i \in 1..n}
           f == [i \in 1..n |-> shuffle[i]]
<1>1. shuffle \in Seq(Deck) /\ n = Cardinality(Deck) /\ n \in Nat /\ Distinct(shuffle)
  BY ShuffleAssumption DEF Distinct
<1>2. S \in SUBSET Deck /\ IsFiniteSet(Deck)
  BY <1>1, ElementOfSeq, DeckAssumption
<1>3. f \in Bijection(1..n, S)
  BY <1>1 DEF Distinct, Bijection, Injection, Surjection, IsInjective
<1>4. Cardinality(S) = n
  BY <1>1, <1>3, FS_CountingElements DEF ExistsBijection
<1> QED
  BY <1>1, <1>2, <1>4, FS_Subset

(* The bottom, the first card dealt and the rest are the deck in three parts. *)
LEMMA DealParts ==
  ASSUME NEW shuffle \in Shuffles
  PROVE  LET dealt == SubSeq(shuffle, BottomCount + 1, Len(shuffle))
             under == {shuffle[i] : i \in 1..BottomCount}
             later == {dealt[i] : i \in 2..Len(dealt)}
         IN  /\ Distinct(dealt)
             /\ dealt[1] = shuffle[BottomCount + 1]
             /\ dealt[1] \notin later
             /\ under \cap ({dealt[1]} \cup later) = {}
             /\ under \cup {dealt[1]} \cup later = Deck
<1> DEFINE dealt == SubSeq(shuffle, BottomCount + 1, Len(shuffle))
           under == {shuffle[i] : i \in 1..BottomCount}
           later == {dealt[i] : i \in 2..Len(dealt)}
           m == Len(shuffle)
<1>1. /\ BottomCount \in Nat /\ m \in Nat /\ BottomCount < m
      /\ Len(dealt) = m - BottomCount
      /\ \A i \in 1..Len(dealt) : dealt[i] = shuffle[BottomCount + i]
      /\ shuffle[BottomCount + 1] = dealt[1]
  BY ShuffleSplits
<1>2. Distinct(shuffle)
  BY ShuffleAssumption DEF Distinct
<1> HIDE DEF dealt
<1>3. Distinct(dealt)
  <2> SUFFICES ASSUME NEW i \in 1..Len(dealt), NEW j \in 1..Len(dealt), dealt[i] = dealt[j]
               PROVE  i = j
    BY DEF Distinct
  <2>1. BottomCount + i \in 1..m /\ BottomCount + j \in 1..m
    BY <1>1
  <2>2. shuffle[BottomCount + i] = shuffle[BottomCount + j]
    BY <1>1
  <2> QED
    BY <1>1, <1>2, <2>1, <2>2 DEF Distinct
<1>4. dealt[1] \notin later
  BY <1>1, <1>3 DEF Distinct
<1>5. \A i \in 1..BottomCount, j \in 1..Len(dealt) : shuffle[i] # dealt[j]
  <2> TAKE i \in 1..BottomCount, j \in 1..Len(dealt)
  <2>1. i \in 1..m /\ BottomCount + j \in 1..m /\ i # BottomCount + j
    BY <1>1
  <2> QED
    BY <1>1, <1>2, <2>1 DEF Distinct
<1>6. under \cap ({dealt[1]} \cup later) = {}
  BY <1>1, <1>5
<1>7. \A i \in 1..m : shuffle[i] \in under \cup {dealt[1]} \cup later
  <2> TAKE i \in 1..m
  <2>1. CASE i <= BottomCount
    BY <1>1, <2>1
  <2>2. CASE i > BottomCount
    <3>1. i - BottomCount \in 1..Len(dealt) /\ shuffle[i] = dealt[i - BottomCount]
      BY <1>1, <2>2
    <3> QED
      BY <1>1, <3>1
  <2> QED
    BY <1>1, <2>1, <2>2
<1>8. under \cup {dealt[1]} \cup later \subseteq Deck
  <2>1. \A i \in 1..m : shuffle[i] \in Deck
    BY ShuffleSplits
  <2>2. \A i \in 1..Len(dealt) : BottomCount + i \in 1..m
    BY <1>1
  <2>3. \A i \in 1..Len(dealt) : dealt[i] \in Deck
    BY <1>1, <2>1, <2>2
  <2>4. 1..BottomCount \subseteq 1..m /\ 1 \in 1..Len(dealt) /\ 2..Len(dealt) \subseteq 1..Len(dealt)
    BY <1>1
  <2> QED
    BY <2>1, <2>3, <2>4
<1>9. Deck = {shuffle[i] : i \in 1..m}
  BY ShuffleCovers
<1>10. under \cup {dealt[1]} \cup later = Deck
  BY <1>7, <1>8, <1>9
<1> QED
  BY <1>1, <1>3, <1>4, <1>6, <1>10 DEF dealt

LEMMA StartRoundPlaced ==
  ASSUME NEW n, NEW lv, NEW declarer, NEW s \in Seats,
         NEW shuffle \in Shuffles, StartRound(n, lv, declarer, s, shuffle)
  PROVE  Placed'
<1> DEFINE dealt == SubSeq(shuffle, BottomCount + 1, Len(shuffle))
           under == {shuffle[i] : i \in 1..BottomCount}
           later == {dealt[i] : i \in 2..Len(dealt)}
<1>1. /\ Distinct(dealt) /\ dealt[1] = shuffle[BottomCount + 1] /\ dealt[1] \notin later
      /\ under \cap ({dealt[1]} \cup later) = {} /\ under \cup {dealt[1]} \cup later = Deck
  BY DealParts
<1>2. /\ phase' = "DealBid" /\ deck' = dealt /\ cursor' = 1 /\ bottom' = under
      /\ hands' = [t \in Seats |-> IF t = s THEN {dealt[1]} ELSE {}]
      /\ slots' = <<>> /\ captured' = {}
  BY <1>1 DEF StartRound
<1> HIDE DEF dealt, under
<1>3. /\ \A t \in Seats : Held(t)' = IF t = s THEN {dealt[1]} ELSE {}
      /\ Buried' = under /\ Undealt' = later /\ OnTable' = {}
  <2>1. \A t \in Seats : Held(t)' = IF t = s THEN {dealt[1]} ELSE {}
    BY <1>2 DEF Held
  <2>2. Undealt' = later
    BY <1>2 DEF Undealt
  <2> QED
    BY <1>2, <2>1, <2>2 DEF Buried, OnTable
<1> HIDE DEF later
<1>4. CardsInOnePlace'
  BY <1>1, <1>2, <1>3 DEF CardsInOnePlace
<1>5. (UNION {Held(t)' : t \in Seats}) \cup Buried' \cup Undealt' = Deck
  <2>1. UNION {Held(t)' : t \in Seats} = {dealt[1]}
    BY <1>3
  <2> QED
    BY <1>1, <1>3, <2>1
<1> QED
  BY <1>1, <1>2, <1>4, <1>5 DEF Placed, NoCardLost, Distinct

LEMMA InitPlaced == Init => Placed
<1> SUFFICES ASSUME Init PROVE Placed
  OBVIOUS
<1>1. CASE InitCreate
  <2>1. /\ \A t \in Seats : Held(t) = {}
        /\ Buried = {} /\ Undealt = {} /\ OnTable = {} /\ captured = {}
    BY <1>1 DEF Init, InitCreate, Held, Buried, Undealt, OnTable
  <2> QED
    BY <1>1, <2>1 DEF InitCreate, Placed, CardsInOnePlace, NoCardLost, Distinct
<1>2. CASE InitPosition
  <2>1. PICK p \in Positions, shuffle \in Shuffles :
          /\ phase = "DealBid"
          /\ bottom = {shuffle[i] : i \in 1..BottomCount}
          /\ deck = SubSeq(shuffle, BottomCount + 1, Len(shuffle))
          /\ hands = [t \in Seats |-> IF t = p.start THEN {shuffle[BottomCount + 1]} ELSE {}]
          /\ cursor = 1
    BY <1>2 DEF InitPosition
  <2> DEFINE dealt == SubSeq(shuffle, BottomCount + 1, Len(shuffle))
             under == {shuffle[i] : i \in 1..BottomCount}
             later == {dealt[i] : i \in 2..Len(dealt)}
  <2>2. p.start \in Seats
    BY PositionAssumption
  <2>3. /\ Distinct(dealt) /\ dealt[1] = shuffle[BottomCount + 1] /\ dealt[1] \notin later
        /\ under \cap ({dealt[1]} \cup later) = {} /\ under \cup {dealt[1]} \cup later = Deck
    BY DealParts
  <2>4. /\ deck = dealt /\ cursor = 1 /\ bottom = under /\ slots = <<>> /\ captured = {}
        /\ hands = [t \in Seats |-> IF t = p.start THEN {dealt[1]} ELSE {}]
    BY <2>1, <2>3 DEF Init
  <2> HIDE DEF dealt, under
  <2>5. /\ \A t \in Seats : Held(t) = IF t = p.start THEN {dealt[1]} ELSE {}
        /\ Buried = under /\ Undealt = later /\ OnTable = {}
    <3>1. \A t \in Seats : Held(t) = IF t = p.start THEN {dealt[1]} ELSE {}
      BY <2>1, <2>4 DEF Held
    <3>2. Undealt = later
      BY <2>4 DEF Undealt
    <3> QED
      BY <2>1, <2>4, <3>1, <3>2 DEF Buried, OnTable
  <2> HIDE DEF later
  <2>6. CardsInOnePlace
    BY <2>3, <2>4, <2>5 DEF CardsInOnePlace
  <2>7. (UNION {Held(t) : t \in Seats}) \cup Buried \cup Undealt = Deck
    <3>1. UNION {Held(t) : t \in Seats} = {dealt[1]}
      BY <2>2, <2>5
    <3> QED
      BY <2>3, <2>5, <3>1
  <2> QED
    BY <2>3, <2>4, <2>6, <2>7 DEF Placed, NoCardLost
<1> QED
  BY <1>1, <1>2 DEF Init

LEMMA ConfirmPlaced == Typed /\ Placed /\ Confirm => Placed'
<1> SUFFICES ASSUME Typed, Placed, NEW s \in Seats, ConfirmStart(s) \/ ConfirmReview(s)
             PROVE  Placed'
  BY DEF Confirm
<1>1. CASE UNCHANGED <<phase, dealVars, cursor, hands, bottom, actor, bidVars,
                       contract, stirVars, playVars, completed>>
  BY <1>1 DEF dealVars, bidVars, stirVars, playVars, Placed, CardsInOnePlace, NoCardLost,
              Held, Buried, Undealt, OnTable, Distinct
<1>2. Openers(NoSeat) \subseteq Seats /\ Openers(completed.nextDeclarer) \subseteq Seats
  BY DEF Openers, Typed, TypeOK
<1>3. CASE ConfirmStart(s)
  <2>1. CASE confirmed \cup {s} = Seats
    <3>1. PICK shuffle \in Shuffles, opener \in Openers(NoSeat) :
            StartRound(1, levels, NoSeat, opener, shuffle)
      BY <1>3, <2>1 DEF ConfirmStart
    <3> QED
      BY <1>2, <3>1, StartRoundPlaced
  <2> QED
    BY <1>1, <1>3, <2>1 DEF ConfirmStart
<1>4. CASE ConfirmReview(s)
  <2>1. CASE confirmed \cup {s} = Seats
    <3>1. PICK shuffle \in Shuffles, opener \in Openers(completed.nextDeclarer) :
            StartRound(round + 1, completed.levelsAfter, completed.nextDeclarer, opener, shuffle)
      BY <1>4, <2>1 DEF ConfirmReview
    <3> QED
      BY <1>2, <3>1, StartRoundPlaced
  <2> QED
    BY <1>1, <1>4, <2>1 DEF ConfirmReview
<1> QED
  BY <1>3, <1>4

(* Steps of a round leave the order of the deal alone, and every such step *)
(* only moves cards between the places.                                    *)
LEMMA AdvanceDealPlaced ==
  ASSUME Typed, Placed, phase = "DealBid", NEW decl, AdvanceDeal(decl),
         decl \in [actor : Seats \cup {NoSeat}, cards : SUBSET Deck],
         decl # NoDeclaration => decl.actor \in Seats
  PROVE  Placed'
<1>1. /\ \A t \in Seats : Held(t) = hands[t]
      /\ Buried = bottom
  BY DEF Held, Buried
<1>2. UNCHANGED <<deck, bottom, slots, captured>> /\ OnTable' = OnTable
  BY DEF AdvanceDeal, dealVars, playVars, OnTable
<1>3. CASE cursor = Len(deck)
  <2>1. PICK d \in Seats :
          /\ phase' = "BottomExchange" /\ actor' = d /\ pickup' = hands[d] \cup bottom
          /\ UNCHANGED <<hands, cursor>>
    BY <1>3 DEF AdvanceDeal, FinishDeal, PickUp, Typed, TypeOK
  <2>2. /\ \A t \in Seats : Held(t)' = IF t = d THEN hands[d] \cup bottom ELSE hands[t]
        /\ Buried' = {} /\ Undealt' = Undealt
    BY <1>2, <2>1 DEF Held, Buried, Undealt
  <2>3. CardsInOnePlace'
    BY <1>1, <1>2, <2>2 DEF CardsInOnePlace, Placed
  <2>4. (UNION {Held(t)' : t \in Seats}) \cup Buried' \cup Undealt' = Deck
    <3>1. (UNION {Held(t) : t \in Seats}) \cup Buried \cup Undealt = Deck
      BY DEF Placed, NoCardLost
    <3>2. UNION {Held(t)' : t \in Seats} = (UNION {Held(t) : t \in Seats}) \cup bottom
      BY <1>1, <2>1, <2>2
    <3> QED
      BY <1>1, <2>2, <3>1, <3>2
  <2> QED
    BY <1>2, <2>3, <2>4 DEF Placed, NoCardLost, Distinct
<1>4. CASE cursor # Len(deck)
  <2> DEFINE d == NextSeat(actor)
             card == deck[cursor + 1]
  <2>1. /\ phase' = "DealBid" /\ cursor' = cursor + 1
        /\ hands' = [hands EXCEPT ![d] = @ \cup {card}]
    BY <1>4 DEF AdvanceDeal
  <2>2. d \in Seats /\ cursor \in Nat /\ cursor < Len(deck) /\ Len(deck) \in Nat
        /\ hands \in [Seats -> SUBSET Deck]
    BY <1>4, SeatArithmetic DEF Typed, TypeOK
  <2>3. Undealt = Undealt' \cup {card}
    BY <1>2, <2>1, <2>2 DEF Undealt
  <2>4. card \notin Undealt'
    <3> SUFFICES ASSUME NEW i \in (cursor + 2)..Len(deck), deck[i] = card PROVE FALSE
      BY <1>2, <2>1, <2>2 DEF Undealt
    <3>1. i \in 1..Len(deck) /\ cursor + 1 \in 1..Len(deck) /\ i # cursor + 1
      BY <2>2
    <3> QED
      BY <3>1 DEF Placed, Distinct
  <2> HIDE DEF card, d
  <2>5. /\ \A t \in Seats : Held(t)' = IF t = d THEN hands[d] \cup {card} ELSE hands[t]
        /\ Buried' = bottom
    BY <1>2, <2>1, <2>2 DEF Held, Buried
  <2>6. CardsInOnePlace'
    <3>1. CardsInOnePlace
      BY DEF Placed
    <3>2. /\ \A t \in Seats : card \notin hands[t]
          /\ card \notin bottom \cup OnTable \cup captured
      <4>1. card \in Undealt
        BY <2>3
      <4>2. \A t \in Seats : card \notin Held(t)
        BY <3>1, <4>1 DEF CardsInOnePlace
      <4>3. card \notin Buried
        BY <3>1, <4>1 DEF CardsInOnePlace
      <4>4. card \notin OnTable /\ card \notin captured
        BY <3>1, <4>1 DEF CardsInOnePlace
      <4> QED
        BY <1>1, <4>2, <4>3, <4>4
    <3>3. \A s, t \in Seats : s # t => Held(s)' \cap Held(t)' = {}
      BY <1>1, <2>5, <3>1, <3>2 DEF CardsInOnePlace
    <3>4. \A s \in Seats : Held(s)' \cap (Buried' \cup Undealt' \cup OnTable' \cup captured') = {}
      BY <1>1, <1>2, <2>3, <2>4, <2>5, <3>1, <3>2 DEF CardsInOnePlace
    <3>5. Buried' \cap (Undealt' \cup OnTable' \cup captured') = {}
      BY <1>1, <1>2, <2>3, <2>5, <3>1 DEF CardsInOnePlace
    <3>6. Undealt' \cap (OnTable' \cup captured') = {}
      BY <1>2, <2>3, <3>1 DEF CardsInOnePlace
    <3> QED
      BY <1>2, <3>1, <3>3, <3>4, <3>5, <3>6 DEF CardsInOnePlace
  <2>7. (UNION {Held(t)' : t \in Seats}) \cup Buried' \cup Undealt' = Deck
    <3>1. (UNION {Held(t) : t \in Seats}) \cup Buried \cup Undealt = Deck
      BY DEF Placed, NoCardLost
    <3>2. UNION {Held(t)' : t \in Seats} = (UNION {Held(t) : t \in Seats}) \cup {card}
      BY <1>1, <2>2, <2>5
    <3> QED
      BY <1>1, <2>3, <2>5, <3>1, <3>2
  <2> QED
    BY <1>2, <2>6, <2>7 DEF Placed, NoCardLost, Distinct
<1> QED
  BY <1>3, <1>4

LEMMA BidPlaced == Typed /\ Placed /\ Bid => Placed'
<1> SUFFICES ASSUME Typed, Placed, Bid PROVE Placed'
  OBVIOUS
<1>1. CASE PassBid
  BY <1>1, AdvanceDealPlaced DEF PassBid, Bid, Typed, TypeOK
<1>2. ASSUME NEW cards \in SUBSET hands[actor], RevealBid(cards)
      PROVE  Placed'
  <2>1. actor \in Seats /\ cards \in SUBSET Deck
    BY DEF Bid, Typed, TypeOK
  <2> QED
    BY <1>2, <2>1, AdvanceDealPlaced DEF RevealBid, Bid
<1> QED
  BY <1>1, <1>2 DEF Bid

LEMMA ExchangePlaced == Typed /\ Placed /\ Exchange => Placed'
<1> SUFFICES ASSUME Typed, Placed, phase = "BottomExchange",
                    NEW cards \in SUBSET pickup, Bury(cards)
             PROVE  Placed'
  BY DEF Exchange
<1>1. /\ \A t \in Seats : Held(t) = IF t = actor THEN pickup ELSE hands[t]
      /\ Buried = {}
  BY DEF Held, Buried
<1>2. /\ actor \in Seats /\ hands \in [Seats -> SUBSET Deck]
      /\ hands' = [hands EXCEPT ![actor] = pickup \ cards] /\ bottom' = cards
      /\ UNCHANGED <<deck, cursor>>
      /\ phase' \in {"Playing", "StirDecision"}
      /\ slots' \in {slots, <<>>} /\ captured' \in {captured, {}}
  BY DEF Bury, StirIndex, BeginPlaying, Typed, TypeOK, dealVars, playVars
<1>3. /\ \A t \in Seats : Held(t)' = IF t = actor THEN pickup \ cards ELSE hands[t]
      /\ Buried' = cards /\ Undealt' = Undealt /\ OnTable' \subseteq OnTable
  BY <1>2 DEF Held, Buried, Undealt, OnTable
<1>4. CardsInOnePlace'
  <2>1. CardsInOnePlace
    BY DEF Placed
  <2>2. captured' \subseteq captured
    BY <1>2
  <2> QED
    BY <1>1, <1>2, <1>3, <2>1, <2>2 DEF CardsInOnePlace
<1>5. (UNION {Held(t)' : t \in Seats}) \cup Buried' \cup Undealt' = Deck
  <2>1. (UNION {Held(t) : t \in Seats}) \cup Buried \cup Undealt = Deck
    BY DEF Placed, NoCardLost
  <2>2. UNION {Held(t) : t \in Seats} = (UNION {Held(t)' : t \in Seats}) \cup cards
    BY <1>1, <1>2, <1>3
  <2> QED
    BY <1>1, <1>3, <2>1, <2>2
<1> QED
  BY <1>2, <1>4, <1>5 DEF Placed, NoCardLost, Distinct

LEMMA OvercallPlaced == Typed /\ Placed /\ Overcall => Placed'
<1> SUFFICES ASSUME Typed, Placed, Overcall PROVE Placed'
  OBVIOUS
<1>1. /\ \A t \in Seats : Held(t) = hands[t]
      /\ Buried = bottom /\ actor \in Seats
  BY DEF Held, Buried, Overcall, Typed, TypeOK
<1>2. (UNION {Held(t) : t \in Seats}) \cup Buried \cup Undealt = Deck
  BY DEF Placed, NoCardLost, Overcall
<1>3. CASE PassStir
  <2>1. /\ phase' \in {"Playing", "StirDecision"}
        /\ UNCHANGED <<hands, bottom, deck, cursor>>
        /\ slots' \in {slots, <<>>} /\ captured' \in {captured, {}}
    BY <1>3 DEF PassStir, Declined, BeginPlaying, Overcall, dealVars, playVars
  <2>2. /\ \A t \in Seats : Held(t)' = hands[t]
        /\ Buried' = bottom /\ Undealt' = Undealt /\ OnTable' \subseteq OnTable
        /\ captured' \subseteq captured
    BY <2>1 DEF Held, Buried, Undealt, OnTable
  <2>3. CardsInOnePlace'
    BY <1>1, <2>2 DEF CardsInOnePlace, Placed
  <2>4. (UNION {Held(t)' : t \in Seats}) \cup Buried' \cup Undealt' = Deck
    BY <1>1, <1>2, <2>2
  <2> QED
    BY <2>1, <2>3, <2>4 DEF Placed, NoCardLost, Distinct
<1>4. ASSUME NEW cards \in SUBSET hands[actor], Stir(cards)
      PROVE  Placed'
  <2>1. /\ phase' = "BottomExchange" /\ pickup' = hands[actor] \cup bottom
        /\ UNCHANGED <<hands, bottom, deck, cursor, slots, captured, actor>>
    BY <1>4 DEF Stir, PickUp, Redeclared, dealVars, playVars
  <2>2. /\ \A t \in Seats : Held(t)' = IF t = actor THEN hands[actor] \cup bottom ELSE hands[t]
        /\ Buried' = {} /\ Undealt' = Undealt /\ OnTable' = OnTable
    BY <2>1 DEF Held, Buried, Undealt, OnTable
  <2>3. CardsInOnePlace'
    BY <1>1, <2>1, <2>2 DEF CardsInOnePlace, Placed
  <2>4. (UNION {Held(t)' : t \in Seats}) \cup Buried' \cup Undealt' = Deck
    <3>1. UNION {Held(t)' : t \in Seats} = (UNION {Held(t) : t \in Seats}) \cup bottom
      BY <1>1, <2>2
    <3> QED
      BY <1>1, <1>2, <2>2, <3>1
  <2> QED
    BY <2>1, <2>3, <2>4 DEF Placed, NoCardLost, Distinct
<1> QED
  BY <1>3, <1>4 DEF Overcall

LEMMA CompleteTrickPlaced ==
  ASSUME Typed, Placed, phase = "Playing",
         NEW rest \in [Seats -> SUBSET Deck],
         NEW played \in Seq([actor : Seats, cards : SUBSET Deck]),
         \A s \in Seats : rest[s] \subseteq hands[s],
         \A s \in Seats, i \in DOMAIN played : rest[s] \cap played[i].cards = {},
         \A i \in DOMAIN played :
           played[i].cards \subseteq OnTable \/ \E s \in Seats : played[i].cards \subseteq hands[s],
         CompleteTrick(rest, played)
  PROVE  Placed'
<1> DEFINE laid == UNION {played[i].cards : i \in DOMAIN played}
<1>1. /\ hands' = rest /\ slots' = <<>> /\ UNCHANGED <<bottom, deck, cursor>>
      /\ phase' \in {"Playing", "Finished", "RoundReview"}
      /\ captured' \subseteq captured \cup laid
  BY DEF CompleteTrick, FinishRound, dealVars
<1>2. /\ \A t \in Seats : Held(t) = hands[t] /\ Held(t)' = rest[t]
      /\ Buried = bottom /\ Buried' = bottom /\ Undealt' = Undealt /\ OnTable' = {}
  BY <1>1 DEF Held, Buried, Undealt, OnTable
<1>3. CardsInOnePlace
  BY DEF Placed
<1>4. laid \cap (bottom \cup Undealt) = {}
  BY <1>2, <1>3 DEF CardsInOnePlace
<1>5. \A s \in Seats : rest[s] \cap laid = {}
  OBVIOUS
<1> HIDE DEF laid
<1>6. \A s, t \in Seats : s # t => Held(s)' \cap Held(t)' = {}
  BY <1>2, <1>3 DEF CardsInOnePlace
<1>7. \A s \in Seats : Held(s)' \cap (Buried' \cup Undealt' \cup OnTable' \cup captured') = {}
  BY <1>1, <1>2, <1>3, <1>5 DEF CardsInOnePlace
<1>8. (Buried' \cap (Undealt' \cup OnTable' \cup captured') = {})
        /\ (Undealt' \cap (OnTable' \cup captured') = {})
  BY <1>1, <1>2, <1>3, <1>4 DEF CardsInOnePlace
<1>9. OnTable' \cap captured' = {}
  BY <1>2
<1>10. CardsInOnePlace'
  BY <1>6, <1>7, <1>8, <1>9 DEF CardsInOnePlace
<1> QED
  BY <1>1, <1>10 DEF Placed, NoCardLost, Distinct

LEMMA LeadPlaced ==
  ASSUME Typed, Placed, phase = "Playing", NEW attempted, PlayLead(attempted)
  PROVE  Placed'
<1> DEFINE others == {hands[s] : s \in Seats \ {actor}}
           cards == ResolveLead(attempted, others, Trump)
           rest == [hands EXCEPT ![actor] = @ \ cards]
           slot == [actor |-> actor, cards |-> cards]
           Forced(i) == (actor + i) % 4
           follow == [i \in 1..3 |-> [actor |-> Forced(i), cards |-> hands[Forced(i)]]]
           played == <<slot>> \o follow
<1>1. /\ actor \in Seats /\ Trump \in Trumps
      /\ hands \in [Seats -> SUBSET Deck] /\ attempted \in SUBSET hands[actor]
  BY DEF PlayLead, Without, Trump, Typed, TypeOK
<1>2. attempted \in SUBSET Card /\ IsFiniteSet(attempted) /\ attempted # {}
  BY <1>1, DeckFinite DEF PlayLead, Without, LegalLead, Analyzable
<1>3. cards \in SUBSET attempted
  BY <1>1, <1>2, ResolveLeadIn
<1>4. IF LastLead(rest, actor, cards)
      THEN CompleteTrick([s \in Seats |-> {}], played)
      ELSE /\ hands' = rest /\ slots' = <<slot>>
           /\ UNCHANGED <<phase, dealVars, cursor, bottom, captured>>
  BY DEF PlayLead, Without
<1> HIDE DEF cards
<1>5. CASE LastLead(rest, actor, cards)
  <2>1. \A i \in 1..3 : Forced(i) \in Seats
    BY <1>1 DEF Seats
  <2>2. slot \in [actor : Seats, cards : SUBSET Deck]
    BY <1>1, <1>3
  <2>3. follow \in Seq([actor : Seats, cards : SUBSET Deck]) /\ Len(follow) = 3
    BY <1>1, <2>1
  <2>4. /\ played \in Seq([actor : Seats, cards : SUBSET Deck]) /\ Len(played) = 4
        /\ played[1] = slot /\ \A i \in 1..3 : played[i + 1] = follow[i]
    BY <2>2, <2>3
  <2>5. DOMAIN played = 1..4
    BY <2>4
  <2>6. \A i \in DOMAIN played : \E s \in Seats : played[i].cards \subseteq hands[s]
    <3>1. played[1].cards \subseteq hands[actor]
      BY <1>1, <1>3, <2>4
    <3>2. \A i \in 1..3 : played[i + 1].cards \subseteq hands[Forced(i)]
      BY <2>1, <2>4
    <3>3. \A i \in 1..4 : i = 1 \/ (i - 1 \in 1..3 /\ i = (i - 1) + 1)
      OBVIOUS
    <3> HIDE DEF played, Forced
    <3> QED
      BY <1>1, <2>1, <2>5, <3>1, <3>2, <3>3
  <2> HIDE DEF played
  <2>7. [s \in Seats |-> {}] \in [Seats -> SUBSET Deck]
    OBVIOUS
  <2> QED
    BY <1>4, <1>5, <2>4, <2>6, <2>7, CompleteTrickPlaced
<1>6. CASE ~LastLead(rest, actor, cards)
  <2>1. /\ hands' = [hands EXCEPT ![actor] = @ \ cards] /\ slots' = <<slot>>
        /\ UNCHANGED <<phase, deck, cursor, bottom, captured>>
    BY <1>4, <1>6 DEF dealVars
  <2>2. /\ \A t \in Seats : /\ Held(t) = hands[t]
                            /\ Held(t)' = IF t = actor THEN hands[t] \ cards ELSE hands[t]
        /\ Buried = bottom /\ Buried' = bottom /\ Undealt' = Undealt
    BY <1>1, <2>1 DEF Held, Buried, Undealt
  <2>3. OnTable' = cards
    BY <2>1 DEF OnTable
  <2>4. CardsInOnePlace
    BY DEF Placed
  <2>5. cards \subseteq Held(actor)
    BY <1>1, <1>3, <2>2
  <2>6. \A s, t \in Seats : s # t => Held(s)' \cap Held(t)' = {}
    BY <1>1, <2>2, <2>4 DEF CardsInOnePlace
  <2>7. \A s \in Seats : Held(s)' \cap (Buried' \cup Undealt' \cup OnTable' \cup captured') = {}
    BY <1>1, <2>1, <2>2, <2>3, <2>4, <2>5 DEF CardsInOnePlace
  <2>8. /\ Buried' \cap (Undealt' \cup OnTable' \cup captured') = {}
        /\ Undealt' \cap (OnTable' \cup captured') = {}
        /\ OnTable' \cap captured' = {}
    BY <1>1, <2>1, <2>2, <2>3, <2>4, <2>5 DEF CardsInOnePlace
  <2> QED
    BY <2>1, <2>6, <2>7, <2>8 DEF CardsInOnePlace, Placed, NoCardLost, Distinct
<1> QED
  BY <1>5, <1>6

LEMMA FollowPlaced ==
  ASSUME Typed, Placed, phase = "Playing", NEW cards, PlayFollow(cards)
  PROVE  Placed'
<1> DEFINE rest == [hands EXCEPT ![actor] = @ \ cards]
           slot == [actor |-> actor, cards |-> cards]
           played == Append(slots, slot)
<1>1. /\ actor \in Seats /\ hands \in [Seats -> SUBSET Deck] /\ cards \subseteq hands[actor]
      /\ slots \in Seq([actor : Seats, cards : SUBSET Deck])
      /\ slot \in [actor : Seats, cards : SUBSET Deck]
  BY DEF PlayFollow, Without, Typed, TypeOK
<1>2. rest \in [Seats -> SUBSET Deck] /\ \A s \in Seats : rest[s] \subseteq hands[s]
  BY <1>1
<1>3. /\ played \in Seq([actor : Seats, cards : SUBSET Deck])
      /\ DOMAIN played = 1..(Len(slots) + 1) /\ DOMAIN slots = 1..Len(slots)
      /\ \A i \in 1..Len(slots) : played[i] = slots[i]
      /\ played[Len(slots) + 1] = slot
      /\ Len(slots) \in Nat
  BY <1>1, AppendProperties
<1>4. IF Len(played) = 4 THEN CompleteTrick(rest, played)
      ELSE /\ hands' = rest /\ slots' = played
           /\ UNCHANGED <<phase, dealVars, cursor, bottom, captured>>
  BY DEF PlayFollow, Without
<1> HIDE DEF played
<1>5. \A i \in DOMAIN played : played[i].cards \subseteq OnTable \/ played[i].cards = cards
  BY <1>3 DEF OnTable
<1>6. /\ \A t \in Seats : Held(t) = hands[t]
      /\ Buried = bottom /\ CardsInOnePlace
  BY DEF Held, Buried, Placed
<1>7. \A s \in Seats, i \in DOMAIN played : rest[s] \cap played[i].cards = {}
  <2>1. \A s \in Seats : rest[s] \cap OnTable = {}
    BY <1>2, <1>6 DEF CardsInOnePlace
  <2>2. \A s \in Seats : rest[s] \cap cards = {}
    BY <1>1, <1>6 DEF CardsInOnePlace
  <2> QED
    BY <1>5, <2>1, <2>2
<1> HIDE DEF rest
<1>8. CASE Len(played) = 4
  BY <1>1, <1>2, <1>3, <1>4, <1>5, <1>7, <1>8, CompleteTrickPlaced
<1>9. CASE Len(played) # 4
  <2>1. /\ hands' = [hands EXCEPT ![actor] = @ \ cards] /\ slots' = played
        /\ UNCHANGED <<phase, deck, cursor, bottom, captured>>
    BY <1>4, <1>9 DEF dealVars, rest
  <2>2. /\ \A t \in Seats : Held(t)' = IF t = actor THEN hands[t] \ cards ELSE hands[t]
        /\ Buried' = bottom /\ Undealt' = Undealt
    BY <1>1, <2>1 DEF Held, Buried, Undealt
  <2>3. OnTable' \subseteq OnTable \cup cards
    BY <1>5, <2>1 DEF OnTable
  <2>4. cards \subseteq Held(actor)
    BY <1>1, <1>6
  <2>5. \A s, t \in Seats : s # t => Held(s)' \cap Held(t)' = {}
    BY <1>1, <1>6, <2>2 DEF CardsInOnePlace
  <2>6. \A s \in Seats : Held(s)' \cap (Buried' \cup Undealt' \cup OnTable' \cup captured') = {}
    BY <1>1, <1>6, <2>1, <2>2, <2>3, <2>4 DEF CardsInOnePlace
  <2>7. /\ Buried' \cap (Undealt' \cup OnTable' \cup captured') = {}
        /\ Undealt' \cap (OnTable' \cup captured') = {}
        /\ OnTable' \cap captured' = {}
    BY <1>1, <1>6, <2>1, <2>2, <2>3, <2>4 DEF CardsInOnePlace
  <2> QED
    BY <2>1, <2>5, <2>6, <2>7 DEF CardsInOnePlace, Placed, NoCardLost, Distinct
<1> QED
  BY <1>8, <1>9

LEMMA StepPlaced == Typed /\ Placed /\ [Next]_vars => Placed'
<1> SUFFICES ASSUME Typed, Placed, [Next]_vars PROVE Placed'
  OBVIOUS
<1>1. CASE Confirm
  BY <1>1, ConfirmPlaced
<1>2. CASE Bid
  BY <1>2, BidPlaced
<1>3. CASE Exchange
  BY <1>3, ExchangePlaced
<1>4. CASE Overcall
  BY <1>4, OvercallPlaced
<1>5. CASE PlayCards
  BY <1>5, LeadPlaced, FollowPlaced DEF PlayCards
<1>6. CASE UNCHANGED vars
  BY <1>6 DEF vars, dealVars, bidVars, stirVars, playVars, reviewVars, Placed,
              CardsInOnePlace, NoCardLost, Held, Buried, Undealt, OnTable, Distinct
<1> QED
  BY <1>1, <1>2, <1>3, <1>4, <1>5, <1>6 DEF Next, Command, Over

(* No sequence of commands puts a physical card in two places, or loses one *)
(* before the first trick.                                                  *)
THEOREM CardsConserved == Spec => [](CardsInOnePlace /\ NoCardLost)
<1>1. Placed => CardsInOnePlace /\ NoCardLost
  BY DEF Placed
<1> QED
  BY <1>1, InitTyped, StepTyped, InitPlaced, StepPlaced, PTL DEF Spec

---------------------------------------------------------------------------
(* The engine as the seats see it *)

TurnPhases == {"DealBid", "BottomExchange", "StirDecision", "Playing"}

(* Two seat sets the confirmations go through. *)
LEMMA LastConfirmation ==
  ASSUME NEW seats \in SUBSET Seats, NEW s \in Seats \ seats
  PROVE  /\ seats \cup {s} = Seats <=> Seats \ seats = {s}
         /\ Seats \ (seats \cup {s}) = (Seats \ seats) \ {s}
OBVIOUS

LEMMA AskedInPhase ==
  ASSUME TypeOK
  PROVE  /\ phase \in {"AwaitingStart", "RoundReview"} =>
              Asked = [action |-> "next_round", seats |-> Seats \ confirmed]
         /\ phase \in TurnPhases => Asked = Shown!Turn(actor) /\ actor \in Seats
         /\ phase = "Finished" => Asked = Shown!Finished
BY DEF TypeOK, Asked, TurnPhases, Shown!Turn, Shown!Finished

LEMMA InitShown == Init => Shown!Init
<1> SUFFICES ASSUME Init PROVE Shown!Init
  OBVIOUS
<1>1. CASE InitCreate
  <2>1. Asked = [action |-> "next_round", seats |-> Seats \ {}]
    BY <1>1 DEF Init, InitCreate, Asked
  <2> QED
    BY <2>1 DEF Shown!Init, Shown!Start
<1>2. CASE InitPosition
  <2>1. PICK p \in Positions : phase = "DealBid" /\ actor = p.start
    BY <1>2 DEF InitPosition
  <2>2. p.start \in Seats
    BY PositionAssumption
  <2> QED
    BY <2>1, <2>2 DEF Asked, Shown!Init, Shown!Turn
<1> QED
  BY <1>1, <1>2 DEF Init

(* A command of a phase with an actor never leads back before the first deal, *)
(* and a review it leads to starts with nobody confirmed.                     *)
LEMMA TurnLeads ==
  ASSUME Typed, Bid \/ Exchange \/ Overcall \/ PlayCards
  PROVE  /\ phase \in TurnPhases
         /\ phase' = "RoundReview" => confirmed' = {}
         /\ phase' # "AwaitingStart"
<1>1. CASE Bid
  <2>1. PICK decl : AdvanceDeal(decl)
    BY <1>1 DEF Bid, PassBid, RevealBid
  <2> QED
    BY <1>1, <2>1 DEF Bid, AdvanceDeal, FinishDeal, TurnPhases
<1>2. CASE Exchange
  BY <1>2 DEF Exchange, Bury, BeginPlaying, TurnPhases
<1>3. CASE Overcall
  BY <1>3 DEF Overcall, PassStir, Stir, BeginPlaying, TurnPhases
<1>4. CASE PlayCards
  <2>1. ASSUME NEW rest, NEW played, CompleteTrick(rest, played)
        PROVE  phase' \in {"Playing", "RoundReview", "Finished"}
                 /\ (phase' = "RoundReview" => confirmed' = {})
    BY <1>4, <2>1 DEF PlayCards, CompleteTrick, FinishRound
  <2>2. ASSUME NEW cards, PlayLead(cards)
        PROVE  phase' \in {"Playing", "RoundReview", "Finished"}
                 /\ (phase' = "RoundReview" => confirmed' = {})
    BY <1>4, <2>1, <2>2 DEF PlayCards, PlayLead
  <2>3. ASSUME NEW cards, PlayFollow(cards)
        PROVE  phase' \in {"Playing", "RoundReview", "Finished"}
                 /\ (phase' = "RoundReview" => confirmed' = {})
    BY <1>4, <2>1, <2>3 DEF PlayCards, PlayFollow
  <2> QED
    BY <1>4, <2>2, <2>3 DEF PlayCards, TurnPhases
<1> QED
  BY <1>1, <1>2, <1>3, <1>4

(* A confirmation, whether it is the last one or not, is a move of the table. *)
LEMMA ConfirmShown ==
  ASSUME Typed, Typed', Confirm
  PROVE  Shown!Next
<1>1. PICK s \in Seats \ confirmed : ConfirmStart(s) \/ ConfirmReview(s)
  BY DEF Confirm, ConfirmStart, ConfirmReview
<1>2. /\ confirmed \in SUBSET Seats
      /\ phase \in {"AwaitingStart", "RoundReview"}
      /\ Asked = [action |-> "next_round", seats |-> Seats \ confirmed]
  BY <1>1, AskedInPhase DEF Typed, TypeOK, ConfirmStart, ConfirmReview
<1>3. Shown!Awaits(Asked, s) = "next_round" /\ Asked.seats = Seats \ confirmed
  BY <1>1, <1>2 DEF Shown!Awaits
<1>4. CASE confirmed \cup {s} = Seats
  <2>1. phase' = "DealBid"
    BY <1>1, <1>4 DEF ConfirmStart, ConfirmReview, StartRound
  <2>2. Asked' = Shown!Turn(actor)' /\ actor' \in Seats
    BY <2>1, AskedInPhase DEF Typed, TypeOK, Asked, Shown!Turn
  <2>3. Asked.seats = {s}
    BY <1>1, <1>2, <1>3, <1>4, LastConfirmation
  <2> QED
    BY <1>1, <1>3, <2>2, <2>3 DEF Shown!Next, Shown!Moves, Shown!Turn
<1>5. CASE confirmed \cup {s} # Seats
  <2>1. phase' = phase /\ confirmed' = confirmed \cup {s}
    BY <1>1, <1>5 DEF ConfirmStart, ConfirmReview
  <2>2. Asked' = [action |-> "next_round", seats |-> (Seats \ confirmed) \ {s}]
    <3>1. Asked' = [action |-> "next_round", seats |-> Seats \ confirmed']
      BY <1>2, <2>1 DEF Asked
    <3>2. Seats \ confirmed' = (Seats \ confirmed) \ {s}
      BY <2>1
    <3> QED
      BY <3>1, <3>2
  <2>3. Asked.seats # {s}
    BY <1>1, <1>2, <1>3, <1>5, LastConfirmation
  <2> QED
    BY <1>1, <1>3, <2>2, <2>3 DEF Shown!Next, Shown!Moves
<1> QED
  BY <1>4, <1>5

(* Every other command is a move of the seat whose turn it is. *)
LEMMA TurnShown ==
  ASSUME Typed, Typed', Bid \/ Exchange \/ Overcall \/ PlayCards
  PROVE  Shown!Next
<1>1. /\ phase \in TurnPhases
      /\ phase' = "RoundReview" => confirmed' = {}
      /\ phase' # "AwaitingStart"
  BY TurnLeads
<1>2. Asked = Shown!Turn(actor) /\ actor \in Seats
  BY <1>1, AskedInPhase DEF Typed
<1>3. Shown!Awaits(Asked, actor) = "turn"
  BY <1>2 DEF Shown!Awaits, Shown!Turn
<1>4. Asked' \in {Shown!Turn(t) : t \in Seats} \cup {Shown!Start, Shown!Finished}
  <2>1. CASE phase' = "RoundReview"
    <3>1. Asked' = [action |-> "next_round", seats |-> Seats \ {}]
      BY <1>1, <2>1 DEF Asked
    <3> QED
      BY <3>1 DEF Shown!Start
  <2>2. CASE phase' = "Finished"
    BY <2>2 DEF Asked, Shown!Finished
  <2>3. CASE phase' \in TurnPhases
    BY <2>3 DEF Asked, TurnPhases, Typed, TypeOK, Shown!Turn
  <2> QED
    BY <1>1, <2>1, <2>2, <2>3 DEF Typed, TypeOK, Phases, TurnPhases
<1> QED
  BY <1>2, <1>3, <1>4 DEF Shown!Next, Shown!Moves

(* The engine implements the table game: commands come from seats that were  *)
(* asked, and a deal begins only when all four have confirmed.               *)
THEOREM TableRefined == Spec => TableGame
<1>1. Init => Typed /\ Shown!Init
  BY InitTyped, InitShown
<1>2. Typed /\ Typed' /\ [Next]_vars => [Shown!Next]_Asked
  <2> SUFFICES ASSUME Typed, Typed', [Next]_vars PROVE [Shown!Next]_Asked
    OBVIOUS
  <2>1. CASE Command
    BY <2>1, ConfirmShown, TurnShown DEF Command
  <2>2. CASE UNCHANGED vars
    BY <2>2 DEF Asked, vars, reviewVars
  <2> QED
    BY <2>1, <2>2 DEF Next, Over
<1>3. Typed /\ [Next]_vars => Typed'
  BY StepTyped
<1> QED
  BY <1>1, <1>2, <1>3, PTL DEF Spec, TableGame, Shown!Spec
---------------------------------------------------------------------------
(* Overcalls *)

LEMMA BidValueType ==
  ASSUME NEW cards \in SUBSET Deck, NEW rank
  PROVE  BidValue(cards, rank) \in Int
<1> DEFINE f == (CHOOSE c \in cards : TRUE).face
<1>1. CASE ~ValidShape(cards, rank)
  BY <1>1 DEF BidValue
<1>2. CASE ValidShape(cards, rank)
  <2>1. f \in Faces
    BY <1>2, ShapeNotEmpty, DeckAssumption DEF Card
  <2>2. Cardinality(cards) \in Nat
    BY DeckFinite, FS_CardinalityType
  <2>3. (IF f.suit = "joker" THEN f.rank - SmallJoker + 4 ELSE BidSuitOrder[f.suit]) \in Int
    BY <2>1 DEF Faces, Suits, SmallJoker, BigJoker, BidSuitOrder, SuitedRanks
  <2>4. BidValue(cards, rank) = 100 * Cardinality(cards)
          + (IF f.suit = "joker" THEN f.rank - SmallJoker + 4 ELSE BidSuitOrder[f.suit])
    BY <1>2 DEF BidValue
  <2> HIDE DEF f
  <2> QED
    BY <2>2, <2>3, <2>4
<1> QED
  BY <1>1, <1>2

(* What a declaration is worth under the trump rank of the round. *)
Worth(cards) == BidValue(cards, Trump.rank)

Outbid ==
  \A i \in DOMAIN stirs : stirs[i].cards # {} =>
    declaration.cards # {} /\ Worth(stirs[i].cards) <= Worth(declaration.cards)

(* No stir is worth more than the declaration that stands; the exchange    *)
(* that is open was caused by the last stir and is not recorded yet.       *)
Stirred ==
  /\ phase \in {"AwaitingStart", "DealBid"} => stirs = <<>> /\ exchanges = <<>>
  /\ phase = "BottomExchange" /\ cause = "INITIAL" => stirs = <<>> /\ exchanges = <<>>
  /\ phase = "BottomExchange" /\ cause = "STIR" =>
       /\ Len(stirs) > 0
       /\ stirs[Len(stirs)].actor = actor /\ stirs[Len(stirs)].cards # {}
       /\ \A i \in DOMAIN exchanges : exchanges[i].stir # Len(stirs)
  /\ Outbid
  /\ phase = "StirDecision" => owner \in Seats
  /\ PassedInOrder /\ StirsRise /\ ExchangesMatchStirs

LEMMA StartRoundStirred ==
  ASSUME NEW n, NEW lv, NEW declarer, NEW s, NEW shuffle,
         StartRound(n, lv, declarer, s, shuffle)
  PROVE  Stirred'
<1>1. phase' = "DealBid" /\ stirs' = <<>> /\ exchanges' = <<>>
  BY DEF StartRound
<1> QED
  BY <1>1 DEF Stirred, Outbid, PassedInOrder, StirsRise, ExchangesMatchStirs

LEMMA InitStirred == Init => Stirred
<1> SUFFICES ASSUME Init PROVE Stirred
  OBVIOUS
<1>1. phase \in {"AwaitingStart", "DealBid"} /\ stirs = <<>> /\ exchanges = <<>>
  BY DEF Init, InitCreate, InitPosition
<1> QED
  BY <1>1 DEF Stirred, Outbid, PassedInOrder, StirsRise, ExchangesMatchStirs

LEMMA SameStirred ==
  ASSUME Stirred, UNCHANGED <<stirs, exchanges, declaration, contract>>,
         \/ phase' \in {"Playing", "RoundReview", "Finished"}
         \/ UNCHANGED <<phase, actor, cause, owner, passed>>
  PROVE  Stirred'
<1>1. StirsRise' /\ ExchangesMatchStirs' /\ PassedInOrder'
  BY DEF Stirred, StirsRise, ExchangesMatchStirs, PassedInOrder, Trump
<1> QED
  BY <1>1 DEF Stirred, Outbid, Worth, Trump

LEMMA ConfirmStirred == ASSUME Stirred, Confirm PROVE Stirred'
<1>1. PICK s \in Seats : ConfirmStart(s) \/ ConfirmReview(s)
  BY DEF Confirm
<1>2. CASE confirmed \cup {s} = Seats
  BY <1>1, <1>2, StartRoundStirred DEF ConfirmStart, ConfirmReview
<1>3. CASE confirmed \cup {s} # Seats
  BY <1>1, <1>3, SameStirred DEF ConfirmStart, ConfirmReview, bidVars, stirVars
<1> QED
  BY <1>2, <1>3

LEMMA BidStirred == ASSUME Stirred, Bid PROVE Stirred'
<1>1. PICK decl : AdvanceDeal(decl)
  BY DEF Bid, PassBid, RevealBid
<1>2. /\ stirs' = <<>> /\ exchanges' = <<>>
      /\ phase' = "DealBid" \/ (phase' = "BottomExchange" /\ cause' = "INITIAL")
  BY <1>1 DEF Bid, AdvanceDeal, FinishDeal, stirVars, Stirred
<1> QED
  BY <1>2 DEF Stirred, Outbid, PassedInOrder, StirsRise, ExchangesMatchStirs

LEMMA OneAppended ==
  ASSUME NEW S, NEW s \in Seq(S), NEW e \in S
  PROVE  /\ DOMAIN s = 1..Len(s) /\ Len(s) \in Nat
         /\ DOMAIN Append(s, e) = 1..(Len(s) + 1) /\ Len(Append(s, e)) = Len(s) + 1
         /\ \A i \in DOMAIN s : Append(s, e)[i] = s[i] /\ i # Len(s) + 1
         /\ Append(s, e)[Len(s) + 1] = e
         /\ \A i \in DOMAIN Append(s, e) : i \in DOMAIN s \/ i = Len(s) + 1
  OBVIOUS

(* The bottom is buried: the first seat to decide is the owner's next. *)
LEMMA ExchangeStirred == ASSUME Typed, Stirred, Exchange PROVE Stirred'
<1> DEFINE e == [actor |-> actor, cause |-> cause, stir |-> StirIndex]
<1>1. PICK cards \in SUBSET pickup : Bury(cards)
  BY DEF Exchange
<1>2. /\ phase = "BottomExchange" /\ actor \in Seats /\ cause \in {"INITIAL", "STIR"}
      /\ phase' \in {"Playing", "StirDecision"}
      /\ exchanges' = Append(exchanges, e) /\ owner' = actor /\ passed' = {actor}
      /\ phase' = "StirDecision" => actor' = NextSeat(actor)
      /\ UNCHANGED <<stirs, declaration, contract>>
  BY <1>1 DEF Exchange, Bury, BeginPlaying, Typed, TypeOK, bidVars
<1>3. PassedInOrder'
  <2> SUFFICES ASSUME phase' = "StirDecision"
               PROVE  passed' = {(owner' + i) % 4 : i \in 0..(1 - 1)}
                        /\ actor' = (owner' + 1) % 4
    BY DEF PassedInOrder
  <2>1. (actor + 0) % 4 = actor
    BY <1>2 DEF Seats
  <2>2. {(actor + i) % 4 : i \in 0..(1 - 1)} = {actor}
    BY <2>1
  <2> QED
    BY <1>2, <2>2 DEF NextSeat
<1>4. StirsRise'
  BY <1>2 DEF Stirred, StirsRise, Trump
<1>5. ExchangesMatchStirs'
  <2> DEFINE S == [actor : Seats, cause : {"INITIAL", "STIR"}, stir : Nat]
  <2>1. exchanges \in Seq(S) /\ Len(stirs) \in Nat /\ DOMAIN stirs = 1..Len(stirs)
    BY DEF Typed, TypeOK
  <2>2. e \in S
    BY <1>2, <2>1 DEF StirIndex
  <2>3. /\ DOMAIN exchanges' = 1..(Len(exchanges) + 1)
        /\ \A i \in DOMAIN exchanges : exchanges'[i] = exchanges[i] /\ i # Len(exchanges) + 1
        /\ exchanges'[Len(exchanges) + 1] = e
        /\ \A i \in DOMAIN exchanges' : i \in DOMAIN exchanges \/ i = Len(exchanges) + 1
    BY <1>2, <2>1, <2>2, OneAppended
  <2>4. IF e.cause = "INITIAL" THEN e.stir = 0
        ELSE e.stir \in DOMAIN stirs /\ stirs[e.stir].actor = e.actor
               /\ stirs[e.stir].cards # {}
    BY <1>2, <2>1 DEF Stirred, StirIndex
  <2>5. \A i \in DOMAIN exchanges : exchanges[i].stir # e.stir
    <3>1. CASE cause = "INITIAL"
      BY <1>2, <3>1 DEF Stirred
    <3>2. CASE cause = "STIR"
      BY <1>2, <3>2 DEF Stirred, StirIndex
    <3> QED
      BY <1>2, <3>1, <3>2
  <2> HIDE DEF e
  <2>6. \A i \in DOMAIN exchanges' :
          IF exchanges'[i].cause = "INITIAL" THEN exchanges'[i].stir = 0
          ELSE /\ exchanges'[i].stir \in DOMAIN stirs
               /\ stirs[exchanges'[i].stir].actor = exchanges'[i].actor
               /\ stirs[exchanges'[i].stir].cards # {}
    BY <2>3, <2>4 DEF Stirred, ExchangesMatchStirs
  <2>7. \A i, j \in DOMAIN exchanges' : i # j => exchanges'[i].stir # exchanges'[j].stir
    BY <2>3, <2>5 DEF Stirred, ExchangesMatchStirs
  <2> QED
    BY <1>2, <2>6, <2>7 DEF ExchangesMatchStirs
<1> QED
  BY <1>2, <1>3, <1>4, <1>5 DEF Stirred, Outbid, Worth, Trump

LEMMA StirsAppended ==
  ASSUME Typed, Stirred, NEW cards \in SUBSET Deck, actor \in Seats,
         stirs' = Append(stirs, [actor |-> actor, cards |-> cards]),
         contract'.trump.rank = contract.trump.rank, UNCHANGED exchanges,
         \/ cards = {} /\ UNCHANGED declaration
         \/ /\ cards # {} /\ declaration'.cards = cards
            /\ declaration.cards # {} => Worth(cards) > Worth(declaration.cards)
  PROVE  /\ Len(stirs') = Len(stirs) + 1 /\ Len(stirs) \in Nat
         /\ stirs'[Len(stirs')] = [actor |-> actor, cards |-> cards]
         /\ Outbid' /\ StirsRise' /\ ExchangesMatchStirs'
         /\ \A i \in DOMAIN exchanges : exchanges[i].stir # Len(stirs')
<1> DEFINE S == [actor : Seats, cards : SUBSET Deck]
           e == [actor |-> actor, cards |-> cards]
<1>1. stirs \in Seq(S) /\ e \in S
  BY DEF Typed, TypeOK
<1>2. /\ Len(stirs) \in Nat /\ Len(stirs') = Len(stirs) + 1
      /\ DOMAIN stirs = 1..Len(stirs) /\ DOMAIN stirs' = 1..(Len(stirs) + 1)
      /\ \A i \in DOMAIN stirs : stirs'[i] = stirs[i] /\ i # Len(stirs) + 1
      /\ stirs'[Len(stirs) + 1] = e
      /\ \A i \in DOMAIN stirs' : i \in DOMAIN stirs \/ i = Len(stirs) + 1
  BY <1>1, OneAppended
<1>3. Trump'.rank = Trump.rank
  BY DEF Trump
<1>4. ASSUME NEW i \in DOMAIN stirs PROVE Worth(stirs[i].cards) \in Int
  <2>1. stirs[i] \in S
    BY <1>1, <1>2, ElementOfSeq
  <2> QED
    BY <2>1, BidValueType DEF Worth
<1>5. Worth(cards) \in Int /\ Worth(declaration.cards) \in Int
  BY BidValueType DEF Worth, Typed, TypeOK
<1>6. Outbid
  BY DEF Stirred
<1>7. \A i \in DOMAIN stirs : cards # {} /\ stirs[i].cards # {} =>
        Worth(stirs[i].cards) < Worth(cards)
  BY <1>4, <1>5, <1>6 DEF Outbid
<1>8. \A i \in DOMAIN stirs' : stirs'[i].cards # {} =>
        declaration'.cards # {} /\ Worth(stirs'[i].cards) <= Worth(declaration'.cards)
  BY <1>2, <1>4, <1>5, <1>6, <1>7 DEF Outbid
<1>9. \A i, j \in DOMAIN stirs' :
        i < j /\ stirs'[i].cards # {} /\ stirs'[j].cards # {} =>
          Worth(stirs'[i].cards) < Worth(stirs'[j].cards)
  <2> TAKE i, j \in DOMAIN stirs'
  <2>1. CASE j \in DOMAIN stirs
    <3>1. i < j => i \in DOMAIN stirs
      BY <1>2, <2>1
    <3> QED
      BY <1>2, <2>1, <3>1 DEF Stirred, StirsRise, Worth
  <2>2. CASE j = Len(stirs) + 1
    <3>1. i < j => i \in DOMAIN stirs
      BY <1>2, <2>2
    <3> QED
      BY <1>2, <1>7, <2>2, <3>1
  <2> QED
    BY <1>2, <2>1, <2>2
<1>10. StirsRise' /\ Outbid'
  BY <1>8, <1>9 DEF StirsRise, Outbid, Worth, Trump
<1>11. ExchangesMatchStirs'
  BY <1>2 DEF Stirred, ExchangesMatchStirs
<1>12. \A i \in DOMAIN exchanges : exchanges[i].stir # Len(stirs')
  <2> TAKE i \in DOMAIN exchanges
  <2>1. exchanges[i].stir = 0 \/ exchanges[i].stir \in DOMAIN stirs
    BY DEF Stirred, ExchangesMatchStirs
  <2> QED
    BY <1>2, <2>1
<1> QED
  BY <1>2, <1>10, <1>11, <1>12

(* A pass goes to the next seat until all but the owner have declined. *)
LEMMA PassStirOrder ==
  ASSUME Stirred, phase = "StirDecision", actor \in Seats, Declined # Seats,
         passed' = Declined, actor' = NextSeat(actor), owner' = owner
  PROVE  PassedInOrder'
<1>1. PICK n \in 1..3 : /\ passed = {(owner + i) % 4 : i \in 0..(n - 1)}
                        /\ actor = (owner + n) % 4
  BY DEF Stirred, PassedInOrder
<1>2. owner \in Seats
  BY DEF Stirred
<1>3. Declined = {(owner + i) % 4 : i \in 0..n}
  <2>1. \A i : i \in 0..n <=> i \in 0..(n - 1) \/ i = n
    BY <1>1
  <2> QED
    BY <1>1, <2>1 DEF Declined
<1>4. n # 3
  <2> SUFFICES ASSUME n = 3 PROVE Seats \subseteq Declined /\ Declined \subseteq Seats
    OBVIOUS
  <2>1. \A i \in 0..3 : (owner + i) % 4 \in Declined
    BY <1>3
  <2>2. \A s \in Seats : \E i \in 0..3 : s = (owner + i) % 4
    BY <1>2 DEF Seats
  <2>3. \A i \in 0..3 : (owner + i) % 4 \in Seats
    BY <1>2 DEF Seats
  <2> QED
    BY <1>3, <2>1, <2>2, <2>3
<1>5. n + 1 \in 1..3 /\ (n + 1) - 1 = n
  BY <1>1, <1>4
<1>6. NextSeat(actor) = (owner + (n + 1)) % 4
  BY <1>1, <1>2, <1>4 DEF Seats, NextSeat
<1> QED
  BY <1>3, <1>5, <1>6 DEF PassedInOrder

LEMMA OvercallStirred == ASSUME Typed, Stirred, Overcall PROVE Stirred'
<1>1. phase = "StirDecision" /\ actor \in Seats
  BY DEF Overcall, Typed, TypeOK
<1>2. CASE PassStir
  <2>1. /\ stirs' = Append(stirs, [actor |-> actor, cards |-> {}])
        /\ UNCHANGED <<exchanges, declaration, contract, owner, cause>>
        /\ \/ phase' = "Playing"
           \/ phase' = phase /\ Declined # Seats /\ passed' = Declined
                /\ actor' = NextSeat(actor)
    BY <1>2 DEF PassStir, BeginPlaying, bidVars
  <2>2. Outbid' /\ StirsRise' /\ ExchangesMatchStirs'
    BY <1>1, <2>1, StirsAppended
  <2>3. PassedInOrder'
    BY <1>1, <2>1, PassStirOrder DEF PassedInOrder
  <2> QED
    BY <1>1, <2>1, <2>2, <2>3 DEF Stirred
<1>3. ASSUME NEW cards \in SUBSET hands[actor], Stir(cards) PROVE Stirred'
  <2>1. cards \in SUBSET Deck
    BY <1>1 DEF Typed, TypeOK
  <2>2. cards # {} /\ (declaration.cards # {} => Worth(cards) > Worth(declaration.cards))
    BY <1>3, ShapeNotEmpty DEF Stir, ValidStir, ValidReveal, Beats, Worth
  <2>3. /\ stirs' = Append(stirs, [actor |-> actor, cards |-> cards])
        /\ declaration'.cards = cards /\ phase' = "BottomExchange" /\ cause' = "STIR"
        /\ UNCHANGED <<exchanges, actor>>
    BY <1>3 DEF Stir
  <2>4. contract'.trump.rank = contract.trump.rank
    BY <1>3 DEF Stir, Redeclared, Typed, TypeOK, Trumps
  <2>5. /\ Len(stirs') = Len(stirs) + 1 /\ Len(stirs) \in Nat
        /\ stirs'[Len(stirs')] = [actor |-> actor, cards |-> cards]
        /\ Outbid' /\ StirsRise' /\ ExchangesMatchStirs'
        /\ \A i \in DOMAIN exchanges : exchanges[i].stir # Len(stirs')
    BY <1>1, <2>1, <2>2, <2>3, <2>4, StirsAppended
  <2> QED
    BY <2>2, <2>3, <2>5 DEF Stirred, PassedInOrder
<1> QED
  BY <1>2, <1>3 DEF Overcall

LEMMA PlayStirred == ASSUME Typed, Stirred, PlayCards PROVE Stirred'
<1>1. UNCHANGED <<stirs, exchanges, declaration, contract>>
      /\ phase' \in {"Playing", "RoundReview", "Finished"}
  <2>1. ASSUME NEW rest, NEW played, phase = "Playing", CompleteTrick(rest, played)
        PROVE  /\ UNCHANGED <<stirs, exchanges, declaration, contract>>
               /\ phase' \in {"Playing", "RoundReview", "Finished"}
    BY <2>1 DEF CompleteTrick, FinishRound, bidVars, stirVars
  <2>2. ASSUME NEW cards, phase = "Playing", PlayLead(cards)
        PROVE  /\ UNCHANGED <<stirs, exchanges, declaration, contract>>
               /\ phase' \in {"Playing", "RoundReview", "Finished"}
    BY <2>1, <2>2 DEF PlayLead, bidVars, stirVars
  <2>3. ASSUME NEW cards, phase = "Playing", PlayFollow(cards)
        PROVE  /\ UNCHANGED <<stirs, exchanges, declaration, contract>>
               /\ phase' \in {"Playing", "RoundReview", "Finished"}
    BY <2>1, <2>3 DEF PlayFollow, bidVars, stirVars
  <2> QED
    BY <2>2, <2>3 DEF PlayCards
<1> QED
  BY <1>1, SameStirred

LEMMA StepStirred == ASSUME Typed, Stirred, [Next]_vars PROVE Stirred'
<1>1. CASE UNCHANGED vars
  BY <1>1, SameStirred DEF vars, bidVars, stirVars
<1> QED
  BY <1>1, ConfirmStirred, BidStirred, ExchangeStirred, OvercallStirred, PlayStirred
     DEF Next, Command, Over

(* The seats asked to overcall, the declarations made and the exchanges    *)
(* they cause stay in step, however often the bottom changes hands.        *)
THEOREM OvercallsInStep == Spec => []StirringKept
<1>1. Typed /\ Stirred => StirringKept
  BY DEF Stirred, StirringKept
<1>2. Typed /\ Stirred /\ [Next]_vars => Typed' /\ Stirred'
  BY StepTyped, StepStirred
<1> QED
  BY <1>1, <1>2, InitTyped, InitStirred, PTL DEF Spec
---------------------------------------------------------------------------
(* From round to round *)

(* A team at which no mandatory level is left is at the ace.               *)
LEMMA WonFromTheAce ==
  ASSUME NEW level \in SuitedRanks, NEW gain \in Nat, NEW wasDeclarer \in BOOLEAN,
         Advance(level, gain, wasDeclarer, MandatoryLevels).won
  PROVE  wasDeclarer /\ level = 14
<1> DEFINE above == {m \in MandatoryLevels : m > level}
           target == StageTarget(level, MandatoryLevels)
<1>1. CASE above = {}
  <2>1. level = 14
    BY <1>1, LevelAssumption DEF SuitedRanks
  <2>2. target = Win
    BY <1>1 DEF StageTarget
  <2> QED
    BY <2>1, <2>2 DEF Advance
<1>2. CASE above # {}
  <2>1. above \in SUBSET Nat
    <3>1. \A m \in SuitedRanks : m \in Nat
      BY DEF SuitedRanks
    <3> QED
      BY <3>1, LevelAssumption
  <2>2. \E m \in above : \A n \in above : m <= n
    BY <1>2, <2>1, LeastNatural
  <2>3. Min(above) \in above
    BY <2>2 DEF Min
  <2>4. target \in SuitedRanks
    BY <1>2, <2>3, LevelAssumption DEF StageTarget
  <2>5. target # Win
    BY <2>4 DEF SuitedRanks, Win
  <2> HIDE DEF target
  <2>6. ~Advance(level, gain, wasDeclarer, MandatoryLevels).won
    BY <2>5 DEF Advance, target
  <2> QED
    BY <2>6
<1> QED
  BY <1>1, <1>2

LEMMA NoGain ==
  ASSUME NEW level, NEW wasDeclarer
  PROVE  Advance(level, 0, wasDeclarer, MandatoryLevels) = [level |-> level, won |-> FALSE]
  BY DEF Advance

(* What a completed round fixes for the next one.                          *)
Result ==
  phase \in {"RoundReview", "Finished"} =>
    /\ completed.nextDeclarer \in Seats
    /\ Team(completed.nextDeclarer) = completed.winners
    /\ \A t \in Teams : completed.levelsAfter[t] >= levels[t]
    /\ \E t \in Teams : completed.levelsAfter[t] = levels[t]
    /\ \A t \in Teams, m \in MandatoryLevels :
         ~(levels[t] < m /\ m < completed.levelsAfter[t])
Settled == Result /\ WonAtAce

LEMMA FinishRoundSettled ==
  ASSUME Typed, phase = "Playing", NEW points \in SUBSET Deck, NEW last,
         last.cards \in SUBSET Deck, last.cards # {},
         FinishRound(points, last), UNCHANGED <<contract, levels>>
  PROVE  Settled'
<1> DEFINE declarers == Team(contract.declarer)
           total == TotalPoints(points, bottom, last.cards, Team(last.actor) # declarers, Trump)
           winners == IF DefendersWin(total) THEN 1 - declarers ELSE declarers
           next == IF DefendersWin(total) THEN NextSeat(contract.declarer)
                   ELSE PartnerSeat(contract.declarer)
           adv(t) == Advance(levels[t], IF t = winners THEN LevelGain(total) ELSE 0,
                             t = declarers, MandatoryLevels)
<1>1. contract.declarer \in Seats /\ declarers \in Teams /\ levels \in [Teams -> SuitedRanks]
  BY SeatArithmetic DEF Typed, TypeOK
<1>2. total \in Int
  <2>1. bottom \in SUBSET Deck
    BY DEF Typed, TypeOK
  <2> QED
    BY <2>1, DeckFinite, TotalPointsType
<1>3. LevelGain(total) \in Nat
  BY <1>2, LevelGainType
<1>4. /\ completed' = [winners |-> winners, nextDeclarer |-> next, total |-> total,
                       levelsAfter |-> [t \in Teams |-> adv(t).level]]
      /\ phase' = IF adv(winners).won THEN "Finished" ELSE "RoundReview"
  <2>1. winners \in Teams
    BY <1>1 DEF Teams
  <2> QED
    BY <2>1 DEF FinishRound
<1>5. next \in Seats /\ Team(next) = winners
  BY <1>1 DEF Seats, NextSeat, PartnerSeat, Team
<1>6. \A t \in Teams : t # winners => adv(t).level = levels[t]
  BY NoGain
<1>7. winners \in Teams /\ 1 - winners \in Teams /\ 1 - winners # winners
  BY <1>1 DEF Teams
<1>8. adv(winners).won => winners = declarers /\ levels[winners] = 14
  <2>1. adv(winners) = Advance(levels[winners], LevelGain(total), winners = declarers,
                               MandatoryLevels)
    OBVIOUS
  <2>2. levels[winners] \in SuitedRanks /\ (winners = declarers) \in BOOLEAN
    BY <1>1, <1>7
  <2> HIDE DEF winners, declarers, total, adv
  <2> QED
    BY <1>3, <2>1, <2>2, WonFromTheAce
<1>9. \A t \in Teams : /\ levels[t] <= adv(t).level
                       /\ \A m \in MandatoryLevels : ~(levels[t] < m /\ m < adv(t).level)
                       /\ adv(t).level \in SuitedRanks
  <2> SUFFICES ASSUME NEW t \in Teams
               PROVE  /\ levels[t] <= adv(t).level
                      /\ \A m \in MandatoryLevels : ~(levels[t] < m /\ m < adv(t).level)
                      /\ adv(t).level \in SuitedRanks
    OBVIOUS
  <2>1. levels[t] \in SuitedRanks
    BY <1>1
  <2>2. (IF t = winners THEN LevelGain(total) ELSE 0) \in Nat
    BY <1>3
  <2> HIDE DEF winners, declarers, total
  <2> QED
    BY <2>1, <2>2, LevelAssumption, AdvanceStaysInStage
<1>10. \A t \in Teams : levels[t] \in SuitedRanks
  BY <1>1
<1> HIDE DEF winners, declarers, total, next, adv
<1>11. \A t \in Teams : adv(t).level >= levels[t]
  BY <1>9, <1>10 DEF SuitedRanks
<1>12. Result'
  BY <1>4, <1>5, <1>6, <1>7, <1>9, <1>11 DEF Result
<1>13. WonAtAce'
  BY <1>4, <1>8 DEF WonAtAce, declarers
<1> QED
  BY <1>12, <1>13 DEF Settled

(* What a play does outside the cards: nothing, or it ends the round.      *)
LEMMA PlayEffect ==
  ASSUME Typed, PlayCards
  PROVE  /\ phase = "Playing" /\ UNCHANGED <<contract, levels, fixed>>
         /\ \/ phase' = "Playing"
            \/ phase' \in {"RoundReview", "Finished"} /\ Settled'
<1>1. phase = "Playing" /\ actor \in Seats /\ hands \in [Seats -> SUBSET Deck]
      /\ captured \in SUBSET Deck /\ slots \in Seq([actor : Seats, cards : SUBSET Deck])
      /\ contract.trump \in Trumps
  BY DEF PlayCards, Typed, TypeOK
<1>2. ASSUME NEW rest, NEW played, Len(played) = 4,
             \A i \in 1..4 : /\ played[i].actor \in Seats
                             /\ played[i].cards \in SUBSET Deck /\ played[i].cards # {},
             DOMAIN played = 1..4, CompleteTrick(rest, played)
      PROVE  /\ UNCHANGED <<contract, levels, fixed>>
             /\ \/ phase' = "Playing"
                \/ phase' \in {"RoundReview", "Finished"} /\ Settled'
  <2> DEFINE winner == WinningSlot(played, Trump)
             cards == UNION {played[i].cards : i \in DOMAIN played}
             points == IF Team(winner.actor) = Team(contract.declarer) THEN captured
                       ELSE captured \cup {c \in cards : Points(c) > 0}
  <2>1. UNCHANGED <<contract, levels, fixed>>
    BY <1>2 DEF CompleteTrick, dealVars
  <2>2. winner.cards \in SUBSET Deck /\ winner.cards # {}
    BY <1>2, WinningSlotIn
  <2>3. cards \in SUBSET Deck
    BY <1>2
  <2>4. points \in SUBSET Deck
    BY <1>1, <2>3
  <2>5. FinishRound(points, winner) \/ phase' = phase
    BY <1>2 DEF CompleteTrick
  <2>6. FinishRound(points, winner) => phase' \in {"RoundReview", "Finished"}
    BY DEF FinishRound
  <2> HIDE DEF winner, points
  <2> QED
    BY <1>1, <2>1, <2>2, <2>4, <2>5, <2>6, FinishRoundSettled
<1>3. ASSUME NEW attempted \in SUBSET hands[actor], PlayLead(attempted)
      PROVE  /\ UNCHANGED <<contract, levels, fixed>>
             /\ \/ phase' = "Playing"
                \/ phase' \in {"RoundReview", "Finished"} /\ Settled'
  <2> DEFINE others == {hands[s] : s \in Seats \ {actor}}
             cards == ResolveLead(attempted, others, Trump)
             lead == <<[actor |-> actor, cards |-> cards]>>
             Forced(i) == (actor + i) % 4
             played == lead \o [i \in 1..3 |-> [actor |-> Forced(i), cards |-> hands[Forced(i)]]]
  <2>1. attempted \in SUBSET Card /\ IsFiniteSet(attempted) /\ attempted # {}
    BY <1>1, <1>3, DeckFinite DEF PlayLead, LegalLead, Analyzable
  <2>2. cards \in SUBSET attempted /\ cards # {}
    BY <1>1, <2>1, ResolveLeadIn DEF Trump
  <2>3. CASE /\ \A s \in Seats \ {actor} : LegalFollow(hands[s], hands[s], cards, Trump)
             /\ CompleteTrick([s \in Seats |-> {}], played)
    <3> DEFINE slot == [actor |-> actor, cards |-> cards]
               tail == [i \in 1..3 |-> [actor |-> Forced(i), cards |-> hands[Forced(i)]]]
    <3>1. \A i \in 1..3 : Forced(i) \in Seats \ {actor}
      BY <1>1 DEF Seats
    <3>2. \A s \in Seats \ {actor} : hands[s] # {}
      BY <2>3 DEF LegalFollow
    <3> HIDE DEF cards, Forced
    <3>3. tail \in Seq([actor : Seats, cards : SUBSET Deck]) /\ Len(tail) = 3
      BY <1>1, <3>1
    <3>4. \A i \in 1..3 : tail[i].cards # {}
      BY <3>1, <3>2
    <3>5. slot \in [actor : Seats, cards : SUBSET Deck] /\ slot.cards # {}
      BY <1>1, <2>2
    <3> HIDE DEF slot, tail
    <3>6. /\ played \in Seq([actor : Seats, cards : SUBSET Deck]) /\ Len(played) = 4
          /\ played[1] = slot /\ \A i \in 1..3 : played[i + 1] = tail[i]
      <4> DEFINE one == <<slot>>
      <4>1. played = one \o tail
        BY DEF slot, tail
      <4> HIDE DEF played
      <4>2. one \in Seq([actor : Seats, cards : SUBSET Deck]) /\ Len(one) = 1
            /\ one[1] = slot
        BY <3>5
      <4> HIDE DEF one
      <4>3. /\ played \in Seq([actor : Seats, cards : SUBSET Deck])
            /\ Len(played) = 1 + 3
            /\ \A i \in 1..(1 + 3) :
                 played[i] = IF i <= 1 THEN one[i] ELSE tail[i - 1]
        <5> DEFINE T == [actor : Seats, cards : SUBSET Deck]
        <5>1. one \in Seq(T) /\ tail \in Seq(T)
          BY <3>3, <4>2
        <5> HIDE DEF T
        <5>2. /\ one \o tail \in Seq(T)
              /\ Len(one \o tail) = Len(one) + Len(tail)
              /\ \A i \in 1..(Len(one) + Len(tail)) :
                   (one \o tail)[i] = IF i <= Len(one) THEN one[i] ELSE tail[i - Len(one)]
          BY <5>1, ConcatProperties
        <5> QED
          BY <3>3, <4>1, <4>2, <5>2 DEF T
      <4>4. \A i \in 1..3 : i + 1 \in 1..(1 + 3) /\ ~(i + 1 <= 1) /\ (i + 1) - 1 = i
        OBVIOUS
      <4>5. \A i \in 1..3 : played[i + 1] = tail[i]
        BY <4>3, <4>4
      <4> QED
        BY <4>2, <4>3, <4>5
    <3>7. \A i \in 1..4 : i = 1 \/ (i - 1 \in 1..3 /\ i = (i - 1) + 1)
      OBVIOUS
    <3> HIDE DEF played
    <3>8. \A i \in 1..4 : played[i] \in [actor : Seats, cards : SUBSET Deck]
      BY <3>6, ElementOfSeq
    <3>9. \A i \in 1..4 : played[i].cards # {}
      BY <3>4, <3>5, <3>6, <3>7
    <3>10. DOMAIN played = 1..4
      BY <3>6
    <3>11. \A i \in 1..4 : played[i].actor \in Seats /\ played[i].cards \in SUBSET Deck
      BY <3>8
    <3> QED
      BY <1>2, <2>3, <3>6, <3>9, <3>10, <3>11
  <2>4. CASE UNCHANGED <<phase, dealVars, contract>>
    BY <1>1, <2>4 DEF dealVars
  <2> HIDE DEF played, cards
  <2> QED
    BY <1>3, <2>3, <2>4 DEF PlayLead, played, cards
<1>4. ASSUME NEW cards \in SUBSET hands[actor], PlayFollow(cards)
      PROVE  /\ UNCHANGED <<contract, levels, fixed>>
             /\ \/ phase' = "Playing"
                \/ phase' \in {"RoundReview", "Finished"} /\ Settled'
  <2> DEFINE played == Append(slots, [actor |-> actor, cards |-> cards])
             S == [actor : Seats, cards : SUBSET Deck]
  <2>1. cards # {}
    BY <1>4 DEF PlayFollow, LegalFollow
  <2>2. slots \in Seq(S) /\ [actor |-> actor, cards |-> cards] \in S
    BY <1>1
  <2>3. played \in Seq(S) /\ Len(played) = Len(slots) + 1 /\ DOMAIN played = 1..Len(played)
        /\ \A i \in DOMAIN played : \/ i \in DOMAIN slots /\ played[i] = slots[i]
                                    \/ played[i] = [actor |-> actor, cards |-> cards]
    BY <2>2
  <2>4. \A i \in DOMAIN slots : slots[i] \in S /\ slots[i].cards # {}
    <3>1. DOMAIN slots = 1..Len(slots)
      BY <1>1
    <3> QED
      BY <2>2, <3>1, ElementOfSeq DEF Typed
  <2> HIDE DEF played
  <2>7. \A i \in DOMAIN played : /\ played[i].actor \in Seats
                                  /\ played[i].cards \in SUBSET Deck
                                  /\ played[i].cards # {}
    <3>1. SUFFICES ASSUME NEW i \in DOMAIN played
                   PROVE  /\ played[i].actor \in Seats
                          /\ played[i].cards \in SUBSET Deck
                          /\ played[i].cards # {}
      OBVIOUS
    <3>2. CASE i \in DOMAIN slots /\ played[i] = slots[i]
      BY <2>4, <3>2
    <3>3. CASE played[i] = [actor |-> actor, cards |-> cards]
      BY <1>1, <2>1, <3>3
    <3> QED
      BY <2>3, <3>2, <3>3
  <2>5. CASE Len(played) = 4 /\ CompleteTrick(Without(cards), played)
    BY <1>2, <2>3, <2>5, <2>7
  <2>6. CASE UNCHANGED <<phase, dealVars, contract>>
    BY <1>1, <2>6 DEF dealVars
  <2> QED
    BY <1>4, <2>5, <2>6 DEF PlayFollow, played
<1> QED
  BY <1>1, <1>3, <1>4 DEF PlayCards

LEMMA StepSettled == ASSUME Typed, Settled, [Next]_vars PROVE Settled'
<1>1. CASE UNCHANGED <<phase, completed, levels, contract>>
  BY <1>1 DEF Settled, Result, WonAtAce
<1>2. CASE phase' \notin {"RoundReview", "Finished"}
  BY <1>2 DEF Settled, Result, WonAtAce
<1>3. CASE Confirm
  <2>1. PICK s \in Seats : ConfirmStart(s) \/ ConfirmReview(s)
    BY <1>3 DEF Confirm
  <2>2. phase' = "DealBid" \/ UNCHANGED <<phase, completed, levels, contract>>
    BY <2>1 DEF ConfirmStart, ConfirmReview, StartRound, dealVars
  <2> QED
    BY <1>1, <1>2, <2>2
<1>4. CASE Bid \/ Exchange \/ Overcall
  <2>1. phase' \notin {"RoundReview", "Finished"}
    BY <1>4 DEF Bid, PassBid, RevealBid, AdvanceDeal, FinishDeal, Exchange, Bury,
       Overcall, PassStir, Stir, BeginPlaying
  <2> QED
    BY <1>2, <2>1
<1>5. CASE PlayCards
  BY <1>2, <1>5, PlayEffect
<1>6. CASE UNCHANGED vars
  BY <1>1, <1>6 DEF vars, dealVars, reviewVars
<1> QED
  BY <1>3, <1>4, <1>5, <1>6 DEF Next, Command, Over

LEMMA InitSettled == Init => Settled
  BY DEF Init, InitCreate, InitPosition, Settled, Result, WonAtAce

(* The only way from a result to a deal.                                   *)
LEMMA NextRound ==
  ASSUME Typed, Settled, Next, phase = "RoundReview", phase' = "DealBid"
  PROVE  levels' = completed.levelsAfter /\ fixed' = completed.nextDeclarer
<1>1. Confirm
  BY PlayEffect DEF Next, Command, Over, Stopped, vars, Bid, Exchange, Overcall
<1>2. PICK s \in Seats : ConfirmReview(s)
  BY <1>1 DEF Confirm, ConfirmStart
<1> QED
  BY <1>2 DEF ConfirmReview, StartRound

LEMMA ContractStep ==
  ASSUME Typed, Next, phase \in {"BottomExchange", "StirDecision", "Playing"}
  PROVE  /\ contract'.declarer = contract.declarer
         /\ contract'.trump.rank = contract.trump.rank
         /\ contract' = contract \/ (phase' = "BottomExchange" /\ cause' = "STIR")
<1>1. CASE Exchange
  BY <1>1 DEF Exchange, Bury
<1>2. CASE Overcall
  <2>1. contract \in [declarer : Seats \cup {NoSeat}, trump : Trumps]
    BY DEF Typed, TypeOK
  <2> QED
    BY <1>2, <2>1 DEF Overcall, PassStir, Stir, Redeclared, Trumps
<1>3. CASE PlayCards
  BY <1>3, PlayEffect
<1>4. CASE UNCHANGED vars
  BY <1>4 DEF vars
<1>5. ~Confirm /\ ~Bid
  BY DEF Confirm, ConfirmStart, ConfirmReview, Bid
<1> QED
  BY <1>1, <1>2, <1>3, <1>4, <1>5 DEF Next, Command, Over

(* One round hands on to the next what it decided: the winners declare, at *)
(* the level they reached, the levels climb without a jump, the contract   *)
(* stands while it is played, and only a declarer at the ace wins the game. *)
THEOREM RoundsHandOn == Spec => RoundsFollowOn
<1> DEFINE Inv == Typed /\ Settled
<1>1. Init => Inv
  BY InitTyped, InitSettled
<1>2. Inv /\ [Next]_vars => Inv'
  BY StepTyped, StepSettled
<1>3. Inv /\ [Next]_vars => [WonAtAce']_vars
  BY <1>2 DEF Settled
<1>4. Inv /\ [Next]_vars =>
        [phase = "RoundReview" /\ phase' = "DealBid" =>
           /\ Team(fixed') = completed.winners
           /\ TrumpRank(levels', fixed') = completed.levelsAfter[completed.winners]]_vars
  <2> SUFFICES ASSUME Inv, Next, phase = "RoundReview", phase' = "DealBid"
               PROVE  /\ Team(fixed') = completed.winners
                      /\ TrumpRank(levels', fixed') = completed.levelsAfter[completed.winners]
    OBVIOUS
  <2>1. levels' = completed.levelsAfter /\ fixed' = completed.nextDeclarer
    BY NextRound
  <2>2. fixed' \in Seats /\ Team(fixed') = completed.winners
    BY <2>1 DEF Settled, Result
  <2> QED
    BY <2>1, <2>2 DEF TrumpRank, Seats, NoSeat
<1>5. Inv /\ [Next]_vars =>
        [phase = "RoundReview" /\ phase' = "DealBid" =>
           /\ \A t \in Teams : levels'[t] >= levels[t]
           /\ \E t \in Teams : levels'[t] = levels[t]
           /\ \A t \in Teams, m \in MandatoryLevels : ~(levels[t] < m /\ m < levels'[t])]_vars
  BY NextRound DEF Settled, Result
<1>6. Inv /\ [Next]_vars =>
        [(phase \in {"BottomExchange", "StirDecision", "Playing"}) =>
           /\ contract'.declarer = contract.declarer
           /\ contract'.trump.rank = contract.trump.rank
           /\ (contract' = contract \/ (phase' = "BottomExchange" /\ cause' = "STIR"))]_vars
  BY ContractStep
<1> QED
  BY <1>1, <1>2, <1>3, <1>4, <1>5, <1>6, PTL
     DEF Spec, RoundsFollowOn, WinnersDeclareNext, LevelsClimb, ContractStands
---------------------------------------------------------------------------
(* Hands stay level *)

\* How many seats after the opener a seat is dealt to.
Turn(s) == (s - start + 4) % 4

\* The deal goes round: after cursor cards each seat has its share of them.
DealtInTurn ==
  /\ start \in Seats /\ cursor \in 1..Len(deck) /\ Len(deck) % 4 = 0
  /\ actor = (start + cursor - 1) % 4
  /\ \A s \in Seats : Cardinality(hands[s]) = (cursor + 3 - Turn(s)) \div 4

\* Whoever takes the bottom up holds it beside the hand.
TakenUp == pickup = PickUp(actor) /\ hands[actor] \cap bottom = {}

AllEqual == \A s, t \in Seats : Cardinality(hands[s]) = Cardinality(hands[t])

\* The open trick goes round from its leader with equally many cards each;
\* who has played holds that many fewer than the last seat of the trick.
TrickInTurn ==
  LET leader == slots[1].actor
      width == Cardinality(slots[1].cards)
      n == Len(slots)
  IN /\ n \in 1..3 /\ actor = (leader + n) % 4
     /\ \A i \in 1..n : /\ slots[i].actor = (leader + i - 1) % 4
                        /\ Cardinality(slots[i].cards) = width
     /\ \A k \in 0..3 : Cardinality(hands[(leader + k) % 4])
                          + (IF k < n THEN width ELSE 0)
                          = Cardinality(hands[(leader + 3) % 4])

(* The inductive invariant: how many cards each seat holds, from the first *)
(* card of the deal to the last of the play.                               *)
CardsLevel ==
  /\ phase # "Playing" => slots = <<>>
  /\ phase = "DealBid" => DealtInTurn
  /\ phase = "BottomExchange" => TakenUp
  /\ phase \in {"BottomExchange", "StirDecision"} => AllEqual
  /\ phase = "Playing" => IF slots = <<>> THEN AllEqual ELSE TrickInTurn
  /\ phase \in {"DealBid", "BottomExchange", "StirDecision", "Playing"} =>
       Cardinality(bottom) = BottomCount

LEMMA HandSize ==
  ASSUME NEW cards \in SUBSET Deck
  PROVE  IsFiniteSet(cards) /\ Cardinality(cards) \in Nat
BY DeckFinite, FS_CardinalityType

LEMMA ShuffleSizes ==
  ASSUME NEW shuffle \in Shuffles
  PROVE  LET dealt == SubSeq(shuffle, BottomCount + 1, Len(shuffle))
         IN  /\ Len(dealt) \in Nat \ {0} /\ Len(dealt) % 4 = 0
             /\ Cardinality({shuffle[i] : i \in 1..BottomCount}) = BottomCount
<1> DEFINE dealt == SubSeq(shuffle, BottomCount + 1, Len(shuffle))
           under == {shuffle[i] : i \in 1..BottomCount}
           at == [i \in 1..BottomCount |-> shuffle[i]]
<1>1. /\ BottomCount \in Nat /\ Len(shuffle) \in Nat /\ BottomCount < Len(shuffle)
      /\ Len(dealt) = Len(shuffle) - BottomCount
  BY ShuffleSplits
<1>2. Len(shuffle) = Cardinality(Deck)
      /\ \A i, j \in 1..Len(shuffle) : shuffle[i] = shuffle[j] => i = j
  BY ShuffleAssumption
<1>3. (Cardinality(Deck) - BottomCount) % 4 = 0
  BY DeckAssumption
<1>4. at \in Bijection(1..BottomCount, under)
  <2>1. \A i \in 1..BottomCount : i \in 1..Len(shuffle)
    BY <1>1
  <2> QED
    BY <1>2, <2>1 DEF Bijection, Injection, Surjection, IsInjective
<1>5. Cardinality(under) = BottomCount
  BY <1>1, <1>4, FS_CountingElements DEF ExistsBijection
<1> HIDE DEF dealt, under
<1>6. Len(dealt) \in Nat \ {0} /\ Len(dealt) % 4 = 0
  BY <1>1, <1>2, <1>3
<1> QED
  BY <1>5, <1>6 DEF dealt, under


LEMMA StartRoundLevel ==
  ASSUME NEW n, NEW lv, NEW declarer, NEW s \in Seats,
         NEW shuffle \in Shuffles, StartRound(n, lv, declarer, s, shuffle)
  PROVE  CardsLevel'
<1> DEFINE dealt == SubSeq(shuffle, BottomCount + 1, Len(shuffle))
           under == {shuffle[i] : i \in 1..BottomCount}
           first == shuffle[BottomCount + 1]
<1>1. /\ Len(dealt) \in Nat \ {0} /\ Len(dealt) % 4 = 0 /\ Cardinality(under) = BottomCount
  BY ShuffleSizes
<1>2. /\ phase' = "DealBid" /\ deck' = dealt /\ cursor' = 1 /\ bottom' = under
      /\ start' = s /\ actor' = s /\ slots' = <<>>
      /\ hands' = [t \in Seats |-> IF t = s THEN {first} ELSE {}]
  BY DEF StartRound
<1> HIDE DEF dealt, under, first
<1>3. \A t \in Seats : Cardinality(hands'[t]) = IF t = s THEN 1 ELSE 0
  <2>1. Cardinality({first}) = 1 /\ Cardinality({}) = 0
    BY FS_Singleton, FS_EmptySet
  <2> QED
    BY <1>2, <2>1
<1>4. \A t \in Seats : (1 + 3 - ((t - s + 4) % 4)) \div 4 = IF t = s THEN 1 ELSE 0
  BY DEF Seats
<1>5. s = (s + 1 - 1) % 4
  BY DEF Seats
<1>6. DealtInTurn'
  <2>1. \A t \in Seats : Cardinality(hands'[t]) = (cursor' + 3 - ((t - start' + 4) % 4)) \div 4
    <3>1. \A t \in Seats : Cardinality(hands'[t]) = (1 + 3 - ((t - s + 4) % 4)) \div 4
      BY <1>3, <1>4, Zenon
    <3> QED
      BY <1>2, <3>1
  <2>2. cursor' \in 1..Len(deck')
    BY <1>1, <1>2
  <2>3. actor' = (start' + cursor' - 1) % 4
    BY <1>2, <1>5
  <2> QED
    BY <1>1, <1>2, <2>1, <2>2, <2>3 DEF DealtInTurn, Turn
<1> QED
  BY <1>1, <1>2, <1>6 DEF CardsLevel

LEMMA InitLevel == Init => CardsLevel
<1> SUFFICES ASSUME Init PROVE CardsLevel
  OBVIOUS
<1>1. CASE InitCreate
  BY <1>1 DEF Init, InitCreate, CardsLevel
<1>2. CASE InitPosition
  <2>1. PICK p \in Positions, shuffle \in Shuffles :
          /\ phase = "DealBid" /\ start = p.start /\ actor = p.start
          /\ bottom = {shuffle[i] : i \in 1..BottomCount}
          /\ deck = SubSeq(shuffle, BottomCount + 1, Len(shuffle))
          /\ hands = [t \in Seats |-> IF t = p.start THEN {shuffle[BottomCount + 1]} ELSE {}]
          /\ cursor = 1
    BY <1>2 DEF InitPosition
  <2> DEFINE s == p.start
             dealt == SubSeq(shuffle, BottomCount + 1, Len(shuffle))
             under == {shuffle[i] : i \in 1..BottomCount}
             first == shuffle[BottomCount + 1]
  <2>2. /\ Len(dealt) \in Nat \ {0} /\ Len(dealt) % 4 = 0 /\ Cardinality(under) = BottomCount
    BY ShuffleSizes
  <2>3. s \in Seats
    BY PositionAssumption
  <2>4. /\ phase = "DealBid" /\ deck = dealt /\ cursor = 1 /\ bottom = under
        /\ start = s /\ actor = s /\ slots = <<>>
        /\ hands = [t \in Seats |-> IF t = s THEN {first} ELSE {}]
    BY <2>1 DEF Init
  <2> HIDE DEF dealt, under, first, s
  <2>5. \A t \in Seats : Cardinality(hands[t]) = IF t = s THEN 1 ELSE 0
    <3>1. Cardinality({first}) = 1 /\ Cardinality({}) = 0
      BY FS_Singleton, FS_EmptySet
    <3> QED
      BY <2>4, <3>1
  <2>6. \A t \in Seats : (1 + 3 - ((t - s + 4) % 4)) \div 4 = IF t = s THEN 1 ELSE 0
    BY <2>3 DEF Seats
  <2>7. s = (s + 1 - 1) % 4
    BY <2>3 DEF Seats
  <2>8. DealtInTurn
    <3>1. \A t \in Seats : Cardinality(hands[t]) = (cursor + 3 - ((t - start + 4) % 4)) \div 4
      <4>1. \A t \in Seats : Cardinality(hands[t]) = (1 + 3 - ((t - s + 4) % 4)) \div 4
        BY <2>5, <2>6, Zenon
      <4> QED
        BY <2>4, <4>1
    <3>2. cursor \in 1..Len(deck)
      BY <2>2, <2>4
    <3>3. actor = (start + cursor - 1) % 4
      BY <2>4, <2>7
    <3> QED
      BY <2>2, <2>3, <2>4, <3>1, <3>2, <3>3 DEF DealtInTurn, Turn
  <2> QED
    BY <2>2, <2>4, <2>8 DEF CardsLevel
<1> QED
  BY <1>1, <1>2 DEF Init

LEMMA ConfirmLevel == ASSUME Typed, CardsLevel, Confirm PROVE CardsLevel'
<1>1. PICK s \in Seats : ConfirmStart(s) \/ ConfirmReview(s)
  BY DEF Confirm
<1>2. CASE UNCHANGED <<phase, dealVars, cursor, hands, bottom, actor, bidVars,
                       contract, stirVars, playVars, completed>>
  BY <1>2 DEF dealVars, stirVars, playVars, CardsLevel, DealtInTurn, Turn, TakenUp, PickUp,
              AllEqual, TrickInTurn
<1>3. Openers(NoSeat) \subseteq Seats /\ Openers(completed.nextDeclarer) \subseteq Seats
  BY DEF Openers, Typed, TypeOK
<1>4. CASE confirmed \cup {s} # Seats
  BY <1>1, <1>2, <1>4 DEF ConfirmStart, ConfirmReview
<1>5. CASE confirmed \cup {s} = Seats /\ ConfirmStart(s)
  <2>1. PICK shuffle \in Shuffles, opener \in Openers(NoSeat) :
          StartRound(1, levels, NoSeat, opener, shuffle)
    BY <1>5 DEF ConfirmStart
  <2> QED
    BY <1>3, <2>1, StartRoundLevel
<1>6. CASE confirmed \cup {s} = Seats /\ ConfirmReview(s)
  <2>1. PICK shuffle \in Shuffles, opener \in Openers(completed.nextDeclarer) :
          StartRound(round + 1, completed.levelsAfter, completed.nextDeclarer, opener, shuffle)
    BY <1>6 DEF ConfirmReview
  <2> QED
    BY <1>3, <2>1, StartRoundLevel
<1> QED
  BY <1>1, <1>4, <1>5, <1>6

LEMMA ShareOfTheDeal ==
  ASSUME NEW n \in Nat, NEW a \in Seats, NEW s \in Seats
  PROVE  /\ n % 4 = 0 => (n + 3 - ((s - a + 4) % 4)) \div 4 = n \div 4
         /\ (n + 1 + 3 - ((s - a + 4) % 4)) \div 4
              = (n + 3 - ((s - a + 4) % 4)) \div 4 + (IF s = (a + n) % 4 THEN 1 ELSE 0)
<1>1. (s - a + 4) % 4 \in 0..3
  BY DEF Seats
<1>2. s = (a + n) % 4 <=> (s - a + 4) % 4 = n % 4
  BY DEF Seats
<1> DEFINE turn == (s - a + 4) % 4
<1> HIDE DEF turn
<1>3. n % 4 = 0 => (n + 3 - turn) \div 4 = n \div 4
  BY <1>1 DEF turn
<1>4. (n + 1 + 3 - turn) \div 4 = (n + 3 - turn) \div 4 + (IF turn = n % 4 THEN 1 ELSE 0)
  <2>1. PICK q \in Nat, r \in 0..3 : n = 4 * q + r /\ n % 4 = r
    <3>1. n = 4 * (n \div 4) + (n % 4) /\ n % 4 \in 0..3 /\ n \div 4 \in Nat
      OBVIOUS
    <3> QED
      BY <3>1
  <2>2. turn \in 0..3
    BY <1>1 DEF turn
  <2> QED
    BY <2>1, <2>2
<1> QED
  BY <1>2, <1>3, <1>4 DEF turn

LEMMA AdvanceDealLevel ==
  ASSUME Typed, Placed, CardsLevel, phase = "DealBid", NEW decl, AdvanceDeal(decl),
         decl \in [actor : Seats \cup {NoSeat}, cards : SUBSET Deck],
         decl # NoDeclaration => decl.actor \in Seats
  PROVE  CardsLevel'
<1>1. /\ start \in Seats /\ cursor \in 1..Len(deck) /\ Len(deck) % 4 = 0 /\ Len(deck) \in Nat
      /\ actor = (start + cursor - 1) % 4 /\ cursor \in Nat /\ cursor > 0
      /\ hands \in [Seats -> SUBSET Deck]
      /\ \A s \in Seats : Cardinality(hands[s]) = (cursor + 3 - ((s - start + 4) % 4)) \div 4
  BY DEF CardsLevel, DealtInTurn, Turn, Typed, TypeOK
<1>2. /\ slots' = <<>> /\ bottom' = bottom /\ Cardinality(bottom) = BottomCount
      /\ UNCHANGED <<start, deck>>
  BY DEF AdvanceDeal, CardsLevel, dealVars, playVars
<1>3. CASE cursor = Len(deck)
  <2>1. PICK d \in Seats :
          /\ phase' = "BottomExchange" /\ actor' = d /\ pickup' = hands[d] \cup bottom
          /\ UNCHANGED hands
    BY <1>3 DEF AdvanceDeal, FinishDeal, PickUp, Typed, TypeOK
  <2>2. hands[d] \cap bottom = {}
    BY DEF Placed, CardsInOnePlace, Held, Buried
  <2>3. TakenUp'
    BY <1>2, <2>1, <2>2 DEF TakenUp, PickUp
  <2>4. AllEqual'
    <3>1. \A s \in Seats : Cardinality(hands[s]) = cursor \div 4
      BY <1>1, <1>3, ShareOfTheDeal
    <3> QED
      BY <2>1, <3>1 DEF AllEqual
  <2> QED
    BY <1>2, <2>1, <2>3, <2>4 DEF CardsLevel
<1>4. CASE cursor # Len(deck)
  <2> DEFINE d == NextSeat(actor)
             card == deck[cursor + 1]
  <2>1. /\ phase' = "DealBid" /\ cursor' = cursor + 1 /\ actor' = d
        /\ hands' = [hands EXCEPT ![d] = @ \cup {card}]
    BY <1>4 DEF AdvanceDeal
  <2>2. d = (start + cursor) % 4 /\ d \in Seats
    BY <1>1 DEF NextSeat, Seats
  <2>3. card \notin hands[d]
    <3>1. card \in Undealt
      BY <1>1, <1>4 DEF Undealt
    <3>2. hands[d] = Held(d)
      BY DEF Held
    <3> QED
      BY <2>2, <3>1, <3>2 DEF Placed, CardsInOnePlace
  <2> HIDE DEF d, card
  <2>4. \A s \in Seats : Cardinality(hands'[s]) = Cardinality(hands[s]) + IF s = d THEN 1 ELSE 0
    <3>1. Cardinality(hands[d] \cup {card}) = Cardinality(hands[d]) + 1
      BY <1>1, <2>2, <2>3, HandSize, FS_AddElement
    <3>2. \A s \in Seats : hands'[s] = IF s = d THEN hands[d] \cup {card} ELSE hands[s]
      BY <1>1, <2>1
    <3>3. \A s \in Seats : Cardinality(hands[s]) \in Nat
      BY <1>1, HandSize
    <3> QED
      BY <3>1, <3>2, <3>3
  <2>5. \A s \in Seats :
          Cardinality(hands'[s]) = (cursor + 1 + 3 - ((s - start + 4) % 4)) \div 4
    <3> TAKE s \in Seats
    <3>1. (cursor + 1 + 3 - ((s - start + 4) % 4)) \div 4
            = (cursor + 3 - ((s - start + 4) % 4)) \div 4
                + (IF s = (start + cursor) % 4 THEN 1 ELSE 0)
      BY <1>1, ShareOfTheDeal
    <3> QED
      BY <1>1, <2>2, <2>4, <3>1
  <2>6. d = (start + (cursor + 1) - 1) % 4
    BY <1>1, <2>2 DEF Seats
  <2>7. cursor + 1 \in 1..Len(deck)
    BY <1>1, <1>4
  <2>8. DealtInTurn'
    BY <1>1, <1>2, <2>1, <2>5, <2>6, <2>7 DEF DealtInTurn, Turn
  <2> QED
    BY <1>2, <2>1, <2>8 DEF CardsLevel
<1> QED
  BY <1>3, <1>4

LEMMA BidLevel == ASSUME Typed, Placed, CardsLevel, Bid PROVE CardsLevel'
<1>1. CASE PassBid
  BY <1>1, AdvanceDealLevel DEF PassBid, Bid, Typed, TypeOK
<1>2. ASSUME NEW cards \in SUBSET hands[actor], RevealBid(cards)
      PROVE  CardsLevel'
  <2>1. actor \in Seats /\ cards \in SUBSET Deck
    BY DEF Bid, Typed, TypeOK
  <2> QED
    BY <1>2, <2>1, AdvanceDealLevel DEF RevealBid, Bid
<1> QED
  BY <1>1, <1>2 DEF Bid

LEMMA ExchangeLevel == ASSUME Typed, CardsLevel, Exchange PROVE CardsLevel'
<1>1. PICK cards \in SUBSET pickup : Bury(cards)
  BY DEF Exchange
<1>2. /\ phase = "BottomExchange" /\ actor \in Seats /\ hands \in [Seats -> SUBSET Deck]
      /\ bottom \in SUBSET Deck
      /\ pickup = hands[actor] \cup bottom /\ hands[actor] \cap bottom = {}
      /\ AllEqual /\ slots = <<>> /\ Cardinality(bottom) = BottomCount
  BY DEF Exchange, Typed, TypeOK, CardsLevel, TakenUp, PickUp
<1>3. /\ hands' = [hands EXCEPT ![actor] = pickup \ cards] /\ bottom' = cards
      /\ Cardinality(cards) = Cardinality(bottom)
      /\ phase' \in {"Playing", "StirDecision"} /\ slots' = <<>>
  BY <1>1, <1>2 DEF Bury, BeginPlaying, playVars
<1>4. Cardinality(pickup \ cards) = Cardinality(hands[actor])
  <2>1. /\ IsFiniteSet(hands[actor]) /\ IsFiniteSet(bottom)
        /\ Cardinality(hands[actor]) \in Nat /\ Cardinality(bottom) \in Nat
    BY <1>2, HandSize
  <2>2. /\ IsFiniteSet(pickup)
        /\ Cardinality(pickup) = Cardinality(hands[actor]) + Cardinality(bottom)
    BY <1>2, <2>1, FS_Union, FS_EmptySet
  <2>3. pickup \cap cards = cards
    OBVIOUS
  <2>4. Cardinality(pickup \ cards) = Cardinality(pickup) - Cardinality(cards)
    <3>1. Cardinality(pickup \ cards) = Cardinality(pickup) - Cardinality(pickup \cap cards)
      BY <2>2, FS_Difference, Zenon
    <3> QED
      BY <2>3, <3>1
  <2> QED
    BY <1>3, <2>1, <2>2, <2>4
<1>5. \A s \in Seats : Cardinality(hands'[s]) = Cardinality(hands[s])
  BY <1>2, <1>3, <1>4
<1>6. AllEqual'
  BY <1>2, <1>5 DEF AllEqual
<1> QED
  BY <1>2, <1>3, <1>6 DEF CardsLevel

LEMMA OvercallLevel == ASSUME Typed, Placed, CardsLevel, Overcall PROVE CardsLevel'
<1>1. /\ phase = "StirDecision" /\ actor \in Seats /\ AllEqual /\ slots = <<>>
      /\ Cardinality(bottom) = BottomCount
  BY DEF Overcall, Typed, TypeOK, CardsLevel
<1>2. /\ UNCHANGED <<hands, bottom>> /\ slots' = <<>>
      /\ \/ phase' \in {"StirDecision", "Playing"}
         \/ (phase' = "BottomExchange" /\ TakenUp')
  <2>1. CASE PassStir
    <3>1. phase' \in {"StirDecision", "Playing"} /\ slots' = <<>> /\ UNCHANGED <<hands, bottom>>
      BY <1>1, <2>1 DEF PassStir, BeginPlaying, playVars
    <3> QED
      BY <3>1
  <2>2. ASSUME NEW cards \in SUBSET hands[actor], Stir(cards)
        PROVE  /\ UNCHANGED <<hands, bottom>> /\ slots' = <<>>
               /\ phase' = "BottomExchange" /\ TakenUp'
    <3>1. /\ UNCHANGED <<hands, bottom, actor>> /\ slots' = <<>>
          /\ phase' = "BottomExchange" /\ pickup' = hands[actor] \cup bottom
      BY <1>1, <2>2 DEF Stir, PickUp, playVars
    <3>2. hands[actor] \cap bottom = {}
      BY <1>1 DEF Placed, CardsInOnePlace, Held, Buried
    <3> QED
      BY <3>1, <3>2 DEF TakenUp, PickUp
  <2> QED
    BY <2>1, <2>2 DEF Overcall
<1>3. AllEqual'
  BY <1>1, <1>2 DEF AllEqual
<1> QED
  BY <1>1, <1>2, <1>3 DEF CardsLevel

LEMMA SeatsApart ==
  ASSUME NEW a \in Seats
  PROVE  /\ \A k \in 0..3 : (a + k) % 4 \in Seats
         /\ \A k, n \in 0..3 : (a + k) % 4 = (a + n) % 4 => k = n
         /\ \A s \in Seats : \E k \in 0..3 : s = (a + k) % 4
<1>1. \A k \in 0..3 : (a + k) % 4 \in Seats
  BY DEF Seats
<1>2. \A k, n \in 0..3 : (a + k) % 4 = (a + n) % 4 => k = n
  BY DEF Seats
<1>3. \A s \in Seats : (s - a + 4) % 4 \in 0..3 /\ s = (a + ((s - a + 4) % 4)) % 4
  BY DEF Seats
<1> QED
  BY <1>1, <1>2, <1>3

LEMMA LaidDown ==
  ASSUME Typed, phase = "Playing", NEW cards \in SUBSET hands[actor]
  PROVE  /\ Cardinality(cards) \in Nat
         /\ Without(cards) \in [Seats -> SUBSET Deck]
         /\ \A s \in Seats :
              Cardinality(Without(cards)[s])
                = Cardinality(hands[s]) - (IF s = actor THEN Cardinality(cards) ELSE 0)
         /\ \A s \in Seats : Cardinality(hands[s]) \in Nat
<1>1. hands \in [Seats -> SUBSET Deck] /\ actor \in Seats /\ cards \in SUBSET Deck
  BY DEF Typed, TypeOK
<1>2. \A s \in Seats : Cardinality(hands[s]) \in Nat
  BY <1>1, HandSize
<1>3. Cardinality(cards) \in Nat
  BY <1>1, HandSize
<1>4. Cardinality(hands[actor] \ cards) = Cardinality(hands[actor]) - Cardinality(cards)
  <2>1. Cardinality(hands[actor] \ cards)
          = Cardinality(hands[actor]) - Cardinality(hands[actor] \cap cards)
    BY <1>1, HandSize, FS_Difference, Zenon
  <2>2. hands[actor] \cap cards = cards
    OBVIOUS
  <2> QED
    BY <2>1, <2>2
<1> QED
  BY <1>1, <1>2, <1>3, <1>4 DEF Without

(* Facts about a lead: what is led of the cards attempted.                 *)
LEMMA WhatIsLed ==
  ASSUME Typed, phase = "Playing", NEW attempted, PlayLead(attempted)
  PROVE  LET cards == ResolveLead(attempted, {hands[s] : s \in Seats \ {actor}}, Trump)
         IN  /\ attempted \in SUBSET hands[actor] /\ attempted \in SUBSET Card
             /\ IsFiniteSet(attempted) /\ attempted # {}
             /\ actor \in Seats /\ Trump \in Trumps
             /\ cards \in SUBSET attempted /\ cards # {}
             /\ \/ cards = attempted
                \/ \E p \in Analyze(attempted, Trump) :
                     /\ ~IsBiggest(p, {hands[s] : s \in Seats \ {actor}}, Trump)
                     /\ cards = p.cards
<1>1. actor \in Seats /\ Trump \in Trumps /\ attempted \in SUBSET hands[actor]
      /\ hands[actor] \in SUBSET Deck
  BY DEF PlayLead, Typed, TypeOK, Trump
<1>2. attempted \in SUBSET Card /\ IsFiniteSet(attempted) /\ attempted # {}
  BY <1>1, DeckFinite DEF PlayLead, LegalLead, Analyzable
<1> DEFINE others == {hands[s] : s \in Seats \ {actor}}
           cards == ResolveLead(attempted, others, Trump)
<1> HIDE DEF others
<1>3. /\ cards \in SUBSET attempted /\ cards # {}
      /\ \/ cards = attempted
         \/ \E p \in Analyze(attempted, Trump) :
              ~IsBiggest(p, others, Trump) /\ cards = p.cards
  BY <1>1, <1>2, ResolveLeadIn
<1> QED
  BY <1>1, <1>2, <1>3 DEF others

LEMMA LeadLevel ==
  ASSUME Typed, CardsLevel, phase = "Playing", NEW attempted, PlayLead(attempted)
  PROVE  CardsLevel'
<1> DEFINE cards == ResolveLead(attempted, {hands[s] : s \in Seats \ {actor}}, Trump)
           slot == [actor |-> actor, cards |-> cards]
           rest == Without(cards)
<1>1. actor \in Seats /\ cards \in SUBSET hands[actor]
  BY WhatIsLed
<1>2. slots = <<>> /\ AllEqual /\ Cardinality(bottom) = BottomCount
  BY DEF PlayLead, CardsLevel
<1>3. \/ /\ hands' = [s \in Seats |-> {}] /\ slots' = <<>> /\ UNCHANGED bottom
         /\ phase' \in {"Playing", "Finished", "RoundReview"}
      \/ /\ hands' = rest /\ slots' = <<slot>> /\ actor' = NextSeat(actor)
         /\ UNCHANGED <<bottom, phase>>
  BY DEF PlayLead, CompleteTrick, FinishRound
<1> HIDE DEF cards, rest
<1>4. CASE /\ hands' = [s \in Seats |-> {}] /\ slots' = <<>> /\ UNCHANGED bottom
           /\ phase' \in {"Playing", "Finished", "RoundReview"}
  <2>1. AllEqual'
    BY <1>4 DEF AllEqual
  <2> QED
    BY <1>2, <1>4, <2>1 DEF CardsLevel
<1>5. CASE /\ hands' = rest /\ slots' = <<slot>> /\ actor' = NextSeat(actor)
           /\ UNCHANGED <<bottom, phase>>
  <2> DEFINE width == Cardinality(cards)
  <2>1. slots' # <<>> /\ slots'[1] = slot /\ Len(slots') = 1
    BY <1>5
  <2>2. slot.actor = actor /\ slot.cards = cards
    OBVIOUS
  <2> HIDE DEF slot
  <2>3. slots'[1].actor = actor /\ Cardinality(slots'[1].cards) = width
    BY <2>1, <2>2
  <2>4. actor' = (actor + 1) % 4
    BY <1>5 DEF NextSeat
  <2>5. \A s \in Seats :
          /\ Cardinality(hands[s]) \in Nat /\ width \in Nat
          /\ Cardinality(hands'[s]) = Cardinality(hands[s]) - (IF s = actor THEN width ELSE 0)
    BY <1>1, <1>5, LaidDown DEF rest
  <2>6. \A k \in 0..3 : Cardinality(hands'[(actor + k) % 4]) + (IF k < 1 THEN width ELSE 0)
                          = Cardinality(hands'[(actor + 3) % 4])
    <3> TAKE k \in 0..3
    <3>1. /\ (actor + k) % 4 \in Seats /\ (actor + 3) % 4 \in Seats
          /\ (actor + 3) % 4 # actor /\ ((actor + k) % 4 = actor <=> k = 0)
      BY <1>1 DEF Seats
    <3>2. Cardinality(hands[(actor + k) % 4]) = Cardinality(hands[(actor + 3) % 4])
      BY <1>2, <3>1 DEF AllEqual
    <3> QED
      BY <2>5, <3>1, <3>2
  <2>7. \A i \in 1..1 : i = 1 /\ actor = (actor + i - 1) % 4
    BY <1>1 DEF Seats
  <2> HIDE DEF width
  <2>8. TrickInTurn'
    BY <2>1, <2>3, <2>4, <2>6, <2>7 DEF TrickInTurn
  <2> QED
    BY <1>2, <1>5, <2>1, <2>8 DEF CardsLevel
<1> QED
  BY <1>3, <1>4, <1>5

LEMMA FollowLevel ==
  ASSUME Typed, CardsLevel, phase = "Playing", NEW cards, PlayFollow(cards)
  PROVE  CardsLevel'
<1> DEFINE leader == slots[1].actor
           width == Cardinality(slots[1].cards)
           n == Len(slots)
           last == Cardinality(hands[(leader + 3) % 4])
           slot == [actor |-> actor, cards |-> cards]
           played == Append(slots, slot)
           S == [actor : Seats, cards : SUBSET Deck]
<1>1. /\ actor \in Seats /\ cards \in SUBSET hands[actor] /\ slots \in Seq(S)
      /\ Cardinality(cards) = width /\ slots # <<>> /\ slot \in S
      /\ Cardinality(bottom) = BottomCount
  BY DEF PlayFollow, LegalFollow, Typed, TypeOK, CardsLevel
<1>2. /\ n \in 1..3 /\ actor = (leader + n) % 4
      /\ \A i \in 1..n : /\ slots[i].actor = (leader + i - 1) % 4
                         /\ Cardinality(slots[i].cards) = width
      /\ \A k \in 0..3 :
           Cardinality(hands[(leader + k) % 4]) + (IF k < n THEN width ELSE 0) = last
  BY <1>1 DEF CardsLevel, TrickInTurn
<1>3. leader \in Seats
  <2>1. 1 \in 1..Len(slots)
    BY <1>2
  <2>2. slots[1] \in S
    BY <1>1, <2>1, ElementOfSeq
  <2> QED
    BY <2>2
<1>4. \/ /\ n + 1 = 4 /\ hands' = Without(cards) /\ slots' = <<>> /\ UNCHANGED bottom
         /\ phase' \in {"Playing", "Finished", "RoundReview"}
      \/ /\ n + 1 # 4 /\ hands' = Without(cards) /\ slots' = played
         /\ actor' = NextSeat(actor) /\ UNCHANGED <<bottom, phase>>
  BY <1>1 DEF PlayFollow, CompleteTrick, FinishRound
<1>5. /\ played \in Seq(S) /\ played # <<>> /\ Len(played) = n + 1
      /\ \A i \in 1..n : played[i] = slots[i]
      /\ played[n + 1] = slot
  BY <1>1, AppendProperties
<1>6. slot.actor = actor /\ slot.cards = cards
  OBVIOUS
<1>7. /\ width \in Nat /\ hands' = Without(cards)
      /\ \A s \in Seats :
           /\ Cardinality(hands[s]) \in Nat
           /\ Cardinality(hands'[s]) = Cardinality(hands[s]) - (IF s = actor THEN width ELSE 0)
  BY <1>1, <1>4, LaidDown
<1> HIDE DEF leader, width, n, slot, played
<1>8. \A k \in 0..3 : Cardinality(hands'[(leader + k) % 4]) + (IF k < n + 1 THEN width ELSE 0) = last
  <2> TAKE k \in 0..3
  <2>1. (leader + k) % 4 \in Seats /\ ((leader + k) % 4 = actor <=> k = n)
    BY <1>2, <1>3, SeatsApart
  <2>2. Cardinality(hands[(leader + k) % 4]) + (IF k < n THEN width ELSE 0) = last
    BY <1>2
  <2>3. /\ Cardinality(hands[(leader + k) % 4]) \in Nat
        /\ Cardinality(hands'[(leader + k) % 4])
             = Cardinality(hands[(leader + k) % 4]) - (IF k = n THEN width ELSE 0)
    BY <1>7, <2>1
  <2> QED
    BY <1>2, <1>7, <2>2, <2>3
<1>9. CASE /\ n + 1 = 4 /\ slots' = <<>> /\ UNCHANGED bottom
           /\ phase' \in {"Playing", "Finished", "RoundReview"}
  <2>1. \A k \in 0..3 : Cardinality(hands'[(leader + k) % 4]) = last - width
    <3> TAKE k \in 0..3
    <3>1. (leader + k) % 4 \in Seats /\ k < n + 1
      BY <1>2, <1>3, <1>9, SeatsApart
    <3>2. Cardinality(hands'[(leader + k) % 4]) + width = last
      BY <1>8, <3>1
    <3>3. Cardinality(hands'[(leader + k) % 4]) \in Int
      BY <1>7, <3>1
    <3> HIDE DEF last
    <3> QED
      BY <1>7, <3>2, <3>3
  <2>2. \A s \in Seats : \E k \in 0..3 : s = (leader + k) % 4
    BY <1>3, SeatsApart
  <2>3. AllEqual'
    BY <2>1, <2>2 DEF AllEqual
  <2> QED
    BY <1>1, <1>9, <2>3 DEF CardsLevel
<1>10. CASE /\ n + 1 # 4 /\ slots' = played
            /\ actor' = NextSeat(actor) /\ UNCHANGED <<bottom, phase>>
  <2>1. slots' # <<>> /\ Len(slots') = n + 1 /\ n + 1 \in 1..3
    BY <1>2, <1>5, <1>10
  <2>2. slots'[1] = slots[1]
    BY <1>2, <1>5, <1>10
  <2>3. slots'[1].actor = leader /\ Cardinality(slots'[1].cards) = width
    BY <2>2 DEF leader, width
  <2>4. actor' = (leader + (n + 1)) % 4
    BY <1>2, <1>3, <1>10 DEF NextSeat, Seats
  <2>5. \A i \in 1..(n + 1) : /\ slots'[i].actor = (leader + i - 1) % 4
                              /\ Cardinality(slots'[i].cards) = width
    <3> TAKE i \in 1..(n + 1)
    <3>1. CASE i \in 1..n
      BY <1>2, <1>5, <1>10, <3>1
    <3>2. CASE i = n + 1
      <4>1. slots'[i] = slot
        BY <1>5, <1>10, <3>2
      <4>2. leader + i - 1 = leader + n
        BY <1>2, <1>3, <3>2 DEF Seats
      <4> QED
        BY <1>1, <1>2, <1>6, <4>1, <4>2
    <3> QED
      BY <1>2, <3>1, <3>2
  <2>6. last = Cardinality(hands'[(leader + 3) % 4])
    <3>1. (leader + 3) % 4 \in Seats /\ (leader + 3) % 4 # actor
      <4>1. n # 3 /\ n \in 0..3 /\ 3 \in 0..3
        BY <1>2, <1>10
      <4> QED
        BY <1>2, <1>3, <4>1, SeatsApart
    <3> QED
      BY <1>7, <3>1
  <2>7. TrickInTurn'
    BY <1>8, <2>1, <2>3, <2>4, <2>5, <2>6 DEF TrickInTurn
  <2> QED
    BY <1>1, <1>10, <2>1, <2>7 DEF CardsLevel
<1> QED
  BY <1>4, <1>9, <1>10

LEMMA StepLevel == ASSUME Typed, Placed, CardsLevel, [Next]_vars PROVE CardsLevel'
<1>1. CASE Confirm
  BY <1>1, ConfirmLevel
<1>2. CASE Bid
  BY <1>2, BidLevel
<1>3. CASE Exchange
  BY <1>3, ExchangeLevel
<1>4. CASE Overcall
  BY <1>4, OvercallLevel
<1>5. CASE PlayCards
  BY <1>5, LeadLevel, FollowLevel DEF PlayCards
<1>6. CASE UNCHANGED vars
  BY <1>6 DEF vars, dealVars, bidVars, stirVars, playVars, reviewVars, CardsLevel, DealtInTurn,
              Turn, TakenUp, PickUp, AllEqual, TrickInTurn
<1> QED
  BY <1>1, <1>2, <1>3, <1>4, <1>5, <1>6 DEF Next, Command, Over

(* The seats of an open trick are all different, so each laid down the     *)
(* cards of at most one slot.                                              *)
LEMMA LevelHands == ASSUME Typed, CardsLevel PROVE HandsLevel
<1> DEFINE laid(s) == UNION {slots[i].cards : i \in {j \in DOMAIN slots : slots[j].actor = s}}
           size(s) == Cardinality(hands[s]) + Cardinality(laid(s))
<1>1. hands \in [Seats -> SUBSET Deck] /\ \A s \in Seats : Cardinality(hands[s]) \in Nat
  BY HandSize DEF Typed, TypeOK
<1>2. CASE slots = <<>> /\ phase \in {"BottomExchange", "StirDecision", "Playing"}
  <2>1. \A s \in Seats : laid(s) = {}
    BY <1>2
  <2>2. \A s \in Seats : size(s) = Cardinality(hands[s])
    <3>1. Cardinality({}) = 0
      BY FS_EmptySet
    <3> HIDE DEF laid
    <3> QED
      BY <1>1, <2>1, <3>1
  <2>3. AllEqual
    BY <1>2 DEF CardsLevel
  <2> HIDE DEF laid
  <2>4. \A s, t \in Seats : size(s) = size(t)
    BY <2>2, <2>3 DEF AllEqual
  <2>5. Cardinality(bottom) = BottomCount
    BY <1>2 DEF CardsLevel
  <2> QED
    BY <2>4, <2>5 DEF HandsLevel, laid
<1>3. CASE slots # <<>> /\ phase = "Playing"
  <2> DEFINE leader == slots[1].actor
             width == Cardinality(slots[1].cards)
             n == Len(slots)
  <2>1. slots \in Seq([actor : Seats, cards : SUBSET Deck])
    BY DEF Typed, TypeOK
  <2>2. /\ n \in 1..3 /\ DOMAIN slots = 1..n
        /\ \A i \in 1..n : /\ slots[i].actor = (leader + i - 1) % 4
                           /\ Cardinality(slots[i].cards) = width
        /\ \A k \in 0..3 : Cardinality(hands[(leader + k) % 4]) + (IF k < n THEN width ELSE 0)
                             = Cardinality(hands[(leader + 3) % 4])
    BY <1>3, <2>1 DEF CardsLevel, TrickInTurn
  <2>3. leader \in Seats
    <3>1. 1 \in 1..Len(slots)
      BY <2>2
    <3> HIDE DEF n, leader, width
    <3>2. slots[1] \in [actor : Seats, cards : SUBSET Deck]
      BY <2>1, <3>1, ElementOfSeq
    <3> QED
      BY <3>2 DEF leader
  <2> HIDE DEF leader, width, n
  <2>4. ASSUME NEW k \in 0..3
        PROVE  Cardinality(laid((leader + k) % 4)) = IF k < n THEN width ELSE 0
    <3> DEFINE s == (leader + k) % 4
               own == {j \in DOMAIN slots : slots[j].actor = s}
    <3>1. \A i \in 1..n : slots[i].actor = s <=> i = k + 1
      <4> TAKE i \in 1..n
      <4>1. i - 1 \in 0..3 /\ leader + i - 1 = leader + (i - 1)
        BY <2>2, <2>3 DEF Seats
      <4>2. slots[i].actor = (leader + (i - 1)) % 4
        BY <2>2, <4>1
      <4>3. (leader + (i - 1)) % 4 = (leader + k) % 4 <=> i - 1 = k
        BY <2>3, <4>1, SeatsApart
      <4> QED
        BY <2>2, <4>2, <4>3
    <3>2. own = IF k < n THEN {k + 1} ELSE {}
      BY <2>2, <3>1
    <3> HIDE DEF s
    <3>3. laid(s) = IF k < n THEN slots[k + 1].cards ELSE {}
      BY <3>2
    <3>4. k < n => k + 1 \in 1..n
      BY <2>2
    <3> QED
      BY <2>2, <3>3, <3>4, FS_EmptySet DEF s
  <2>5. \A k \in 0..3 : size((leader + k) % 4) = Cardinality(hands[(leader + 3) % 4])
    <3> HIDE DEF laid
    <3> QED
      BY <2>2, <2>4
  <2> HIDE DEF size
  <2>6. \A s, t \in Seats : size(s) = size(t)
    <3>1. \A s \in Seats : \E k \in 0..3 : s = (leader + k) % 4
      BY <2>3, SeatsApart
    <3> QED
      BY <2>5, <3>1
  <2>7. Cardinality(bottom) = BottomCount
    BY <1>3 DEF CardsLevel
  <2> QED
    BY <2>6, <2>7 DEF HandsLevel, size
<1>4. CASE phase \notin {"BottomExchange", "StirDecision", "Playing"}
  BY <1>4 DEF HandsLevel
<1>5. slots # <<>> => phase = "Playing"
  BY DEF CardsLevel
<1> QED
  BY <1>2, <1>3, <1>4, <1>5
---------------------------------------------------------------------------
(* Failed throws and the last trick *)

\* A throw is remembered while the trick it failed in is open.
ThrowKept ==
  /\ phase = "Playing" /\ slots = <<>> => failed = NoThrow
  /\ FailedThrowReturned

LEMMA LeadThrow ==
  ASSUME Typed, phase = "Playing", NEW attempted, PlayLead(attempted)
  PROVE  ThrowKept'
<1> DEFINE others == {hands[s] : s \in Seats \ {actor}}
           cards == ResolveLead(attempted, others, Trump)
           slot == [actor |-> actor, cards |-> cards]
<1>1. /\ attempted \in SUBSET hands[actor] /\ attempted \in SUBSET Card
      /\ IsFiniteSet(attempted) /\ actor \in Seats /\ Trump \in Trumps
      /\ cards \in SUBSET attempted /\ hands \in [Seats -> SUBSET Deck]
  BY WhatIsLed DEF Typed, TypeOK
<1>2. \/ cards = attempted
      \/ \E p \in Analyze(attempted, Trump) : ~IsBiggest(p, others, Trump) /\ cards = p.cards
  BY WhatIsLed
<1>3. \/ slots' = <<>> /\ failed' = NoThrow
      \/ /\ hands' = Without(cards) /\ slots' = <<slot>> /\ UNCHANGED contract
         /\ failed' = IF cards = attempted THEN NoThrow
                      ELSE [attempted |-> attempted, forced |-> cards]
  BY DEF PlayLead, CompleteTrick
<1>4. Analyzable(attempted, Trump)
  BY DEF PlayLead, LegalLead
<1>5. \A hand \in others : hand \in SUBSET Card /\ IsFiniteSet(hand)
  BY <1>1, DeckFinite
<1> HIDE DEF cards
<1>6. CASE failed' = NoThrow
  <2>1. slots' = <<>> => failed' = NoThrow
    BY <1>6
  <2> QED
    BY <1>6, <2>1 DEF ThrowKept, FailedThrowReturned
<1>7. CASE /\ hands' = Without(cards) /\ slots' = <<slot>> /\ UNCHANGED contract
           /\ cards # attempted /\ failed' = [attempted |-> attempted, forced |-> cards]
  <2>1. /\ failed'.attempted = attempted /\ failed'.forced = cards
        /\ slots' # <<>> /\ slots'[1].actor = actor /\ slots'[1].cards = cards
    BY <1>7
  <2>2. /\ attempted \ cards # {}
        /\ hands'[actor] = hands[actor] \ cards
        /\ \A s \in Seats \ {actor} : hands'[s] = hands[s]
    BY <1>1, <1>7 DEF Without
  <2>3. attempted \ cards \subseteq hands'[actor]
    BY <1>1, <2>2
  <2>4. \E s \in Seats \ {actor} :
          \E better \in SUBSET OfSuit(hands'[s], LeadSuit(cards, Trump), Trump) :
            /\ Cardinality(better) = Cardinality(cards)
            /\ Wins(better, cards, cards, Trump)
    <3>1. PICK p \in Analyze(attempted, Trump) :
            ~IsBiggest(p, others, Trump) /\ cards = p.cards
      BY <1>2, <1>7
    <3>2. PICK hand \in others :
            \E better \in SUBSET OfSuit(hand, LeadSuit(cards, Trump), Trump) :
              /\ Cardinality(better) = Cardinality(cards)
              /\ Wins(better, cards, cards, Trump)
      <4> HIDE DEF others
      <4> QED
        BY <1>1, <1>4, <1>5, <3>1, FailingIsBeaten
    <3>3. PICK s \in Seats \ {actor} : hand = hands[s]
      OBVIOUS
    <3>4. hands'[s] = hand
      BY <2>2, <3>3
    <3> QED
      BY <3>2, <3>3, <3>4
  <2>5. Trump' = Trump
    BY <1>7 DEF Trump
  <2>6. FailedThrowReturned'
    BY <2>1, <2>2, <2>3, <2>4, <2>5 DEF FailedThrowReturned
  <2> QED
    BY <2>1, <2>6 DEF ThrowKept
<1> QED
  BY <1>3, <1>6, <1>7

LEMMA FollowThrow ==
  ASSUME Typed, CardsLevel, ThrowKept, phase = "Playing", NEW cards, PlayFollow(cards)
  PROVE  ThrowKept'
<1> DEFINE leader == slots[1].actor
           played == Append(slots, [actor |-> actor, cards |-> cards])
           S == [actor : Seats, cards : SUBSET Deck]
<1>1. /\ slots \in Seq(S) /\ slots # <<>> /\ [actor |-> actor, cards |-> cards] \in S
      /\ hands \in [Seats -> SUBSET Deck] /\ actor \in Seats
  BY DEF PlayFollow, Typed, TypeOK
<1>2. Len(slots) \in 1..3 /\ actor = (leader + Len(slots)) % 4
  BY <1>1 DEF CardsLevel, TrickInTurn
<1>3. leader \in Seats
  <2>1. 1 \in 1..Len(slots)
    BY <1>2
  <2> HIDE DEF S
  <2>2. slots[1] \in S
    BY <1>1, <2>1, ElementOfSeq
  <2> QED
    BY <2>2 DEF S
<1> HIDE DEF leader
<1>4. actor # leader
  <2>1. \A a \in Seats, n \in 1..3 : (a + n) % 4 # a
    BY DEF Seats
  <2> QED
    BY <1>2, <1>3, <2>1
<1> USE DEF leader
<1>5. \/ slots' = <<>> /\ failed' = NoThrow
      \/ hands' = Without(cards) /\ slots' = played /\ UNCHANGED <<failed, contract>>
  BY DEF PlayFollow, CompleteTrick
<1>6. CASE failed' = NoThrow
  BY <1>6 DEF ThrowKept, FailedThrowReturned
<1>7. CASE /\ hands' = Without(cards) /\ slots' = played /\ UNCHANGED <<failed, contract>>
           /\ failed # NoThrow
  <2>1. played # <<>> /\ played[1] = slots[1] /\ Len(played) # 1
    BY <1>1, <1>2, AppendProperties
  <2>2. hands'[leader] = hands[leader]
    BY <1>1, <1>3, <1>4, <1>7 DEF Without
  <2>3. /\ failed.forced = slots[1].cards
        /\ failed.attempted \ failed.forced # {}
        /\ failed.attempted \ failed.forced \subseteq hands[leader]
    BY <1>7 DEF ThrowKept, FailedThrowReturned
  <2> HIDE DEF played
  <2>4. slots' # <<>> /\ slots'[1] = slots[1] /\ Len(slots') # 1 /\ failed' = failed
    BY <1>7, <2>1
  <2>5. FailedThrowReturned'
    BY <2>2, <2>3, <2>4 DEF FailedThrowReturned
  <2> QED
    BY <2>4, <2>5 DEF ThrowKept
<1> QED
  BY <1>5, <1>6, <1>7

LEMMA StepThrow == ASSUME Typed, CardsLevel, ThrowKept, [Next]_vars PROVE ThrowKept'
<1>1. CASE PlayCards
  BY <1>1, LeadThrow, FollowThrow DEF PlayCards
<1>2. CASE phase' # "Playing" \/ failed' = NoThrow
  BY <1>2 DEF ThrowKept, FailedThrowReturned
<1>3. CASE Confirm \/ Bid
  <2>1. phase' # "Playing"
    BY <1>3 DEF Confirm, ConfirmStart, ConfirmReview, StartRound, Bid, PassBid, RevealBid,
       AdvanceDeal, FinishDeal
  <2> QED
    BY <1>2, <2>1
<1>4. CASE Exchange \/ Overcall
  <2>1. phase' # "Playing" \/ failed' = NoThrow
    BY <1>4 DEF Exchange, Bury, Overcall, PassStir, Stir, BeginPlaying
  <2> QED
    BY <1>2, <2>1
<1>5. CASE UNCHANGED vars
  BY <1>5 DEF vars, dealVars, playVars, ThrowKept, FailedThrowReturned, Trump
<1> QED
  BY <1>1, <1>3, <1>4, <1>5 DEF Next, Command, Over

(* _auto_complete never trips over its assertion: equally many cards that  *)
(* are all a seat has left are always a legal follow.                      *)
LEMMA LastTrick == ASSUME Typed PROVE LastTrickLegal
<1> SUFFICES ASSUME phase = "Playing", LegalLead(hands[actor], Trump),
                    \A s \in Seats : Cardinality(hands[s]) = Cardinality(hands[actor]),
                    NEW s \in Seats \ {actor}
             PROVE  LegalFollow(hands[s], hands[s], hands[actor], Trump)
  BY DEF LastTrickLegal
<1>1. /\ hands \in [Seats -> SUBSET Deck] /\ actor \in Seats /\ Trump \in Trumps
  BY DEF Typed, TypeOK, Trump
<1>2. /\ hands[s] \in SUBSET Card /\ IsFiniteSet(hands[s]) /\ IsFiniteSet(hands[actor])
  BY <1>1, DeckFinite
<1>3. hands[actor] # {}
  BY DEF LegalLead, Analyzable
<1> QED
  BY <1>1, <1>2, <1>3, AllCardsFollow

(* However the deal, the overcalls and the tricks go, every card is still  *)
(* somewhere, the seats hold equally many, a throw that failed left its    *)
(* other cards with the leader and could indeed have been beaten, and the  *)
(* last trick can be played out: the engine of _play_cards and             *)
(* _auto_complete, for every deck and every shuffle.                       *)
THEOREM EveryCardPlayed == Spec => []AllCardsPlayed
<1> DEFINE IInv == Typed /\ Placed /\ CardsLevel /\ ThrowKept
<1>1. Init => IInv
  <2>1. Init => ThrowKept
    BY DEF Init, InitCreate, InitPosition, ThrowKept, FailedThrowReturned
  <2> QED
    BY <2>1, InitTyped, InitPlaced, InitLevel
<1>2. IInv /\ [Next]_vars => IInv'
  BY StepTyped, StepPlaced, StepLevel, StepThrow
<1>3. IInv => AllCardsPlayed
  BY LevelHands, LastTrick DEF AllCardsPlayed, Placed, ThrowKept
<1> QED
  BY <1>1, <1>2, <1>3, PTL DEF Spec
---------------------------------------------------------------------------
(* A round runs down *)

LEMMA NearerAt ==
  ASSUME NEW a \in Int, NEW b \in Int, NEW c \in Int, NEW x \in Int, NEW y \in Int, NEW z \in Int,
         \/ a < x
         \/ (a = x /\ b < y)
         \/ (a = x /\ b = y /\ c < z)
  PROVE  Nearer(<<a, b, c>>, <<x, y, z>>)
<1> DEFINE d == <<a, b, c>>
           e == <<x, y, z>>
<1>1. d[1] = a /\ d[2] = b /\ d[3] = c /\ e[1] = x /\ e[2] = y /\ e[3] = z
  OBVIOUS
<1>2. \A j \in 1..2 : j = 1 \/ j = 2
  OBVIOUS
<1>3. \A j \in 1..1 : j = 1
  OBVIOUS
<1> HIDE DEF d, e
<1>4. CASE a < x
  <2>1. d[1] < e[1] /\ \A j \in 1..(1 - 1) : d[j] = e[j]
    BY <1>1, <1>4
  <2> QED
    BY <2>1 DEF Nearer, d, e
<1>5. CASE a = x /\ b < y
  <2>1. d[2] < e[2] /\ \A j \in 1..(2 - 1) : d[j] = e[j]
    BY <1>1, <1>3, <1>5
  <2> QED
    BY <2>1 DEF Nearer, d, e
<1>6. CASE a = x /\ b = y /\ c < z
  <2>1. d[3] < e[3] /\ \A j \in 1..(3 - 1) : d[j] = e[j]
    BY <1>1, <1>2, <1>6
  <2> QED
    BY <2>1 DEF Nearer, d, e
<1> QED
  BY <1>4, <1>5, <1>6

\* What of the hands is still to be played.
InHand == UNION {hands[s] : s \in Seats}

LEMMA InHandFinite ==
  ASSUME Typed
  PROVE  InHand \in SUBSET Deck /\ IsFiniteSet(InHand) /\ Cardinality(InHand) \in Nat
<1>1. InHand \in SUBSET Deck
  BY DEF InHand, Typed, TypeOK
<1> QED
  BY <1>1, HandSize

LEMMA SeatsFinite ==
  ASSUME NEW S \in SUBSET Seats
  PROVE  IsFiniteSet(S) /\ Cardinality(S) \in Nat
<1>1. IsFiniteSet(0..3)
  <2>1. 0 \in Int /\ 3 \in Int
    OBVIOUS
  <2> QED
    BY <2>1, FS_Interval, Zenon
<1>2. IsFiniteSet(S)
  BY <1>1, FS_Subset DEF Seats
<1> QED
  BY <1>2, FS_CardinalityType

\* The parts of a distance are integers.
Measured ==
  /\ Len(deck) \in Int /\ cursor \in Int /\ Worth(declaration.cards) \in Int
  /\ Cardinality(passed) \in Int /\ Cardinality(confirmed) \in Int
  /\ Cardinality(InHand) \in Int

LEMMA TypedMeasured == ASSUME Typed PROVE Measured
<1>1. Cardinality(passed) \in Int /\ Cardinality(confirmed) \in Int
  BY SeatsFinite DEF Typed, TypeOK
<1>2. Len(deck) \in Int /\ cursor \in Int
  BY DEF Typed, TypeOK
<1>3. Worth(declaration.cards) \in Int
  BY BidValueType DEF Worth, Typed, TypeOK
<1>4. Cardinality(InHand) \in Int
  BY InHandFinite
<1> QED
  BY <1>1, <1>2, <1>3, <1>4 DEF Measured

LEMMA ConfirmNearer ==
  ASSUME Typed, Typed', Confirm, phase' # "DealBid", phase' # "AwaitingStart"
  PROVE  Nearer(Distance', Distance)
<1>1. PICK s \in Seats : ConfirmStart(s) \/ ConfirmReview(s)
  BY DEF Confirm
<1>2. /\ phase = "RoundReview" /\ phase' = phase /\ confirmed' = confirmed \cup {s}
      /\ s \notin confirmed
  BY <1>1 DEF ConfirmStart, ConfirmReview, StartRound
<1>3. IsFiniteSet(confirmed) /\ Cardinality(confirmed) \in Nat
  BY SeatsFinite DEF Typed, TypeOK
<1>4. Cardinality(confirmed') = Cardinality(confirmed) + 1
  BY <1>2, <1>3, FS_AddElement
<1>5. Distance = <<0, 4 - Cardinality(confirmed), 0>>
  BY <1>2 DEF Distance
<1>6. Distance' = <<0, 4 - Cardinality(confirmed'), 0>>
  BY <1>2 DEF Distance
<1> QED
  BY <1>3, <1>4, <1>5, <1>6, NearerAt

LEMMA BidNearer ==
  ASSUME Typed, Typed', Bid
  PROVE  Nearer(Distance', Distance)
<1>1. phase = "DealBid" /\ (PassBid \/ \E cards \in SUBSET hands[actor] : RevealBid(cards))
  BY DEF Bid
<1>2. \/ phase' = "DealBid" /\ cursor' = cursor + 1 /\ deck' = deck
      \/ phase' = "BottomExchange"
  BY <1>1 DEF PassBid, RevealBid, AdvanceDeal, FinishDeal, dealVars
<1>3. Distance = <<3, Len(deck) - cursor, 0>> /\ Len(deck) \in Int /\ cursor \in Int
  <2>1. Distance = <<3, Len(deck) - cursor, 0>>
    BY <1>1 DEF Distance
  <2> QED
    BY <2>1, TypedMeasured DEF Measured
<1>4. CASE phase' = "DealBid" /\ cursor' = cursor + 1 /\ deck' = deck
  <2>1. Distance' = <<3, Len(deck) - (cursor + 1), 0>>
    BY <1>4 DEF Distance
  <2> QED
    BY <1>3, <2>1, NearerAt
<1>5. CASE phase' = "BottomExchange"
  <2>1. Distance' = <<2, 1000 - Worth(declaration.cards)', 4>> /\ Worth(declaration.cards)' \in Int
    <3>1. Worth(declaration.cards)' \in Int
      BY BidValueType DEF Worth, Typed, TypeOK
    <3> QED
      BY <1>5, <3>1 DEF Distance, Worth
  <2> QED
    BY <1>3, <2>1, NearerAt
<1> QED
  BY <1>2, <1>4, <1>5

LEMMA ExchangeNearer ==
  ASSUME Typed, Typed', Exchange
  PROVE  Nearer(Distance', Distance)
<1>1. PICK cards \in SUBSET pickup : Bury(cards)
  BY DEF Exchange
<1>2. Distance = <<2, 1000 - Worth(declaration.cards), 4>> /\ Worth(declaration.cards) \in Int
  <2>1. phase = "BottomExchange"
    BY DEF Exchange
  <2>2. Distance = <<2, 1000 - Worth(declaration.cards), 4>>
    BY <2>1 DEF Distance, Worth
  <2> QED
    BY <2>2, TypedMeasured DEF Measured
<1>3. CASE phase' = "Playing"
  <2>1. Distance' = <<1, Cardinality(InHand'), 0>> /\ Cardinality(InHand') \in Int
    <3>1. InHand' \in SUBSET Deck
      BY DEF InHand, Typed, TypeOK
    <3>2. Cardinality(InHand') \in Int
      BY <3>1, HandSize
    <3> QED
      BY <1>3, <3>2 DEF Distance, InHand
  <2> QED
    BY <1>2, <2>1, NearerAt
<1>4. CASE phase' = "StirDecision"
  <2>1. passed' = {actor} /\ UNCHANGED <<declaration, contract>>
    BY <1>1 DEF Bury, bidVars
  <2>2. Cardinality(passed') = 1
    BY <2>1, FS_Singleton
  <2>3. Distance' = <<2, 1000 - Worth(declaration.cards), 4 - Cardinality(passed')>>
    BY <1>4, <2>1 DEF Distance, Worth, Trump
  <2> QED
    BY <1>2, <2>2, <2>3, NearerAt
<1> QED
  BY <1>1, <1>3, <1>4 DEF Bury, BeginPlaying

LEMMA PlayingNearer ==
  ASSUME Typed', phase = "StirDecision", phase' = "Playing", Typed
  PROVE  Nearer(Distance', Distance)
<1>1. /\ Distance = <<2, 1000 - Worth(declaration.cards), 4 - Cardinality(passed)>>
      /\ Worth(declaration.cards) \in Int /\ Cardinality(passed) \in Int
  <2>1. Distance = <<2, 1000 - Worth(declaration.cards), 4 - Cardinality(passed)>>
    BY DEF Distance, Worth
  <2> QED
    BY <2>1, TypedMeasured DEF Measured
<1>2. InHand' \in SUBSET Deck
  BY DEF InHand, Typed, TypeOK
<1>3. Cardinality(InHand') \in Int
  BY <1>2, HandSize
<1>4. Distance' = <<1, Cardinality(InHand'), 0>>
  BY DEF Distance, InHand
<1> QED
  BY <1>1, <1>3, <1>4, NearerAt

LEMMA ValidWorth ==
  ASSUME NEW cards \in SUBSET Deck, NEW rank, ValidShape(cards, rank)
  PROVE  BidValue(cards, rank) > 0
<1> DEFINE f == (CHOOSE c \in cards : TRUE).face
<1>1. f \in Faces
  BY ShapeNotEmpty, DeckAssumption DEF Card
<1>2. Cardinality(cards) \in Nat /\ Cardinality(cards) # 0
  BY DeckFinite, FS_CardinalityType, FS_EmptySet, ShapeNotEmpty
<1>3. (IF f.suit = "joker" THEN f.rank - SmallJoker + 4 ELSE BidSuitOrder[f.suit]) \in Nat
  BY <1>1 DEF Faces, Suits, SmallJoker, BigJoker, BidSuitOrder, SuitedRanks
<1>4. BidValue(cards, rank) = 100 * Cardinality(cards)
        + (IF f.suit = "joker" THEN f.rank - SmallJoker + 4 ELSE BidSuitOrder[f.suit])
  BY DEF BidValue
<1> HIDE DEF f
<1> QED
  BY <1>2, <1>3, <1>4

LEMMA NothingWorth == ASSUME NEW rank PROVE BidValue({}, rank) = 0
<1>1. ~ValidShape({}, rank)
  BY ShapeNotEmpty
<1> QED
  BY <1>1 DEF BidValue

LEMMA OvercallNearer ==
  ASSUME Typed, Typed', Stirred, Overcall
  PROVE  Nearer(Distance', Distance)
<1>1. phase = "StirDecision" /\ actor \in Seats
  BY DEF Overcall, Typed, TypeOK
<1>2. /\ Distance = <<2, 1000 - Worth(declaration.cards), 4 - Cardinality(passed)>>
      /\ Worth(declaration.cards) \in Int /\ Cardinality(passed) \in Int
  <2>1. Distance = <<2, 1000 - Worth(declaration.cards), 4 - Cardinality(passed)>>
    BY <1>1 DEF Distance, Worth
  <2> QED
    BY <2>1, TypedMeasured DEF Measured
<1>3. CASE PassStir /\ Declined # Seats
  <2>1. /\ phase' = phase /\ passed' = passed \cup {actor}
        /\ UNCHANGED <<declaration, contract>>
    BY <1>3 DEF PassStir, Declined, bidVars
  <2>2. actor \notin passed
    <3>1. PICK n \in 1..3 : /\ passed = {(owner + i) % 4 : i \in 0..(n - 1)}
                            /\ actor = (owner + n) % 4
      BY <1>1 DEF Stirred, PassedInOrder
    <3>2. owner \in Seats
      BY <1>1 DEF Stirred
    <3>3. ASSUME NEW i \in 0..(n - 1) PROVE (owner + i) % 4 # (owner + n) % 4
      <4>1. i \in 0..3 /\ n \in 0..3 /\ i # n
        OBVIOUS
      <4> QED
        BY <3>2, <4>1, SeatsApart
    <3> QED
      BY <3>1, <3>3
  <2>3. IsFiniteSet(passed) /\ passed' \in SUBSET Seats
    BY SeatsFinite DEF Typed, TypeOK
  <2>4. Cardinality(passed') = Cardinality(passed) + 1
    BY <2>1, <2>2, <2>3, FS_AddElement
  <2>5. Distance' = <<2, 1000 - Worth(declaration.cards), 4 - Cardinality(passed')>>
    BY <1>1, <2>1 DEF Distance, Worth, Trump
  <2> QED
    BY <1>2, <2>4, <2>5, NearerAt
<1>4. CASE PassStir /\ Declined = Seats
  <2>1. phase' = "Playing"
    BY <1>4 DEF PassStir, BeginPlaying
  <2> QED
    BY <1>1, <2>1, PlayingNearer
<1>5. ASSUME NEW cards \in SUBSET hands[actor], Stir(cards)
      PROVE  Nearer(Distance', Distance)
  <2>1. cards \in SUBSET Deck
    BY <1>1 DEF Typed, TypeOK
  <2>2. ValidShape(cards, Trump.rank)
        /\ (declaration.cards # {} => Worth(cards) > Worth(declaration.cards))
    BY <1>5 DEF Stir, ValidStir, ValidReveal, Beats, Worth
  <2>3. Worth(cards) > Worth(declaration.cards)
    BY <2>1, <2>2, ValidWorth, NothingWorth DEF Worth
  <2>4. Trump'.rank = Trump.rank
    BY <1>5 DEF Stir, Redeclared, Trump, Typed, TypeOK, Trumps
  <2>5. phase' = "BottomExchange" /\ declaration'.cards = cards
    BY <1>5 DEF Stir
  <2>6. Distance' = <<2, 1000 - Worth(cards), 4>>
    BY <2>4, <2>5 DEF Distance, Worth
  <2>7. Worth(cards) \in Int
    BY <2>1, BidValueType DEF Worth
  <2> QED
    BY <1>2, <2>3, <2>6, <2>7, NearerAt
<1> QED
  BY <1>3, <1>4, <1>5 DEF Overcall

(* Cards leave a hand with every play. *)
LEMMA HandsShrink ==
  ASSUME Typed, Placed, PlayCards
  PROVE  /\ InHand' \subseteq InHand
         /\ InHand' # InHand
<1>1. /\ phase = "Playing" /\ actor \in Seats /\ hands \in [Seats -> SUBSET Deck]
      /\ \A s, t \in Seats : s # t => hands[s] \cap hands[t] = {}
  BY DEF PlayCards, Typed, TypeOK, Placed, CardsInOnePlace, Held
<1>2. ASSUME NEW cards, cards # {}, cards \in SUBSET hands[actor],
             \/ hands' = [s \in Seats |-> {}]
             \/ hands' = Without(cards)
      PROVE  /\ InHand' \subseteq InHand
             /\ InHand' # InHand
  <2>1. PICK c \in cards : TRUE
    BY <1>2
  <2>2. c \in InHand
    BY <1>1, <1>2, <2>1 DEF InHand
  <2>3. \A s \in Seats : hands'[s] \subseteq hands[s]
    BY <1>1, <1>2 DEF Without
  <2>4. \A s \in Seats : c \notin hands'[s]
    BY <1>1, <1>2, <2>1 DEF Without
  <2>5. c \notin InHand'
    BY <2>4 DEF InHand
  <2>6. InHand' \subseteq InHand
    BY <2>3 DEF InHand
  <2> QED
    BY <2>2, <2>5, <2>6
<1>3. ASSUME NEW attempted, PlayLead(attempted)
      PROVE  /\ InHand' \subseteq InHand
             /\ InHand' # InHand
  <2> DEFINE cards == ResolveLead(attempted, {hands[s] : s \in Seats \ {actor}}, Trump)
  <2>1. cards # {} /\ cards \in SUBSET hands[actor]
    BY <1>1, <1>3, WhatIsLed
  <2>2. hands' = [s \in Seats |-> {}] \/ hands' = Without(cards)
    BY <1>3 DEF PlayLead, CompleteTrick
  <2> HIDE DEF cards
  <2> QED
    BY <1>2, <2>1, <2>2
<1>4. ASSUME NEW cards \in SUBSET hands[actor], PlayFollow(cards)
      PROVE  /\ InHand' \subseteq InHand
             /\ InHand' # InHand
  <2>1. cards # {}
    BY <1>4 DEF PlayFollow, LegalFollow
  <2>2. hands' = Without(cards)
    BY <1>4 DEF PlayFollow, CompleteTrick
  <2> QED
    BY <1>2, <2>1, <2>2
<1> QED
  BY <1>3, <1>4 DEF PlayCards

LEMMA PlayNearer ==
  ASSUME Typed, Typed', Placed, PlayCards
  PROVE  Nearer(Distance', Distance)
<1>1. phase = "Playing" /\ phase' \in {"Playing", "RoundReview", "Finished"}
  BY PlayEffect DEF PlayCards
<1>2. Distance = <<1, Cardinality(InHand), 0>>
  BY <1>1 DEF Distance, InHand
<1>3. Cardinality(InHand') < Cardinality(InHand) /\ Cardinality(InHand) \in Nat
      /\ Cardinality(InHand') \in Nat
  BY HandsShrink, InHandFinite, FS_Subset, FS_CardinalityType
<1>4. CASE phase' = "Playing"
  <2>1. Distance' = <<1, Cardinality(InHand'), 0>>
    BY <1>4 DEF Distance, InHand
  <2> QED
    BY <1>2, <1>3, <2>1, NearerAt
<1>5. CASE phase' \in {"RoundReview", "Finished"}
  <2>1. Distance' = <<0, 4 - Cardinality(confirmed'), 0>>
    BY <1>5 DEF Distance
  <2>2. Cardinality(confirmed') \in Int
    BY SeatsFinite DEF Typed, TypeOK
  <2> QED
    BY <1>2, <1>3, <2>1, <2>2, NearerAt
<1> QED
  BY <1>1, <1>4, <1>5

LEMMA SomeSeats ==
  ASSUME NEW S \in SUBSET Seats
  PROVE  Cardinality(S) <= 4
<1>1. Cardinality(0..3) = IF 0 > 3 THEN 0 ELSE 3 - 0 + 1
  <2>1. 0 \in Int /\ 3 \in Int
    OBVIOUS
  <2> QED
    BY <2>1, FS_Interval, Zenon
<1>2. Cardinality(Seats) = 4
  BY <1>1 DEF Seats
<1>3. IsFiniteSet(Seats)
  BY SeatsFinite
<1> QED
  BY <1>2, <1>3, FS_Subset

LEMMA WorthBounded ==
  ASSUME NEW cards \in SUBSET Deck, NEW rank
  PROVE  1000 - BidValue(cards, rank) \in Nat
<1> DEFINE f == (CHOOSE c \in cards : TRUE).face
           more == IF f.suit = "joker" THEN f.rank - SmallJoker + 4 ELSE BidSuitOrder[f.suit]
<1>1. CASE ~ValidShape(cards, rank)
  BY <1>1 DEF BidValue
<1>2. CASE ValidShape(cards, rank)
  <2>1. f \in Faces
    BY <1>2, ShapeNotEmpty, DeckAssumption DEF Card
  <2>2. Cardinality(cards) \in {1, 2}
    BY <1>2 DEF ValidShape
  <2>3. more \in 0..5
    BY <2>1 DEF Faces, Suits, SmallJoker, BigJoker, BidSuitOrder, SuitedRanks
  <2>4. BidValue(cards, rank) = 100 * Cardinality(cards) + more
    BY <1>2 DEF BidValue
  <2> HIDE DEF more, f
  <2> QED
    BY <2>2, <2>3, <2>4
<1> QED
  BY <1>1, <1>2

(* A distance is made of naturals, so nothing comes nearer for ever. *)
LEMMA DistanceNatural ==
  ASSUME Typed
  PROVE  Distance \in Nat \X Nat \X Nat
<1>1. Len(deck) - cursor \in Nat
  BY DEF Typed, TypeOK
<1>2. 1000 - BidValue(declaration.cards, Trump.rank) \in Nat
  BY WorthBounded DEF Typed, TypeOK
<1>3. 4 - Cardinality(passed) \in Nat /\ 4 - Cardinality(confirmed) \in Nat
  <2>1. passed \in SUBSET Seats /\ confirmed \in SUBSET Seats
    BY DEF Typed, TypeOK
  <2>2. /\ Cardinality(passed) \in Nat /\ Cardinality(confirmed) \in Nat
        /\ Cardinality(passed) <= 4 /\ Cardinality(confirmed) <= 4
    BY <2>1, SomeSeats, SeatsFinite
  <2> QED
    BY <2>2
<1>4. Cardinality(UNION {hands[s] : s \in Seats}) \in Nat
  BY InHandFinite DEF InHand
<1>5. CASE phase = "DealBid"
  BY <1>1, <1>5 DEF Distance
<1>6. CASE phase \in {"BottomExchange", "StirDecision"}
  BY <1>2, <1>3, <1>6 DEF Distance
<1>7. CASE phase = "Playing"
  BY <1>4, <1>7 DEF Distance
<1>8. CASE phase \in {"AwaitingStart", "RoundReview", "Finished"}
  BY <1>3, <1>8 DEF Distance
<1> QED
  BY <1>5, <1>6, <1>7, <1>8 DEF Typed, TypeOK, Phases

(* Every command brings a round nearer to its end, by a lexicographic      *)
(* distance of naturals: neither overcalls and exchanges nor tricks can go *)
(* on for ever, whatever the deck.                                         *)
THEOREM RoundsEnd == Spec => RoundRunsDown /\ [](Distance \in Nat \X Nat \X Nat)
<1>1. ASSUME Typed, Typed', Placed, Stirred, Next
      PROVE  \/ UNCHANGED vars
             \/ (phase' \notin {"AwaitingStart", "DealBid"} \/ phase = "DealBid"
                   => Nearer(Distance', Distance))
  <2>1. CASE Confirm
    <3>1. phase # "DealBid"
      BY <2>1 DEF Confirm, ConfirmStart, ConfirmReview
    <3> QED
      BY <1>1, <2>1, <3>1, ConfirmNearer
  <2>2. CASE Bid
    BY <1>1, <2>2, BidNearer
  <2>3. CASE Exchange
    BY <1>1, <2>3, ExchangeNearer
  <2>4. CASE Overcall
    BY <1>1, <2>4, OvercallNearer
  <2>5. CASE PlayCards
    BY <1>1, <2>5, PlayNearer
  <2> QED
    BY <1>1, <2>1, <2>2, <2>3, <2>4, <2>5 DEF Next, Command, Over
<1> DEFINE IInv == Typed /\ Placed /\ Stirred
<1>2. Init => IInv
  BY InitTyped, InitPlaced, InitStirred
<1>3. IInv /\ [Next]_vars => IInv'
  BY StepTyped, StepPlaced, StepStirred
<1>4. IInv /\ IInv' /\ [Next]_vars =>
        [phase' \notin {"AwaitingStart", "DealBid"} \/ phase = "DealBid"
           => Nearer(Distance', Distance)]_vars
  BY <1>1
<1>5. IInv => Distance \in Nat \X Nat \X Nat
  BY DistanceNatural
<1> QED
  BY <1>2, <1>3, <1>4, <1>5, PTL DEF Spec, RoundRunsDown
=============================================================================
