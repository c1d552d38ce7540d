----------------------------- MODULE GameEngine -----------------------------
(***************************************************************************)
(* The pure game aggregate of server/game/_engine: one action for every    *)
(* command apply_command accepts.  A rejected command returns the state it *)
(* was given, so it is no step.                                            *)
(*                                                                         *)
(* Seats A, B, C, D are 0..3 in play order; seats of the same parity are   *)
(* partners, and a partnership is named by that parity (FIRST is 0).       *)
(***************************************************************************)
EXTENDS Play, Follow, Declarations

CONSTANTS
  Deck,             \* the physical cards of a round (108 in create_decks)
  BottomCount,      \* _BOTTOM_COUNT (8 in deal.py)
  Shuffles,         \* the orders start_round may shuffle the deck into
  MandatoryLevels,  \* GameConfig.mandatory_levels, as a set
  Positions,        \* the RoundDeal positions a game may be instantiated from
  MaxRound          \* bound: rounds explored

Seats == 0..3
Teams == {0, 1}
NoSeat == 4

ASSUME DeckAssumption ==
  /\ Deck \subseteq Card /\ IsFiniteSet(Deck)
  /\ BottomCount \in Nat \ {0}
  /\ Cardinality(Deck) > BottomCount /\ (Cardinality(Deck) - BottomCount) % 4 = 0
ASSUME ShuffleAssumption ==
  \A s \in Shuffles : /\ s \in Seq(Deck) /\ Len(s) = Cardinality(Deck)
                      /\ \A i, j \in 1..Len(s) : s[i] = s[j] => i = j
ASSUME LevelAssumption == MandatoryLevels \subseteq SuitedRanks /\ 14 \in MandatoryLevels
ASSUME PositionAssumption ==
  Positions \subseteq [round : Nat \ {0}, levels : [Teams -> SuitedRanks],
                       fixed : Seats \cup {NoSeat}, start : Seats]
ASSUME RoundAssumption == MaxRound \in Nat

VARIABLES
  phase,        \* the class of the current phase
  round,        \* round_number
  levels,       \* partnership levels before the round
  confirmed,    \* seats that confirmed the start or the review
  fixed,        \* fixed_declarer, or NoSeat
  start,        \* start_actor
  deck,         \* the 100 cards to deal, in order
  cursor,       \* deal_cursor
  hands,        \* hand of every seat
  bottom,       \* bottom_cards
  actor,        \* current_actor
  declaration,  \* the leading declaration, or NoDeclaration
  reveals,      \* bid_reveals
  contract,     \* declarer and trump
  pickup,       \* hand_after_pickup
  cause,        \* cause of the bottom exchange
  owner,        \* bottom_owner
  passed,       \* seats that declined to stir since the last bury
  stirs,        \* stir_events
  exchanges,    \* exchange_events
  slots,        \* slots of the current trick
  failed,       \* failed_throw, or NoThrow
  captured,     \* defender_point_cards
  completed     \* the CompletedRound, or NoResult

dealVars == <<round, levels, fixed, start, deck>>
bidVars == <<declaration, reveals>>
stirVars == <<pickup, cause, owner, passed, stirs, exchanges>>
playVars == <<slots, failed, captured>>
reviewVars == <<confirmed, completed>>
vars == <<phase, dealVars, cursor, hands, bottom, actor, bidVars, contract,
          stirVars, playVars, reviewVars>>

NextSeat(s) == (s + 1) % 4
PartnerSeat(s) == (s + 2) % 4
Team(s) == s % 2

NoDeclaration == [actor |-> NoSeat, cards |-> {}]
NoContract == [declarer |-> NoSeat, trump |-> [suit |-> NoSuit, rank |-> 2]]
NoThrow == [attempted |-> {}, forced |-> {}]
NoResult == [winners |-> 2, nextDeclarer |-> NoSeat, total |-> 0,
             levelsAfter |-> [t \in Teams |-> 2]]

Trump == contract.trump

\* contracts.trump_rank: without a declarer the FIRST team's level counts.
TrumpRank(lv, declarer) == IF declarer = NoSeat THEN lv[0] ELSE lv[Team(declarer)]
---------------------------------------------------------------------------
(* Starting a round *)

\* start_round and start_round_from_cards: the first card goes to seat s.
StartRound(n, lv, declarer, s, shuffle) ==
  /\ phase' = "DealBid" /\ round' = n /\ levels' = lv
  /\ fixed' = declarer /\ start' = s /\ actor' = s
  /\ bottom' = {shuffle[i] : i \in 1..BottomCount}
  /\ deck' = SubSeq(shuffle, BottomCount + 1, Len(shuffle))
  /\ hands' = [t \in Seats |-> IF t = s THEN {shuffle[BottomCount + 1]} ELSE {}]
  /\ cursor' = 1
  /\ declaration' = NoDeclaration /\ reveals' = <<>>
  /\ contract' = NoContract
  /\ pickup' = {} /\ cause' = "INITIAL" /\ owner' = NoSeat /\ passed' = {}
  /\ stirs' = <<>> /\ exchanges' = <<>>
  /\ slots' = <<>> /\ failed' = NoThrow /\ captured' = {}
  /\ confirmed' = {} /\ completed' = NoResult

\* The seats that may open: the declarer, or a random one when none is fixed.
Openers(declarer) == IF declarer = NoSeat THEN Seats ELSE {declarer}

\* _confirm while awaiting the first round.
ConfirmStart(s) ==
  /\ phase = "AwaitingStart" /\ s \in Seats \ confirmed
  /\ IF confirmed \cup {s} = Seats
     THEN \E shuffle \in Shuffles, opener \in Openers(NoSeat) :
            StartRound(1, levels, NoSeat, opener, shuffle)
     ELSE /\ confirmed' = confirmed \cup {s}
          /\ UNCHANGED <<phase, dealVars, cursor, hands, bottom, actor, bidVars,
                         contract, stirVars, playVars, completed>>

\* Slip: the next round starts without the fourth confirmation.
ConfirmByThree(s) ==
  /\ phase = "RoundReview" /\ s \in Seats \ confirmed
  /\ IF Cardinality(confirmed) >= 2
     THEN \E shuffle \in Shuffles, opener \in Openers(completed.nextDeclarer) :
            StartRound(round + 1, completed.levelsAfter,
                       completed.nextDeclarer, opener, shuffle)
     ELSE /\ confirmed' = confirmed \cup {s}
          /\ UNCHANGED <<phase, dealVars, cursor, hands, bottom, actor, bidVars,
                         contract, stirVars, playVars, completed>>

\* _confirm while reviewing a completed round.
ConfirmReview(s) ==
  /\ phase = "RoundReview" /\ s \in Seats \ confirmed
  /\ IF confirmed \cup {s} = Seats
     THEN /\ round < MaxRound
          /\ \E shuffle \in Shuffles, opener \in Openers(completed.nextDeclarer) :
               StartRound(round + 1, completed.levelsAfter,
                          completed.nextDeclarer, opener, shuffle)
     ELSE /\ confirmed' = confirmed \cup {s}
          /\ UNCHANGED <<phase, dealVars, cursor, hands, bottom, actor, bidVars,
                         contract, stirVars, playVars, completed>>
---------------------------------------------------------------------------
(* Dealing and bidding *)

\* hand_after_pickup: the hand with the bottom cards.
PickUp(s) == hands[s] \cup bottom

\* _finish_deal, with the declaration the last bid left.
FinishDeal(decl) ==
  LET declarer == IF fixed # NoSeat THEN fixed
                  ELSE IF decl # NoDeclaration THEN decl.actor ELSE start
      suit == IF decl = NoDeclaration THEN NoSuit ELSE DeclaredSuit(decl.cards)
  IN /\ phase' = "BottomExchange"
     /\ contract' = [declarer |-> declarer,
                     trump |-> [suit |-> suit, rank |-> TrumpRank(levels, declarer)]]
     /\ actor' = declarer
     /\ pickup' = PickUp(declarer)
     /\ cause' = "INITIAL"
     /\ UNCHANGED <<hands, cursor, owner, passed, stirs, exchanges>>

\* _advance_deal: the next seat gets the next card, or the deal is over.
AdvanceDeal(decl) ==
  /\ IF cursor = Len(deck) THEN FinishDeal(decl)
     ELSE /\ actor' = NextSeat(actor)
          /\ hands' = [hands EXCEPT ![NextSeat(actor)] = @ \cup {deck[cursor + 1]}]
          /\ cursor' = cursor + 1
          /\ UNCHANGED <<phase, contract, stirVars>>
  /\ UNCHANGED <<dealVars, bottom, playVars, reviewVars>>

PassBid ==
  /\ UNCHANGED bidVars
  /\ AdvanceDeal(declaration)

RevealBid(cards) ==
  LET decl == [actor |-> actor, cards |-> cards]
  IN /\ declaration.actor # actor
     /\ cards \subseteq hands[actor]
     /\ ValidReveal(cards, TrumpRank(levels, fixed), declaration.cards)
     /\ declaration' = decl
     /\ reveals' = Append(reveals, decl)
     /\ AdvanceDeal(decl)
---------------------------------------------------------------------------
(* Bottom exchanges and stirring *)

\* The event an exchange follows from; the initial one follows from none.
StirIndex == IF cause = "STIR" THEN Len(stirs) ELSE 0

\* Slip: earlier decliners are forgotten.
DeclinedNow == {actor}
\* The seats that will have declined once the actor does.
Declined == passed \cup {actor}

\* A stir changes the trump suit and nothing else of the contract.
Redeclared(cards) == [contract EXCEPT !.trump.suit = DeclaredSuit(cards)]

\* begin_playing
BeginPlaying ==
  /\ phase' = "Playing"
  /\ actor' = contract.declarer
  /\ slots' = <<>> /\ failed' = NoThrow /\ captured' = {}

Bury(cards) ==
  /\ cards \subseteq pickup
  /\ Cardinality(cards) = Cardinality(bottom)
  /\ hands' = [hands EXCEPT ![actor] = pickup \ cards]
  /\ bottom' = cards
  /\ owner' = actor /\ passed' = {actor} /\ pickup' = {}
  /\ exchanges' = Append(exchanges, [actor |-> actor, cause |-> cause, stir |-> StirIndex])
  /\ IF declaration # NoDeclaration /\ IsMaximum(declaration.cards)
     THEN BeginPlaying
     ELSE /\ phase' = "StirDecision"
          /\ actor' = NextSeat(actor)
          /\ UNCHANGED playVars
  /\ UNCHANGED <<dealVars, cursor, bidVars, contract, cause, stirs, reviewVars>>

PassStir ==
  /\ stirs' = Append(stirs, [actor |-> actor, cards |-> {}])
  /\ IF Declined = Seats
     THEN BeginPlaying /\ UNCHANGED passed
     ELSE /\ passed' = Declined
          /\ actor' = NextSeat(actor)
          /\ UNCHANGED <<phase, playVars>>
  /\ UNCHANGED <<dealVars, cursor, hands, bottom, bidVars, contract, pickup, cause,
                 owner, exchanges, reviewVars>>

Stir(cards) ==
  /\ cards \subseteq hands[actor]
  /\ ValidStir(cards, Trump.rank, declaration.cards)
  /\ phase' = "BottomExchange"
  /\ declaration' = [actor |-> actor, cards |-> cards]
  /\ contract' = Redeclared(cards)
  /\ stirs' = Append(stirs, [actor |-> actor, cards |-> cards])
  /\ pickup' = PickUp(actor)
  /\ cause' = "STIR"
  /\ UNCHANGED <<dealVars, cursor, hands, bottom, actor, reveals, owner, passed,
                 exchanges, playVars, reviewVars>>
---------------------------------------------------------------------------
(* Playing *)

\* finish_round, once the last trick was won by slot last.
FinishRound(points, last) ==
  LET declarers == Team(contract.declarer)
      total == TotalPoints(points, bottom, last.cards, Team(last.actor) # declarers, Trump)
      winners == IF DefendersWin(total) THEN 1 - declarers ELSE declarers
      advance == [t \in Teams |->
                    Advance(levels[t], IF t = winners THEN LevelGain(total) ELSE 0,
                            t = declarers, MandatoryLevels)]
  IN /\ completed' = [winners |-> winners,
                      nextDeclarer |-> IF DefendersWin(total)
                                       THEN NextSeat(contract.declarer)
                                       ELSE PartnerSeat(contract.declarer),
                      total |-> total,
                      levelsAfter |-> [t \in Teams |-> advance[t].level]]
     /\ phase' = IF advance[winners].won THEN "Finished" ELSE "RoundReview"
     /\ confirmed' = {}

\* _complete_trick: the winner leads next; defenders keep the point cards.
CompleteTrick(rest, played) ==
  LET winner == WinningSlot(played, Trump)
      cards == UNION {played[i].cards : i \in DOMAIN played}
      points == IF Team(winner.actor) = Team(contract.declarer) THEN captured
                ELSE captured \cup {c \in cards : Points(c) > 0}
  IN /\ hands' = rest
     /\ captured' = points
     /\ actor' = winner.actor
     /\ slots' = <<>> /\ failed' = NoThrow
     /\ IF \A s \in Seats : rest[s] = {}
        THEN FinishRound(points, winner)
        ELSE UNCHANGED <<phase, reviewVars>>
     /\ UNCHANGED <<dealVars, cursor, bottom, bidVars, contract, stirVars>>

\* _should_auto_complete: the leader is out of cards and every other hand is
\* exactly as large as the lead.
LastLead(rest, leader, cards) ==
  /\ rest[leader] = {}
  /\ \A s \in Seats \ {leader} : Cardinality(rest[s]) = Cardinality(cards)

\* Slip: the cards stay in the hand.
WithoutNothing(cards) == hands
\* The hands after the actor laid cards.
Without(cards) == [hands EXCEPT ![actor] = @ \ cards]

\* play_cards with no slot: a lead, cut down to one pattern when the throw
\* fails.  _auto_complete then plays every hand out; its assertion that each
\* of those plays is legal is a guard here and the invariant LastTrickLegal.
PlayLead(attempted) ==
  LET others == {hands[s] : s \in Seats \ {actor}}
      cards == ResolveLead(attempted, others, Trump)
      rest == Without(cards)
      lead == <<[actor |-> actor, cards |-> cards]>>
      Forced(i) == (actor + i) % 4
  IN /\ slots = <<>>
     /\ attempted \subseteq hands[actor]
     /\ LegalLead(attempted, Trump)
     /\ IF LastLead(rest, actor, cards)
        THEN /\ \A s \in Seats \ {actor} : LegalFollow(hands[s], hands[s], cards, Trump)
             /\ CompleteTrick([s \in Seats |-> {}],
                  lead \o [i \in 1..3 |-> [actor |-> Forced(i), cards |-> hands[Forced(i)]]])
        ELSE /\ hands' = rest /\ slots' = lead
             /\ failed' = IF cards = attempted THEN NoThrow
                          ELSE [attempted |-> attempted, forced |-> cards]
             /\ actor' = NextSeat(actor)
             /\ UNCHANGED <<phase, dealVars, cursor, bottom, bidVars, contract,
                            stirVars, captured, reviewVars>>

\* play_cards behind a lead.
PlayFollow(cards) ==
  LET rest == Without(cards)
      played == Append(slots, [actor |-> actor, cards |-> cards])
  IN /\ slots # <<>>
     /\ cards \subseteq hands[actor]
     /\ LegalFollow(hands[actor], cards, slots[1].cards, Trump)
     /\ IF Len(played) = 4 THEN CompleteTrick(rest, played)
        ELSE /\ hands' = rest /\ slots' = played
             /\ actor' = NextSeat(actor)
             /\ UNCHANGED <<phase, dealVars, cursor, bottom, bidVars, contract,
                            stirVars, failed, captured, reviewVars>>
---------------------------------------------------------------------------
\* create: a new game, before its first deal.
InitCreate ==
  /\ phase = "AwaitingStart" /\ round = 0 /\ levels = [t \in Teams |-> 2]
  /\ fixed = NoSeat /\ start = NoSeat /\ actor = NoSeat
  /\ bottom = {} /\ deck = <<>> /\ hands = [s \in Seats |-> {}] /\ cursor = 0

\* instantiate: one round from a given position and complete shuffle.
InitPosition ==
  \E p \in Positions, shuffle \in Shuffles :
    /\ phase = "DealBid" /\ round = p.round /\ levels = p.levels
    /\ fixed = p.fixed /\ start = p.start /\ actor = p.start
    /\ bottom = {shuffle[i] : i \in 1..BottomCount}
    /\ deck = SubSeq(shuffle, BottomCount + 1, Len(shuffle))
    /\ hands = [t \in Seats |-> IF t = p.start THEN {shuffle[BottomCount + 1]} ELSE {}]
    /\ cursor = 1

Init ==
  /\ InitCreate \/ InitPosition
  /\ declaration = NoDeclaration /\ reveals = <<>>
  /\ contract = NoContract
  /\ pickup = {} /\ cause = "INITIAL" /\ owner = NoSeat /\ passed = {}
  /\ stirs = <<>> /\ exchanges = <<>>
  /\ slots = <<>> /\ failed = NoThrow /\ captured = {}
  /\ confirmed = {} /\ completed = NoResult

\* The game is over, or the bound on rounds is reached.
Stopped ==
  \/ phase = "Finished"
  \/ phase = "RoundReview" /\ Cardinality(confirmed) = 3 /\ round >= MaxRound
Over == Stopped /\ UNCHANGED vars

\* _apply_phase: the commands each phase accepts, all from the current actor
\* except confirmations.
Confirm == \E s \in Seats : ConfirmStart(s) \/ ConfirmReview(s)
Bid ==
  /\ phase = "DealBid"
  /\ PassBid \/ \E cards \in SUBSET hands[actor] : RevealBid(cards)
Exchange ==
  /\ phase = "BottomExchange"
  /\ \E cards \in SUBSET pickup : Bury(cards)
Overcall ==
  /\ phase = "StirDecision"
  /\ PassStir \/ \E cards \in SUBSET hands[actor] : Stir(cards)
PlayCards ==
  /\ phase = "Playing"
  /\ \E cards \in SUBSET hands[actor] : PlayLead(cards) \/ PlayFollow(cards)

Command == Confirm \/ Bid \/ Exchange \/ Overcall \/ PlayCards

Next == Command \/ Over

Spec == Init /\ [][Next]_vars
---------------------------------------------------------------------------
(* Properties *)

Phases == {"AwaitingStart", "DealBid", "BottomExchange", "StirDecision",
           "Playing", "RoundReview", "Finished"}

\* Every field of the phase objects keeps its type, and a phase in which
\* somebody must act names that seat.
TypeOK ==
  /\ phase \in Phases
  /\ round \in Nat /\ levels \in [Teams -> SuitedRanks]
  /\ confirmed \subseteq Seats
  /\ fixed \in Seats \cup {NoSeat} /\ start \in Seats \cup {NoSeat}
  /\ deck \in Seq(Deck) /\ cursor \in 0..Len(deck)
  /\ hands \in [Seats -> SUBSET Deck] /\ bottom \subseteq Deck
  /\ actor \in IF phase = "AwaitingStart" THEN {NoSeat} ELSE Seats
  /\ declaration \in [actor : Seats \cup {NoSeat}, cards : SUBSET Deck]
  /\ reveals \in Seq([actor : Seats, cards : SUBSET Deck])
  /\ contract \in [declarer : Seats \cup {NoSeat}, trump : Trumps]
  /\ phase \notin {"AwaitingStart", "DealBid"} => contract.declarer \in Seats
  /\ pickup \subseteq Deck /\ cause \in {"INITIAL", "STIR"}
  /\ owner \in Seats \cup {NoSeat} /\ passed \subseteq Seats
  /\ stirs \in Seq([actor : Seats, cards : SUBSET Deck])
  /\ exchanges \in Seq([actor : Seats, cause : {"INITIAL", "STIR"}, stir : Nat])
  /\ slots \in Seq([actor : Seats, cards : SUBSET Deck])
  /\ failed \in [attempted : SUBSET Deck, forced : SUBSET Deck]
  /\ captured \subseteq Deck
  /\ completed \in [winners : 0..2, nextDeclarer : Seats \cup {NoSeat},
                    total : Int, levelsAfter : [Teams -> SuitedRanks]]

\* Where the cards are.  While a bottom exchange is open, the actor's cards
\* are those picked up, bottom included.
Held(s) == IF phase = "BottomExchange" /\ s = actor THEN pickup ELSE hands[s]
Buried == IF phase = "BottomExchange" THEN {} ELSE bottom
Undealt == {deck[i] : i \in (cursor + 1)..Len(deck)}
OnTable == UNION {slots[i].cards : i \in DOMAIN slots}

\* A physical card is never in two places: two hands, a hand and the bottom,
\* the undealt deck, the open trick or the defenders' points.
CardsInOnePlace ==
  /\ \A s, t \in Seats : s # t => Held(s) \cap Held(t) = {}
  /\ \A s \in Seats : Held(s) \cap (Buried \cup Undealt \cup OnTable \cup captured) = {}
  /\ Buried \cap (Undealt \cup OnTable \cup captured) = {}
  /\ Undealt \cap (OnTable \cup captured) = {}
  /\ OnTable \cap captured = {}

\* Until play begins no card is lost, however often the bottom changes hands.
NoCardLost ==
  phase \in {"DealBid", "BottomExchange", "StirDecision"} =>
    (UNION {Held(s) : s \in Seats}) \cup Buried \cup Undealt = Deck

\* Hands stay level: counting what a seat laid in the open trick, all seats
\* hold equally many cards, so the last trick empties all hands together.
HandsLevel ==
  LET laid(s) == UNION {slots[i].cards : i \in {j \in DOMAIN slots : slots[j].actor = s}}
      size(s) == Cardinality(hands[s]) + Cardinality(laid(s))
  IN phase \in {"BottomExchange", "StirDecision", "Playing"} =>
       /\ \A s, t \in Seats : size(s) = size(t)
       /\ Cardinality(bottom) = BottomCount

\* The seats that declined are exactly those between the bottom's owner and
\* the seat to decide, so a decision never skips or repeats a seat.
PassedInOrder ==
  phase = "StirDecision" =>
    \E n \in 1..3 : /\ passed = {(owner + i) % 4 : i \in 0..(n - 1)}
                    /\ actor = (owner + n) % 4

\* Every accepted stir is strictly stronger than every earlier one of the round.
StirsRise ==
  \A i, j \in DOMAIN stirs :
    i < j /\ stirs[i].cards # {} /\ stirs[j].cards # {} =>
      BidValue(stirs[i].cards, Trump.rank) < BidValue(stirs[j].cards, Trump.rank)

\* Each exchange a stir caused names the event of that stir, by the same seat,
\* and no two exchanges name the same one (history_projection looks them up).
ExchangesMatchStirs ==
  /\ \A i \in DOMAIN exchanges :
       LET e == exchanges[i]
       IN IF e.cause = "INITIAL" THEN e.stir = 0
          ELSE /\ e.stir \in DOMAIN stirs
               /\ stirs[e.stir].actor = e.actor /\ stirs[e.stir].cards # {}
  /\ \A i, j \in DOMAIN exchanges :
       i # j => exchanges[i].stir # exchanges[j].stir

\* A failed throw leads a proper part of what was attempted, the rest goes
\* back to the leader's hand, and somebody could have beaten the forced cards
\* in their own suit.
FailedThrowReturned ==
  phase = "Playing" /\ failed # NoThrow =>
    LET leader == slots[1].actor
    IN /\ failed.forced = slots[1].cards
       /\ failed.attempted \ failed.forced # {}
       /\ failed.attempted \ failed.forced \subseteq hands[leader]
       /\ Len(slots) = 1 =>
            \E s \in Seats \ {leader} :
              \E cards \in SUBSET OfSuit(hands[s], LeadSuit(failed.forced, Trump), Trump) :
              /\ Cardinality(cards) = Cardinality(failed.forced)
              /\ Wins(cards, failed.forced, failed.forced, Trump)

\* When the last cards are led as one lead, playing out every other hand is
\* legal: the assertion in _auto_complete never fails.
LastTrickLegal ==
  phase = "Playing" /\ slots = <<>> /\ LegalLead(hands[actor], Trump)
    /\ (\A s \in Seats : Cardinality(hands[s]) = Cardinality(hands[actor]))
  => \A s \in Seats \ {actor} : LegalFollow(hands[s], hands[s], hands[actor], Trump)

\* The game ends only with the declaring team winning a round it played at
\* the ace.
WonAtAce ==
  phase = "Finished" =>
    /\ completed.winners = Team(contract.declarer)
    /\ levels[completed.winners] = 14

\* The team that won the last round declares the next one, at the level it has
\* just reached: the bid is judged under the rank the contract will have.
WinnersDeclareNext ==
  [][phase = "RoundReview" /\ phase' = "DealBid" =>
       /\ Team(fixed') = completed.winners
       /\ TrumpRank(levels', fixed') = completed.levelsAfter[completed.winners]]_vars

\* From one round to the next at most one team climbs, nobody falls, and a
\* mandatory level is never jumped.
LevelsClimb ==
  [][phase = "RoundReview" /\ phase' = "DealBid" =>
       /\ \A t \in Teams : levels'[t] >= levels[t]
       /\ \E t \in Teams : levels'[t] = levels[t]
       /\ \A t \in Teams, m \in MandatoryLevels : ~(levels[t] < m /\ m < levels'[t])]_vars

\* Once the deal is over declarer and trump rank stand; the trump suit changes
\* only by a stir, and never once play has begun.
ContractStands ==
  [][(phase \in {"BottomExchange", "StirDecision", "Playing"}) =>
       /\ contract'.declarer = contract.declarer
       /\ contract'.trump.rank = contract.trump.rank
       /\ (contract' = contract \/ (phase' = "BottomExchange" /\ cause' = "STIR"))]_vars

\* Overcalls take turns: the seats asked, the declarations made and the
\* exchanges they cause stay in step however often the bottom is taken up.
StirringKept == PassedInOrder /\ StirsRise /\ ExchangesMatchStirs

\* Every card that was dealt is played, and all hands run out together.
AllCardsPlayed == NoCardLost /\ HandsLevel /\ FailedThrowReturned /\ LastTrickLegal

\* What one round hands to the next, and the contract within one.
RoundsFollowOn == [][WonAtAce']_vars /\ WinnersDeclareNext /\ LevelsClimb /\ ContractStands

\* How far a round is from its end: cards to deal, then declarations that
\* could still be made and seats to ask, then cards to play, then seats to
\* confirm the result.
Distance ==
  CASE phase = "DealBid" -> <<3, Len(deck) - cursor, 0>>
    [] phase = "BottomExchange" -> <<2, 1000 - BidValue(declaration.cards, Trump.rank), 4>>
    [] phase = "StirDecision" ->
         <<2, 1000 - BidValue(declaration.cards, Trump.rank), 4 - Cardinality(passed)>>
    [] phase = "Playing" -> <<1, Cardinality(UNION {hands[s] : s \in Seats}), 0>>
    [] OTHER -> <<0, 4 - Cardinality(confirmed), 0>>
Nearer(d, e) ==
  \E k \in 1..3 : d[k] < e[k] /\ \A j \in 1..(k - 1) : d[j] = e[j]

\* Every command brings the round nearer to its end: overcalls and exchanges
\* cannot go on for ever, and no trick is played without cards leaving a hand.
RoundRunsDown ==
  [][phase' \notin {"AwaitingStart", "DealBid"} \/ phase = "DealBid" =>
       Nearer(Distance', Distance)]_vars

\* The awaited action and the seats it is awaited from, as every projection of
\* a phase shows them (awaiting_action).
Asked ==
  CASE phase \in {"AwaitingStart", "RoundReview"} ->
         [action |-> "next_round", seats |-> Seats \ confirmed]
    [] phase = "Finished" -> [action |-> "none", seats |-> {}]
    [] OTHER -> [action |-> "turn", seats |-> {actor}]
Shown == INSTANCE Table WITH game <- Asked

\* Seen from the seats the engine is a table game: a command comes from a seat
\* that was asked, and a new deal begins only once all four have confirmed.
TableGame == Shown!Spec
=============================================================================
