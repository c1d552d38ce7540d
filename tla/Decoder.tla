------------------------------- MODULE Decoder -------------------------------
(***************************************************************************)
(* How the policy selects a move: server/policy_model/actions.  A decision *)
(* is compiled into a plan of counts and masks over faces, and the device  *)
(* kernels choose face by face inside it, without asking the rules again:  *)
(* what they offer has to be what the rules allow.  The plan is the        *)
(* decision itself here (availability, suits, floors and pair plans are    *)
(* functions of it); logits are the choice among what the mask offers.     *)
(***************************************************************************)
EXTENDS FollowSpace, Declarations, Play

CONSTANTS
  Currents,      \* the declarations in force when a bid or a stir is asked for
  ExchangeSizes, \* how many cards are to be buried
  HandWidths     \* bound: sizes of the hands, by the kind of decision

Kinds == {"bid", "stir", "discard", "lead_play", "follow_play"}

ASSUME DecoderAssumption ==
  /\ \A cards \in Currents : cards = {} \/ ValidShape(cards, SpaceTrump.rank)
  /\ ExchangeSizes \subseteq Nat \ {0} /\ HandWidths \in [Kinds -> SUBSET Nat]

VARIABLES
  query,    \* the kind of the decision
  current,  \* the declaration in force and whether the viewer made it
  exact,    \* exact_select, 0 where the plan has none
  ended,    \* pass or finish was chosen
  forced    \* still_forced: every choice so far was the only one
plan == <<hand, lead, query, current, exact>>
decoderVars == <<plan, prefix, ended, forced>>

Rank == SpaceTrump.rank
Offered == FacesOf(hand)
WidthOf(sel) == Width(sel, SpaceFaces)
Extended(sel, f, n) == [g \in DOMAIN sel \cup {f} |-> IF g = f THEN n ELSE sel[g]]
Later(faces, f) == {g \in faces : FaceKey(g) > FaceKey(f)}
---------------------------------------------------------------------------
(* Complete traces: bid and stir *)

\* bid_card_candidates: pairs of a joker, one or two cards of the trump rank.
RevealChoices ==
  {[face |-> f, count |-> n] : f \in {g \in Offered : g.rank = Rank}, n \in {1, 2}}
    \cup {[face |-> f, count |-> 2] : f \in {g \in Offered : g.suit = "joker"}}

FirstCopies(f, n) ==
  {c \in Copies(hand, f) : n = 2 \/ c.deck = Min({d.deck : d \in Copies(hand, f)})}

Reveals ==
  {c \in RevealChoices :
     /\ c.count <= Count(c.face)
     /\ Beats(FirstCopies(c.face, c.count), Rank, current.cards)}

\* build_bid_space and build_stir_space: the viewer does not overcall itself,
\* and stirs with pairs only.
BidSpace == {c \in Reveals : query = "bid" /\ ~current.own}
StirSpace == {c \in Reveals : query = "stir" /\ c.count = 2}
---------------------------------------------------------------------------
(* Selections: discard, lead and follow, for the candidate of n cards of f *)

\* Slip: the candidate's own width is forgotten.
CapacityBefore(sel, f, n, faces) ==
  MapThenSumSet(Count, Later(faces \ DOMAIN sel, f)) >= exact - WidthOf(sel)
\* _has_remaining_capacity
HasRemainingCapacity(sel, f, n, faces) ==
  MapThenSumSet(Count, Later(faces \ DOMAIN sel, f)) >= exact - (WidthOf(sel) + n)

\* The masks of _face_plan_from_hand.
SameSuit == {f \in Offered : FaceSuit(f) = Suit}
OffSuit == Offered \ SameSuit

SelectedPairs(sel) == {f \in DOMAIN sel : sel[f] = 2}

\* _single_capacity_after_candidate and _single_capacity_for_plan
SingleCapacity(sel, f, taken) == Cardinality(Later(SameSuit \ (DOMAIN sel \cup taken), f))

\* _pair_without_tractor_can_complete: the number of pairs to come is bounded
\* from both sides by counting.
PairsWithoutTractor(sel, f, n) ==
  LET pairs == SelectedPairs(Extended(sel, f, n))
      left == exact - (WidthOf(sel) + n)
      least == Max({0, PairFloor(Own, lead) - Cardinality(pairs \cap PairFaces(Own)),
                    left - SingleCapacity(sel, f, pairs)})
      most == Min({Cardinality(Later(PairFaces(Own) \ DOMAIN sel, f)), left \div 2})
  IN least <= most

\* required_subset and no_forbidden
PlanAgrees(planned, next) ==
  /\ SelectedPairs(next) \subseteq planned
  /\ \A g \in planned : g \in DOMAIN next => next[g] = 2

\* _pair_plan_can_complete
PairsOfAPlan(sel, f, n) ==
  LET next == Extended(sel, f, n)
  IN \E planned \in PairPlans :
       LET coming == planned \ SelectedPairs(next)
           left == exact - (WidthOf(sel) + n + 2 * Cardinality(coming))
       IN /\ PlanAgrees(planned, next)
          /\ coming = Later(coming, f)
          /\ left \in 0..SingleCapacity(sel, f, planned)

\* _follow_same_suit_can_complete
SameSuitCompletes(sel, f, n) ==
  /\ \/ PairFloor(Own, lead) = 0
     \/ IF HasTractor THEN PairsOfAPlan(sel, f, n) ELSE PairsWithoutTractor(sel, f, n)
  /\ \/ WidthOf(sel) + n = exact
     \/ HasRemainingCapacity(sel, f, n, SameSuit)

\* _follow_exhausting_suit_can_complete: no card of the suit is passed over.
ExhaustingCompletes(sel, f, n) ==
  LET next == Extended(sel, f, n)
      left == exact - Required - Width(next, OffSuit)
      passed == SameSuit \ Later(SameSuit, f)
  IN /\ \A g \in passed : g \in DOMAIN next /\ next[g] = Count(g)
     /\ left \in 0..MapThenSumSet(Count, Later(OffSuit \ DOMAIN sel, f))

\* _follow_can_complete_mask
FollowCompletes(sel, f, n) ==
  LET next == Extended(sel, f, n)
  IN /\ Width(next, SameSuit) <= Required
     /\ Width(next, OffSuit) <= exact - Required
     /\ IF Required = exact THEN f \in SameSuit /\ SameSuitCompletes(sel, f, n)
        ELSE ExhaustingCompletes(sel, f, n)

MaxSelect == IF query = "lead_play" THEN Cardinality(hand) ELSE exact

\* generic_select and the mask of the kind of plan
Selectable(sel, f, n) ==
  /\ n <= Count(f) /\ After(sel, f)
  /\ WidthOf(sel) + n <= MaxSelect
  /\ CASE query = "discard" -> HasRemainingCapacity(sel, f, n, Offered)
       [] query = "lead_play" -> \A g \in DOMAIN sel : FaceSuit(g) = FaceSuit(f)
       [] query = "follow_play" -> FollowCompletes(sel, f, n)
       [] OTHER -> FALSE
---------------------------------------------------------------------------
(* legal_action_choices: the mask over the vocabulary. *)

Pass == [face |-> [suit |-> "pass", rank |-> 0], count |-> 0]
Finish == [face |-> [suit |-> "finish", rank |-> 0], count |-> 0]
CardChoices == [face : Offered, count : {1, 2}]

\* trace_set_candidates: complete traces have one choice, so that the next one
\* is any of them.
TraceChoices == BidSpace \cup StirSpace \cup {Pass}

Done ==
  \/ ended
  \/ query \in {"bid", "stir"} /\ prefix # << >>
  \/ query \in {"discard", "follow_play"} /\ WidthOf(prefix) = exact

Mask ==
  IF Done THEN {}
  ELSE IF query \in {"bid", "stir"} THEN TraceChoices
  ELSE {c \in CardChoices : Selectable(prefix, c.face, c.count)}
         \cup {c \in {Finish} : query = "lead_play" /\ WidthOf(prefix) >= 1}
\* The steps taken, and those a plan is given (action_plan_generation_step_count).
Steps == Cardinality(DOMAIN prefix) + (IF ended THEN 1 ELSE 0)
StepCount ==
  CASE query \in {"bid", "stir"} -> 1
    [] query = "lead_play" -> MaxSelect + 1
    [] OTHER -> exact

\* sample_legal_choices: probabilities outside the mask are zero, and rounding
\* falls back to the last choice inside it; an empty mask is an error.
Sampled == IF Steps < StepCount THEN Mask ELSE {}
---------------------------------------------------------------------------
(* decode: the finished trace is given back to the legal action space. *)

TraceDecodes ==
  \/ prefix = << >> /\ ended
  \/ ~ended /\ \E c \in BidSpace \cup StirSpace : prefix = Extended(<< >>, c.face, c.count)
DiscardDecodes == ~ended /\ WidthOf(prefix) = exact
LeadDecodes == ended /\ Cardinality({FaceSuit(f) : f \in DOMAIN prefix}) = 1
FollowDecodes ==
  ~ended /\ WidthOf(prefix) = Target /\ LegalFollow(hand, Bound(prefix), lead, SpaceTrump)

Decodes ==
  CASE query \in {"bid", "stir"} -> TraceDecodes
    [] query = "discard" -> DiscardDecodes
    [] query = "lead_play" -> LeadDecodes
    [] query = "follow_play" -> FollowDecodes
---------------------------------------------------------------------------
NothingDeclared == [cards |-> {}, own |-> FALSE]

DecoderIdle ==
  /\ hand = {} /\ lead = {} /\ query = "none" /\ exact = 0
  /\ current = NothingDeclared
  /\ prefix = << >> /\ ended = TRUE /\ forced = FALSE

\* build_action_query: what the decision is about.
Asked ==
  \/ /\ query = "follow_play" /\ lead \in Leads /\ exact = Cardinality(lead)
     /\ hand \cap lead = {} /\ Cardinality(hand) >= exact
     /\ current = NothingDeclared
  \/ /\ query = "discard" /\ lead = {} /\ exact \in ExchangeSizes
     /\ Cardinality(hand) >= exact
     /\ current = NothingDeclared
  \/ /\ query = "lead_play" /\ lead = {} /\ exact = 0 /\ hand # {}
     /\ current = NothingDeclared
  \/ /\ query \in {"bid", "stir"} /\ lead = {} /\ exact = 0
     /\ current \in [cards : Currents, own : BOOLEAN]
     /\ current.own => query = "bid" /\ current.cards # {} /\ current.cards \subseteq hand
     /\ ~current.own => current.cards \cap hand \in {{}, current.cards}
     /\ ~current.own /\ query = "bid" => current.cards \cap hand = {}

DecoderInit ==
  /\ query \in Kinds
  /\ \E n \in [SpaceFaces -> 0..2] :
       hand = UNION {{[face |-> f, deck |-> k] : k \in 1..n[f]} : f \in SpaceFaces}
  /\ Cardinality(hand) \in HandWidths[query]
  /\ Asked
  /\ prefix = << >> /\ ended = FALSE /\ forced = TRUE

\* Slip: only the last choice has to be the only one.
LastForced(choices) == Cardinality(choices) = 1
\* _resolve_forced_actions
StillForced(choices) == forced /\ Cardinality(choices) = 1

\* advance_action_state
Choose(c) ==
  /\ c \in Sampled
  /\ prefix' = IF c \in {Pass, Finish} THEN prefix ELSE Extended(prefix, c.face, c.count)
  /\ ended' = (c \in {Pass, Finish})
  /\ forced' = StillForced(Mask)
  /\ UNCHANGED plan

\* The command is bound to the cards of the hand and given to the game.
Bind == query \in Kinds /\ Done /\ Decodes /\ UNCHANGED decoderVars
\* Or the trace is refused, and with it every decision of its batch.
Refuse == query \in Kinds /\ Done /\ ~Decodes /\ UNCHANGED decoderVars

DecoderNext == Bind \/ Refuse \/ \E c \in CardChoices \cup {Pass, Finish} : Choose(c)
---------------------------------------------------------------------------
(* Properties *)

\* The reference: what the game accepts.
Legal(cards) ==
  CASE query = "bid" -> ~current.own /\ cards # {} /\ ValidReveal(cards, Rank, current.cards)
    [] query = "stir" -> cards # {} /\ ValidStir(cards, Rank, current.cards)
    [] query = "discard" -> Cardinality(cards) = exact
    [] query = "lead_play" -> cards # {} /\ LegalLead(cards, SpaceTrump)
    [] query = "follow_play" -> LegalFollow(hand, cards, lead, SpaceTrump)

CountsOf(cards) == [f \in FacesOf(cards) |-> Cardinality(Copies(cards, f))]
Moves == {CountsOf(cards) : cards \in {m \in SUBSET hand : Legal(m)}}

\* Some legal move begins, in canonical order, with the selection.
Continues(sel) ==
  \E m \in Moves :
    /\ DOMAIN sel \subseteq DOMAIN m
    /\ \A f \in DOMAIN sel : m[f] = sel[f]
    /\ \A f \in DOMAIN m \ DOMAIN sel : After(sel, f)

Possible == {c \in CardChoices : c.count <= Count(c.face) /\ After(prefix, c.face)}

\* The face-by-face analysis of a follow (can_complete), which hints and
\* automatic players use, offers a choice exactly if a legal play continues it.
AllowedIsExact ==
  query = "follow_play" /\ ~Done =>
    \A c \in Possible :
      Allowed(prefix, c.face, c.count) <=> Continues(Extended(prefix, c.face, c.count))

\* Where the device does not see a run of the hand being broken: a lead without
\* pairs asks for none (no_pair_requirement), so the pair plans are not looked
\* at, while the rules keep two pairs of a follow from leaving out a third that
\* is between them.
BreaksUnseen ==
  /\ query = "follow_play" /\ PairFloor(Own, lead) = 0 /\ Required = exact /\ exact >= 4
  /\ \E r \in TractorRuns(Own, SpaceTrump) : Cardinality(r) >= 3

\* The device mask is the rules, for every kind of decision: no choice without
\* a legal move behind it, so that no trace is refused by decode or by the
\* game, and no legal move out of the policy's reach.
MaskIsExact ==
  query \in Kinds /\ ~Done =>
    Mask = {c \in Possible : Continues(Extended(prefix, c.face, c.count))}
             \cup {c \in {Pass} : query \in {"bid", "stir"}}
             \cup {c \in {Finish} : prefix \in Moves /\ query = "lead_play"}

\* Of the two counting arguments for what may complete a choice neither is
\* wrong, but for that one oversight of the device.
ChoicesExact == AllowedIsExact /\ (~BreaksUnseen => MaskIsExact)

\* A decision taken without asking the network (its choices were the only ones
\* all along) is one with a single legal move, and each such one is found: the
\* learner counts on every other decision having a probability.
ForcedIsUnique ==
  query \in Kinds /\ Done =>
    (forced <=> Cardinality(Moves) = IF query \in {"bid", "stir"} THEN 0 ELSE 1)

\* No decision runs out of the steps its plan was given, and the trace of a
\* finished one decodes and binds to cards that the game accepts.
TracesComplete ==
  query \in Kinds =>
    /\ Done \/ Sampled # {}
    /\ Done => Decodes /\ (prefix = << >> \/ Legal(Bound(prefix)))

\* What a finished decision is worth: a move, and the only one if it says so.
DecisionsStand == ~BreaksUnseen => ForcedIsUnique /\ TracesComplete
=============================================================================
