# A verification project for tractor-game

Tractor is a Chinese trick-taking card game for two partnerships.  The
repository holds the game server (rules, engine, rooms, bots, WebSocket API), a
browser client, and a training system for the policy that drives the bots.

This directory holds TLA+ modules that model the part that runs games, the TLC
configurations that check them on small instances, and proofs of their main
properties for every value of the constants.  Paths below are relative to
`src/`; modules are in this directory.  `tlc -config X.cfg M` checks a module,
`tlapm M.tla` its proofs.

## 1. The system

| Component | State | Operations | Talks to |
|---|---|---|---|
| **Game rules** `server/game/rules` | none, pure functions over cards | pattern analysis, bids and overcalls, leads and throws, following, comparison, scoring, level progression, follow action space, hints | called by engine and bots |
| **Game engine** `server/game/_engine` | one immutable `GameState`: phase, seat to act, hands, bottom, contract, trick, result | `apply_command` for start, bid, pass, bury, stir, play, next round | called by the session |
| **Snapshots** `server/game/snapshots` | none | what one seat may see, and what it is asked for | session, players, API |
| **Session** `server/game_runtime/_session.py` | game, sequence number, mailbox, ready and initialized seats, failure | root task `_serve`; `start`, `close`; receives commands, view requests and failures | four player tasks over channels of one view |
| **Players** `game_runtime/player`, `game_bots` | last view, pending decision, or the attached connection | `run`, `receive`, `connect`, `disconnect` | session mailbox; controller or socket |
| **Room** `game_runtime/_room.py`, `_roster.py` | lifecycle, roster, its frozen flag, session | occupy, vacate, fill bots, connect, receive, disconnect, close | HTTP and WebSocket handlers, session |
| **Registry, tasks, lifespan** `registry.py`, `server/web` | rooms by id and time, one TaskGroup, cleanup loop | create, list, expire, shutdown | rooms, sessions |
| **AI controllers** `server/game_ai` | client: unsent views, last view; server: sessions with their last decision | observe, decide with timeout and retry, idempotent decide | bots; HTTP |
| **Inference runtime** `policy_model/inference` | request queue, batch in progress | decide, dispatch, close | local controllers |
| **Policy actions** `policy_model/actions` | none: plans of counts and masks | compile, mask, sample, decode, bind | rules; every policy decision |
| **Training coordinator** `training/runtime` | counters, stop request, last checkpoint | open, update, sample, count, checkpoint, close, poison | child processes over async IPC |
| **Training processes** `worker_process.py`, `model_rank` | sampling task, model, inbox | load, start, stop, update, snapshot, exit | coordinator; each other over data sockets |
| **Rollout arenas** `shared_rollout_arena` | header, columns, lock, one condition | reset, append, snapshot, read | workers write, coordinator and ranks read |
| **Rollout inference** `model_rank`, `rollout_inference` | client queues, host slots, batch, sample rows | decide, cancel, merge, answer, keep | workers and ranks |
| **Checkpoints** `policy_model/checkpoint`, `training/lifecycle` | object directories, manifests | save, restore, prune, resume | coordinator; game server reads |
| **Training control** `training_control` | PID file, lock of each run, reaper tasks | resume, stop, init, reap | training processes |
| **Training events** `training_events`, `training_metrics` | bounded queue, event files | emit, stream | dashboard |
| **Client** `frontend` | connection, last snapshot | reconnect, render | API |

### Where the difficulty lies, and what makes each part correct

* *Rules.*  Counting shortcuts stand in for search: whether a throw can be
  beaten, whether a partial selection can still become a legal follow.  They
  must agree with the rule they shortcut.
* *Engine.*  Phases that repeat (bury, stir, bury again ...), bids between the
  cards of a deal, an automatic last trick with assertions.  Cards must be conserved,
  every round must end, and assertions must hold in every reachable state.
* *Session.*  Five tasks, one mailbox, blocking sends to channels of one view,
  commands that may be stale.  No assertion may fail, no player may be
  forgotten, `start` and `close` must return.
* *Room.*  Handlers suspend in the middle of a connection.  Only the owner may
  be attached, the session starts once, and what closed must stay closed.
* *Remote AI.*  Timeouts and retries of a decision that draws at random, late
  requests, a server that restarts.  A view has one decision, and it fits.
* *Application.*  One TaskGroup owns every session, the cleanup loop and the
  dispatcher all rooms share.  What one failure does to the others, and whether
  the process still comes to its end, depends on where each of them stands.
* *Training.*  A coordinator and its processes exchange commands, answers and
  rounds over three kinds of channel (control sockets, data sockets, shared
  memory), each with its own order.  No round may be learnt under another
  version than it was played, none uncounted, and no process may be left.
* *Rollout inference.*  Buffers are reused while views of them are held, and
  requests are cancelled wherever they are.  Each row is decided on its own data.
* *Run directory.*  Many files change one after another and stand for one
  state; a crash comes between any two.  A PID file is all a restarted server
  knows of a training.

`PROJECT.json` lists these hazards line by line, with the property that covers
each, or the reason why none does.

## 2. The modules

```
Cards ── Patterns ── Play ──────┬── GameEngine ── refines ──> Table <── Session
   │         └────── Follow ────┤
   └── Declarations ────────────┴── FollowSpace ── Decoder ┐
                                    PlayRules (Play) ──────┴─ MCRules

GameRoom ──┐                     RemoteAI ──┐
Application┴─ MCServer           Inference ─┴─ MCAnswers

TrainingProcesses ── TrainingCoordinator ── MCTraining

Checkpoints ── refines ──> CheckpointRegister
     └───────┐
TrainingControl ── MCRunDirectory
```

**The game.**

* **Cards, Patterns, Declarations, Play, Follow** translate the rules into
  operators.  A card is a face (suit, rank) and a deck number, with the real
  ranks, so orders, tiers and points are those of the full game.  Recursion is
  written with folds and recursive functions.
* **PlayRules** sets the rules of leads against what they are for.  Its states
  are a lead of one hand against another hand; there is nothing to step.
* **FollowSpace** is the incremental action space of a follower
  (`rules/_follow_space.py`, `_follow.py`, `_follow_pairs.py`), which automatic
  players and hints use.
* **Decoder** is the policy's way to a move (`policy_model/actions`): a decision
  is compiled into a plan, and the device kernels choose face by face inside its
  masks.  `Mask` is `legal_action_choices`, `Choose` is `advance_action_state`,
  `Bind` decodes a finished trace and binds it to the cards of the hand, `Refuse`
  is a trace that does not decode.  The
  device masks count in their own way, so they are translated separately from
  FollowSpace, and both are compared with the rule.
* **GameEngine** is the aggregate.  Its variables are the fields of the phase
  dataclasses, united over the phases; each action is one command in one phase
  with everything that follows from it: the last bid finishes the deal, the
  last decline begins play, the fourth slot finishes the trick and perhaps the
  round, the fourth confirmation shuffles and deals.  A rejected command
  returns the state it was given and is no step.
* **Table** is what a seat sees of a game: what is awaited, from whom.  It is
  the abstract specification of the engine (`TableGame`) and the game that
  Session runs, so the two levels compose without each other's detail.

**The server.**

* **Session** models the root task and the player tasks, each step the code
  between two suspension points.  `Serve` takes one message and does what its
  handler does; `Send` is one blocking `put`; `sends` holds the seats still owed
  one, and `error` whether they get the error of a rejected command (`Rejectable`).
  The bots' decision is left open: any command that fits the view it was made
  on, or, for the bots in `Flaky`, `DecisionUnavailable`.
* **GameRoom** models the room with its WebSocket handlers.  `handler[t]` says
  at which await a handler stands.  It sees the session from outside:
  starting, running, crashed, closed.
* **Application** is the process around the rooms: registry, expiry, HTTP
  handlers, the TaskGroup, the cleanup loop, the inference dispatcher and the
  lifespan.  `Abort` is what `asyncio.TaskGroup` does when a child fails: it
  cancels the other children at once and, once, the lifespan.  A room is here
  what GameRoom makes of it, without its seats; a session is what Session makes
  of it, without its players.  `closer[r]` is who awaits the close in a
  session's mailbox, "nobody" after that caller was cancelled.
* **RemoteAI** models `RemoteAIController` and `RemoteSessionRegistry`.
  `attempts` are the HTTP requests ever sent; each may arrive at any time
  (`Arrive`), wait for the decision in flight, or be answered after its client
  gave up.  Losing one is never letting it arrive.
* **MCServer** checks a room and an application in one run.  Each
  module is the other's environment at another grain, so a behaviour moves one
  of them while the other is in its initial state.

**The training.**

* **TrainingProcesses** is a worker or a model rank: `inbox` and `outbox` are
  its control socket, `task` its sampling session, `arena` the header of its
  shared rollout arena, `orphaned` the locks taken along by a killed process.
  A round is one step (`PlayRound`), and its append takes the arena's lock and
  notifies the condition.  Commands are read one at a time, as the process's
  loop does.  A worker whose rank is dead fails by the deadline of its decision
  (`DecisionExpires`), a rank whose worker is dead goes on serving the others.
* **TrainingCoordinator** is the coordinator around it: `pc` is the await it
  stands at, `pending` the processes it still waits for.  `Collect` is the
  receiving of one answer with its checks; `Abort` is what a start that fails
  half-way does; `Poison` is `_poison_and_close`; `Late` a deadline at any wait.
* **Inference** looks closer at what PlayRound takes for granted: the batching
  client of each worker, the ingress slots and deferred frames of the rank, the
  rows it keeps and the answers it sends.  `slots` are the host buffers by what
  was last written to them, and a frame is read (`Read`) when the code reads
  its slot and not when it was received.  A decision may come to nothing at
  four places: the client cannot compile it (`CannotCompile`, the whole frame),
  the model cannot decide its bucket (`FinishBatch`, the rows in `failed`), the
  worker cannot decode its answer (`Dispatch`, the answers in `spoilt`), or a
  deadline passes (`Timeout`, all the client has asked, and `RoundExpires`).  The
  worker's session then fails and the worker exits (`FailSession`).  Nobody reads an
  end of file: the coordinator creates the inference sockets, keeps both ends of
  each (`training_runtime.py:603`) and closes them when it stops, so that a
  process that dies leaves its peer waiting for a deadline.
* **Checkpoints** is the checkpoints directory with the process that writes it.
  Each write, rename and unlink is a step that may fail, and `Crash` may come
  between any two.  A training state is the sequence of updates it went
  through, so that two timelines differ.  An update may be given up half-way for
  a stop request (`DiscardUpdate`); its state is then saved once more.
* **CheckpointRegister** is what the directory promises: one register that
  holds a whole state, and an archive.  Checkpoints implements it
  (`LatestIsARegister`) with what loading a manifest gives as the mapping.
* **TrainingControl** is the server's side of a training process: requests and
  reapers that take the run directory's lock in turn, the leader and the
  workers of each process group, the PID file, and a server that may die.
* **MCAnswers** checks RemoteAI and Inference in one run, one of them at rest.
* **MCRunDirectory** checks the last two in one run.  They share no file but
  those an `init` clears, which TrainingControl has as an action and
  Checkpoints as the initial state.

**RulesLemmas** and the **\*_proofs** modules hold the proofs, **MC\*** the
small instances.  Operators marked *Slip* are used by no specification.  Each is
a definition beside it with a plausible mistake (a seat too few, a reset
forgotten, a check left out).  `PROJECT.json` names for every checked property a
slip that violates it, which shows that the property can tell the code from its
mistakes.

## 3. What is checked

| Run | Instance | Distinct states | Shows |
|---|---|---|---|
| `engine` | 9 cards: contested pairs of trump kings, jokers, a throw; levels at the king, mandatory ace; up to 3 rounds | 233,192 | cards in one place, overcalls in turn, all cards played, rounds follow on and run down, refinement of Table |
| `rules` | hands of up to 6 cards over six faces; leads, bids, stirs, burials; throws of 4 against 4 | 26,108 | offered choices are exactly the legal ones, forced decisions, throws, winner |
| `session` | one human, two bots (one may fail), sequence to 6, two stray frames | 75,940 | decisions fit, every seat is shown every state in order, nobody waits for ever |
| `answers` | remote AI: four views, four attempts, one restart; inference: two workers with two environments, batches of 2, three decisions, one update, two faults (deadline, failed decision, death of the rank) | 479,728 | answers fit, one answer, nothing refused, informed decisions; rows decided on their own data, samples found, answers match, every decision ends |
| `server` | two users, two seats, three sockets; two rooms | 85,540 | owners, one start, frames, stale handlers; askers, closed rooms and services |
| `training` | two workers, one rank or local ranks, 3 rounds in updates of 2, one kill | 371,889 | exchanges in step, counted is learnt, on policy, checkpoints, no orphans, the run settles |
| `run_directory` | retention 2, every 2 updates, 6 updates, 4 trainings, 2 faults; 2 trainings, 4 requests, one death, one fault | 370,539 | a register at every crash, whole manifests, one timeline, pruning; the PID file, requests end |
| `session_crash`, `room_reopened`, `throw_follow`, `inference_overflow`, `shutdown_hangs` | | | findings, section 5 |

Every component's type invariant (`TypeOK`, `InferenceTypeOK`) holds on the instances above too; it is
left out of the configurations, since the properties above evaluate the same
fields, and can be added to any of them as an `INVARIANT`.

**Why the bounds are enough.**

* *Engine and rules.*  They look at the relation of cards, not at their number:
  the decks and faces hold the cases the code distinguishes (contested pairs, a
  joker pair, a tier with several faces in a run, throws that fail by a single
  and by a pair, points for either side) and nothing else.
* *Session.*  Seats are treated alike and their number is compared only with that of
  the ready ones: one human and two bots have each pair of kinds.  Two stray
  frames let a rejected command and a stale one meet the view of one state.
* *Remote AI.*  Four views and four attempts allow a repeated request for each of two
  decisions and one late one; a second restart adds nothing to a session that is
  forgotten already.
* *Server.*  Three sockets allow a takeover of a takeover.  Two rooms let a
  failure, an expiry or a close of one meet the other; a third would be like
  the second.
* *Training.*  Two workers are a first and a rest, which is what order and
  quorum of an exchange distinguish, and let one rank serve several; three
  rounds in updates of two make a full update and a short last one.  One kill
  is enough for a lock that is never released.
* *Inference.*  Two workers share a batch, fill and overflow it; the frames of a
  worker have up to two rows.  A batch of two is one that no single frame can
  overflow; the violation run has a batch of three.  Three decisions leave one
  for the other worker beside a frame of two; two faults let a decision fail and
  the rank die, or two deadlines pass.
* *Run directory.*  Retention 2 with every second of six updates expires a
  manifest.  Four trainings resume from the latest, from an archive, and again
  from what that one left.  Two faults let a restore fail as well.

`MaxRound`, `MaxSeq`, `MaxFrames`, `MaxAttempts`, `MaxRestarts`, `MaxCrashes`,
`MaxRequests`, `MaxAsked`, `MaxVersion`, `MaxUpdates`, `MaxResumes`,
`MaxFaults`, `MaxFileFaults`, `MaxTrainings` and `MaxDeaths` are the bounds on
counters.  At `MaxSeq` the Session's game is over, so that a finished game is
among what is checked.  `MaxRounds` is the configuration's own `max_rounds`.
Deadlock is checked in the engine and rules runs; everything else does come to rest:
closed, crashed, ended, or out of attempts.

**Fairness.**  Weak fairness of a task's own steps, everywhere for the same
reason: an event loop, or the operating system, runs whatever is ready.

* *Session*: `HumanSent` is fair because a socket takes a message or fails;
  `BotDecide` because a local controller answers once its batch is computed and
  a remote one raises `DecisionUnavailable` at its deadline.  Nothing is
  assumed of what humans send or of when somebody closes the game.
  `BotsMove` and `FailureSeen` therefore end in "or the task is no longer
  running", and `CloseComesBack` exempts a root that crashed before the request
  was served: `close` then never returns, since nobody is left to answer it.
* *Application*: the tasks of each room, the dispatcher, the cleanup loop once
  it is awake, and the lifespan once it is to end.  No request, expiry, failure
  or shutdown is fair.
* *Training*: the coordinator and each process; not failures, and not the
  deadlines of the coordinator (`Late`).  One deadline is fair, that of a
  decision asked of a dead rank (`DecisionExpires`: the receive timeout of
  `client.py:450` and the deadline of the round), since nothing else tells the
  worker.  `RunSettles` shows that these suffice: whoever waits for a command or
  an answer finds the control socket of the dead process closed.  Its exception
  is the one wait that nothing guards, a lock whose holder was killed.  There
  the code hangs, so the property exempts that hazard and does not cover it:
  `WaitsForTheDead` names the state, and the property shows that it is the only one.
* *Inference*: the rank, and what a worker does without waiting (`Prompt`).
  `Submit` is fair while the rank lives and so reads what is sent; the deadlines
  of the client and of the round are fair once it is dead, and only then.  A
  dead rank reads nothing, a send to it may never return, and no deadline of the
  client runs before it has sent: there the deadline of the round ends the wait.
  Neither decisions, deaths nor the coordinator's updates are fair.
* *TrainingControl*: the holder of the lock, its `init` child, reapers, and the
  exit of what was killed.  No training ends by itself, and none need react to
  SIGTERM; `RequestsEnd` holds because a stop escalates.

## 4. What is proved

With TLAPS, for every value of the constants that meets the named assumptions of
its module.  A theorem is named first, then the property it states, which TLC checks on
the instances above; then the inductive invariant and why the property needs it.

**Game engine** (GameEngine_proofs).  The assumptions are a finite deck of which
all but the bottom divides by four, shuffles that order the whole deck, and the
ace among the mandatory levels.

* `TypeCorrect` (`TypeOK`), by `Typed`: a deal can only be ended by a known seat,
  a declaration names a seat and cards, no slot of a trick is empty.
* `CardsConserved` (`CardsInOnePlace`, `NoCardLost`), by `Placed`: the two
  properties, which need each other, and that the order still to be dealt
  repeats no card.
* `TableRefined` (`TableGame`): initial states map to initial states of Table,
  every command to one of its steps.
* `OvercallsInStep` (`StirringKept`), by `Stirred`.  That stirs rise follows
  from each against the declaration that stands (`Outbid`); that exchanges match
  stirs, from the one that is open being caused by the last stir.
* `RoundsHandOn` (`RoundsFollowOn`), by `Result`: what a completed round says of
  levels and declarer is fixed when it is completed, and read a phase later.
* `EveryCardPlayed` (`AllCardsPlayed`), by `CardsLevel` and `ThrowKept`.  That
  hands are level at the end of a trick is a statement about each of its cards:
  `DealtInTurn` says how many each seat holds while the deal goes round,
  `TrickInTurn` who has played how many in an open trick.  The rest are lemmas
  about the rules: a throw fails only over another hand that beats it, and the
  last cards of four level hands are a legal lead and legal follows.
* `RoundsEnd` (`RoundRunsDown`, and that `Distance` is a triple of naturals).
  The second half makes the first a termination argument: the lexicographic
  order has no infinite descent.  Overcalls are bounded by the worth of the
  declaration, which each stir raises.
* In RulesLemmas: a resolved lead, failed throw or not, is a nonempty part of
  the cards led (`ResolveLeadIn`); a level never sinks, leaves the ladder or
  jumps a mandatory stage (`AdvanceStaysInStage`).

**Rules** (Rules_proofs, RulesLemmas), for any hands and any trump.  The run looks
at hands of a few faces, the theorems at all that can be dealt.

* `ScansFindTheBest` (`WinnerUnbeaten`).  The comparison is a strict weak order
  on plays under any lead (`WinsOrder`): who can win, a kill or not, the longest
  pattern and its strongest card are compared in this order
  (`StrongerByKey`).  A scan that replaces the best play only by one that beats
  it then finds the earliest of the best (`ScanFindsTheBest`).
* `ThrowsAreJudged` (`ThrowsStand`), by `LeadInv` (what is led has one suit, before
  and after it is resolved).  Runs are maximal, so two that meet are one
  (`RunsApart`) and the analysis is a partition (`Partitioned`).  An answer of the
  same shape is one pattern (`BeatenIsFailing`); if it is a tractor its tiers lie
  in a run of the hand (`RunExtends`), whose analysed pattern may be of other
  faces of the same tiers, but is as strong there (`TierOrder`).  The other
  direction is `FailingIsBeaten`, and the forced pattern is the first in the order
  of verification (`OneIsForced`).
* `ChoicesAreExact` (`ChoicesExact`), by `DecisionInv`: what is selected is a part of
  the hand within the size asked for, and a lead of one suit.  That the masks
  are exact in such a state is a chain of lemmas.  The legal moves are
  characterised by the counts of their faces (`MovesDiscard`, `MovesLead`,
  `MovesFollow`), with `Weight`, which adds the pairs among the faces to the faces,
  in place of the folds of the code (`WidthIs`, `CardsOfFaces`).  A move that
  continues a selection is that selection with faces and pairs of faces after it
  (`Split`, `Joined`), so that a move exists if some numbers of them fit
  (`Fits`).  Without tractors the pairs of a follow are valid by their number alone
  (`NoTractor`), and fitting is a bound from both sides on the pairs to come
  (`PairsFit`); otherwise one of the pair plans fits (`PlanFits`).  `CanCompleteIs`
  and the `Device` lemmas show that the two analyses decide the one or the other;
  where no pairs are asked for and `BreaksUnseen` is false, any choice of pairs that
  fits is valid (`FreePairs`), so the device may skip the plans.  A follow that exhausts the suit
  plays all of it and any cards of the others (`MovesExhausting`), and the trace of a bid or stir is
  of one face (`MovesReveal`).  `SpaceFaces`, `Leads`, `Currents` and the sizes
  are any that satisfy the two assumptions.
* `DecisionsAlwaysStand` (`DecisionsStand`), by `StandInv`.  While a decision is open
  some legal move continues it (`Continues`), and if it was forced so far all of them do;
  when it is done, what is selected is a legal move, the only one if it was forced;
  and where it was not forced there are two.  A step keeps this since the
  mask is exact: the first face by which a move goes on is in it
  (`MaskReaches`), so a single choice is on the way of every move, and two choices lead to
  different moves (`TwoChoices`), the selection being in canonical order.  That
  a decision begins with a legal move is `FirstStands`.  For follows it takes a valid choice of
  the right number of pairs; `PairsOfEverySize` finds it in the pairs of the
  longest segments and, in a segment, of the highest tiers, which leave no hole.
  Legal are here the cards that `Bound` takes for the counts (`MoveIsLegal`).

**Session** (Session_proofs), for any seats, bots and stray frames.

* `SessionTypes` (`TypeOK`).
* `DecisionsHold` (`DecisionsKept`), by `JoinedOnce` and `StateNamed`.  The first
  says that each seat reports ready and initialized once, in this order, and
  nothing else is in the mailbox before all did, so no assertion of the start
  fails.  The second, that a sequence number names one state: what a bot was shown
  under the current number is still what is asked of it.
* `EveryStateShown` (`ViewsDelivered`), by `InOrder` and `NoneForgotten`, for
  humans and bots alike.  The newest view of a seat, shown or in its channel, is
  the current one or the one before, and in the latter case the root still owes
  it one (`sends`); a view in a channel follows the one shown (`Follows`): it is
  of the next state, or of the same with the failure of the game or, for a
  human, the error of a rejected command, and nothing follows a failure.  A bot
  that was shown its turn decides, or has its command or failure in the mailbox.
  It is for games with a bot: nothing moves in a game of humans whose clients
  have not asked for the first state, and nobody has been shown one.

**Room and application** (Server_proofs), for any users, seats, sockets and
rooms.

* `OwnersStayAttached`, `SessionStartedOnce`, `FramesFindTheirPlayer` and
  `StaleHandlersEndAlone`, by `RoomInv`.  The properties are not inductive since a
  handler acts on a claim it checked before an await: `ClaimsHold` says that
  claims stay true (the roster is frozen by then), `StarterFirst` that the handler
  that starts the session is past that point before the room is active.
* `ServicesOutliveGames` (`SharedServicesLast`), by `AppInv`: a session that
  runs can still be reached by whoever will close it (`Reachable`): its room is
  registered, in the hand of the cleanup loop or of the close under way.  The
  exceptions of the property are those that are lost (`Lost`).  The services are
  closed when the lifespan has emptied the registry, and once the group aborts
  (`Ending`) no session begins.

**Remote AI** (Answers_proofs), for any views, attempts and restarts.

* `AnswersAlwaysFit`, `OneAnswer` and `NothingRefused`, by `RemoteInv`, whose
  three parts build on each other: `AnswersAgree` ties an answer to the view of its
  request, `DecidedOnce` says that decisions move forward, `InStep` that the
  server is where the client believes it to be.
* `FirstAnswersInformed` (`FirstInformed`), by `FirstIsInformed`: short of a
  deadline or a refusal every request that can still be decided brings the views
  of its round or meets a session that has them (`Bounded`).

**Inference** (Answers_proofs), for any workers, environments, batches, requests,
updates, deadlines, deaths and failed decisions.

* `AnswersAlwaysMatch` (`AnswersMatch`), by `AnswersInv`.  The property compares two
  ends of a connection, so the invariant follows each request between them
  (`InOnePlace`): while the socket is open it is in one of queue, frames, deferred frame,
  batch and answers, once, unless the rank died with it.  That no decision is
  refused for its version is `Versions`: a request that is waited for has the
  version the rank serves, since nothing is waited for while an update is
  commanded.  That a client rejects only what it has given up after a deadline is
  `OnceClosed`: an answer is never unknown to an open client, so `Known` never
  sends it into `_reject_in_flight`.  It does not say that every decision is
  made: one that cannot be compiled, decided or decoded is "failed", and finding
  3 is how that comes about.
* `SamplesAlwaysFound` (`SamplesFound`), by `Sampled`: the row in an answer that is
  still on its way, or recorded, is the sample of its request.
* `RowsDecidedOnTheirOwn` (`DecidedOnItsOwn`), by `SlotsInv`, under the hypothesis
  `SmallFrames`: two frames always fit one batch, or a batch has at most two rows.
  A frame that is held lies in its slot (`Lying`); the first slot is taken again
  while a deferred frame is held there only if that frame fills the batch
  alone.  That a frame has at most as many rows as a worker has environments is
  `Sized`: what an open client has queued is waited for or cancelled.  The
  hypothesis cannot be dropped (finding 4).
  `inference_batch_target` (`config.py:122`) is the environments of all workers of
  a rank or less, so it holds with two workers or more per rank unless
  `model_inference_batch_size` is below twice the environments of one.  A single worker
  with more than two environments is not covered; TLC finds no violation with three.

**Training** (TrainingCoordinator_proofs), for any workers, ranks, rounds,
deadlines and kills.

* `NoProcessOutlives` (`NoOrphans`).  The coordinator ends only out of
  "reaping", so the invariant says that there every process that lives is still
  on the list (`Listed`), and that only processes of the chosen configuration
  were ever started (`OnlyChildren`).
* `ExchangesInStep` (`GroupsInStep`), by `Stepwise`: for each stage of the
  coordinator and each process what may be on its way between the two, and which
  version its model has.  Its last part (`Remains`) says what of this outlives the
  coordinator.
* `RoundsOnPolicy` (`PlayedOnPolicy`), from `Stepwise`: a worker that can add a
  round has the version its arena was reset to.
* `RoundsAccounted` (`CountedIsLearnt`), by `Tally`: what the ranks have learnt
  and what they still owe adds up to the rounds counted, at every point of an
  update.  The lemmas are about sums over finite sets, which regroup by rank for
  any assignment of workers (`RoundsTotal`).
* `CheckpointHolds` (`CheckpointIsCurrent`), by `Ending`: from the first round
  after a save to the next the last checkpoint is not current, and who stops
  without a fault passes through that save.

**Run directory** (RunDirectory_proofs), for any policy, updates, resumes, trainings, requests, deaths and faults.

* `DirectoryInvariant`: the inductive invariant `IInv`.  `BackedUp` says that
  what a save puts aside is whole and of the past and that latest.json, written
  last, is never restored; `BeingSaved`, which manifests name the new object
  already; `Rewound` and `Chain`, which line the manifests belong to while a resume
  is under way.
* `CheckpointsIntact` (`ManifestsIntact`), `CheckpointsOneTimeline`
  (`OneTimeline`) and `CheckpointsPruned` (`PrunesAll`) from it; and
  `CheckpointsRegister` (`LatestIsARegister`): each step of the directory is one of
  the register or none.  A restored archive is one of these: it has the
  length of the training's line and is its prefix, so it is the line.
* `NamedAlways` (`TrainingNamed`): while a spawned training is not
  written yet the PID file names nobody alive (`Unwritten`, which the lock keeps
  true), and a reaper in the queue is about a training that is dead
  (`DeadReaped`), so what it removes is no live one's.

**Forms that proofs asked for.**  Checkpoints and TrainingProcesses change one
entry of a function by an operator (`With`, `Trained`); Session's `sends` is the set
of seats still owed a view, from which `Send` takes the first in seat order
(`Place`), and not the sequence of them.  Application's registry and the rooms
the cleanup loop holds are sets, with the order of creation beside them, from
which the code's insertion order is read (`Eldest`).  Inference filters sequences by the
set of positions that stay (`Select`; the data plane works with such row
indices), since the provers know nothing of `SelectSeq`; its names differ from RemoteAI's so that one
module extends both.  Recursion is nowhere an operator, always a
fold or a recursive function.  Where a proof needs induction (the sums) it takes
a smallest counterexample with `WFMin`, under the order of strict subsets.

**Model-checked only.**

* Liveness (`NobodyWaitsForever`, `AskersResume`, `RoomsReclaimed`, `RunSettles`,
  `EveryDecideEnds`, `RequestsEnd` and the like), which the prover does not
  cover.
* `DecidedOnItsOwn` of Inference outside of `SmallFrames`, where it is false in general.

## 5. What was found

Each of the first five is a run whose property the code violates.

1. **A bot's second failure crashes the game** (`session_crash`).  A bot
   that got one running view twice, by broadcast and by the resending after a
   stale command, may decide twice and fail twice.  `_session.py:390` asserts
   that there is no failure yet; the second report ends the session task
   instead of showing the failed game.
2. **A closed room becomes active again** (`room_reopened`).  `connect_seat`
   writes `_Active` after `await session.start`, whatever `close` did in
   between (`_room.py:216`).  The session then runs on in a room nobody closes
   again.
3. **A follow that the rules refuse is offered** (`throw_follow`).  Where a lead
   has no pair the device does not look at pair plans
   (`device/_operations.py:603`), while the rules refuse two pairs of a run with
   a hole between them whatever was led (`_follow_pairs.py`).  Behind a throw of
   four singles or more a hand with pairs of three neighbouring ranks is offered
   the outer two; the finished trace does not decode.  In the server every
   decision of its batch is refused with it (`inference/_sample.py`), in training
   that decision fails alone (`model_rank/client.py:505`) and takes its worker's
   session with it, since no failed round is retried.  The analysis of the rules
   (`can_complete`), which bots and hints use, does not offer it.
   `BreaksUnseen` names these decisions; `MaskIsExact` and `DecisionsStand` are about
   all others.  It exempts the whole decision, its sound moves included, and not
   only the follow with the hole.
4. **A deferred inference frame is overwritten** (`inference_overflow`).  A
   frame that does not fit the batch waits in its host slot, as a view of it.
   `begin_batch` resets the slot index (`staging.py:170`), and if the frame lies in
   slot 0 the next frame is received over it: its requests are decided, and
   trained, on another request's data.  It takes frames of more than half the
   batch target, since otherwise a deferred frame is never in slot 0
   (`RowsDecidedOnTheirOwn`).
5. **A shutdown after a failure never ends** (`shutdown_hangs`).  When a task
   fails, the TaskGroup cancels all others and the lifespan, whose `finally`
   closes the rooms (`web/state.py:58`).  `close` of a session that is being
   cancelled waits for an answer (`_session.py:213`) nobody gives, and so does the
   process.

Further behaviour of the models that is not stated as a run:

* of two concurrent takeovers of one seat the one that attaches first is
  overwritten and its socket left open (`player/_human.py:96`); a socket that
  replaces another may be attached after the room closed;
* a remote bot whose repeated, empty request meets a restarted server may get a
  second answer from a controller that has not seen the round (the reason why
  `FirstInformed` speaks of the first answer);
* a cleanup loop that is cancelled between two rooms leaves the rest in neither
  the registry nor closed; their sessions keep the TaskGroup open, and may ask
  the closed runtime (the exception in `SharedServicesLast`).  A closer that is
  cancelled leaves a future whose `set_result` raises in the session;
* only HTTP requests and connections refresh a room, frames do not: a game that
  is played for an hour over its sockets expires, unless somebody lists the
  games, which refreshes all;
* a worker killed while it holds an arena's lock or the condition blocks the
  coordinator, and every rank that reads the arena, for good (`WaitsForTheDead`);
* a model rank that dies is noticed by its workers only when a decision or a
  round runs out of time, since the coordinator keeps both ends of every
  inference socket; a rank does not notice a dead worker at all;
* an `init --replace-existing` removes the PID file of a live training, after
  which a second one can be started beside it (`strays`);
* the closed hints sort by a key that asserts one suit, which a follow of a
  short suit breaks (`rules/_hints.py:64`), and more than 64 pair plans are more
  than a compiled row has columns for (`batch/compiler.py:313`).  Neither is
  modelled.

## 6. Limits and plan

### Abstractions

* Session's game is Table: which cards a command carries is not seen there, so
  a human's command may be rejected at any time, a bot's fits its view.
  Cancellation is immediate there: `Crash` and `ServeClose` end the players at once.
  Application has the interval between cancellation and end.
* A view is its sequence number, whether the game failed, whether it carries
  the error of a rejected command (not which), and what it asks.
* RemoteAI leaves out the rejection of a wrong model or seat, and the policy.
* Application's rooms come from requests that name a room that was not created
  before; users, seats and tokens are GameRoom's.  A start takes less than the
  hour after which rooms expire.
* A round of training is one step and worth one decision; what is inside it is
  the engine, the decoder and Inference.  The unlimited run is left out.
* Inference has one shape of row: the shape buckets of the data plane, which
  decide which rows share a device call, appear as the rows that fail together;
  the rows that do not are kept in the order of the batch.  A frame and the
  answers of a batch to one worker are sent and received as units.  Frames that do
  not decode on the wire or exceed the size limit or the slot, which end the
  rank's loop, are left out: the same code writes and reads them.  So is the
  transport of CPU workers that decide for themselves (`LocalPolicyBatchTransport`),
  in which nothing is concurrent.  What nobody will read any more, the frames to a
  dead rank and the answers to a closed client, is dropped from the model's
  sockets.  Tensors are the requests they stand for.
* Process ids are not used twice.  The code reads a PID file "without ownership
  checks" (`process_inspection.py`), so a stop would signal whoever has the id.
  The two payloads of a checkpoint object are told apart by digest.
* Checkpoints abstracts reading while another process prunes: the game server
  that loads `latest.json` (`checkpoint/load.py`) meets a manifest or object
  that goes, and reports it as corrupt.

### Not modelled, and why

The policy network, tokenisation, PPO and collectives compute over tensors,
without a state that can be enumerated.  The events and metrics are best-effort
telemetry: a queue that drops what does not fit, and queries over files.  Command
line, client, dashboard and scripts are presentation.  The hints, the wording of
rejections and the layout of snapshots are left out of the game's modules.

### Plan

1. Inference with several shape buckets, and composed with
   TrainingProcesses in place of PlayRound.
2. The game server as a reader of the checkpoints directory.
3. The client's reconnection, composed with GameRoom.
