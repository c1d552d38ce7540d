------------------------------- MODULE Inference -------------------------------
(***************************************************************************)
(* Policy inference in a training run: the batching client of each worker  *)
(* (model_rank/client.py), the ingress and data plane of their model rank  *)
(* (staging.py, data_plane.py, process.py) and its sample arena.           *)
(*                                                                         *)
(* A worker's game environments ask for decisions at once; its client      *)
(* sends what is queued as one frame.  The rank merges frames into batches *)
(* in reused host slots, decides each row, keeps it as a training sample   *)
(* and answers.  Updates of the policy come between sampling sessions, and *)
(* ending a session cancels whatever is still asked.                       *)
(*                                                                         *)
(* The coordinator holds both ends of every inference socket pair until    *)
(* it stops (training_runtime.py), so neither side ever reads an end of    *)
(* file: whoever waits for a peer that died waits for a deadline.          *)
(*                                                                         *)
(* A request is a worker and a number; what it asks about, the data of its *)
(* row in a frame, is the request itself.                                  *)
(***************************************************************************)
EXTENDS Naturals, Sequences, SequencesExt, FiniteSets

CONSTANTS
  Workers,
  Envs,         \* game_envs_per_worker
  BatchSize,    \* inference_batch_target, and the client's batch_size
  MaxRequests,  \* bound: decisions a worker asks for
  MaxAsked,     \* bound: decisions all ask for
  MaxVersion,   \* bound: updates
  MaxFaults     \* bound: deadlines passed, deaths, failed decisions

ASSUME SizeAssumption ==
  {Envs, BatchSize, MaxRequests} \subseteq Nat \ {0}
    /\ {MaxAsked, MaxVersion, MaxFaults} \subseteq Nat

Requests == Workers \X (1..MaxRequests)
Nothing == <<>>

VARIABLES
  \* workers
  phase,     \* "sampling", "stopping", "stopped" or "failed"
  asked,     \* _next_request_id
  future,    \* what became of a request: "none", "waiting", "done",
             \* "refused" (of another version), "failed" (not compiled,
             \* decided or decoded), "rejected" or "cancelled"
  version,   \* the policy version a request asks for
  queue,     \* _send_queue
  sending,   \* the batch submit_batch is sending
  inFlight,  \* _in_flight
  ignored,   \* _ignored_response_request_ids
  recorded,  \* the answers kept for training: request and row
  \* sockets
  open,      \* the worker's own end
  toRank, toWorker,  \* what nobody will read is left out here and below
  \* the model rank
  mode,      \* "look", "listen", "batch" or "dead"
  slots,     \* the frames in the host slots
  nextSlot,
  single, rows,  \* _single_frame; the rows of _builder
  pending,   \* _pending_frame
  samples,   \* the rows of the sample arena
  current,   \* the version it serves
  \* the coordinator
  command,   \* an update the rank has not read
  faults

workerVars == <<phase, asked, future, version, queue, sending, inFlight,
                ignored, recorded>>
socketVars == <<open, toRank, toWorker>>
ingressVars == <<slots, nextSlot, single, rows, pending>>
rankVars == <<mode, ingressVars, samples, current>>
inferenceVars == <<workerVars, socketVars, rankVars, command, faults>>

InferenceInit ==
  /\ phase = [w \in Workers |-> "sampling"] /\ asked = [w \in Workers |-> 0]
  /\ future = [r \in Requests |-> "none"] /\ version = [r \in Requests |-> 0]
  /\ queue = [w \in Workers |-> <<>>] /\ sending = [w \in Workers |-> <<>>]
  /\ inFlight = [w \in Workers |-> {}] /\ ignored = [w \in Workers |-> {}]
  /\ recorded = {}
  /\ open = [w \in Workers |-> TRUE]
  /\ toRank = [w \in Workers |-> <<>>] /\ toWorker = [w \in Workers |-> <<>>]
  /\ mode = "look" /\ slots = <<>> /\ nextSlot = 1
  /\ single = Nothing /\ rows = <<>> /\ pending = Nothing
  /\ samples = <<>> /\ current = 0 /\ command = FALSE /\ faults = 0

\* The elements at some positions of a sequence, in their order.
Select(s, at) ==
  [k \in 1..Cardinality(at) |->
     s[CHOOSE i \in at : Cardinality({j \in at : j <= i}) = k]]
---------------------------------------------------------------------------
(* The client of a worker *)

Waiting(w) == {r \in Requests : r[1] = w /\ future[r] = "waiting"}
UnchangedRank == UNCHANGED <<rankVars, command>>

\* decide
AskDecision(w) ==
  LET r == <<w, asked[w] + 1>> IN
  /\ phase[w] = "sampling" /\ asked[w] < MaxRequests
  /\ Cardinality({q \in Requests : future[q] # "none"}) < MaxAsked
  /\ Cardinality(Waiting(w)) < Envs
  /\ asked' = [asked EXCEPT ![w] = @ + 1]
  /\ future' = [future EXCEPT ![r] = "waiting"]
  /\ version' = [version EXCEPT ![r] = current]
  /\ queue' = [queue EXCEPT ![w] = Append(@, r)]
  /\ UNCHANGED <<phase, sending, inFlight, ignored, recorded, faults>>
  /\ UNCHANGED socketVars /\ UnchangedRank

\* A fault that is not certain to happen.
Fault == faults < MaxFaults /\ faults' = faults + 1

\* _pop_send_batch, and what of it is not cancelled
Popped(w) == IF Len(queue[w]) < BatchSize THEN Len(queue[w]) ELSE BatchSize
Live(w) ==
  Select(queue[w], {i \in 1..Popped(w) : future[queue[w][i]] # "cancelled"})
Pop(w) ==
  /\ sending[w] = <<>> /\ queue[w] # <<>>
  /\ queue' = [queue EXCEPT ![w] = SubSeq(@, Popped(w) + 1, Len(@))]

\* One turn of _send_loop: what is queued and not cancelled is registered and
\* goes out as one frame.
Register(w) ==
  /\ Pop(w)
  /\ sending' = [sending EXCEPT ![w] = Live(w)]
  /\ inFlight' = [inFlight EXCEPT ![w] = @ \union ToSet(Live(w))]
  /\ UNCHANGED <<phase, asked, future, version, ignored, recorded, faults>>
  /\ UNCHANGED socketVars /\ UnchangedRank
\* compile_batch refuses one of them.
CannotCompile(w) ==
  /\ Pop(w) /\ Live(w) # <<>> /\ Fault
  /\ future' = [r \in Requests |->
                  IF r \in ToSet(Live(w)) /\ future[r] = "waiting" THEN "failed"
                  ELSE future[r]]
  /\ UNCHANGED <<phase, asked, version, sending, inFlight, ignored, recorded>>
  /\ UNCHANGED socketVars /\ UnchangedRank

\* _reject_in_flight, _reject_all
Reject(w, rs) ==
  /\ future' = [r \in Requests |->
                  IF r \in rs /\ future[r] = "waiting" THEN "rejected"
                  ELSE future[r]]
  /\ inFlight' = [inFlight EXCEPT ![w] = {}]
  /\ ignored' = [ignored EXCEPT ![w] = {}]
\* Slip: what was sent is forgotten.
QueuedOnly(w) == ToSet(queue[w])
Lost(w) == inFlight[w] \union ToSet(queue[w])
RejectAll(w) == Reject(w, Lost(w)) /\ queue' = [queue EXCEPT ![w] = <<>>]

\* submit_batch returns: the frame lies in the socket, which a dead rank does not
\* read, or the client has closed its end.
Submit(w) ==
  /\ sending[w] # <<>> /\ sending' = [sending EXCEPT ![w] = <<>>]
  /\ IF open[w]
     THEN /\ toRank' = IF mode = "dead" THEN toRank
                     ELSE [toRank EXCEPT ![w] = Append(@, sending[w])]
          /\ UNCHANGED <<future, queue, inFlight, ignored>>
     ELSE RejectAll(w) /\ UNCHANGED toRank
  /\ UNCHANGED <<phase, asked, version, recorded, open, toWorker, faults>>
  /\ UnchangedRank

\* _receive_loop runs while something sent is owed an answer.
Receiving(w) == (inFlight[w] \union ignored[w]) \ ToSet(sending[w]) # {}

\* _dispatch_responses: an answer to a request that was cancelled is dropped.
Known(w, batch) == \A a \in ToSet(batch) : a.request \in inFlight[w]
\* A decision is what the worker's own rules decode of its answer; where they
\* refuse it, the decision fails.
Dispatch(w) ==
  LET batch == Head(toWorker[w])
      answered == {a \in ToSet(batch) :
                     a.request \notin ignored[w] /\ future[a.request] = "waiting"}
  IN
  /\ Receiving(w) /\ open[w] /\ toWorker[w] # <<>>
  /\ toWorker' = [toWorker EXCEPT ![w] = Tail(@)]
  /\ IF Known(w, batch)
     THEN \E spoilt \in SUBSET {a \in answered : a.result = "done"} :
          /\ IF spoilt = {} THEN UNCHANGED faults ELSE Fault
          /\ future' = [r \in Requests |->
                          IF \E a \in spoilt : a.request = r THEN "failed"
                          ELSE IF \E a \in answered : a.request = r
                          THEN (CHOOSE a \in answered : a.request = r).result
                          ELSE future[r]]
          /\ inFlight' = [inFlight EXCEPT ![w] =
                            @ \ {a.request : a \in ToSet(batch)}]
          /\ ignored' = [ignored EXCEPT ![w] =
                           @ \ {a.request : a \in ToSet(batch)}]
          /\ recorded' = recorded \union
               {[request |-> a.request, row |-> a.row] :
                  a \in {b \in answered : b.result = "done"} \ spoilt}
     ELSE Reject(w, inFlight[w]) /\ UNCHANGED <<recorded, faults>>
  /\ UNCHANGED <<phase, asked, version, queue, sending, open, toRank>>
  /\ UnchangedRank

\* A deadline may pass while the rank still works; it does when the rank is dead.
Deadline == IF mode = "dead" THEN UNCHANGED faults ELSE Fault
\* An answer takes too long and the client closes its end.
Timeout(w) ==
  /\ Receiving(w) /\ open[w] /\ toWorker[w] = <<>> /\ Deadline
  /\ open' = [open EXCEPT ![w] = FALSE]
  /\ RejectAll(w)
  /\ UNCHANGED <<phase, asked, version, sending, recorded, toRank, toWorker>>
  /\ UnchangedRank
---------------------------------------------------------------------------
(* Sessions: the coordinator ends one, updates the ranks and begins another *)

AskToStop ==
  /\ \A w \in Workers : phase[w] = "sampling"
  /\ current < MaxVersion
  /\ phase' = [w \in Workers |-> "stopping"]
  /\ UNCHANGED <<asked, future, version, queue, sending, inFlight, ignored,
                 recorded, faults>>
  /\ UNCHANGED socketVars /\ UnchangedRank

\* Slip: also when it was never sent.
AnswerComes(r) == TRUE
WasSent(r) == r \in inFlight[r[1]]
\* A round that is cancelled takes its request back; the answer to one that
\* was sent is still to come.
Cancel(r) ==
  /\ phase[r[1]] = "stopping" /\ future[r] = "waiting"
  /\ future' = [future EXCEPT ![r] = "cancelled"]
  /\ ignored' = [ignored EXCEPT ![r[1]] =
                   IF WasSent(r) THEN @ \union {r} ELSE @]
  /\ UNCHANGED <<phase, asked, version, queue, sending, inFlight, recorded,
                 faults>>
  /\ UNCHANGED socketVars /\ UnchangedRank
Quiet(w) == Waiting(w) = {}
Stopped(w) ==
  /\ phase[w] = "stopping" /\ Quiet(w)
  /\ phase' = [phase EXCEPT ![w] = "stopped"]
  /\ UNCHANGED <<asked, future, version, queue, sending, inFlight, ignored,
                 recorded, faults>>
  /\ UNCHANGED socketVars /\ UnchangedRank

\* The session of a worker fails: it cancels the other rounds and exits.
FailSession(w) ==
  /\ phase[w] \in {"sampling", "stopping"}
  /\ phase' = [phase EXCEPT ![w] = "failed"]
  /\ future' = [r \in Requests |-> IF r \in Waiting(w) THEN "cancelled" ELSE future[r]]
  /\ queue' = [queue EXCEPT ![w] = <<>>] /\ sending' = [sending EXCEPT ![w] = <<>>]
  /\ inFlight' = [inFlight EXCEPT ![w] = {}] /\ ignored' = [ignored EXCEPT ![w] = {}]
  /\ open' = [open EXCEPT ![w] = FALSE]
  /\ toWorker' = [toWorker EXCEPT ![w] = <<>>]
  /\ UNCHANGED <<asked, version, recorded, toRank>>
  /\ UnchangedRank
\* So it does when a decision comes to nothing, or a round to no decision in time.
Fail(w) ==
  /\ \E r \in Requests : r[1] = w /\ future[r] \in {"refused", "failed", "rejected"}
  /\ FailSession(w) /\ UNCHANGED faults
RoundExpires(w) == Waiting(w) # {} /\ Deadline /\ FailSession(w)

AskToUpdate ==
  /\ \A w \in Workers : phase[w] = "stopped"
  /\ ~command /\ command' = TRUE
  /\ phase' = [w \in Workers |-> "updating"]
  /\ UNCHANGED <<asked, future, version, queue, sending, inFlight, ignored,
                 recorded, faults>>
  /\ UNCHANGED socketVars /\ UNCHANGED rankVars
NextSession ==
  /\ \A w \in Workers : phase[w] = "updating"
  /\ ~command /\ mode # "dead"
  /\ phase' = [w \in Workers |-> "sampling"]
  /\ recorded' = {}
  /\ UNCHANGED <<asked, future, version, queue, sending, inFlight, ignored,
                 faults>>
  /\ UNCHANGED socketVars /\ UnchangedRank
---------------------------------------------------------------------------
(* The model rank *)

UnchangedWorkers == UNCHANGED <<workerVars, faults>>

\* What a frame's slot holds is read when its rows are copied or decided.
Frame(n, requests) == [slot |-> n, requests |-> requests]
Read(held, f) ==
  [i \in DOMAIN f.requests |->
     [request |-> f.requests[i],
      data |-> IF i \in DOMAIN held[f.slot] THEN held[f.slot][i] ELSE Nothing]]
Rows(frame) == IF frame = Nothing THEN 0 ELSE Len(frame.requests)
Active == Rows(single) + Len(rows)
CanReceive == Active < BatchSize /\ pending = Nothing

Readable(w) == toRank[w] # <<>>

\* run_until_command: a deferred frame first, then requests, then a command.
BeginBatch ==
  /\ mode = "look"
  /\ IF pending # Nothing \/ \E w \in Workers : Readable(w)
     THEN mode' = "batch"
     ELSE mode' = "listen"
  /\ single' = pending /\ pending' = Nothing
  /\ UNCHANGED <<slots, nextSlot, rows, samples, current, command>>
  /\ UNCHANGED socketVars /\ UnchangedWorkers

\* Slip: a frame takes the slot of the one before it.
SameSlot(n) == n
SlotAfter(n) == n + 1
Fits(f) == Active + Len(f.requests) <= BatchSize
\* The first frame of a batch is used where it lies; with a second one the rows
\* of both are copied into the batch builder.
Merged(held, f) ==
  (IF single = Nothing THEN rows ELSE Read(held, single)) \o Read(held, f)
\* receive_from, and _append_or_defer
ReceiveFrame(w) ==
  LET f == Frame(nextSlot, Head(toRank[w]))
      filled == [i \in DOMAIN slots \union {nextSlot} |->
                   IF i = nextSlot THEN f.requests ELSE slots[i]]
  IN
  /\ mode = "batch" /\ CanReceive /\ toRank[w] # <<>>
  /\ toRank' = [toRank EXCEPT ![w] = Tail(@)]
  /\ slots' = filled /\ nextSlot' = SlotAfter(nextSlot)
  /\ IF ~Fits(f) THEN pending' = f /\ UNCHANGED <<single, rows>>
     ELSE IF single = Nothing /\ rows = <<>>
     THEN single' = f /\ UNCHANGED <<rows, pending>>
     ELSE /\ rows' = Merged(filled, f)
          /\ single' = Nothing /\ UNCHANGED pending
  /\ UNCHANGED <<mode, samples, current, command, open, toWorker>>
  /\ UnchangedWorkers

\* The rank dies, or waits for ever for the rest of a frame whose sender closed.
Exit ==
  /\ mode' = "dead" /\ toRank' = [w \in Workers |-> <<>>]
  /\ single' = Nothing /\ rows' = <<>> /\ pending' = Nothing
  /\ slots' = <<>> /\ nextSlot' = 1
Die ==
  /\ mode # "dead" /\ Fault /\ Exit
  /\ UNCHANGED <<samples, current, command, open, toWorker, workerVars>>

\* Slip: the row within the batch.
RowInBatch(i) == i
RowOf(i) == Len(samples) + i
\* finish_batch
Batch == IF single = Nothing THEN rows ELSE Read(slots, single)
\* _partition_policy_version_rows
MatchedAt(batch) == {i \in DOMAIN batch : version[batch[i].request] = current}
DecidedRows(batch, failed) ==
  Select(batch, {i \in MatchedAt(batch) : batch[i].request \notin failed})
UndecidedRows(batch, failed) ==
  Select(batch, {i \in MatchedAt(batch) : batch[i].request \in failed})
Mismatched(batch) == Select(batch, DOMAIN batch \ MatchedAt(batch))

\* The responses of a batch are grouped by the worker that is to have them.
For(w, answers) == Select(answers, {i \in DOMAIN answers : answers[i].request[1] = w})
Refusals(others) ==
  [i \in DOMAIN others |->
     [request |-> others[i].request, result |-> "refused", row |-> 0]]
Failures(others) ==
  [i \in DOMAIN others |->
     [request |-> others[i].request, result |-> "failed", row |-> 0]]
Answers(decided) ==
  [i \in DOMAIN decided |->
     [request |-> decided[i].request, result |-> "done", row |-> RowOf(i)]]
Responses(w, batch, failed) ==
  LET all == <<For(w, Refusals(Mismatched(batch))),
               For(w, Failures(UndecidedRows(batch, failed))),
               For(w, Answers(DecidedRows(batch, failed)))>>
  IN Select(all, {i \in 1..3 : all[i] # <<>>})

\* The batch ends when it is full, no more comes in time or a command waits;
\* requests of another version are rejected, the others decided, kept as
\* samples and answered.  They are decided in buckets of one shape: where the
\* model cannot decide a bucket, all its rows fail and none is kept.  The rank
\* may die between two answers.
FinishBatch ==
  LET addressed == {x.request[1] : x \in ToSet(Batch)}
      matched == {Batch[i].request : i \in MatchedAt(Batch)}
  IN
  /\ mode = "batch" /\ Batch # <<>>
  /\ \E failed \in SUBSET matched, sent \in SUBSET addressed :
       /\ IF failed = {} /\ sent = addressed THEN UNCHANGED faults ELSE Fault
       /\ samples' = samples \o DecidedRows(Batch, failed)
       /\ toWorker' = [w \in Workers |->
            IF w \in sent /\ open[w] THEN toWorker[w] \o Responses(w, Batch, failed)
            ELSE toWorker[w]]
       /\ IF sent = addressed
          THEN /\ mode' = "look" /\ single' = Nothing /\ rows' = <<>>
               /\ slots' = [n \in {n \in DOMAIN slots : pending = Frame(n, slots[n])} |->
                              slots[n]]
               /\ nextSlot' = 1 /\ UNCHANGED <<toRank, pending>>
          ELSE Exit
  /\ UNCHANGED <<current, command, open, workerVars>>

\* _validate_return_rows and select_ppo_minibatch: what training takes a
\* recorded answer to have been.
Returned(a) == a.row \in DOMAIN samples
Replayed(a) == samples[a.row]

\* The command that ends run_until_command, or what came meanwhile.
\* _run_model_rank_update trains on the recorded rows and discards all others.
Update ==
  /\ mode = "listen" /\ mode' = "look"
  /\ IF command
     THEN current' = current + 1 /\ samples' = <<>> /\ command' = FALSE
     ELSE /\ \E w \in Workers : Readable(w)
          /\ UNCHANGED <<current, samples, command>>
  /\ UNCHANGED ingressVars
  /\ UNCHANGED socketVars /\ UnchangedWorkers
---------------------------------------------------------------------------
\* What an event loop does without waiting for a peer or a deadline.
Prompt(w) ==
  \/ Register(w) \/ Dispatch(w) \/ Stopped(w) \/ Fail(w)
  \/ \E r \in Requests : r[1] = w /\ Cancel(r)
WorkerStep(w) ==
  \/ Prompt(w) \/ Submit(w) \/ CannotCompile(w)
  \/ Timeout(w) \/ RoundExpires(w) \/ AskDecision(w)
RankStep ==
  BeginBatch \/ FinishBatch \/ Update \/ \E w \in Workers : ReceiveFrame(w)
InferenceNext ==
  \/ RankStep \/ Die \/ AskToStop \/ AskToUpdate \/ NextSession
  \/ \E w \in Workers : WorkerStep(w)

\* The event loops of the processes run.  No deadline is certain and every send
\* returns while the rank lives; a dead one reads nothing, so that a send may
\* wait for ever for room in the socket, but then the deadlines pass.
Due(w) ==
  Prompt(w) \/ IF mode = "dead" THEN Timeout(w) \/ RoundExpires(w) ELSE Submit(w)
Fairness ==
  WF_inferenceVars(RankStep) /\ \A w \in Workers : WF_inferenceVars(Due(w))
InferenceSpec == InferenceInit /\ [][InferenceNext]_inferenceVars /\ Fairness
---------------------------------------------------------------------------
(* Properties *)

InferenceTypeOK ==
  /\ phase \in [Workers -> {"sampling", "stopping", "stopped", "updating", "failed"}]
  /\ future \in [Requests -> {"none", "waiting", "done", "refused", "failed",
                              "rejected", "cancelled"}]
  /\ mode \in {"look", "listen", "batch", "dead"}
  /\ Active <= BatchSize /\ nextSlot \in Nat \ {0}
  /\ \A w \in Workers : ignored[w] \subseteq inFlight[w]

\* A row is decided on what its own request asked about: no frame is written
\* over another that still waits in its slot.
DecidedOnItsOwn == \A x \in ToSet(samples) : x.data = x.request

\* So it is if any two frames fit one batch: inference_batch_target is the
\* environments of all workers of the rank unless configured smaller.
SmallFrames == BatchSize <= 2 \/ 2 * Envs <= BatchSize

\* What a worker keeps for training names the row its request was sampled in,
\* and the rank still has it, under the version it trains.
SamplesFound ==
  \A a \in recorded :
    version[a.request] = current /\ mode # "dead" =>
      Returned(a) /\ Replayed(a).request = a.request

\* Where the answer to a request may be.
Owed(w) ==
  {r \in Requests : r[1] = w /\
     \/ \E f \in ToSet(toRank[w]) : r \in ToSet(f)
     \/ pending # Nothing /\ r \in ToSet(pending.requests)
     \/ single # Nothing /\ r \in ToSet(single.requests)
     \/ \E x \in ToSet(rows) : x.request = r
     \/ \E b \in ToSet(toWorker[w]) : \E a \in ToSet(b) : a.request = r}
\* While the rank lives and its socket is open, a client waits for exactly the
\* answers that are on their way: a cancelled request neither leaves it waiting
\* for nothing nor makes an answer unknown.
WaitsForTheOwed ==
  \A w \in Workers : open[w] /\ mode # "dead" =>
    Owed(w) = (inFlight[w] \union ignored[w]) \ ToSet(sending[w])

\* No request is refused for its version, since an update never comes between
\* a live request and its answer; and a client rejects what it asked only after
\* its own deadline closed the socket, never for an answer it does not know.
\* A decision may still fail alone, or with its frame or bucket, where the
\* request cannot be compiled, the model cannot decide it or the worker's rules
\* refuse the answer: that is "failed".
LiveNeverRefused ==
  \A r \in Requests : /\ future[r] # "refused"
                      /\ future[r] = "rejected" => ~open[r[1]]

\* Cancels, closes, stale answers and policy updates cross frames in both
\* directions, and no one is confused by it.
AnswersMatch == WaitsForTheOwed /\ LiveNeverRefused

\* Whoever asks for a decision is answered, rejected or cancelled.  While the
\* rank lives no deadline is needed for it; once it is dead the deadlines of the
\* client and of the round do it.
EveryDecideEnds == <>[](\A r \in Requests : future[r] # "waiting")
=============================================================================
