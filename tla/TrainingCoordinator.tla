-------------------------- MODULE TrainingCoordinator --------------------------
(***************************************************************************)
(* The coordinator of a training run (coordinator.py, training_runtime.py, *)
(* worker_sampling_lifecycle.py): it starts the processes, loads the       *)
(* ranks' states, and repeats one update after the other: reset the        *)
(* arenas, start sampling, wait for the target, stop sampling, count the   *)
(* rounds, let the ranks learn from them.  Every wait has a deadline, and  *)
(* a stop request may come at any time.  A failure either leaves the       *)
(* processes usable and ends the run in order, or poisons the runtime,     *)
(* which stops them by force.                                              *)
(***************************************************************************)
EXTENDS TrainingProcesses

CONSTANTS
  MaxRounds,     \* max_rounds; the unlimited run (0) is not modelled
  MinDecisions,  \* minimum_update_decision_count
  EveryUpdates   \* checkpoint_policy.every_updates

ASSUME PolicyAssumption ==
  /\ MaxRounds \in Nat \ {0} /\ MinDecisions \in Nat \ {0}
  /\ EveryUpdates \in Nat \ {0}

VARIABLES
  pc,       \* what the coordinator does or waits for
  pending,  \* the processes it still has to start, hear from or stop
  intent,   \* why sampling is being stopped
  stop,     \* TrainingStopRequest
  updates, rounds,  \* total_updates, total_rounds
  counted,  \* the rounds of the last snapshot of the arenas
  saved,    \* the last checkpoint
  last,     \* last_checkpoint_path is set
  faults    \* what went wrong: "startup", "refused", "lost", "late", "disk"
            \* or "unexpected"

coordVars ==
  <<pc, pending, intent, stop, updates, rounds, counted, saved, last, faults>>
vars == <<procVars, coordVars>>

NoCheckpoint == [updates |-> 0, rounds |-> 0, model |-> Unloaded]
\* Slip: a process that is still setting up is not among them.
UpOnce == {p \in Children : run[p] \notin {"unborn", "setup"}}
Born == {p \in Children : run[p] # "unborn"}

Init ==
  /\ InitProcesses
  /\ pc = "opening" /\ pending = Children /\ intent = "none" /\ stop = FALSE
  /\ updates = 0 /\ rounds = 0 /\ counted = 0
  /\ saved = NoCheckpoint /\ last = FALSE /\ faults = {}
---------------------------------------------------------------------------
(* Messages of the coordinator *)

\* broadcast_control_commands: every target is sent to; a dead one fails.
Reached(ps) == {p \in ps : run[p] # "dead"}
Broadcast(ps, kind) ==
  inbox' = [p \in Procs |-> IF p \in Reached(ps)
                            THEN Append(inbox[p], Message(kind, updates))
                            ELSE inbox[p]]
Heard(p) == p \in pending /\ outbox[p] # <<>>
Said(p) == Head(outbox[p])
Take(p) == outbox' = [outbox EXCEPT ![p] = Tail(@)]
Ignore == UNCHANGED outbox
\* A wait finds the socket of a dead process readable, and nothing in it.
\* Slip: only the deadline ends it.
NeverLost(p) == FALSE
Lost(p) == p \in pending /\ outbox[p] = <<>> /\ run[p] = "dead"
\* The cause a bad answer counts as.
Cause(m) ==
  IF m.kind \in {"refused", "refusedStart", "failed"} THEN "refused"
  ELSE "unexpected"
Good(m, kind) == m.kind = kind /\ m.version = updates

\* _poison_and_close, and a Rejected the runtime survives.
Poison(cause) ==
  /\ pc' = "reaping" /\ pending' = Born
  /\ faults' = faults \union {cause}
GiveUp(cause) ==
  /\ pc' = "closing" /\ pending' = {}
  /\ faults' = faults \union {cause}
WaitFor(stage, ps) == pc' = stage /\ pending' = ps

\* A command to some processes and the wait for their answers, each of which
\* has to be good.
Command(ps, kind, stage) ==
  IF Reached(ps) = ps
  THEN Broadcast(ps, kind) /\ WaitFor(stage, ps) /\ UNCHANGED faults
  ELSE Poison("lost") /\ UNCHANGED inbox
Collect(p, kind, next) ==
  \/ /\ Heard(p) /\ Take(p)
     /\ IF Good(Said(p), kind)
        THEN /\ pending' = pending \ {p} /\ UNCHANGED faults
             /\ pc' = IF pending = {p} THEN next ELSE pc
        ELSE Poison(Cause(Said(p)))
  \/ Lost(p) /\ Poison("lost") /\ Ignore

UnchangedProcesses ==
  UNCHANGED <<local, run, task, model, arena, orphaned, crashes>>
UnchangedRun == UNCHANGED <<stop, updates, rounds, counted, saved, last>>
---------------------------------------------------------------------------
(* Opening and closing *)

\* A process is started; when one cannot be, the others are stopped.
Spawned(p) ==
  \/ /\ run' = [run EXCEPT ![p] = "setup"]
     /\ pending' = pending \ {p}
     /\ pc' = IF pending = {p} THEN "opened" ELSE pc
     /\ UNCHANGED faults
  \/ UNCHANGED run /\ Poison("startup")

\* _start_runtime_pools: the model ranks first, then the workers in order.
SpawnModelRank(p) == p \in pending \intersect ModelRanks /\ Spawned(p)
SpawnWorker(p) ==
  /\ p \in pending /\ pending \subseteq Workers
  /\ ZeroWorker \in pending => p = ZeroWorker
  /\ Spawned(p)
Spawn(p) ==
  /\ pc = "opening" /\ (SpawnModelRank(p) \/ SpawnWorker(p))
  /\ UNCHANGED <<local, inbox, outbox, task, model, arena, orphaned, crashes,
                 intent>>
  /\ UnchangedRun

\* _sync_compute_rank_states
LoadStates ==
  /\ pc = "opened" /\ Command(Ranks, "load", "loading")
  /\ Ignore /\ UnchangedProcesses /\ UnchangedRun /\ UNCHANGED intent
StateLoaded(p) ==
  /\ pc = "loading" /\ Collect(p, "loaded", "idle")
  /\ UNCHANGED inbox /\ UnchangedProcesses /\ UnchangedRun /\ UNCHANGED intent

\* TrainingRuntime.close: every process is told to exit, then joined,
\* terminated or killed.
Close ==
  /\ pc = "closing" /\ Broadcast(Born, "exit") /\ WaitFor("reaping", Born)
  /\ Ignore /\ UnchangedProcesses /\ UnchangedRun /\ UNCHANGED <<intent, faults>>
Reap(p) ==
  /\ pc = "reaping" /\ p \in pending
  /\ p # ZeroWorker => ZeroWorker \notin pending
  /\ p \in ModelRanks => pending \intersect Workers = {}
  /\ Die(p) /\ outbox' = [outbox EXCEPT ![p] = <<>>]
  /\ pending' = pending \ {p}
  /\ UNCHANGED <<local, arena, orphaned, crashes, pc, intent, faults>>
  /\ UnchangedRun
\* The arenas are unlinked last.
End ==
  /\ pc = "reaping" /\ pending = {} /\ pc' = "ended" /\ intent' = "none"
  /\ arena' = [w \in Workers |-> EmptyArena(0)]
  /\ UNCHANGED <<local, run, inbox, outbox, task, model, orphaned, crashes,
                 pending, faults>>
  /\ UnchangedRun
---------------------------------------------------------------------------
(* One update *)

LocksFree == orphaned = {}
Continues == rounds < MaxRounds /\ ~stop
\* _next_update_round_target
Target ==
  IF MaxRounds - rounds < RoundsPerUpdate THEN MaxRounds - rounds
  ELSE RoundsPerUpdate

\* Slip: the path of the last checkpoint is kept for the next update.
SaveKept == UNCHANGED last
SaveOutdated == last' = FALSE
\* The loop of _run_synchronized_training; reset_rollout_arenas.
BeginUpdate ==
  /\ pc = "idle" /\ Continues /\ LocksFree
  /\ arena' = [w \in Workers |-> EmptyArena(updates)]
  /\ pc' = "reset" /\ SaveOutdated
  /\ UNCHANGED <<local, run, inbox, outbox, task, model, orphaned, crashes,
                 pending, intent, stop, updates, rounds, counted, saved, faults>>

\* _abort_worker_sampling_start and _stop_worker_sampling_after_start_request:
\* the workers that were told to start are told to stop.
\* Slip: only those that have not answered yet.
Unheard == pending
ToldToStart == Workers
Abort(ws, why, causes) ==
  /\ Broadcast(ws, "stop")
  /\ intent' = why
  /\ IF Reached(ws) # ws
     THEN /\ pc' = "reaping" /\ pending' = Born
          /\ faults' = faults \union causes \union {"lost"}
     ELSE /\ WaitFor(IF ws = {} THEN "closing" ELSE "aborting", ws)
          /\ faults' = faults \union causes

\* start_worker_sampling_session
Start ==
  /\ pc = "reset"
  /\ IF stop
     THEN pc' = "counting" /\ intent' = "stop" /\ UNCHANGED <<inbox, pending, faults>>
     ELSE IF Reached(Workers) = Workers
     THEN /\ Broadcast(Workers, "start") /\ WaitFor("starting", Workers)
          /\ UNCHANGED <<intent, faults>>
     ELSE /\ inbox' = [p \in Procs |->
                        IF p \in Reached(Workers)
                        THEN inbox[p] \o <<Message("start", updates),
                                           Message("stop", updates)>>
                        ELSE inbox[p]]
          /\ WaitFor(IF Reached(Workers) = {} THEN "closing" ELSE "aborting",
                     Reached(Workers))
          /\ intent' = "reject" /\ faults' = faults \union {"lost"}
  /\ Ignore /\ UnchangedProcesses /\ UnchangedRun

\* _receive_worker_sampling_session_started
Started(p) ==
  /\ pc = "starting"
  /\ \/ /\ Heard(p) /\ Take(p)
        /\ IF Good(Said(p), "started")
           THEN /\ pending' = pending \ {p}
                /\ pc' = IF pending = {p} THEN "waiting" ELSE pc
                /\ UNCHANGED <<inbox, intent, faults>>
           ELSE IF Said(p).kind = "failed"
           THEN GiveUp("refused") /\ UNCHANGED <<inbox, intent>>
           ELSE Abort(ToldToStart, "reject", {Cause(Said(p))})
     \/ Lost(p) /\ Abort(ToldToStart, "reject", {"lost"}) /\ Ignore
     \/ p \in pending /\ stop /\ Abort(ToldToStart, "stop", {}) /\ Ignore
  /\ UnchangedProcesses /\ UnchangedRun

Skips(m) == Good(m, "started") \/ Good(m, "refusedStart")
\* _receive_worker_sampling_abort_stopped: what the worker said of the start
\* is skipped.
Aborted(p) ==
  /\ pc = "aborting"
  /\ \/ /\ Heard(p) /\ Take(p)
        /\ IF Skips(Said(p))
           THEN UNCHANGED <<pc, pending, faults>>
           ELSE IF Good(Said(p), "stopped") \/ Good(Said(p), "alreadyStopped")
           THEN /\ pending' = pending \ {p} /\ UNCHANGED faults
                /\ pc' = IF pending # {p} THEN pc
                         ELSE IF intent = "stop" THEN "counting" ELSE "closing"
           ELSE Poison(Cause(Said(p)))
     \/ Lost(p) /\ Poison("lost") /\ Ignore
  /\ UNCHANGED <<inbox, intent>> /\ UnchangedProcesses /\ UnchangedRun

\* stop_worker_sampling_session
StopWorkers(ws, why) ==
  /\ intent' = why
  /\ IF ws = {} THEN Poison("refused") /\ UNCHANGED inbox
     ELSE Command(ws, "stop", "stopping")

\* wait_rollout_round_target_or_stop_async: the target, else a stop request.
TargetOrStop ==
  /\ pc = "waiting" /\ LocksFree
  /\ \/ RoundsIn(Workers) >= Target /\ StopWorkers(Workers, "target")
     \/ RoundsIn(Workers) < Target /\ stop /\ StopWorkers(Workers, "stop")
  /\ Ignore /\ UnchangedProcesses /\ UnchangedRun
\* poll_worker_sampling_failure: a worker that reported its failure is not
\* told to stop, one whose socket closed is.
WorkerFailed(w) ==
  /\ pc = "waiting" /\ LocksFree
  /\ \/ /\ outbox[w] # <<>> /\ Take(w)
        /\ StopWorkers(IF Good(Said(w), "failed") THEN Workers \ {w} ELSE Workers,
                       "failed")
     \/ outbox[w] = <<>> /\ run[w] = "dead" /\ Ignore
        /\ StopWorkers(Workers, "failed")
  /\ UnchangedProcesses /\ UnchangedRun

\* _receive_worker_sampling_stopped, and what _run_training_update makes of it.
Stopped(p) ==
  /\ pc = "stopping"
  /\ \/ /\ Heard(p) /\ Take(p)
        /\ IF ~Good(Said(p), "stopped") THEN Poison(Cause(Said(p)))
           ELSE IF pending # {p}
           THEN pending' = pending \ {p} /\ UNCHANGED <<pc, faults>>
           ELSE IF intent = "failed" THEN Poison("refused")
           ELSE /\ pending' = {} /\ UNCHANGED faults
                /\ pc' = IF intent = "late" THEN "closing" ELSE "counting"
     \/ Lost(p) /\ Poison("lost") /\ Ignore
  /\ UNCHANGED <<inbox, intent>> /\ UnchangedProcesses /\ UnchangedRun

\* snapshot_rollout_arenas: too few decisions after a stop are discarded, all
\* others go to the ranks.
Count ==
  /\ pc = "counting" /\ LocksFree
  /\ IF intent = "stop" /\ RoundsIn(Workers) < MinDecisions
     THEN pc' = "final" /\ UNCHANGED <<inbox, pending, faults>>
     ELSE Command(Ranks, "update", "updating")
  /\ counted' = RoundsIn(Workers)
  /\ Ignore /\ UnchangedProcesses
  /\ UNCHANGED <<intent, stop, updates, rounds, saved, last>>

\* _receive_worker_updates and _run_model_rank_updates
Updated(p) ==
  /\ pc = "updating" /\ Collect(p, "updated", "updated")
  /\ UNCHANGED inbox /\ UnchangedProcesses /\ UnchangedRun /\ UNCHANGED intent

\* Slip: the next update has the number of this one.
SameUpdate == updates
NextUpdate == updates + 1
\* The counters, and whether a checkpoint is due before the next update.
Account ==
  /\ pc = "updated"
  /\ updates' = NextUpdate /\ rounds' = rounds + counted /\ counted' = 0
  /\ pc' = IF rounds' >= MaxRounds \/ stop THEN "final"
           ELSE IF updates' % EveryUpdates = 0 THEN "scheduled" ELSE "idle"
  /\ UNCHANGED <<procVars, pending, intent, stop, saved, last, faults>>
---------------------------------------------------------------------------
(* Checkpoints *)

\* The end of the loop.  A checkpoint saved since the last update is the final
\* one.
Finish ==
  /\ pc = "idle" /\ ~Continues
  /\ pc' = "final"
  /\ UNCHANGED <<procVars, pending, intent, faults>> /\ UnchangedRun
AskSnapshot ==
  /\ \/ pc = "scheduled" /\ Command({RankZero}, "snapshot", "snapshotting")
     \/ pc = "final" /\ ~last /\ Command({RankZero}, "snapshot", "finalizing")
     \/ pc = "final" /\ last /\ WaitFor("closing", {}) /\ UNCHANGED <<inbox, faults>>
  /\ Ignore /\ UnchangedProcesses /\ UnchangedRun /\ UNCHANGED intent
\* _save_checkpoint writes the state the rank sent, with the counters.
Save(p) ==
  /\ pc \in {"snapshotting", "finalizing"}
  /\ \/ /\ Heard(p) /\ Good(Said(p), "snapshot") /\ Take(p)
        /\ \/ /\ saved' = [updates |-> updates, rounds |-> rounds,
                           model |-> Said(p).state]
              /\ last' = TRUE /\ UNCHANGED faults
              /\ WaitFor(IF pc = "finalizing" THEN "closing" ELSE "idle", {})
           \/ GiveUp("disk") /\ UNCHANGED <<saved, last>>
     \/ /\ Heard(p) /\ ~Good(Said(p), "snapshot") /\ Take(p)
        /\ Poison(Cause(Said(p))) /\ UNCHANGED <<saved, last>>
     \/ Lost(p) /\ Poison("lost") /\ Ignore /\ UNCHANGED <<saved, last>>
  /\ UNCHANGED <<inbox, intent, stop, updates, rounds, counted>> /\ UnchangedProcesses
---------------------------------------------------------------------------
(* Deadlines, the stop request and the end of the coordinator *)

Late ==
  /\ \/ pc = "starting" /\ Abort(ToldToStart, "reject", {"late"})
     \/ /\ pc \in {"loading", "aborting", "stopping", "updating", "snapshotting",
                   "finalizing"}
        /\ Poison("late") /\ UNCHANGED <<inbox, intent>>
     \/ /\ pc = "waiting" /\ LocksFree /\ RoundsIn(Workers) < Target /\ ~stop
        /\ IF Reached(Workers) = Workers
           THEN /\ Broadcast(Workers, "stop") /\ intent' = "late"
                /\ WaitFor("stopping", Workers) /\ faults' = faults \union {"late"}
           ELSE Poison("lost") /\ UNCHANGED <<inbox, intent>>
  /\ Ignore /\ UnchangedProcesses /\ UnchangedRun

RequestStop ==
  /\ ~stop /\ pc \notin {"closing", "reaping", "ended", "killed"}
  /\ stop' = TRUE
  /\ UNCHANGED <<procVars, pc, pending, intent, updates, rounds, counted, saved,
                 last, faults>>

\* The coordinator is killed, perhaps with the lock it looks at the arenas
\* under; what it has not read is lost.
Kill ==
  /\ pc \notin {"ended", "killed"} /\ crashes < MaxCrashes
  /\ pc' = "killed" /\ crashes' = crashes + 1
  /\ orphaned' \in {orphaned, IF pc \in {"idle", "waiting", "counting"}
                              THEN orphaned \union {"progress"} ELSE orphaned}
  /\ outbox' = [p \in Procs |-> <<>>]
  /\ pending' = {} /\ intent' = "none"
  /\ UNCHANGED <<local, run, inbox, task, model, arena, faults>> /\ UnchangedRun
---------------------------------------------------------------------------
CoordinatorStep ==
  \/ LoadStates \/ Close \/ End \/ BeginUpdate \/ Start \/ TargetOrStop \/ Count
  \/ Account \/ Finish \/ AskSnapshot
  \/ \E p \in Procs :
       \/ Spawn(p) \/ StateLoaded(p) \/ Reap(p) \/ Started(p) \/ Aborted(p)
       \/ Stopped(p) \/ Updated(p) \/ Save(p)
  \/ \E w \in Workers : WorkerFailed(w)

ChildStep(p) ==
  \/ ProcessStep(p) /\ UNCHANGED coordVars
  \/ pc = "killed" /\ LoseControl(p) /\ UNCHANGED coordVars
Trouble ==
  \/ Late \/ RequestStop \/ Kill
  \/ \E w \in Workers : FailRound(w) /\ UNCHANGED coordVars
  \/ \E p \in Procs : Crash(p) /\ UNCHANGED coordVars

Next == CoordinatorStep \/ Trouble \/ \E p \in Procs : ChildStep(p)
\* The coordinator and the processes are scheduled.  The deadline of a decision
\* asked of a dead rank passes (DecisionExpires); that a deadline of the
\* coordinator does (Late) is not assumed.
Fairness ==
  /\ WF_vars(CoordinatorStep)
  /\ \A p \in Procs : WF_vars(ChildStep(p))
Spec == Init /\ [][Next]_vars /\ Fairness
---------------------------------------------------------------------------
(* Properties *)

Stages ==
  {"opening", "opened", "loading", "idle", "reset", "starting", "aborting",
   "waiting", "stopping", "counting", "updating", "updated", "scheduled", "final",
   "snapshotting", "finalizing", "closing", "reaping", "ended", "killed"}
TypeOK ==
  /\ pc \in Stages /\ pending \subseteq Children
  /\ local \in BOOLEAN /\ stop \in BOOLEAN /\ last \in BOOLEAN
  /\ run \in [Procs -> {"unborn", "setup", "up", "hung", "dead"}]
  /\ task \in [Workers -> [at : {"none", "running", "full", "failed"},
                          version : Nat]]
  /\ model \in [Procs -> [loaded : BOOLEAN, version : Nat, learnt : Nat]]
  /\ arena \in [Workers -> [version : Nat, count : 0..Capacity]]
  /\ updates \in Nat /\ rounds \in Nat /\ counted \in Nat /\ crashes \in 0..MaxCrashes
  /\ orphaned \subseteq Workers \union {"progress"}

\* Between two exchanges, and when the runtime is closed in order, no worker
\* samples and nothing is on its way to or from a process that lives: a
\* rejected start leaves no half-started session behind
\* (worker_sampling_lifecycle.py:402).
AtRest ==
  pc \in {"idle", "reset", "counting", "updated", "scheduled", "final", "closing"}
    => \A p \in Procs : run[p] = "up" =>
         ~Sampling(p) /\ inbox[p] = <<>> /\ outbox[p] = <<>>

\* No process ever gives an answer of the wrong kind or of another policy
\* version: what the protocol checks reject are failures, never its own
\* messages out of step.
NeverConfused == "unexpected" \notin faults

\* Every exchange ends with both sides in step, whatever was refused, aborted
\* or late on the way.
GroupsInStep == AtRest /\ NeverConfused

\* The rounds the coordinator has counted are those the ranks have learnt
\* from, and every rank is at the version the coordinator counts, whenever no
\* update is under way: nothing is appended between the count and the read.
Learning == {"opening", "opened", "loading", "updating", "updated", "closing",
             "reaping", "ended", "killed"}
CountedIsLearnt ==
  pc \notin Learning /\ (\A p \in Ranks : run[p] # "dead")
    => /\ \A p \in Ranks : model[p].loaded /\ model[p].version = updates
       /\ MapThenSumSet(LAMBDA p : model[p].learnt, Ranks) = rounds

\* A run that ended without a fault checkpointed all it counted, and played
\* what was asked for unless it was stopped; a checkpoint holds the model of
\* its counters.
CheckpointIsCurrent ==
  /\ saved.model.version = saved.updates
  /\ pc = "ended" /\ faults = {} =>
       /\ saved.updates = updates /\ saved.rounds = rounds
       /\ rounds >= MaxRounds \/ stop

\* No child process outlives a coordinator that ended, whatever it ended by.
NoOrphans ==
  pc = "ended" => \A p \in Procs : run[p] \in {"unborn", "dead"}

\* A round enters an arena only while the model that played it is of the
\* version the coordinator is collecting: PPO stays on policy.
PlayedOnPolicy ==
  [][\A w \in Workers : arena'[w].count > arena[w].count =>
       model[Rank(w)].version = arena[w].version /\ arena[w].version = updates
    ]_vars

\* Every run ends, and no process survives it, though no deadline of the
\* coordinator passes: the end of a process closes its control socket, which
\* is noticed by whoever waits for an answer over it, and a worker whose rank
\* is gone, of which no socket tells it, fails by the deadline of its own
\* decision.  The exception is a process killed inside a locked section:
\* whoever needs that lock waits for good, since no lock has a timeout.
AllStopped ==
  pc \in {"ended", "killed"} /\ \A p \in Procs : run[p] \in {"unborn", "dead"}
\* The coordinator looks at the arenas, or is gone and every process it leaves
\* stands at a lock: in an event loop that notifies, or in a rank that reads.
AtALock(p) ==
  run[p] = "hung" \/ (Reads(p, "update") /\ Assigned(p) \intersect orphaned # {})
WaitsForTheDead ==
  /\ orphaned # {}
  /\ \/ pc \in {"waiting", "counting"} \/ (pc = "idle" /\ Continues)
     \/ pc = "killed" /\ \A p \in Procs : run[p] \in {"unborn", "dead"} \/ AtALock(p)
RunSettles == <>[](AllStopped \/ WaitsForTheDead)
=============================================================================
