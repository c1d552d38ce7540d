--------------------------- MODULE TrainingProcesses ---------------------------
(***************************************************************************)
(* The child processes of one training run (server/training/runtime): the  *)
(* workers, which play rounds into shared rollout arenas, and the model    *)
(* ranks, which are processes of their own or live in the workers.  The    *)
(* coordinator commands each over a FIFO socket pair (async_ipc) of which  *)
(* it keeps one end: a process that is killed closes the other, and may    *)
(* take a lock with it.                                                    *)
(*                                                                         *)
(* A round is worth one decision.  A model is known by the updates it went *)
(* through and the rounds of its rank's arenas it has learnt from.         *)
(***************************************************************************)
EXTENDS Naturals, Sequences, FiniteSets, FiniteSetsExt

CONSTANTS
  Workers,          \* worker processes
  ModelRanks,       \* model rank processes, used unless the ranks are local
  RankOf,           \* model_rank_index_for_worker
  ZeroWorker, ZeroRank,  \* the processes of index 0
  GameEnvs,         \* game_envs_per_worker
  RoundsPerUpdate,
  MaxCrashes        \* bound: processes killed from outside

Procs == Workers \union ModelRanks

ASSUME PoolAssumption ==
  /\ IsFiniteSet(Workers) /\ IsFiniteSet(ModelRanks)
  /\ Workers \intersect ModelRanks = {}
  /\ ZeroWorker \in Workers /\ ZeroRank \in ModelRanks
  /\ RankOf \in [Workers -> ModelRanks]
ASSUME CountAssumption ==
  GameEnvs \in Nat \ {0} /\ RoundsPerUpdate \in Nat \ {0} /\ MaxCrashes \in Nat

VARIABLES
  local,     \* the configuration: whether each worker owns a model rank
  run,       \* "unborn", "setup", "up", "hung" or "dead"
  inbox,     \* commands sent to a process and not yet read
  outbox,    \* responses of a process the coordinator has not read
  task,      \* runtime.sampling_task of a worker, with its policy version
  model,     \* the model of a rank
  arena,     \* header of a worker's rollout arena
  orphaned,  \* locks whose holder was killed: arenas, or "progress"
  crashes

procVars == <<local, run, inbox, outbox, task, model, arena, orphaned, crashes>>

Unloaded == [loaded |-> FALSE, version |-> 0, learnt |-> 0]
\* A command or a response; a snapshot carries the model.
Message(kind, v) == [kind |-> kind, version |-> v, state |-> Unloaded]
Ranks == IF local THEN Workers ELSE ModelRanks
Children == IF local THEN Workers ELSE Procs
RankZero == IF local THEN ZeroWorker ELSE ZeroRank
Rank(w) == IF local THEN w ELSE RankOf[w]
Assigned(p) == {w \in Workers : Rank(w) = p}
NoTask == [at |-> "none", version |-> 0]
EmptyArena(v) == [version |-> v, count |-> 0]

\* rollout_round_capacity_per_worker: a share of the target, rounded up, and
\* the rounds the worker has in flight when the target is reached.
Capacity ==
  (RoundsPerUpdate + Cardinality(Workers) - 1) \div Cardinality(Workers)
    + GameEnvs
Full(n) == n >= Capacity
RoundsIn(ws) == MapThenSumSet(LAMBDA w : arena[w].count, ws)

InitProcesses ==
  /\ local \in BOOLEAN
  /\ run = [p \in Procs |-> "unborn"]
  /\ inbox = [p \in Procs |-> <<>>] /\ outbox = [p \in Procs |-> <<>>]
  /\ task = [w \in Workers |-> NoTask]
  /\ model = [p \in Procs |-> Unloaded]
  /\ arena = [w \in Workers |-> EmptyArena(0)]
  /\ orphaned = {} /\ crashes = 0
---------------------------------------------------------------------------
(* Starting and commands *)

\* The setup of a process, and the rejection it sends before it exits.
Setup(p) ==
  /\ run[p] = "setup"
  /\ \/ run' = [run EXCEPT ![p] = "up"] /\ UNCHANGED outbox
     \/ /\ run' = [run EXCEPT ![p] = "dead"]
        /\ outbox' = [outbox EXCEPT ![p] = Append(@, Message("refused", 0))]
  /\ UNCHANGED <<local, inbox, task, model, arena, orphaned, crashes>>

\* A command a process may read, and its answer.
Reads(p, kind) ==
  run[p] = "up" /\ inbox[p] # <<>> /\ Head(inbox[p]).kind = kind
Version(p) == Head(inbox[p]).version
Answer(p, kind) ==
  /\ inbox' = [inbox EXCEPT ![p] = Tail(@)]
  /\ outbox' = [outbox EXCEPT ![p] = Append(@, Message(kind, Version(p)))]
Sampling(p) == p \in Workers /\ task[p].at # "none"
OwnsIdleRank(p) == p \in Ranks /\ ~Sampling(p)

LoadState(p) ==
  /\ Reads(p, "load")
  /\ IF OwnsIdleRank(p)
     THEN /\ model' = [model EXCEPT ![p] =
                         [loaded |-> TRUE, version |-> Version(p), learnt |-> 0]]
          /\ Answer(p, "loaded")
     ELSE Answer(p, "refused") /\ UNCHANGED model
  /\ UNCHANGED <<local, run, task, arena, orphaned, crashes>>

\* read_rank_batch: the rounds of every arena assigned to the rank.
RankBatch(p) == RoundsIn(Assigned(p))
Trained(p) == [loaded |-> model[p].loaded, version |-> model[p].version + 1,
               learnt |-> model[p].learnt + RankBatch(p)]
\* An update reads the arenas under their locks, and may fail.
UpdateModel(p) ==
  /\ Reads(p, "update") /\ Assigned(p) \intersect orphaned = {}
  /\ \/ /\ OwnsIdleRank(p)
        /\ \A w \in Assigned(p) : arena[w].version = Version(p)
        /\ model' = [model EXCEPT ![p] = Trained(p)]
        /\ Answer(p, "updated")
     \/ Answer(p, "refused") /\ UNCHANGED model
  /\ UNCHANGED <<local, run, task, arena, orphaned, crashes>>

Snapshot(p) ==
  /\ Reads(p, "snapshot")
  /\ IF OwnsIdleRank(p)
     THEN /\ inbox' = [inbox EXCEPT ![p] = Tail(@)]
          /\ outbox' = [outbox EXCEPT ![p] =
                          Append(@, [Message("snapshot", Version(p))
                                       EXCEPT !.state = model[p]])]
     ELSE Answer(p, "refused")
  /\ UNCHANGED <<local, run, task, model, arena, orphaned, crashes>>

\* What goes with a process: its task, its model, what it has not read.
Die(p) ==
  /\ run' = [run EXCEPT ![p] = "dead"]
  /\ inbox' = [inbox EXCEPT ![p] = <<>>]
  /\ task' = [w \in Workers |-> IF w = p THEN NoTask ELSE task[w]]
  /\ model' = [model EXCEPT ![p] = Unloaded]

\* StopWorkerCommand and ModelRankStopCommand: the process ends its sampling
\* and exits.
Exit(p) ==
  /\ Reads(p, "exit") /\ Die(p)
  /\ UNCHANGED <<local, outbox, arena, orphaned, crashes>>
---------------------------------------------------------------------------
(* Sampling *)

StartSampling(w) ==
  /\ Reads(w, "start")
  /\ IF Sampling(w)
     THEN Answer(w, "refusedStart") /\ UNCHANGED task
     ELSE /\ Answer(w, "started")
          /\ task' = [task EXCEPT ![w] =
                        [at |-> "running", version |-> Version(w)]]
  /\ UNCHANGED <<local, run, model, arena, orphaned, crashes>>

\* The round goes behind the others of its arena.
AcceptRound(w) == [arena EXCEPT ![w].count = @ + 1]
\* A round of the task ended: its model rank answered every decision at the
\* task's version (a local rank answers whatever its version), and
\* append_round added it under the arena's lock and notified the waiters.
\* The task ends by itself when the arena is full.  A lock that was never
\* released blocks the worker's event loop for good.
PlayRound(w) ==
  /\ run[w] = "up" /\ task[w].at = "running"
  /\ run[Rank(w)] = "up"
  /\ local \/ model[Rank(w)].version = task[w].version
  /\ arena[w].version = task[w].version
  /\ IF w \in orphaned THEN UNCHANGED <<arena, task>>
     ELSE /\ arena' = AcceptRound(w)
          /\ task' = [task EXCEPT ![w].at =
                        IF Full(arena[w].count + 1) THEN "full" ELSE @]
  /\ run' = IF w \in orphaned \/ "progress" \in orphaned
            THEN [run EXCEPT ![w] = "hung"] ELSE run
  /\ UNCHANGED <<local, inbox, outbox, model, orphaned, crashes>>

\* A round is rejected: it took too long, its inference was refused, its rank
\* is gone.  The other rounds are cancelled and the task fails.
FailRound(w) ==
  /\ run[w] = "up" /\ task[w].at = "running"
  /\ task' = [task EXCEPT ![w].at = "failed"]
  /\ UNCHANGED <<local, run, inbox, outbox, model, arena, orphaned, crashes>>

\* It does so for certain when its rank is dead: no socket tells the worker, as
\* the coordinator holds both ends of it too, but a decision has a deadline,
\* and so has its round.
DecisionExpires(w) == run[Rank(w)] = "dead" /\ FailRound(w)

\* The worker reports a failed task and exits; a command that is readable by
\* then may be handled first.
ReportFailure(w) ==
  /\ run[w] = "up" /\ task[w].at = "failed"
  /\ outbox' = [outbox EXCEPT ![w] =
                  Append(@, Message("failed", task[w].version))]
  /\ Die(w)
  /\ UNCHANGED <<local, arena, orphaned, crashes>>

\* Slip: the task is told to end and not awaited.
StillEnding(w) == task
Ended(w) == [task EXCEPT ![w] = NoTask]

\* The task is cancelled and awaited, with every round it still plays.
StopSampling(w) ==
  /\ Reads(w, "stop")
  /\ IF ~Sampling(w) THEN Answer(w, "alreadyStopped") /\ UNCHANGED task
     ELSE IF task[w].version # Version(w)
     THEN Answer(w, "refused") /\ UNCHANGED task
     ELSE /\ Answer(w, IF task[w].at = "failed" THEN "refused" ELSE "stopped")
          /\ task' = Ended(w)
  /\ UNCHANGED <<local, run, model, arena, orphaned, crashes>>
---------------------------------------------------------------------------
(* Failures *)

\* The locks a process may hold at this moment.
MayHold(p) ==
  IF Sampling(p) THEN {p, "progress"}
  ELSE IF Reads(p, "update") THEN Assigned(p) ELSE {}

\* A process is killed, within a locked section or not.
Crash(p) ==
  /\ crashes < MaxCrashes /\ run[p] \in {"setup", "up"}
  /\ Die(p) /\ crashes' = crashes + 1
  /\ orphaned' \in {orphaned} \union {orphaned \union {l} : l \in MayHold(p)}
  /\ UNCHANGED <<local, outbox, arena>>

\* A process finds the coordinator's end of its control socket closed.
LoseControl(p) ==
  /\ run[p] = "up" /\ inbox[p] = <<>>
  /\ Die(p)
  /\ UNCHANGED <<local, outbox, arena, orphaned, crashes>>

\* What a process does by itself; failures are not among it.
ProcessStep(p) ==
  \/ Setup(p) \/ LoadState(p) \/ UpdateModel(p) \/ Snapshot(p) \/ Exit(p)
  \/ p \in Workers /\ ( StartSampling(p) \/ PlayRound(p) \/ DecisionExpires(p)
                          \/ ReportFailure(p) \/ StopSampling(p) )
=============================================================================
