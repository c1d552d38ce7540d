---------------------- MODULE TrainingCoordinator_proofs ----------------------
(***************************************************************************)
(* The coordinator and its processes, for any number of workers, ranks,    *)
(* rounds and crashes.                                                     *)
(*                                                                         *)
(*  - No process outlives the coordinator (NoOrphans).  It ends only out   *)
(*    of "reaping", where it joins, terminates or kills one by one the     *)
(*    processes it found born when it got there; so the invariant Inv says *)
(*    that in "reaping" every process that lives is still on that list,    *)
(*    which holds because nothing is started any more, and that only       *)
(*    processes of the chosen configuration were ever started.             *)
(*  - Every exchange ends with both sides in step (GroupsInStep) and no    *)
(*    round is played off policy (PlayedOnPolicy).  The invariant Stepwise *)
(*    says of every stage and every process what may be on its way, what   *)
(*    version its model has, and what remains of this when nobody listens  *)
(*    any more.                                                            *)
(*  - The rounds counted are those learnt from (CountedIsLearnt): Tally    *)
(*    adds to what a rank has learnt from what it owes while the update is *)
(*    under way, and rests on lemmas about sums over finite sets.          *)
(*  - A run without a fault ends with a current checkpoint                 *)
(*    (CheckpointIsCurrent), by the invariant Ending.                      *)
(***************************************************************************)
EXTENDS TrainingCoordinator, TLAPS, SequenceTheorems, FiniteSetTheorems,
        WellFoundedInduction

Gone == {"unborn", "dead"}
RunOK == run \in [Procs -> {"unborn", "setup", "up", "hung", "dead"}]
OnlyChildren == \A p \in Procs : p \notin Children => run[p] = "unborn"
PendingOK == pending \subseteq Children
Listed == pc = "reaping" => \A p \in Procs : run[p] \in Gone \/ p \in pending

Inv == RunOK /\ OnlyChildren /\ PendingOK /\ Listed /\ NoOrphans

\* What a process does by itself or suffers: it starts no other, and stays
\* ended.
Quietens ==
  /\ UNCHANGED <<local, pc, pending>>
  /\ run' \in [Procs -> {"unborn", "setup", "up", "hung", "dead"}]
  /\ \A p \in Procs : /\ run[p] \in Gone => run'[p] \in Gone
                      /\ run[p] = "unborn" => run'[p] = "unborn"

LEMMA QuietInv == ASSUME Inv, Quietens PROVE Inv'
  BY DEF Inv, Quietens, RunOK, OnlyChildren, PendingOK, Listed, NoOrphans, Gone,
     Children, Procs

LEMMA DieQuiet ==
  ASSUME RunOK, NEW p \in Procs, run[p] \notin Gone, Die(p), UNCHANGED <<local, pc, pending>>
  PROVE  Quietens
  BY DEF RunOK, Die, Quietens, Gone

\* Every step of a child process, and every failure of one.
LEMMA ChildQuiet ==
  ASSUME RunOK, NEW p \in Procs, UNCHANGED coordVars,
         ProcessStep(p) \/ LoseControl(p) \/ Crash(p) \/ (p \in Workers /\ FailRound(p))
  PROVE  Quietens
<1> USE DEF RunOK, coordVars, Gone
<1>0. UNCHANGED <<pc, pending>>
  OBVIOUS
<1>1. CASE Setup(p)
  BY <1>0, <1>1 DEF Setup, Quietens
<1>2. CASE LoadState(p) \/ UpdateModel(p) \/ Snapshot(p)
  BY <1>0, <1>2 DEF LoadState, UpdateModel, Snapshot, Quietens
<1>3. CASE Exit(p)
  BY <1>0, <1>3, DieQuiet DEF Exit, Reads
<1>5. CASE p \in Workers /\ StartSampling(p)
  BY <1>0, <1>5 DEF StartSampling, Quietens
<1>6. CASE p \in Workers /\ PlayRound(p)
  BY <1>0, <1>6 DEF PlayRound, Quietens
<1>7. CASE p \in Workers /\ (DecisionExpires(p) \/ FailRound(p))
  BY <1>0, <1>7 DEF DecisionExpires, FailRound, Quietens
<1>8. CASE p \in Workers /\ ReportFailure(p)
  BY <1>0, <1>8, DieQuiet DEF ReportFailure
<1>9. CASE p \in Workers /\ StopSampling(p)
  BY <1>0, <1>9 DEF StopSampling, Quietens
<1>10. CASE LoseControl(p)
  BY <1>0, <1>10, DieQuiet DEF LoseControl
<1>11. CASE Crash(p)
  BY <1>0, <1>11, DieQuiet DEF Crash
<1> QED
  BY <1>1, <1>2, <1>3, <1>5, <1>6, <1>7, <1>8, <1>9, <1>10, <1>11 DEF
     ProcessStep

\* A step of the coordinator that starts no process: it goes on among a part
\* of the configuration, or lists all that was born.
Conducts ==
  /\ UNCHANGED <<local, run>>
  /\ \/ pc' \notin {"reaping", "ended"} /\ pending' \subseteq Children
     \/ pc' = "reaping" /\ pending' = Born

LEMMA ConductsInv == ASSUME Inv, Conducts PROVE Inv'
<1>1. Born \subseteq Children
  BY DEF Born
<1>2. \A p \in Procs : run[p] \in Gone \/ p \in Born
  BY DEF Inv, RunOK, OnlyChildren, Born, Gone
<1>3. Children' = Children
  BY DEF Conducts, Children
<1> QED
  BY <1>1, <1>2, <1>3 DEF Conducts, Inv, RunOK, OnlyChildren, PendingOK, Listed,
     NoOrphans, Gone

LEMMA Parts == Workers \subseteq Children /\ Ranks \subseteq Children /\ {RankZero} \subseteq Children
  BY PoolAssumption DEF Ranks, Children, RankZero, Procs

LEMMA CommandConducts ==
  ASSUME NEW ps \in SUBSET Children, NEW kind, NEW stage, stage \notin {"reaping", "ended"},
         Command(ps, kind, stage), UNCHANGED <<local, run>>
  PROVE  Conducts
  BY DEF Command, WaitFor, Poison, Conducts

LEMMA AbortConducts ==
  ASSUME NEW why, NEW causes, Abort(Workers, why, causes), UNCHANGED <<local, run>>
  PROVE  Conducts
  BY Parts DEF Abort, WaitFor, Conducts

LEMMA CollectConducts ==
  ASSUME PendingOK, NEW p, NEW kind, NEW next, next \notin {"reaping", "ended"},
         pc \notin {"reaping", "ended"},
         Collect(p, kind, next), UNCHANGED <<local, run>>
  PROVE  Conducts
  BY DEF Collect, Poison, Conducts, PendingOK

\* Every other step of the coordinator, and its troubles, conduct.
LEMMA CoordinatorConducts ==
  ASSUME Inv, NEW p \in Procs, NEW w \in Workers,
         \/ LoadStates \/ Close \/ BeginUpdate \/ Start \/ TargetOrStop \/ Count
         \/ Account \/ Finish \/ AskSnapshot \/ StateLoaded(p) \/ Started(p)
         \/ Aborted(p) \/ Stopped(p) \/ Updated(p) \/ Save(p) \/ WorkerFailed(w)
         \/ Late \/ RequestStop \/ Kill
  PROVE  Conducts
<1> USE DEF UnchangedProcesses, UnchangedRun, procVars
<1>0. PendingOK
  BY DEF Inv
<1>1. CASE LoadStates
  BY <1>1, Parts, CommandConducts DEF LoadStates
<1>2. CASE Close
  BY <1>2 DEF Close, WaitFor, Conducts
<1>3. CASE BeginUpdate
  BY <1>0, <1>3 DEF BeginUpdate, Conducts, PendingOK
<1>4. CASE Start
  BY <1>0, <1>4, Parts DEF Start, WaitFor, Reached, Conducts, PendingOK
<1>5. CASE TargetOrStop
  BY <1>5, Parts, CommandConducts DEF TargetOrStop, StopWorkers, Poison, Conducts
<1>6. CASE Count
  BY <1>0, <1>6, Parts, CommandConducts DEF Count, Conducts, PendingOK
<1>7. CASE Account \/ Finish \/ RequestStop
  BY <1>0, <1>7 DEF Account, Finish, RequestStop, Conducts, PendingOK
<1>8. CASE AskSnapshot
  BY <1>8, Parts, CommandConducts DEF AskSnapshot, WaitFor, Conducts
<1>9. CASE StateLoaded(p)
  BY <1>0, <1>9, CollectConducts DEF StateLoaded
<1>10. CASE Updated(p)
  BY <1>0, <1>10, CollectConducts DEF Updated
<1>11. CASE Started(p)
  BY <1>0, <1>11, AbortConducts DEF Started, GiveUp, ToldToStart, Conducts, PendingOK
<1>12. CASE Aborted(p)
  BY <1>0, <1>12 DEF Aborted, Poison, Conducts, PendingOK
<1>13. CASE Stopped(p)
  BY <1>0, <1>13 DEF Stopped, Poison, Conducts, PendingOK
<1>14. CASE Save(p)
  BY <1>0, <1>14 DEF Save, WaitFor, GiveUp, Poison, Conducts, PendingOK
<1>15. CASE WorkerFailed(w)
  <2>1. CASE StopWorkers(Workers \ {w}, "failed")
    BY <1>15, <2>1, Parts, CommandConducts DEF WorkerFailed, StopWorkers, Poison,
       Conducts
  <2>2. CASE StopWorkers(Workers, "failed")
    BY <1>15, <2>2, Parts, CommandConducts DEF WorkerFailed, StopWorkers, Poison,
       Conducts
  <2> QED
    BY <1>15, <2>1, <2>2 DEF WorkerFailed
<1>16. CASE Late
  <2>1. CASE Abort(ToldToStart, "reject", {"late"})
    BY <1>16, <2>1, AbortConducts DEF Late, ToldToStart
  <2> QED
    BY <1>16, <2>1, Parts DEF Late, Poison, WaitFor, Conducts
<1>17. CASE Kill
  BY <1>17 DEF Kill, Conducts
<1> QED
  BY <1>1, <1>2, <1>3, <1>4, <1>5, <1>6, <1>7, <1>8, <1>9, <1>10, <1>11, <1>12, <1>13,
     <1>14, <1>15, <1>16, <1>17

LEMMA InitInv == ASSUME Init PROVE Inv
  BY DEF Init, InitProcesses, Inv, RunOK, OnlyChildren, PendingOK, Listed, NoOrphans

LEMMA NextInv == ASSUME Inv, [Next]_vars PROVE Inv'
<1>1. CASE UNCHANGED vars
  BY <1>1 DEF vars, procVars, coordVars, Inv, RunOK, OnlyChildren, PendingOK, Listed,
     NoOrphans, Children, Procs
<1>2. ASSUME NEW p \in Procs, Spawn(p) PROVE Inv'
  <2>1. CASE Spawned(p) /\ run' = [run EXCEPT ![p] = "setup"] /\ pending' = pending \ {p}
             /\ pc' \in {"opened", pc}
    BY <1>2, <2>1 DEF Spawn, SpawnModelRank, SpawnWorker, Inv, RunOK,
       OnlyChildren, PendingOK,
       Listed, NoOrphans, Children, Procs
  <2>2. CASE UNCHANGED run /\ Poison("startup")
    BY <1>2, <2>2, ConductsInv DEF Spawn, Poison, Conducts
  <2> QED
    BY <1>2, <2>1, <2>2 DEF Spawn, SpawnModelRank, SpawnWorker, Spawned
<1>3. ASSUME NEW p \in Procs, Reap(p) PROVE Inv'
  BY <1>3 DEF Reap, Die, Inv, RunOK, OnlyChildren, PendingOK, Listed, NoOrphans, Gone,
     Children, Procs
<1>4. CASE End
  BY <1>4 DEF End, UnchangedRun, Inv, RunOK, OnlyChildren, PendingOK, Listed,
     NoOrphans, Gone,
     Children, Procs
<1>5. ASSUME NEW p \in Procs, ProcessStep(p) \/ LoseControl(p) \/ Crash(p), UNCHANGED coordVars
      PROVE  Inv'
  BY <1>5, ChildQuiet, QuietInv DEF Inv
<1>6. ASSUME NEW w \in Workers, FailRound(w), UNCHANGED coordVars PROVE Inv'
  BY <1>6, ChildQuiet, QuietInv DEF Inv, Procs
<1>7. CASE \/ LoadStates \/ Close \/ BeginUpdate \/ Start \/ TargetOrStop \/ Count
           \/ Account \/ Finish \/ AskSnapshot \/ Late \/ RequestStop \/ Kill
  BY <1>7, CoordinatorConducts, ConductsInv, PoolAssumption DEF Procs
<1>8. ASSUME NEW p \in Procs, \/ StateLoaded(p) \/ Started(p) \/ Aborted(p) \/ Stopped(p)
                              \/ Updated(p) \/ Save(p)
      PROVE  Inv'
  BY <1>8, CoordinatorConducts, ConductsInv, PoolAssumption
<1>9. ASSUME NEW w \in Workers, WorkerFailed(w) PROVE Inv'
  BY <1>9, CoordinatorConducts, ConductsInv, PoolAssumption DEF Procs
<1> QED
  BY <1>1, <1>2, <1>3, <1>4, <1>5, <1>6, <1>7, <1>8, <1>9
  DEF Next, CoordinatorStep, Trouble, ChildStep

\* Whatever ends a training run short of a kill of its coordinator, and
\* whatever was killed before, none of its processes is left
\* (training_runtime.py, close and _poison_and_close).
THEOREM NoProcessOutlives == Spec => []NoOrphans
<1>1. Inv => NoOrphans
  BY DEF Inv
<1> QED
  BY InitInv, NextInv, <1>1, PTL DEF Spec
---------------------------------------------------------------------------
(* Tuples *)

LEMMA Tuples ==
  ASSUME NEW a, NEW b, NEW c, NEW d
  PROVE  /\ Head(<<a>>) = a /\ Tail(<<a>>) = <<>> /\ Head(<<a, b>>) = a /\ Tail(<<a, b>>) = <<b>>
         /\ Append(<<>>, a) = <<a>> /\ Append(<<a>>, b) = <<a, b>>
         /\ <<a>> # <<>> /\ <<a, b>> # <<>> /\ <<a>> # <<b, c>>
         /\ <<a>> = <<b>> => a = b
         /\ <<a, b>> = <<c, d>> => a = c /\ b = d
         /\ <<>> \o <<a, b>> = <<a, b>>
<1>1. Head(<<a>>) = a /\ Tail(<<a>>) = <<>>
  OBVIOUS
<1>2. Head(<<a, b>>) = a /\ Tail(<<a, b>>) = <<b>>
  OBVIOUS
<1>3. Append(<<>>, a) = <<a>>
  OBVIOUS
<1>4. Append(<<a>>, b) = <<a, b>>
  <2>1. <<a>> \in Seq({a, b}) /\ Len(<<a>>) = 1 /\ <<a>>[1] = a
    OBVIOUS
  <2>2. /\ Append(<<a>>, b) \in Seq({a, b}) /\ Len(Append(<<a>>, b)) = 2
        /\ Append(<<a>>, b)[1] = a /\ Append(<<a>>, b)[2] = b
    BY <2>1
  <2>3. <<a, b>> \in Seq({a, b}) /\ Len(<<a, b>>) = 2 /\ <<a, b>>[1] = a /\ <<a, b>>[2] = b
    OBVIOUS
  <2>4. \A i \in 1 .. Len(Append(<<a>>, b)) : Append(<<a>>, b)[i] = <<a, b>>[i]
    <3>1. SUFFICES ASSUME NEW i \in 1 .. 2 PROVE Append(<<a>>, b)[i] = <<a, b>>[i]
      BY <2>2
    <3>2. i = 1 \/ i = 2
      OBVIOUS
    <3> QED
      BY <2>2, <2>3, <3>2
  <2>5. Len(Append(<<a>>, b)) = Len(<<a, b>>)
    BY <2>2, <2>3
  <2> DEFINE q == Append(<<a>>, b)
             r == <<a, b>>
  <2>6. q \in Seq({a, b}) /\ r \in Seq({a, b}) /\ Len(q) = Len(r)
        /\ \A i \in 1 .. Len(q) : q[i] = r[i]
    BY <2>2, <2>3, <2>4, <2>5
  <2> HIDE DEF q, r
  <2>7. q = r
    BY <2>6, SeqEqual
  <2> QED
    BY <2>7 DEF q, r
<1>5. <<a>> # <<>> /\ <<a, b>> # <<>>
  OBVIOUS
<1>6. <<a>> # <<b, c>>
  OBVIOUS
<1>7. (<<a>> = <<b>> => a = b) /\ (<<a, b>> = <<c, d>> => a = c /\ b = d)
  OBVIOUS
<1>8. <<>> \o <<a, b>> = <<a, b>>
  OBVIOUS
<1> QED
  BY <1>1, <1>2, <1>3, <1>4, <1>5, <1>6, <1>7, <1>8

---------------------------------------------------------------------------
(* The conversations.  At every stage of the coordinator, and for every    *)
(* process, it is known what may be on its way to it and from it and       *)
(* whether it plays; of a process that died during an exchange it is known *)
(* what it may have said before.  From "reaping" on nothing is listened to *)
(* any more.                                                               *)

Live(p) == run[p] # "dead"
Cmd(kind) == Message(kind, updates)
\* The good answer to a command, or a refusal.
Fine(m, kind) == Good(m, kind) \/ m.kind = "refused"
Over(m) == Good(m, "stopped") \/ m.kind \in {"refused", "failed"}
Mute(p) == inbox[p] = <<>> /\ outbox[p] = <<>>
Quiet(p) == Mute(p) /\ ~Sampling(p)
Plays(p) == p \in Workers /\ task[p].at # "none" /\ task[p].version = updates

Still == {"opening", "opened", "idle", "reset", "counting", "updated", "scheduled",
          "final", "closing"}
Closed == {"reaping", "ended", "killed"}

\* A live process that was sent a command has read it or not; a dead one had
\* answered it or not.
Asked(p, kind, answer) ==
  /\ ~Sampling(p)
  /\ \/ inbox[p] = <<Cmd(kind)>> /\ outbox[p] = <<>>
     \/ /\ inbox[p] = <<>> /\ outbox[p] # <<>> /\ outbox[p] = <<Head(outbox[p])>>
        /\ Fine(Head(outbox[p]), answer)
Left(p, answer) == outbox[p] = <<>> \/ Fine(Head(outbox[p]), answer)
Exchange(p, kind, answer) ==
  /\ p \in pending /\ Live(p) => Asked(p, kind, answer)
  /\ p \in pending /\ ~Live(p) => Left(p, answer)
  /\ p \notin pending /\ Live(p) => Quiet(p)

Collects(p) == Mute(p) /\ IF p \in Workers THEN Plays(p) ELSE ~Sampling(p)
OnStart(p) ==
  \/ inbox[p] = <<Cmd("start")>> /\ outbox[p] = <<>> /\ ~Sampling(p)
  \/ inbox[p] = <<>> /\ outbox[p] = <<Cmd("started")>> /\ Plays(p)
Starting(p) ==
  /\ p \in pending /\ Live(p) => OnStart(p)
  /\ p \in pending /\ ~Live(p) => Left(p, "started")
  /\ p \notin pending /\ Live(p) => Collects(p)

\* A worker told to stop before it read the start, or before it was heard.
OnAbort(p) ==
  \/ inbox[p] = <<Cmd("start"), Cmd("stop")>> /\ outbox[p] = <<>> /\ ~Sampling(p)
  \/ /\ inbox[p] = <<Cmd("stop")>> /\ outbox[p] \in {<<>>, <<Cmd("started")>>}
     /\ Plays(p)
  \/ /\ inbox[p] = <<>> /\ ~Sampling(p)
     /\ outbox[p] \in {<<Cmd("stopped")>>, <<Cmd("refused")>>,
                       <<Cmd("started"), Cmd("stopped")>>,
                       <<Cmd("started"), Cmd("refused")>>}
LeftAborted(p) ==
  \/ outbox[p] \in {<<>>, <<Cmd("started")>>} \/ Over(Head(outbox[p]))
  \/ outbox[p] \in {<<Cmd("started"), Cmd("stopped")>>,
                    <<Cmd("started"), Cmd("refused")>>,
                    <<Cmd("started"), Cmd("failed")>>}
Aborting(p) ==
  /\ p \in pending /\ Live(p) => OnAbort(p)
  /\ p \in pending /\ ~Live(p) => LeftAborted(p)
  /\ p \notin pending /\ Live(p) => Quiet(p)

OnStop(p) ==
  \/ inbox[p] = <<Cmd("stop")>> /\ outbox[p] = <<>> /\ Plays(p)
  \/ /\ inbox[p] = <<>> /\ ~Sampling(p)
     /\ outbox[p] \in {<<Cmd("stopped")>>, <<Cmd("refused")>>}
Stopping(p) ==
  /\ p \in pending /\ Live(p) => OnStop(p)
  /\ p \in pending /\ ~Live(p) => outbox[p] = <<>> \/ Over(Head(outbox[p]))
  /\ p \notin pending /\ Live(p) => Quiet(p)

Talk(p) ==
  /\ pc \in Still /\ Live(p) => Quiet(p)
  /\ pc = "loading" => Exchange(p, "load", "loaded")
  /\ pc = "updating" => Exchange(p, "update", "updated")
  /\ pc \in {"snapshotting", "finalizing"} => Exchange(p, "snapshot", "snapshot")
  /\ pc = "starting" => Starting(p)
  /\ pc = "aborting" => Aborting(p)
  /\ pc = "waiting" /\ Live(p) => Collects(p)
  /\ pc = "stopping" => Stopping(p)
\* A process that is not up yet has said nothing.
Young(p) == run[p] \in {"unborn", "setup"} => outbox[p] = <<>> /\ ~Sampling(p)

\* The version of a rank's model: the coordinator's, and one more once it has
\* learnt from the update under way.
At(p, v) == model[p].loaded /\ model[p].version = v
Settled == {"idle", "reset", "starting", "aborting", "waiting", "stopping", "counting",
            "scheduled", "final", "snapshotting", "finalizing"}
InStep(p) ==
  /\ pc = "loading" =>
       /\ p \notin pending => At(p, updates)
       /\ p \in pending /\ inbox[p] = <<>> /\ Good(Head(outbox[p]), "loaded")
            => At(p, updates)
  /\ pc = "updating" =>
       /\ p \notin pending => At(p, updates + 1)
       /\ p \in pending /\ inbox[p] # <<>> => At(p, updates)
       /\ p \in pending /\ inbox[p] = <<>> /\ Good(Head(outbox[p]), "updated")
            => At(p, updates + 1)
  /\ pc = "updated" => At(p, updates + 1)
  /\ pc \in Settled => At(p, updates)
Learns(p) == p \in Ranks /\ Live(p) => InStep(p)
\* A snapshot that was sent holds the model of the counters.
Sent(p) ==
  pc \in {"snapshotting", "finalizing"} /\ p \in pending
    /\ outbox[p] # <<>> /\ Good(Head(outbox[p]), "snapshot")
    => Head(outbox[p]).state.version = updates
Orderly(p) == Talk(p) /\ Young(p) /\ Learns(p) /\ Sent(p)

\* What is left of a conversation when the coordinator stops listening: a
\* worker that plays, or is about to, plays the version of its rank, and
\* nothing will change that one.
Letters ==
  {<<>>, <<Cmd("start"), Cmd("stop")>>, <<Cmd("load")>>, <<Cmd("update")>>,
   <<Cmd("snapshot")>>, <<Cmd("start")>>, <<Cmd("stop")>>, <<Cmd("exit")>>}
Starts(w) == inbox[w] \in {<<Cmd("start")>>, <<Cmd("start"), Cmd("stop")>>}
Stays(p) ==
  model[p].version = updates /\ inbox[p] \notin {<<Cmd("load")>>, <<Cmd("update")>>}
OnPolicy(w) ==
  /\ Sampling(w) => task[w].version = updates
  /\ (Sampling(w) \/ Starts(w)) /\ Live(Rank(w)) => Stays(Rank(w))
Remains ==
  /\ \A p \in Procs : Live(p) => inbox[p] \in Letters
  /\ \A w \in Workers : Live(w) => OnPolicy(w)

\* The shapes of the variables.
Stores ==
  /\ updates \in Nat /\ pc \in Stages /\ local \in BOOLEAN
  /\ inbox = [p \in Procs |-> inbox[p]] /\ outbox = [p \in Procs |-> outbox[p]]
  /\ task \in [Workers -> [at : {"none", "running", "full", "failed"}, version : Nat]]
  /\ arena \in [Workers -> [version : Nat, count : Nat]]
  /\ model = [p \in Procs |-> [loaded |-> model[p].loaded, version |-> model[p].version,
                               learnt |-> model[p].learnt]]
Addressed ==
  /\ pc = "opening" => \A p \in pending : run[p] = "unborn"
  /\ pc \in {"starting", "aborting", "stopping"} => pending \subseteq Workers
  /\ pc \in {"snapshotting", "finalizing"} => pending \subseteq {RankZero}

Stepwise ==
  /\ Inv /\ Stores /\ Addressed /\ NeverConfused
  /\ \A p \in Procs : Orderly(p)
  /\ Remains
  /\ saved.model.version = saved.updates

---------------------------------------------------------------------------
(* What the steps of a process do to its conversation *)

\* Nothing that counts: it comes up, hangs, plays or fails a round, or it is
\* another process that acts.
Unmoved(p) ==
  /\ inbox'[p] = inbox[p] /\ outbox'[p] = outbox[p] /\ model'[p] = model[p]
  /\ Live(p)' <=> Live(p)
  /\ run'[p] \in {"unborn", "setup"} => run[p] \in {"unborn", "setup"}
  /\ Sampling(p)' <=> Sampling(p)
  /\ Sampling(p) => task'[p].version = task[p].version

LEMMA UnmovedPlays ==
  ASSUME NEW p \in Procs, UNCHANGED <<pc, pending, updates, local>>, Unmoved(p)
  PROVE  /\ Plays(p)' <=> Plays(p)
         /\ Mute(p)' <=> Mute(p)
         /\ Quiet(p)' <=> Quiet(p)
         /\ \A kind : Cmd(kind)' = Cmd(kind)
         /\ \A m, kind : Good(m, kind)' <=> Good(m, kind)
         /\ \A m, kind : Fine(m, kind)' <=> Fine(m, kind)
         /\ \A m : Over(m)' <=> Over(m)
  BY DEF Unmoved, Plays, Mute, Quiet, Cmd, Good, Fine, Over, Sampling, Message

LEMMA UnmovedTalk ==
  ASSUME NEW p \in Procs, UNCHANGED <<pc, pending, updates, local>>, Unmoved(p), Talk(p)
  PROVE  Talk(p)'
<1>1. pc' = pc /\ pending' = pending
  OBVIOUS
<1>2. ASSUME NEW kind, NEW answer, Exchange(p, kind, answer) PROVE Exchange(p, kind, answer)'
  BY <1>1, <1>2, UnmovedPlays DEF Exchange, Asked, Left, Unmoved
<1>3. Collects(p) => Collects(p)'
  BY UnmovedPlays DEF Collects, Unmoved
<1>4. Starting(p) => Starting(p)'
  BY <1>1, <1>3, UnmovedPlays DEF Starting, OnStart, Left, Unmoved
<1>5. Aborting(p) => Aborting(p)'
  <2>1. OnAbort(p) => OnAbort(p)'
    BY UnmovedPlays DEF OnAbort, Unmoved
  <2>2. LeftAborted(p) => LeftAborted(p)'
    BY UnmovedPlays DEF LeftAborted, Unmoved
  <2> QED
    BY <1>1, <2>1, <2>2, UnmovedPlays DEF Aborting, Unmoved
<1>6. Stopping(p) => Stopping(p)'
  BY <1>1, UnmovedPlays DEF Stopping, OnStop, Unmoved
<1> QED
  BY <1>1, <1>2, <1>3, <1>4, <1>5, <1>6, UnmovedPlays DEF Talk, Unmoved

LEMMA UnmovedOrderly ==
  ASSUME NEW p \in Procs, UNCHANGED <<pc, pending, updates, local>>, Unmoved(p), Orderly(p)
  PROVE  Orderly(p)'
<1>1. pc' = pc /\ pending' = pending /\ updates' = updates /\ Ranks' = Ranks
  BY DEF Ranks
<1>2. Talk(p)'
  BY UnmovedTalk DEF Orderly
<1>3. Young(p)'
  BY DEF Orderly, Young, Unmoved
<1>4. Learns(p)'
  <2>1. \A v : At(p, v)' <=> At(p, v)
    BY DEF At, Unmoved
  <2> QED
    BY <1>1, <2>1, UnmovedPlays DEF Orderly, Learns, InStep, Unmoved
<1>5. Sent(p)'
  BY <1>1, UnmovedPlays DEF Orderly, Sent, Unmoved
<1> QED
  BY <1>2, <1>3, <1>4, <1>5 DEF Orderly

\* It dies, perhaps with a last word.
Dies(p) ==
  /\ Live(p) /\ run'[p] = "dead"
  /\ \/ outbox'[p] = outbox[p]
     \/ \E m : /\ outbox'[p] = Append(outbox[p], m)
               /\ \/ m.kind = "refused" /\ (outbox[p] = <<>> \/ p \notin Workers)
                  \/ m = Cmd("failed") /\ Plays(p)

LEMMA DiesOrderly ==
  ASSUME NEW p \in Procs, UNCHANGED <<coordVars, local>>, Dies(p), Orderly(p), Addressed
  PROVE  Orderly(p)'
<1>1. pc' = pc /\ pending' = pending /\ updates' = updates
  BY DEF coordVars
<1>2. /\ \A kind : Cmd(kind)' = Cmd(kind)
      /\ \A m, kind : Good(m, kind)' <=> Good(m, kind)
      /\ \A m, kind : Fine(m, kind)' <=> Fine(m, kind)
      /\ \A m : Over(m)' <=> Over(m)
  BY <1>1 DEF Cmd, Good, Fine, Over, Message
<1>3. Live(p) /\ ~Live(p)'
  BY DEF Dies, Live
<1>4. Cmd("failed").kind = "failed" /\ \A kind : Cmd(kind).kind = kind /\ Cmd(kind).version = updates
  BY DEF Cmd, Message
<1>5. Plays(p) => Sampling(p)
  BY DEF Plays, Sampling
<1>6. ASSUME NEW kind, NEW answer, Exchange(p, kind, answer) PROVE Exchange(p, kind, answer)'
  <2>1. CASE p \notin pending
    BY <1>1, <1>3, <2>1 DEF Exchange
  <2>2. CASE outbox'[p] = outbox[p]
    BY <1>1, <1>2, <1>3, <1>6, <2>2 DEF Exchange, Asked, Left
  <2>3. ASSUME p \in pending, NEW m, outbox'[p] = Append(outbox[p], m), m.kind = "refused"
        PROVE  Left(p, answer)'
    <3>1. Asked(p, kind, answer)
      BY <1>3, <1>6, <2>3 DEF Exchange
    <3>2. CASE outbox[p] = <<>>
      <4>1. outbox'[p] = <<m>> /\ Head(<<m>>) = m
        BY <2>3, <3>2, Tuples
      <4> QED
        BY <1>2, <2>3, <4>1 DEF Left, Fine
    <3>3. CASE outbox[p] # <<>>
      <4> DEFINE x == Head(outbox[p])
      <4>1. outbox[p] = <<x>> /\ Fine(x, answer)
        BY <3>1, <3>3 DEF Asked
      <4>2. Append(<<x>>, m) = <<x, m>> /\ Head(<<x, m>>) = x
        BY Tuples
      <4> HIDE DEF x
      <4>3. Head(outbox'[p]) = x
        BY <2>3, <4>1, <4>2
      <4> QED
        BY <1>2, <4>1, <4>3 DEF Left
    <3> QED
      BY <3>2, <3>3
  <2>4. CASE p \in pending /\ Plays(p)
    BY <1>3, <1>5, <1>6, <2>4 DEF Exchange, Asked
  <2> QED
    BY <1>1, <1>3, <2>1, <2>2, <2>3, <2>4 DEF Dies, Exchange
<1>7. ASSUME Starting(p), pc = "starting" PROVE Starting(p)'
  <2>1. CASE p \notin pending
    BY <1>1, <1>3, <2>1 DEF Starting
  <2>2. CASE p \in pending /\ p \notin Workers
    BY <1>7, <2>2 DEF Addressed
  <2>3. CASE p \in pending /\ outbox[p] = <<>>
    <3>1. outbox'[p] = <<>> \/ \E m : outbox'[p] = <<m>> /\ m.kind = "refused"
      BY <1>3, <1>5, <1>7, <2>3, Tuples DEF Dies, Starting, OnStart
    <3> QED
      BY <1>1, <1>2, <1>3, <3>1, Tuples DEF Starting, Left, Fine
  <2>4. CASE p \in pending /\ outbox[p] = <<Cmd("started")>>
    <3>1. outbox'[p] = <<Cmd("started")>> \/ \E m : outbox'[p] = <<Cmd("started"), m>>
      BY <2>4, Tuples DEF Dies
    <3>2. Head(outbox'[p]) = Cmd("started")
      BY <3>1, Tuples
    <3>3. Good(Cmd("started"), "started")
      BY <1>4 DEF Good
    <3> QED
      BY <1>1, <1>2, <1>3, <3>2, <3>3 DEF Starting, Left, Fine
  <2> QED
    BY <1>3, <1>7, <2>1, <2>3, <2>4 DEF Starting, OnStart
<1>8. ASSUME Aborting(p), pc = "aborting" PROVE Aborting(p)'
  <2>1. CASE p \notin pending
    BY <1>1, <1>3, <2>1 DEF Aborting
  <2>2. CASE p \in pending
    <3>1. OnAbort(p) /\ p \in Workers
      BY <1>3, <1>8, <2>2 DEF Aborting, Addressed
    <3>2. /\ Over(Cmd("stopped")) /\ Over(Cmd("refused")) /\ Over(Cmd("failed"))
          /\ \A m : m.kind = "refused" => Over(m)
      BY <1>4 DEF Over, Good
    <3>3. ASSUME outbox'[p] = outbox[p] PROVE LeftAborted(p)'
      <4>1. \A kind : Head(<<Cmd(kind)>>) = Cmd(kind)
        BY Tuples
      <4>2. LeftAborted(p)
        BY <3>1, <3>2, <4>1 DEF OnAbort, LeftAborted
      <4> QED
        BY <1>2, <3>3, <4>2 DEF LeftAborted
    <3>4. ASSUME NEW m, outbox'[p] = Append(outbox[p], m), m.kind = "refused", outbox[p] = <<>>
          PROVE  LeftAborted(p)'
      BY <1>2, <3>2, <3>4, Tuples DEF LeftAborted
    <3>5. ASSUME outbox'[p] = Append(outbox[p], Cmd("failed")), Plays(p)
          PROVE  LeftAborted(p)'
      <4>1. outbox[p] \in {<<>>, <<Cmd("started")>>}
        BY <1>5, <3>1, <3>5 DEF OnAbort
      <4>2. outbox'[p] \in {<<Cmd("failed")>>, <<Cmd("started"), Cmd("failed")>>}
        <5>1. CASE outbox[p] = <<>>
          BY <3>5, <5>1, Tuples
        <5>2. CASE outbox[p] = <<Cmd("started")>>
          <6>1. Append(<<Cmd("started")>>, Cmd("failed")) = <<Cmd("started"), Cmd("failed")>>
            BY Tuples
          <6> QED
            BY <3>5, <5>2, <6>1
        <5> QED
          BY <4>1, <5>1, <5>2
      <4> QED
        BY <1>2, <3>2, <4>2, Tuples DEF LeftAborted
    <3>6. LeftAborted(p)'
      <4>1. CASE outbox'[p] # outbox[p]
        <5>1. PICK m : /\ outbox'[p] = Append(outbox[p], m)
                       /\ \/ m.kind = "refused" /\ (outbox[p] = <<>> \/ p \notin Workers)
                          \/ m = Cmd("failed") /\ Plays(p)
          BY <4>1 DEF Dies
        <5> QED
          BY <3>1, <3>4, <3>5, <5>1
      <4> QED
        BY <3>3, <4>1
    <3> QED
      BY <1>1, <1>3, <2>2, <3>6 DEF Aborting
  <2> QED
    BY <2>1, <2>2
<1>9. ASSUME Stopping(p), pc = "stopping" PROVE Stopping(p)'
  <2>1. CASE p \notin pending
    BY <1>1, <1>3, <2>1 DEF Stopping
  <2>2. CASE p \in pending
    <3>1. OnStop(p) /\ p \in Workers
      BY <1>3, <1>9, <2>2 DEF Stopping, Addressed
    <3>2. /\ Over(Cmd("stopped")) /\ Over(Cmd("refused")) /\ Over(Cmd("failed"))
          /\ \A m : m.kind = "refused" => Over(m)
      BY <1>4 DEF Over, Good
    <3>3. outbox'[p] = <<>> \/ Over(Head(outbox'[p]))
      <4>1. CASE outbox'[p] = outbox[p]
        BY <3>1, <3>2, <4>1, Tuples DEF OnStop
      <4>2. ASSUME NEW m, outbox'[p] = Append(outbox[p], m), m.kind = "refused", outbox[p] = <<>>
            PROVE  Over(Head(outbox'[p]))
        BY <3>2, <4>2, Tuples
      <4>3. CASE outbox'[p] = Append(outbox[p], Cmd("failed")) /\ Plays(p)
        BY <1>5, <3>1, <3>2, <4>3, Tuples DEF OnStop
      <4> QED
        BY <3>1, <4>1, <4>2, <4>3 DEF Dies
    <3> QED
      BY <1>1, <1>2, <1>3, <2>2, <3>3 DEF Stopping
  <2> QED
    BY <2>1, <2>2
<1>10. Talk(p)'
  BY <1>1, <1>3, <1>6, <1>7, <1>8, <1>9 DEF Talk, Orderly
<1>11. Young(p)' /\ Learns(p)'
  BY <1>3 DEF Young, Learns, Dies
<1>12. Sent(p)'
  <2> SUFFICES ASSUME pc \in {"snapshotting", "finalizing"}, p \in pending, outbox'[p] # <<>>,
                      Good(Head(outbox'[p]), "snapshot")
               PROVE  Head(outbox'[p]).state.version = updates
    BY <1>1, <1>2 DEF Sent
  <2>1. Asked(p, "snapshot", "snapshot") /\ Sent(p)
    BY <1>3 DEF Orderly, Talk, Exchange
  <2>2. CASE outbox'[p] = outbox[p]
    BY <2>1, <2>2 DEF Sent
  <2>3. ASSUME NEW m, outbox'[p] = Append(outbox[p], m), m.kind = "refused"
        PROVE  Head(outbox'[p]).state.version = updates
    <3>1. CASE outbox[p] = <<>>
      <4>1. Head(outbox'[p]) = m
        BY <2>3, <3>1, Tuples
      <4> QED
        BY <2>3, <4>1 DEF Good
    <3>2. CASE outbox[p] # <<>>
      <4> DEFINE x == Head(outbox[p])
      <4>1. outbox[p] = <<x>>
        BY <2>1, <3>2 DEF Asked
      <4>2. Append(<<x>>, m) = <<x, m>> /\ Head(<<x, m>>) = x
        BY Tuples
      <4>3. Head(outbox'[p]) = Head(outbox[p])
        BY <2>3, <4>1, <4>2
      <4> QED
        BY <2>1, <3>2, <4>3 DEF Sent
    <3> QED
      BY <3>1, <3>2
  <2>4. ~Plays(p)
    BY <1>5, <2>1 DEF Asked
  <2> QED
    BY <2>2, <2>3, <2>4 DEF Dies
<1> QED
  BY <1>10, <1>11, <1>12 DEF Orderly

\* A command is read only at its stage.
LEMMA Reading ==
  ASSUME NEW p \in Procs, NEW kind, Talk(p), pc \in Stages \ Closed, Reads(p, kind)
  PROVE  /\ p \in pending /\ Live(p) /\ run[p] = "up" /\ Version(p) = updates
         /\ \/ /\ pc = "loading" /\ kind = "load" /\ inbox[p] = <<Cmd("load")>>
               /\ outbox[p] = <<>> /\ ~Sampling(p)
            \/ /\ pc = "updating" /\ kind = "update" /\ inbox[p] = <<Cmd("update")>>
               /\ outbox[p] = <<>> /\ ~Sampling(p)
            \/ /\ pc \in {"snapshotting", "finalizing"} /\ kind = "snapshot"
               /\ inbox[p] = <<Cmd("snapshot")>> /\ outbox[p] = <<>> /\ ~Sampling(p)
            \/ /\ pc = "starting" /\ kind = "start" /\ inbox[p] = <<Cmd("start")>>
               /\ outbox[p] = <<>> /\ ~Sampling(p)
            \/ /\ pc = "aborting" /\ kind = "start"
               /\ inbox[p] = <<Cmd("start"), Cmd("stop")>>
               /\ outbox[p] = <<>> /\ ~Sampling(p)
            \/ /\ pc = "aborting" /\ kind = "stop" /\ inbox[p] = <<Cmd("stop")>>
               /\ outbox[p] \in {<<>>, <<Cmd("started")>>} /\ Plays(p)
            \/ /\ pc = "stopping" /\ kind = "stop" /\ inbox[p] = <<Cmd("stop")>>
               /\ outbox[p] = <<>> /\ Plays(p)
<1>1. Live(p) /\ run[p] = "up" /\ inbox[p] # <<>> /\ Head(inbox[p]).kind = kind
  BY DEF Reads, Live
<1>2. \A k : Cmd(k).kind = k /\ Cmd(k).version = updates
  BY DEF Cmd, Message
<1>3. \A k : Head(<<Cmd(k)>>) = Cmd(k) /\ Head(<<Cmd(k), Cmd("stop")>>) = Cmd(k)
  BY Tuples
<1>4. ~Quiet(p) /\ ~Mute(p) /\ ~Collects(p)
  BY <1>1 DEF Quiet, Mute, Collects
<1>5. ASSUME NEW k, NEW answer, Exchange(p, k, answer)
      PROVE  p \in pending /\ inbox[p] = <<Cmd(k)>> /\ outbox[p] = <<>> /\ ~Sampling(p)
  BY <1>1, <1>4, <1>5 DEF Exchange, Asked
<1>6. CASE pc \in {"loading", "updating", "snapshotting", "finalizing"}
  BY <1>1, <1>2, <1>3, <1>5, <1>6 DEF Talk, Version
<1>7. CASE pc = "starting"
  BY <1>1, <1>2, <1>3, <1>4, <1>7 DEF Talk, Starting, OnStart, Version
<1>8. CASE pc = "aborting"
  <2>1. p \in pending /\ OnAbort(p)
    BY <1>1, <1>4, <1>8 DEF Talk, Aborting
  <2>2. CASE inbox[p] = <<Cmd("start"), Cmd("stop")>>
    BY <1>1, <1>2, <1>3, <1>8, <2>1, <2>2, Tuples DEF OnAbort, Version
  <2>3. CASE inbox[p] = <<Cmd("stop")>>
    BY <1>1, <1>2, <1>3, <1>8, <2>1, <2>3, Tuples DEF OnAbort, Version
  <2> QED
    BY <1>1, <2>1, <2>2, <2>3 DEF OnAbort
<1>9. CASE pc = "stopping"
  BY <1>1, <1>2, <1>3, <1>4, <1>9 DEF Talk, Stopping, OnStop, Version
<1>10. pc \in {"loading", "updating", "snapshotting", "finalizing", "starting", "aborting",
               "stopping"}
  BY <1>1, <1>4 DEF Talk, Stages, Closed, Still
<1> QED
  BY <1>1, <1>6, <1>7, <1>8, <1>9, <1>10

\* An exchange the process answered.
LEMMA AnsweredTalk ==
  ASSUME NEW p \in Procs, UNCHANGED <<coordVars, local>>, NEW kind, NEW answer, NEW m,
         Live(p), run'[p] = run[p], p \in pending, ~Sampling(p)',
         inbox'[p] = <<>>, outbox'[p] = <<m>>, Fine(m, answer)
  PROVE  Exchange(p, kind, answer)'
<1>1. updates' = updates /\ pending' = pending
  BY DEF coordVars
<1>2. Live(p)' /\ p \in pending'
  BY <1>1 DEF Live
<1>3. Fine(m, answer)' /\ Head(<<m>>) = m /\ <<m>> # <<>>
  BY <1>1, Tuples DEF Fine, Good
<1> QED
  BY <1>2, <1>3 DEF Exchange, Asked

LEMMA AnswerShape ==
  ASSUME NEW p \in Procs, NEW kind, NEW c, NEW answer, Stores, inbox[p] = <<c>>, outbox[p] = <<>>,
         Answer(p, answer)
  PROVE  inbox'[p] = <<>> /\ outbox'[p] = <<Message(answer, Version(p))>>
<1>1. inbox'[p] = Tail(inbox[p]) /\ outbox'[p] = Append(outbox[p], Message(answer, Version(p)))
  BY DEF Answer, Stores
<1> QED
  BY <1>1, Tuples

LEMMA LoadStateOrderly ==
  ASSUME NEW p \in Procs, UNCHANGED coordVars, Stores, Orderly(p), pc \notin Closed, LoadState(p)
  PROVE  Orderly(p)'
<1>1. /\ pc = "loading" /\ p \in pending /\ inbox[p] = <<Cmd("load")>> /\ outbox[p] = <<>>
      /\ ~Sampling(p) /\ Live(p) /\ run[p] = "up" /\ Version(p) = updates
  BY Reading DEF Orderly, LoadState, Stores
<1>2. UNCHANGED <<local, run, task, pc, pending, updates>> /\ Ranks' = Ranks
  BY DEF LoadState, coordVars, Ranks
<1>3. PICK answer \in {"loaded", "refused"} :
        /\ Answer(p, answer)
        /\ answer = "loaded" =>
             model' = [model EXCEPT ![p] = [loaded |-> TRUE, version |-> updates, learnt |-> 0]]
        /\ p \in Ranks => answer = "loaded"
  BY <1>1 DEF LoadState, OwnsIdleRank
<1>4. inbox'[p] = <<>> /\ outbox'[p] = <<Message(answer, updates)>>
  BY <1>1, <1>3, AnswerShape
<1>5. Fine(Message(answer, updates), "loaded")
  BY DEF Fine, Good, Message
<1>6. ~Sampling(p)'
  BY <1>1, <1>2 DEF Sampling
<1>7. Exchange(p, "load", "loaded")'
  BY <1>1, <1>2, <1>4, <1>5, <1>6, AnsweredTalk
<1>8. Talk(p)'
  BY <1>1, <1>2, <1>7 DEF Talk, Still
<1>9. Young(p)' /\ Sent(p)'
  BY <1>1, <1>2 DEF Young, Sent
<1>10. Learns(p)'
  <2>1. ASSUME p \in Ranks PROVE At(p, updates)'
    <3>1. model'[p] = [loaded |-> TRUE, version |-> updates, learnt |-> 0]
      BY <1>3, <2>1 DEF Stores
    <3> QED
      BY <1>2, <3>1 DEF At
  <2> QED
    BY <1>1, <1>2, <2>1 DEF Learns, InStep, Settled
<1> QED
  BY <1>8, <1>9, <1>10 DEF Orderly

LEMMA UpdateModelOrderly ==
  ASSUME NEW p \in Procs, UNCHANGED coordVars, Stores, Orderly(p), pc \notin Closed,
         UpdateModel(p)
  PROVE  Orderly(p)'
<1>1. /\ pc = "updating" /\ p \in pending /\ inbox[p] = <<Cmd("update")>> /\ outbox[p] = <<>>
      /\ ~Sampling(p) /\ Live(p) /\ run[p] = "up" /\ Version(p) = updates
  BY Reading DEF Orderly, UpdateModel, Stores
<1>2. UNCHANGED <<local, run, task, pc, pending, updates>> /\ Ranks' = Ranks
  BY DEF UpdateModel, coordVars, Ranks
<1>3. PICK answer \in {"updated", "refused"} :
        /\ Answer(p, answer)
        /\ answer = "updated" => model' = [model EXCEPT ![p] = Trained(p)]
  BY DEF UpdateModel
<1>4. inbox'[p] = <<>> /\ outbox'[p] = <<Message(answer, updates)>>
  BY <1>1, <1>3, AnswerShape
<1>5. Fine(Message(answer, updates), "updated")
  BY DEF Fine, Good, Message
<1>6. ~Sampling(p)'
  BY <1>1, <1>2 DEF Sampling
<1>7. Exchange(p, "update", "updated")'
  BY <1>1, <1>2, <1>4, <1>5, <1>6, AnsweredTalk
<1>8. Talk(p)'
  BY <1>1, <1>2, <1>7 DEF Talk, Still
<1>9. Young(p)' /\ Sent(p)'
  BY <1>1, <1>2 DEF Young, Sent
<1>10. Learns(p)'
  <2>1. CASE p \notin Ranks
    BY <1>2, <2>1 DEF Learns
  <2>2. CASE p \in Ranks
    <3>1. At(p, updates)
      BY <1>1, <2>2, Tuples DEF Orderly, Learns, InStep
    <3>2. ASSUME answer = "updated" PROVE At(p, updates + 1)'
      <4>1. model'[p] = Trained(p)
        <5>1. \A r : [model EXCEPT ![p] = r][p] = r
          BY DEF Stores
        <5> QED
          BY <1>3, <3>2, <5>1
      <4>2. model'[p].loaded = model[p].loaded /\ model'[p].version = model[p].version + 1
        BY <4>1 DEF Trained
      <4> QED
        BY <1>2, <3>1, <4>2 DEF At
    <3>3. ASSUME Good(Head(outbox[p]), "updated")' PROVE answer = "updated"
      BY <1>2, <1>4, <3>3, Tuples DEF Good, Message
    <3>4. InStep(p)'
      BY <1>1, <1>2, <1>4, <3>2, <3>3 DEF InStep, Settled
    <3> QED
      BY <3>4 DEF Learns
  <2> QED
    BY <2>1, <2>2
<1> QED
  BY <1>8, <1>9, <1>10 DEF Orderly

LEMMA SnapshotOrderly ==
  ASSUME NEW p \in Procs, UNCHANGED coordVars, Stores, Orderly(p), Addressed, pc \notin Closed,
         Snapshot(p)
  PROVE  Orderly(p)'
<1>1. /\ pc \in {"snapshotting", "finalizing"} /\ p \in pending
      /\ inbox[p] = <<Cmd("snapshot")>> /\ outbox[p] = <<>>
      /\ ~Sampling(p) /\ Live(p) /\ run[p] = "up" /\ Version(p) = updates
  BY Reading DEF Orderly, Snapshot, Stores
<1>2. UNCHANGED <<local, run, task, model, pc, pending, updates>> /\ Ranks' = Ranks
  BY DEF Snapshot, coordVars, Ranks
<1>3. p \in Ranks
  BY <1>1, PoolAssumption DEF Addressed, RankZero, Ranks
<1>4. At(p, updates)
  BY <1>1, <1>3 DEF Orderly, Learns, InStep, Settled
<1> DEFINE m == [Message("snapshot", updates) EXCEPT !.state = model[p]]
<1>5. inbox'[p] = <<>> /\ outbox'[p] = <<m>>
  <2>1. inbox'[p] = Tail(inbox[p]) /\ outbox'[p] = Append(outbox[p], m)
    BY <1>1, <1>3 DEF Snapshot, OwnsIdleRank, Stores
  <2> HIDE DEF m
  <2> QED
    BY <1>1, <2>1, Tuples
<1>6. m.kind = "snapshot" /\ m.version = updates /\ m.state = model[p]
  BY DEF Message
<1> HIDE DEF m
<1>7. Fine(m, "snapshot")
  BY <1>6 DEF Fine, Good
<1>8. ~Sampling(p)'
  BY <1>1, <1>2 DEF Sampling
<1>9. Exchange(p, "snapshot", "snapshot")'
  BY <1>1, <1>2, <1>5, <1>7, <1>8, AnsweredTalk
<1>10. Talk(p)'
  BY <1>1, <1>2, <1>9 DEF Talk, Still
<1>11. Young(p)'
  BY <1>1, <1>2 DEF Young
<1>12. Learns(p)'
  <2>1. At(p, updates)'
    BY <1>2, <1>4 DEF At
  <2> QED
    BY <1>1, <1>2, <2>1 DEF Learns, InStep, Settled
<1>13. Sent(p)'
  BY <1>2, <1>4, <1>5, <1>6, Tuples DEF Sent, At
<1> QED
  BY <1>10, <1>11, <1>12, <1>13 DEF Orderly

LEMMA StartOrderly ==
  ASSUME NEW p \in Workers, UNCHANGED coordVars, Stores, Orderly(p), pc \notin Closed,
         StartSampling(p)
  PROVE  Orderly(p)'
<1>0. p \in Procs
  BY DEF Procs
<1>1. /\ pc \in {"starting", "aborting"} /\ p \in pending /\ Live(p) /\ run[p] = "up"
      /\ Version(p) = updates /\ outbox[p] = <<>> /\ ~Sampling(p)
      /\ pc = "starting" => inbox[p] = <<Cmd("start")>>
      /\ pc = "aborting" => inbox[p] = <<Cmd("start"), Cmd("stop")>>
  BY <1>0, Reading DEF Orderly, StartSampling, Stores
<1>2. UNCHANGED <<local, run, model, pc, pending, updates>> /\ Ranks' = Ranks
  BY DEF StartSampling, coordVars, Ranks
<1>3. /\ inbox'[p] = Tail(inbox[p]) /\ outbox'[p] = Append(outbox[p], Message("started", updates))
      /\ task'[p] = [at |-> "running", version |-> updates]
  BY <1>0, <1>1 DEF StartSampling, Answer, Stores
<1>4. /\ outbox'[p] = <<Cmd("started")>>
      /\ pc = "starting" => inbox'[p] = <<>>
      /\ pc = "aborting" => inbox'[p] = <<Cmd("stop")>>
  <2>1. Message("started", updates) = Cmd("started")
    BY DEF Cmd
  <2>2. outbox'[p] = <<Cmd("started")>>
    BY <1>1, <1>3, <2>1, Tuples
  <2>3. CASE pc = "starting"
    BY <1>1, <1>3, <2>2, <2>3, Tuples
  <2>4. CASE pc = "aborting"
    <3>1. Tail(<<Cmd("start"), Cmd("stop")>>) = <<Cmd("stop")>>
      BY Tuples
    <3> QED
      BY <1>1, <1>3, <2>2, <2>4, <3>1
  <2> QED
    BY <1>1, <2>3, <2>4
<1>5. Plays(p)' /\ Live(p)' /\ \A kind : Cmd(kind)' = Cmd(kind)
  BY <1>1, <1>2, <1>3 DEF Plays, Live, Cmd, Message
<1>6. pc = "starting" => OnStart(p)'
  BY <1>4, <1>5 DEF OnStart
<1>7. pc = "aborting" => OnAbort(p)'
  BY <1>4, <1>5 DEF OnAbort
<1>8. Talk(p)'
  BY <1>1, <1>2, <1>5, <1>6, <1>7 DEF Talk, Starting, Aborting, Still
<1>9. Young(p)' /\ Sent(p)'
  BY <1>1, <1>2 DEF Young, Sent
<1>10. Learns(p)'
  BY <1>1, <1>2 DEF Orderly, Learns, InStep, At, Live, Settled
<1> QED
  BY <1>8, <1>9, <1>10 DEF Orderly

LEMMA StopOrderly ==
  ASSUME NEW p \in Workers, UNCHANGED coordVars, Stores, Orderly(p), pc \notin Closed,
         StopSampling(p)
  PROVE  Orderly(p)'
<1>0. p \in Procs
  BY DEF Procs
<1>1. /\ pc \in {"aborting", "stopping"} /\ p \in pending /\ Live(p) /\ run[p] = "up"
      /\ Version(p) = updates /\ Plays(p) /\ inbox[p] = <<Cmd("stop")>>
      /\ pc = "stopping" => outbox[p] = <<>>
      /\ outbox[p] \in {<<>>, <<Cmd("started")>>}
  BY <1>0, Reading DEF Orderly, StopSampling, Stores
<1>2. UNCHANGED <<local, run, model, pc, pending, updates>> /\ Ranks' = Ranks
  BY DEF StopSampling, coordVars, Ranks
<1>3. PICK answer \in {"stopped", "refused"} :
        /\ inbox'[p] = Tail(inbox[p])
        /\ outbox'[p] = Append(outbox[p], Message(answer, updates))
        /\ task'[p] = NoTask
  BY <1>0, <1>1 DEF StopSampling, Plays, Sampling, Answer, Ended, Stores
<1>4. inbox'[p] = <<>> /\ ~Sampling(p)'
  BY <1>1, <1>3, Tuples DEF Sampling, NoTask
<1>5. Live(p)' /\ \A kind : Cmd(kind)' = Cmd(kind)
  BY <1>1, <1>2 DEF Live, Cmd, Message
<1>6. outbox'[p] \in {<<Cmd(answer)>>, <<Cmd("started"), Cmd(answer)>>}
  <2>1. CASE outbox[p] = <<>>
    BY <1>3, <2>1, Tuples DEF Cmd
  <2>2. CASE outbox[p] = <<Cmd("started")>>
    <3>1. Append(<<Cmd("started")>>, Cmd(answer)) = <<Cmd("started"), Cmd(answer)>>
      BY Tuples
    <3> QED
      BY <1>3, <2>2, <3>1 DEF Cmd
  <2> QED
    BY <1>1, <2>1, <2>2
<1>7. pc = "stopping" => OnStop(p)'
  <2>1. pc = "stopping" => outbox'[p] = <<Cmd(answer)>>
    <3>1. Message(answer, updates) = Cmd(answer)
      BY DEF Cmd
    <3> QED
      BY <1>1, <1>3, <3>1, Tuples
  <2> QED
    BY <1>4, <1>5, <2>1 DEF OnStop
<1>8. pc = "aborting" => OnAbort(p)'
  BY <1>4, <1>5, <1>6 DEF OnAbort
<1>9. Talk(p)'
  BY <1>1, <1>2, <1>5, <1>7, <1>8 DEF Talk, Stopping, Aborting, Still
<1>10. Young(p)' /\ Sent(p)'
  BY <1>1, <1>2 DEF Young, Sent
<1>11. Learns(p)'
  BY <1>1, <1>2 DEF Orderly, Learns, InStep, At, Live, Settled
<1> QED
  BY <1>9, <1>10, <1>11 DEF Orderly

LEMMA DiesStep ==
  ASSUME NEW p \in Procs, UNCHANGED coordVars, Stores, Inv, Orderly(p), Addressed, pc \notin Closed,
         Live(p), run' = [run EXCEPT ![p] = "dead"], UNCHANGED local,
         \/ outbox' = outbox
         \/ \E m : /\ outbox' = [outbox EXCEPT ![p] = Append(@, m)]
                   /\ \/ m.kind = "refused" /\ (outbox[p] = <<>> \/ p \notin Workers)
                      \/ m = Cmd("failed") /\ Plays(p)
  PROVE  Orderly(p)'
<1>1. run'[p] = "dead"
  BY DEF Inv, RunOK
<1>2. \A m : [outbox EXCEPT ![p] = Append(@, m)][p] = Append(outbox[p], m)
  BY DEF Stores
<1>3. Dies(p)
  BY <1>1, <1>2 DEF Dies
<1> QED
  BY <1>3, DiesOrderly

\* A process that plays plays the version of the coordinator.
LEMMA SamplingPlays ==
  ASSUME Stepwise, NEW w \in Workers, Live(w), Sampling(w)
  PROVE  Plays(w) /\ task[w].version = updates
  BY DEF Stepwise, Remains, OnPolicy, Plays, Sampling

\* Whatever a process does by itself, its conversation stays in order.
LEMMA ChildOrderly ==
  ASSUME Stepwise, NEW p \in Procs, UNCHANGED coordVars, pc \notin Closed,
         ProcessStep(p) \/ Crash(p) \/ (p \in Workers /\ FailRound(p))
  PROVE  Orderly(p)'
<1> USE DEF Stepwise
<1>0. Live(p)
  BY DEF Inv, RunOK, Live, ProcessStep, Crash, Setup, LoadState, UpdateModel,
     Snapshot, Exit,
     StartSampling, PlayRound, DecisionExpires, FailRound, ReportFailure, StopSampling, Reads
<1>1. CASE Setup(p)
  <2>1. CASE run' = [run EXCEPT ![p] = "up"] /\ UNCHANGED outbox
    <3>1. Unmoved(p) /\ UNCHANGED local
      BY <1>1, <2>1, <1>0 DEF Setup, Unmoved, Inv, RunOK, Live, Sampling
    <3> QED
      BY <3>1, UnmovedOrderly DEF coordVars
  <2>2. CASE /\ run' = [run EXCEPT ![p] = "dead"]
             /\ outbox' = [outbox EXCEPT ![p] = Append(@, Message("refused", 0))]
    <3>1. outbox[p] = <<>> /\ Message("refused", 0).kind = "refused" /\ UNCHANGED local
      BY <1>1 DEF Setup, Orderly, Young, Message
    <3> QED
      BY <1>0, <2>2, <3>1, DiesStep
  <2> QED
    BY <1>1, <2>1, <2>2 DEF Setup
<1>2. CASE LoadState(p)
  BY <1>2, LoadStateOrderly
<1>3. CASE UpdateModel(p)
  BY <1>3, UpdateModelOrderly
<1>4. CASE Snapshot(p)
  BY <1>4, SnapshotOrderly
<1>5. CASE Exit(p)
  BY <1>0, <1>5, DiesStep DEF Exit, Die
<1>7. CASE p \in Workers /\ StartSampling(p)
  BY <1>7, StartOrderly
<1>8. CASE p \in Workers /\ PlayRound(p)
  <2>1. /\ UNCHANGED <<local, inbox, outbox, model>> /\ run[p] = "up"
        /\ run'[p] \in {"up", "hung"} /\ task[p].at = "running"
        /\ task'[p].at \in {"running", "full"} /\ task'[p].version = task[p].version
    <3>1. UNCHANGED <<local, inbox, outbox, model>> /\ run[p] = "up" /\ task[p].at = "running"
      BY <1>8 DEF PlayRound
    <3>2. run'[p] \in {"up", "hung"}
      BY <1>8 DEF PlayRound, Inv, RunOK
    <3>3. task'[p].at \in {"running", "full"} /\ task'[p].version = task[p].version
      BY <1>8, <3>1 DEF PlayRound, Stores
    <3> QED
      BY <3>1, <3>2, <3>3
  <2>2. Unmoved(p)
    BY <1>8, <2>1 DEF Unmoved, Live, Sampling
  <2> QED
    BY <2>1, <2>2, UnmovedOrderly DEF coordVars
<1>9. CASE p \in Workers /\ (DecisionExpires(p) \/ FailRound(p))
  <2>1. /\ UNCHANGED <<local, run, inbox, outbox, model>> /\ task[p].at = "running"
        /\ task'[p].at = "failed" /\ task'[p].version = task[p].version
    BY <1>9 DEF DecisionExpires, FailRound, Stores
  <2>2. Unmoved(p)
    BY <1>9, <2>1 DEF Unmoved, Live, Sampling
  <2> QED
    BY <2>1, <2>2, UnmovedOrderly DEF coordVars
<1>10. CASE p \in Workers /\ ReportFailure(p)
  <2>1. Plays(p) /\ Message("failed", task[p].version) = Cmd("failed")
    BY <1>0, <1>10, SamplingPlays DEF ReportFailure, Sampling, Cmd
  <2> QED
    BY <1>0, <1>10, <2>1, DiesStep DEF ReportFailure, Die
<1>11. CASE p \in Workers /\ StopSampling(p)
  BY <1>11, StopOrderly
<1>12. CASE Crash(p)
  BY <1>0, <1>12, DiesStep DEF Crash, Die
<1> QED
  BY <1>1, <1>2, <1>3, <1>4, <1>5, <1>7, <1>8, <1>9, <1>10, <1>11, <1>12
     DEF ProcessStep

---------------------------------------------------------------------------
(* What is left of the conversations *)

InOrder == Stores /\ \A p \in Procs : Orderly(p)

\* As long as the coordinator listens, the conversations themselves say so.
LEMMA OrderlyRemains == InOrder /\ pc \notin Closed => Remains
<1> SUFFICES ASSUME InOrder, pc \notin Closed PROVE Remains
  OBVIOUS
<1> USE DEF InOrder
<1>0. \A p \in Procs : Talk(p) /\ Learns(p)
  BY DEF Orderly
<1>1. pc \in Stages
  BY DEF Stores
<1>2. ASSUME NEW p \in Procs, Live(p) PROVE inbox[p] \in Letters
  <2>1. Talk(p)
    BY <1>0
  <2>2. CASE pc \in Still
    BY <1>2, <2>1, <2>2 DEF Talk, Quiet, Mute, Letters
  <2>3. CASE pc \in {"loading", "updating", "snapshotting", "finalizing"}
    BY <1>2, <2>1, <2>3 DEF Talk, Exchange, Asked, Quiet, Mute, Letters
  <2>4. CASE pc \in {"starting", "waiting"}
    BY <1>2, <2>1, <2>4 DEF Talk, Starting, OnStart, Collects, Mute, Letters
  <2>5. CASE pc \in {"aborting", "stopping"}
    BY <1>2, <2>1, <2>5 DEF Talk, Aborting, OnAbort, Stopping, OnStop, Quiet,
       Mute, Letters
  <2> QED
    BY <1>1, <2>2, <2>3, <2>4, <2>5 DEF Stages, Closed, Still
<1>3. \A kind : <<Cmd(kind)>> # <<>> /\ <<Cmd("start"), Cmd("stop")>> # <<Cmd(kind)>>
  BY Tuples
<1>4. \A kind : Cmd(kind).kind = kind
  BY DEF Cmd, Message
<1>5. \A i, j : i # j => <<Cmd(i)>> # <<Cmd(j)>>
  <2>1. \A i, j : Cmd(i) = Cmd(j) => i = j
    BY <1>4
  <2> QED
    BY <2>1, Tuples
<1>6. ASSUME NEW p \in Procs, Live(p), pc \in {"starting", "waiting", "aborting", "stopping"}
      PROVE  inbox[p] \notin {<<Cmd("load")>>, <<Cmd("update")>>}
  <2>1. Talk(p)
    BY <1>0
  <2>2. CASE pc \in {"starting", "waiting"}
    BY <1>3, <1>5, <1>6, <2>1, <2>2 DEF Talk, Starting, OnStart, Collects, Mute
  <2>3. CASE pc \in {"aborting", "stopping"}
    BY <1>3, <1>5, <1>6, <2>1, <2>3 DEF Talk, Aborting, OnAbort, Stopping,
       OnStop, Quiet, Mute
  <2> QED
    BY <1>6, <2>2, <2>3
<1>7. ASSUME NEW w \in Workers, Live(w) PROVE OnPolicy(w)
  <2>0. w \in Procs /\ Rank(w) \in Procs /\ Rank(w) \in Ranks
    BY PoolAssumption DEF Procs, Rank, Ranks
  <2>1. Talk(w)
    BY <1>0, <2>0
  <2>2. CASE Quiet(w)
    BY <1>3, <2>2 DEF Quiet, Mute, OnPolicy, Starts
  <2>3. CASE pc \in {"loading", "updating", "snapshotting", "finalizing"}
    <3>1. ~Sampling(w) /\ ~Starts(w)
      BY <1>3, <1>5, <1>7, <2>1, <2>3 DEF Talk, Exchange, Asked, Quiet, Mute, Starts
    <3> QED
      BY <3>1 DEF OnPolicy
  <2>4. CASE pc \in {"starting", "waiting", "aborting", "stopping"}
    <3>1. Sampling(w) => task[w].version = updates
      <4>1. CASE pc \in {"starting", "waiting"}
        BY <1>7, <2>1, <4>1 DEF Talk, Starting, OnStart, Collects, Plays, Sampling
      <4>2. CASE pc \in {"aborting", "stopping"}
        BY <1>7, <2>1, <4>2 DEF Talk, Aborting, OnAbort, Stopping, OnStop, Plays,
           Quiet
      <4> QED
        BY <2>4, <4>1, <4>2
    <3>2. Live(Rank(w)) => model[Rank(w)].version = updates
      BY <1>0, <2>0, <2>4 DEF Learns, InStep, Settled, At
    <3>3. Live(Rank(w)) => Stays(Rank(w))
      BY <1>6, <2>0, <2>4, <3>2 DEF Stays
    <3> QED
      BY <3>1, <3>3 DEF OnPolicy
  <2> QED
    BY <1>1, <1>7, <2>1, <2>2, <2>3, <2>4 DEF Talk, Stages, Closed, Still
<1> QED
  BY <1>2, <1>7 DEF Remains

\* When it does not listen any more: no process that lives is told to start,
\* or gets another model, while one plays by it.
Harmless(p) ==
  Live(p)' =>
    /\ Live(p)
    /\ inbox[p] \in Letters => inbox'[p] \in Letters
    /\ Stays(p) => Stays(p)'
    /\ p \in Workers =>
         /\ Sampling(p)' => \/ Sampling(p) /\ task'[p].version = task[p].version
                            \/ task'[p].version = updates
         /\ Sampling(p)' \/ Starts(p)' => Sampling(p) \/ Starts(p)

LEMMA HarmlessRemains ==
  ASSUME Remains, \A p \in Procs : Harmless(p), UNCHANGED <<updates, local>>
  PROVE  Remains'
<1>1. Letters' = Letters
  BY DEF Letters, Cmd, Message
<1>2. ASSUME NEW p \in Procs, Live(p)' PROVE inbox'[p] \in Letters'
  BY <1>1, <1>2 DEF Remains, Harmless
<1>3. ASSUME NEW w \in Workers, Live(w)' PROVE OnPolicy(w)'
  <2>1. w \in Procs /\ Rank(w) \in Procs /\ Rank(w)' = Rank(w)
    BY PoolAssumption DEF Procs, Rank
  <2>2. Harmless(w) /\ Harmless(Rank(w))
    BY <2>1
  <2>3. OnPolicy(w)
    BY <1>3, <2>1, <2>2 DEF Remains, Harmless
  <2>4. Sampling(w)' => task'[w].version = updates'
    BY <1>3, <2>2, <2>3 DEF Harmless, OnPolicy
  <2>5. ASSUME Sampling(w)' \/ Starts(w)', Live(Rank(w))' PROVE Stays(Rank(w))'
    <3> DEFINE r == Rank(w)
    <3> HIDE DEF r
    <3>1. Rank(w) = r
      BY DEF r
    <3>3. r \in Procs /\ Harmless(r)
      BY <2>1, <2>2, <3>1
    <3> QED
      BY <1>3, <2>1, <2>2, <2>3, <2>5, <3>1, <3>3 DEF Harmless, OnPolicy, Stays, Live
  <2> QED
    BY <2>4, <2>5 DEF OnPolicy
<1> QED
  BY <1>2, <1>3 DEF Remains

\* Only the conversation of the process itself changes.
Apart(p) ==
  /\ run'[p] = run[p] /\ inbox'[p] = inbox[p] /\ outbox'[p] = outbox[p] /\ model'[p] = model[p]
  /\ p \in Workers => task'[p] = task[p]

LEMMA ChildApart ==
  ASSUME Stores, Inv, NEW p \in Procs,
         ProcessStep(p) \/ Crash(p) \/ LoseControl(p) \/ (p \in Workers /\ FailRound(p))
  PROVE  UNCHANGED local /\ \A q \in Procs \ {p} : Apart(q)
<1> USE DEF Apart
<1>1. ASSUME Die(p), outbox' = outbox \/ \E m : outbox' = [outbox EXCEPT ![p] = Append(@, m)]
      PROVE  \A q \in Procs \ {p} : Apart(q)
  BY <1>1 DEF Die, Stores, Inv, RunOK
<1>3. CASE Setup(p)
  BY <1>3 DEF Setup, Stores, Inv, RunOK
<1>4. CASE LoadState(p)
  BY <1>4 DEF LoadState, Answer, Stores, Inv, RunOK
<1>5. CASE UpdateModel(p)
  BY <1>5 DEF UpdateModel, Answer, Stores, Inv, RunOK
<1>6. CASE Snapshot(p)
  BY <1>6 DEF Snapshot, Answer, Stores, Inv, RunOK
<1>7. CASE Exit(p) \/ Crash(p) \/ LoseControl(p)
  BY <1>1, <1>7 DEF Exit, Crash, LoseControl
<1>8. CASE p \in Workers /\ StartSampling(p)
  BY <1>8 DEF StartSampling, Answer, Stores, Inv, RunOK
<1>9. CASE p \in Workers /\ PlayRound(p)
  BY <1>9 DEF PlayRound, Stores, Inv, RunOK
<1>10. CASE p \in Workers /\ (DecisionExpires(p) \/ FailRound(p))
  BY <1>10 DEF DecisionExpires, FailRound, Stores
<1>11. CASE p \in Workers /\ ReportFailure(p)
  BY <1>1, <1>11 DEF ReportFailure
<1>12. CASE p \in Workers /\ StopSampling(p)
  BY <1>12 DEF StopSampling, Answer, Ended, Stores, Inv, RunOK
<1> QED
  BY <1>3, <1>4, <1>5, <1>6, <1>7, <1>8, <1>9, <1>10, <1>11, <1>12
  DEF ProcessStep, Setup, LoadState, UpdateModel, Snapshot, Exit, Crash, LoseControl,
      StartSampling, PlayRound, DecisionExpires, FailRound, ReportFailure, StopSampling

LEMMA ApartUnmoved ==
  ASSUME NEW p \in Procs, Apart(p)
  PROVE  Unmoved(p) /\ (UNCHANGED updates => Harmless(p))
  BY DEF Apart, Unmoved, Harmless, Live, Sampling, Stays, Starts, Letters, Cmd,
     Message

\* The variables keep their shapes.
LEMMA ChildStores ==
  ASSUME Stores, Inv, UNCHANGED coordVars, NEW p \in Procs,
         ProcessStep(p) \/ Crash(p) \/ LoseControl(p) \/ (p \in Workers /\ FailRound(p)),
         Reads(p, "start") => Version(p) \in Nat
  PROVE  Stores'
<1>0. updates' \in Nat /\ pc' \in Stages
  BY DEF Stores, coordVars
<1>1. UNCHANGED local
  BY ChildApart
<1>2. inbox' = [q \in Procs |-> inbox'[q]]
  <2>1. CASE UNCHANGED inbox
    BY <2>1 DEF Stores
  <2>2. CASE \E b : inbox' = [inbox EXCEPT ![p] = b]
    BY <2>2 DEF Stores
  <2> QED
    BY <2>1, <2>2 DEF ProcessStep, Setup, LoadState, UpdateModel, Snapshot, Exit,
       Crash,
       LoseControl, StartSampling, PlayRound, DecisionExpires, FailRound, ReportFailure, StopSampling,
       Answer, Die
<1>3. outbox' = [q \in Procs |-> outbox'[q]]
  <2>1. CASE UNCHANGED outbox
    BY <2>1 DEF Stores
  <2>2. CASE \E b : outbox' = [outbox EXCEPT ![p] = b]
    BY <2>2 DEF Stores
  <2> QED
    BY <2>1, <2>2 DEF ProcessStep, Setup, LoadState, UpdateModel, Snapshot, Exit,
       Crash,
       LoseControl, StartSampling, PlayRound, DecisionExpires, FailRound, ReportFailure, StopSampling,
       Answer, Die
<1>4. model' = [q \in Procs |-> [loaded |-> model'[q].loaded, version |-> model'[q].version,
                                learnt |-> model'[q].learnt]]
  <2>1. CASE UNCHANGED model
    BY <2>1 DEF Stores
  <2>2. ASSUME NEW v, NEW b, NEW l,
               model' = [model EXCEPT ![p] = [loaded |-> b, version |-> v, learnt |-> l]]
        PROVE  model' = [q \in Procs |-> [loaded |-> model'[q].loaded,
                         version |-> model'[q].version, learnt |-> model'[q].learnt]]
    BY <2>2 DEF Stores
  <2>3. Trained(p) = [loaded |-> model[p].loaded, version |-> model[p].version + 1,
                      learnt |-> model[p].learnt + RankBatch(p)]
    BY DEF Trained
  <2>4. CASE model' = [model EXCEPT ![p] = Trained(p)]
    BY <2>2, <2>3, <2>4
  <2>5. CASE model' = [model EXCEPT ![p] = Unloaded]
    BY <2>2, <2>5 DEF Unloaded
  <2>6. CASE LoadState(p)
    BY <2>1, <2>2, <2>6 DEF LoadState
  <2> QED
    BY <2>1, <2>4, <2>5, <2>6 DEF ProcessStep, Setup, UpdateModel, Snapshot,
       Exit, Crash, LoseControl, StartSampling, PlayRound, DecisionExpires, FailRound, ReportFailure,
       StopSampling, Die
<1>5. task' \in [Workers -> [at : {"none", "running", "full", "failed"}, version : Nat]]
  <2> DEFINE Tasks == [at : {"none", "running", "full", "failed"}, version : Nat]
  <2>1. NoTask \in Tasks /\ task \in [Workers -> Tasks]
    BY DEF NoTask, Stores
  <2>2. CASE UNCHANGED task
    BY <2>1, <2>2
  <2>3. CASE Die(p)
    BY <2>1, <2>3 DEF Die
  <2>4. CASE p \in Workers /\ StartSampling(p)
    BY <2>1, <2>4 DEF StartSampling
  <2>5. CASE p \in Workers /\ PlayRound(p)
    BY <2>1, <2>5 DEF PlayRound
  <2>6. CASE p \in Workers /\ FailRound(p)
    BY <2>1, <2>6 DEF FailRound
  <2>7. CASE p \in Workers /\ StopSampling(p)
    BY <2>1, <2>7 DEF StopSampling, Ended
  <2> QED
    BY <2>2, <2>3, <2>4, <2>5, <2>6, <2>7 DEF ProcessStep, Setup, LoadState,
       UpdateModel, Snapshot,
       Exit, Crash, LoseControl, DecisionExpires, ReportFailure
<1>6. arena' \in [Workers -> [version : Nat, count : Nat]]
  <2>1. CASE UNCHANGED arena
    BY <2>1 DEF Stores
  <2>2. CASE p \in Workers /\ arena' = AcceptRound(p)
    BY <2>2 DEF Stores, AcceptRound
  <2> QED
    BY <2>1, <2>2 DEF ProcessStep, Setup, LoadState, UpdateModel, Snapshot, Exit,
       Crash,
       LoseControl, StartSampling, PlayRound, DecisionExpires, FailRound, ReportFailure, StopSampling
<1> QED
  BY <1>0, <1>1, <1>2, <1>3, <1>4, <1>5, <1>6 DEF Stores

\* A process that reads a command reads the first of a few letters.
LEMMA ReadLetter ==
  ASSUME Remains, NEW p \in Procs, NEW kind, Reads(p, kind)
  PROVE  /\ Live(p) /\ inbox[p] \in Letters /\ Version(p) = updates
         /\ \/ inbox[p] = <<Cmd(kind)>> /\ Tail(inbox[p]) = <<>>
            \/ /\ kind = "start" /\ inbox[p] = <<Cmd("start"), Cmd("stop")>>
               /\ Tail(inbox[p]) = <<Cmd("stop")>>
<1>1. Live(p) /\ inbox[p] # <<>> /\ Head(inbox[p]).kind = kind
  BY DEF Reads, Live
<1>2. inbox[p] \in Letters
  BY <1>1 DEF Remains
<1>3. \A k : Cmd(k).kind = k /\ Cmd(k).version = updates
  BY DEF Cmd, Message
<1>4. \A k : Head(<<Cmd(k)>>) = Cmd(k) /\ Tail(<<Cmd(k)>>) = <<>>
  BY Tuples
<1>5. CASE inbox[p] = <<Cmd("start"), Cmd("stop")>>
  <2>1. Head(inbox[p]) = Cmd("start") /\ Tail(inbox[p]) = <<Cmd("stop")>>
    BY <1>5, Tuples
  <2> QED
    BY <1>1, <1>2, <1>3, <1>5, <2>1 DEF Version
<1>6. ASSUME NEW k, inbox[p] = <<Cmd(k)>>
      PROVE  /\ inbox[p] = <<Cmd(kind)>> /\ Tail(inbox[p]) = <<>> /\ Version(p) = updates
  BY <1>1, <1>3, <1>4, <1>6 DEF Version
<1> QED
  BY <1>1, <1>2, <1>5, <1>6 DEF Letters

LEMMA ChildHarmless ==
  ASSUME Stepwise, NEW p \in Procs, UNCHANGED coordVars,
         ProcessStep(p) \/ Crash(p) \/ LoseControl(p) \/ (p \in Workers /\ FailRound(p))
  PROVE  Harmless(p)
<1> USE DEF Stepwise
<1>0. /\ updates' = updates /\ Letters' = Letters
      /\ \A kind : Cmd(kind)' = Cmd(kind)
  BY DEF coordVars, Letters, Cmd, Message
<1>1. \A k : /\ <<Cmd(k)>> # <<>> /\ <<Cmd("start"), Cmd("stop")>> # <<Cmd(k)>>
             /\ <<Cmd("start"), Cmd("stop")>> # <<>>
  BY Tuples
<1>2. \A i, j : i # j => <<Cmd(i)>> # <<Cmd(j)>>
  <2>1. \A k : Cmd(k).kind = k
    BY DEF Cmd, Message
  <2>2. \A i, j : Cmd(i) = Cmd(j) => i = j
    BY <2>1
  <2> QED
    BY <2>2, Tuples
<1>3. ASSUME run' = [run EXCEPT ![p] = "dead"] PROVE Harmless(p)
  BY <1>3 DEF Inv, RunOK, Harmless, Live
<1>4. CASE Setup(p)
  <2>1. CASE UNCHANGED outbox
    BY <1>0, <1>4, <2>1 DEF Setup, Inv, RunOK, Harmless, Live, Stays, Sampling, Starts
  <2> QED
    BY <1>3, <1>4, <2>1 DEF Setup
<1>5. CASE LoadState(p) \/ UpdateModel(p)
  <2>1. PICK kind \in {"load", "update"} : Reads(p, kind)
    BY <1>5 DEF LoadState, UpdateModel
  <2>2. inbox[p] = <<Cmd(kind)>> /\ Live(p)
    BY <2>1, ReadLetter
  <2>3. inbox'[p] = <<>> /\ UNCHANGED <<run, task>>
    BY <1>5, <2>1, <2>2, ReadLetter DEF LoadState, UpdateModel, Answer, Stores
  <2>4. ~Stays(p)
    BY <2>2 DEF Stays
  <2>5. ~Starts(p)'
    BY <1>0, <1>1, <2>3 DEF Starts
  <2> QED
    BY <2>2, <2>3, <2>4, <2>5 DEF Harmless, Letters, Sampling
<1>6. CASE Snapshot(p)
  <2>1. inbox[p] = <<Cmd("snapshot")>> /\ Live(p) /\ Tail(inbox[p]) = <<>>
    BY <1>6, ReadLetter DEF Snapshot
  <2>2. inbox'[p] = <<>> /\ UNCHANGED <<run, task, model>>
    BY <1>6, <2>1 DEF Snapshot, Answer, Stores
  <2>3. ~Starts(p)' /\ (Stays(p) => Stays(p)')
    BY <1>0, <1>1, <2>2 DEF Starts, Stays
  <2> QED
    BY <2>1, <2>2, <2>3 DEF Harmless, Letters, Sampling
<1>7. CASE Exit(p) \/ Crash(p) \/ LoseControl(p) \/ (p \in Workers /\ ReportFailure(p))
  BY <1>3, <1>7 DEF Exit, Crash, LoseControl, ReportFailure, Die
<1>8. CASE p \in Workers /\ StartSampling(p)
  <2>1. /\ Starts(p) /\ Live(p) /\ Version(p) = updates
        /\ Tail(inbox[p]) \in {<<>>, <<Cmd("stop")>>}
    BY <1>8, ReadLetter DEF StartSampling, Starts
  <2>2. inbox'[p] = Tail(inbox[p]) /\ UNCHANGED <<run, model>>
    BY <1>8 DEF StartSampling, Answer, Stores
  <2>3. task'[p] = task[p] \/ task'[p].version = updates
    BY <1>8, <2>1 DEF StartSampling, Stores
  <2>4. Stays(p)' <=> model[p].version = updates
    BY <1>0, <1>1, <1>2, <2>1, <2>2 DEF Stays
  <2>5. Sampling(p)' => \/ Sampling(p) /\ task'[p].version = task[p].version
                        \/ task'[p].version = updates
    BY <2>3 DEF Sampling
  <2>6. inbox'[p] \in Letters
    BY <2>1, <2>2 DEF Letters
  <2> QED
    BY <2>1, <2>4, <2>5, <2>6 DEF Harmless, Stays
<1>9. CASE p \in Workers /\ PlayRound(p)
  <2>1. /\ UNCHANGED <<inbox, model>> /\ Live(p) /\ Sampling(p)
    BY <1>9 DEF PlayRound, Live, Sampling
  <2>2. task'[p].version = task[p].version
    BY <1>9 DEF PlayRound, Stores
  <2> QED
    BY <1>0, <2>1, <2>2 DEF Harmless, Stays
<1>10. CASE p \in Workers /\ (DecisionExpires(p) \/ FailRound(p))
  <2>1. /\ UNCHANGED <<inbox, model>> /\ Live(p) /\ Sampling(p)
    BY <1>10 DEF DecisionExpires, FailRound, Live, Sampling
  <2>2. task'[p].version = task[p].version
    BY <1>10 DEF DecisionExpires, FailRound, Stores
  <2> QED
    BY <1>0, <2>1, <2>2 DEF Harmless, Stays
<1>11. CASE p \in Workers /\ StopSampling(p)
  <2>1. inbox[p] = <<Cmd("stop")>> /\ Live(p) /\ Tail(inbox[p]) = <<>>
    BY <1>11, ReadLetter DEF StopSampling
  <2>2. inbox'[p] = <<>> /\ UNCHANGED <<run, model>> /\ (task'[p] = task[p] \/ task'[p] = NoTask)
    BY <1>11, <2>1 DEF StopSampling, Answer, Ended, Stores
  <2>3. ~Starts(p)' /\ (Stays(p) => Stays(p)')
    BY <1>0, <1>1, <2>2 DEF Starts, Stays
  <2>4. Sampling(p)' => Sampling(p) /\ task'[p].version = task[p].version
    BY <2>2 DEF Sampling, NoTask
  <2> QED
    BY <2>1, <2>2, <2>3, <2>4 DEF Harmless, Letters
<1> QED
  BY <1>4, <1>5, <1>6, <1>7, <1>8, <1>9, <1>10, <1>11 DEF ProcessStep

LEMMA ChildStepwise ==
  ASSUME Stepwise, NEW p \in Procs, UNCHANGED coordVars,
         \/ ProcessStep(p) \/ Crash(p) \/ (p \in Workers /\ FailRound(p))
         \/ pc = "killed" /\ LoseControl(p)
  PROVE  Stepwise'
<1> USE DEF Stepwise
<1>1. UNCHANGED <<local, pc, pending, updates, faults, saved>>
  BY ChildApart DEF coordVars
<1>2. Inv'
  BY ChildQuiet, QuietInv DEF Inv
<1>3. Stores'
  <2>1. Reads(p, "start") => Version(p) \in Nat
    BY ReadLetter DEF Stores
  <2> QED
    BY <2>1, ChildStores
<1>4. \A q \in Procs \ {p} : Apart(q) /\ Unmoved(q) /\ Harmless(q)
  BY <1>1, ChildApart, ApartUnmoved
<1>5. Addressed' /\ NeverConfused' /\ saved'.model.version = saved'.updates
  <2>1. ASSUME pc = "opening", NEW q \in pending PROVE run'[q] = "unborn"
    <3>1. q \in Procs /\ run[q] = "unborn"
      BY <2>1 DEF Addressed, Inv, PendingOK, Children, Procs
    <3>2. run[p] # "unborn"
      BY <2>1 DEF ProcessStep, Crash, Setup, LoadState, UpdateModel, Snapshot,
         Exit, StartSampling, PlayRound, DecisionExpires, FailRound, ReportFailure, StopSampling, Reads
    <3> QED
      BY <1>4, <3>1, <3>2 DEF Apart
  <2> QED
    BY <1>1, <2>1 DEF Addressed, NeverConfused, RankZero
<1>6. CASE pc \in Closed
  <2>1. Remains'
    BY <1>1, <1>4, ChildHarmless, HarmlessRemains
  <2>2. ASSUME NEW q \in Procs PROVE Orderly(q)'
    <3>1. Young(q)'
      <4>1. CASE q # p
        BY <1>4, <4>1 DEF Orderly, Young, Unmoved
      <4>2. CASE q = p
        <5>1. run'[p] \notin {"unborn", "setup"}
          BY DEF Inv, RunOK, ProcessStep, Crash, LoseControl, Setup, LoadState,
             UpdateModel,
             Snapshot, Exit, StartSampling, PlayRound, DecisionExpires, FailRound,
             ReportFailure, StopSampling, Reads, Die
        <5> QED
          BY <4>2, <5>1 DEF Young
      <4> QED
        BY <4>1, <4>2
    <3> QED
      BY <1>1, <1>6, <3>1 DEF Orderly, Talk, Learns, InStep, Sent, Closed, Still,
         Settled
  <2> QED
    BY <1>2, <1>3, <1>5, <2>1, <2>2
<1>7. CASE pc \notin Closed
  <2>1. Orderly(p)'
    BY <1>7, ChildOrderly DEF Closed
  <2>2. \A q \in Procs \ {p} : Orderly(q)'
    BY <1>1, <1>4, UnmovedOrderly
  <2>3. InOrder' /\ pc' \notin Closed
    BY <1>1, <1>3, <1>7, <2>1, <2>2 DEF InOrder
  <2>4. InOrder' /\ (pc \notin Closed)' => Remains'
    BY OrderlyRemains, PTL
  <2>5. Remains'
    BY <2>3, <2>4 DEF Closed
  <2> QED
    BY <1>2, <1>3, <1>5, <2>1, <2>2, <2>5
<1> QED
  BY <1>6, <1>7

---------------------------------------------------------------------------
(* What the steps of the coordinator do to the conversations *)

Steady == UNCHANGED <<local, run, task, model, arena, updates>>

\* What there is to show of a step of the coordinator.
LEMMA StepwiseStep ==
  ASSUME Stepwise, Inv', Steady, pc' \in Stages,
         inbox' = [q \in Procs |-> inbox'[q]], outbox' = [q \in Procs |-> outbox'[q]],
         Addressed', "unexpected" \notin faults', saved'.model.version = saved'.updates,
         \A q \in Procs : \/ outbox'[q] = outbox[q] \/ outbox[q] # <<>> \/ outbox'[q] = <<>>,
         \A q \in Procs : Talk(q)' /\ Learns(q)' /\ Sent(q)',
         pc' \in Closed => Remains'
  PROVE  Stepwise'
<1>1. Stores'
  BY DEF Stepwise, Stores, Steady
<1>2. \A q \in Procs : Young(q)'
  BY DEF Stepwise, Orderly, Young, Steady, Sampling
<1>3. \A q \in Procs : Orderly(q)'
  BY <1>2 DEF Orderly
<1>4. InOrder'
  BY <1>1, <1>3 DEF InOrder
<1>5. InOrder' /\ (pc \notin Closed)' => Remains'
  BY OrderlyRemains, PTL
<1>6. Remains'
  BY <1>4, <1>5 DEF Closed
<1> QED
  BY <1>1, <1>3, <1>6 DEF Stepwise, NeverConfused

\* The coordinator stops listening.
LEMMA ClosedTalk ==
  ASSUME pc' \in Closed, NEW p \in Procs
  PROVE  Talk(p)' /\ Learns(p)' /\ Sent(p)' /\ Addressed'
  BY DEF Closed, Talk, Learns, InStep, Sent, Still, Settled, Addressed

LEMMA PoisonStepwise ==
  ASSUME Stepwise, Inv', Steady, UNCHANGED <<inbox, saved>>, pc' \in Closed,
         outbox' = [q \in Procs |-> outbox'[q]],
         \A q \in Procs : \/ outbox'[q] = outbox[q] \/ outbox[q] # <<>> \/ outbox'[q] = <<>>,
         NEW cause, cause # "unexpected", faults' \subseteq faults \union {cause}
  PROVE  Stepwise'
<1>1. \A p \in Procs : Harmless(p)
  BY DEF Harmless, Steady, Live, Stays, Starts, Letters, Cmd, Message, Sampling
<1>2. Remains'
  BY <1>1, HarmlessRemains DEF Stepwise, Steady
<1>3. Addressed' /\ \A q \in Procs : Talk(q)' /\ Learns(q)' /\ Sent(q)'
  BY ClosedTalk, PoolAssumption DEF Procs
<1>4. pc' \in Stages /\ inbox' = [q \in Procs |-> inbox'[q]]
      /\ "unexpected" \notin faults' /\ saved'.model.version = saved'.updates
  BY DEF Closed, Stages, Stepwise, Stores, NeverConfused
<1> QED
  BY <1>2, <1>3, <1>4, StepwiseStep

LEMMA TakeShape ==
  ASSUME Stores, NEW p \in Procs, outbox[p] # <<>>, Take(p)
  PROVE  /\ outbox' = [q \in Procs |-> outbox'[q]] /\ outbox'[p] = Tail(outbox[p])
         /\ \A q \in Procs \ {p} : outbox'[q] = outbox[q]
         /\ \A q \in Procs : outbox'[q] = outbox[q] \/ outbox[q] # <<>>
  BY DEF Stores, Take

LEMMA BroadcastShape ==
  ASSUME Stores, NEW ps, NEW kind, Broadcast(ps, kind)
  PROVE  /\ inbox' = [q \in Procs |-> inbox'[q]]
         /\ \A q \in Procs : inbox'[q] = IF q \in ps /\ Live(q) THEN Append(inbox[q], Cmd(kind))
                                         ELSE inbox[q]
  BY DEF Stores, Broadcast, Reached, Live, Cmd

LEMMA SameWords ==
  ASSUME UNCHANGED updates
  PROVE  /\ \A kind : Cmd(kind)' = Cmd(kind)
         /\ \A m, kind : Good(m, kind)' <=> Good(m, kind)
         /\ \A m, kind : Fine(m, kind)' <=> Fine(m, kind)
         /\ \A m : Over(m)' <=> Over(m)
  BY DEF Cmd, Good, Fine, Over, Message

\* Between exchanges, without a word.
LEMMA StillStepwise ==
  ASSUME Stepwise, Inv', Steady, UNCHANGED <<inbox, outbox, saved, faults>>,
         pc \in Still, pc' \in Still, pc' \in Settled => pc \in Settled,
         pc' \notin {"updated", "opening"}
  PROVE  Stepwise'
<1>1. ASSUME NEW q \in Procs PROVE Talk(q)' /\ Learns(q)' /\ Sent(q)'
  <2>1. Orderly(q) /\ Ranks' = Ranks
    BY DEF Stepwise, Steady, Ranks
  <2>2. Live(q)' => Quiet(q)'
    BY <2>1 DEF Orderly, Talk, Quiet, Mute, Sampling, Live, Steady
  <2>3. Talk(q)'
    BY <2>2 DEF Talk, Still
  <2>4. Learns(q)' /\ Sent(q)'
    BY <2>1 DEF Orderly, Learns, InStep, Sent, At, Live, Steady, Still
  <2> QED
    BY <2>3, <2>4
<1>2. pc' \in Stages /\ Addressed' /\ pc' \notin Closed
  BY DEF Still, Stages, Addressed, Closed
<1> QED
  BY <1>1, <1>2, StepwiseStep DEF Stepwise, Stores, NeverConfused, Steady

\* A command to some processes: all live, and each is asked once.
LEMMA CommandStepwise ==
  ASSUME Stepwise, Inv', Steady, UNCHANGED <<outbox, saved>>, pc \in Still,
         NEW ps \in SUBSET Procs, NEW kind, NEW stage,
         \/ kind = "load" /\ stage = "loading" /\ ps = Ranks
         \/ kind = "update" /\ stage = "updating" /\ ps = Ranks /\ pc \in Settled
         \/ /\ kind = "snapshot" /\ stage \in {"snapshotting", "finalizing"}
            /\ ps = {RankZero} /\ pc \in Settled,
         Command(ps, kind, stage)
  PROVE  Stepwise'
<1>1. CASE Reached(ps) # ps
  BY <1>1, PoisonStepwise DEF Command, Poison, Closed, Stepwise, Stores
<1>2. CASE Reached(ps) = ps
  <2>1. Broadcast(ps, kind) /\ pc' = stage /\ pending' = ps /\ UNCHANGED faults
    BY <1>2 DEF Command, WaitFor
  <2>2. \A q \in ps : Live(q)
    BY <1>2 DEF Reached, Live
  <2>3. /\ inbox' = [q \in Procs |-> inbox'[q]]
        /\ \A q \in Procs : inbox'[q] = IF q \in ps THEN Append(inbox[q], Cmd(kind)) ELSE inbox[q]
    BY <2>1, <2>2, BroadcastShape DEF Stepwise
  <2>4. \A k : Cmd(k)' = Cmd(k)
    BY SameWords DEF Steady
  <2>5. ASSUME NEW q \in Procs PROVE Talk(q)' /\ Learns(q)' /\ Sent(q)'
    <3>1. Orderly(q) /\ Ranks' = Ranks /\ RankZero' = RankZero
      BY DEF Stepwise, Steady, Ranks, RankZero
    <3>2. Live(q) => Quiet(q)
      BY <3>1 DEF Orderly, Talk
    <3>3. CASE q \in ps
      <4>1. inbox'[q] = <<Cmd(kind)>> /\ outbox'[q] = <<>> /\ ~Sampling(q)' /\ Live(q)'
        BY <2>2, <2>3, <3>2, <3>3, Tuples DEF Quiet, Mute, Sampling, Steady, Live
      <4>2. \A answer : Exchange(q, kind, answer)'
        BY <2>1, <2>4, <3>3, <4>1 DEF Exchange, Asked
      <4>3. Talk(q)'
        BY <2>1, <4>2 DEF Talk, Still
      <4>4. pc \in Settled /\ q \in Ranks => At(q, updates)'
        BY <2>2, <3>1, <3>3 DEF Orderly, Learns, InStep, At, Steady
      <4>5. Learns(q)'
        BY <2>1, <3>1, <3>3, <4>1, <4>4, Tuples DEF Learns, InStep, Settled, Steady
      <4>6. Sent(q)'
        BY <4>1 DEF Sent
      <4> QED
        BY <4>3, <4>5, <4>6
    <3>4. CASE q \notin ps
      <4>1. Live(q)' => Quiet(q)'
        BY <2>3, <3>2, <3>4 DEF Quiet, Mute, Sampling, Steady, Live
      <4>2. \A answer : Exchange(q, kind, answer)'
        BY <2>1, <3>4, <4>1 DEF Exchange
      <4>3. Talk(q)'
        BY <2>1, <4>2 DEF Talk, Still
      <4>4. pc \in Settled /\ q \in Ranks /\ Live(q) => At(q, updates)'
        BY <3>1 DEF Orderly, Learns, InStep, At, Steady
      <4>5. Learns(q)'
        BY <2>1, <3>1, <3>4, <4>4 DEF Learns, InStep, Settled, Steady, Live
      <4>6. Sent(q)'
        BY <2>1, <3>4 DEF Sent
      <4> QED
        BY <4>3, <4>5, <4>6
    <3> QED
      BY <3>3, <3>4
  <2>6. pc' \in Stages /\ pc' \notin Closed /\ Addressed'
    BY <2>1 DEF Stages, Closed, Addressed, RankZero, Steady
  <2> QED
    BY <2>1, <2>3, <2>5, <2>6, StepwiseStep DEF Stepwise, Stores, NeverConfused,
       Steady
<1> QED
  BY <1>1, <1>2

\* An answer of an exchange: good, or a refusal.
LEMMA ExchangeHeard ==
  ASSUME NEW p \in Procs, NEW kind, NEW answer, Exchange(p, kind, answer), Heard(p)
  PROVE  /\ Fine(Said(p), answer)
         /\ Live(p) => inbox[p] = <<>> /\ Tail(outbox[p]) = <<>> /\ ~Sampling(p)
<1>1. p \in pending /\ outbox[p] # <<>>
  BY DEF Heard
<1>2. CASE Live(p)
  <2>1. Asked(p, kind, answer)
    BY <1>1, <1>2 DEF Exchange
  <2> DEFINE x == Head(outbox[p])
  <2>2. outbox[p] = <<x>> /\ Fine(x, answer) /\ inbox[p] = <<>> /\ ~Sampling(p)
    BY <1>1, <2>1 DEF Asked
  <2>3. Tail(<<x>>) = <<>>
    BY Tuples
  <2> HIDE DEF x
  <2>4. Tail(outbox[p]) = <<>>
    BY <2>2, <2>3
  <2>5. Fine(Said(p), answer)
    BY <2>2 DEF x, Said
  <2> QED
    BY <2>2, <2>4, <2>5
<1>3. CASE ~Live(p)
  BY <1>1, <1>3 DEF Exchange, Left, Said
<1> QED
  BY <1>2, <1>3

LEMMA CollectStepwise ==
  ASSUME Stepwise, Inv', Steady, UNCHANGED <<inbox, saved>>, NEW p \in Procs, NEW answer, NEW next,
         \/ pc = "loading" /\ answer = "loaded" /\ next = "idle"
         \/ pc = "updating" /\ answer = "updated" /\ next = "updated",
         Collect(p, answer, next)
  PROVE  Stepwise'
<1> DEFINE kind == IF pc = "loading" THEN "load" ELSE "update"
<1>0. \A q \in Procs : Orderly(q) /\ Exchange(q, kind, answer)
  BY DEF Stepwise, Orderly, Talk
<1> HIDE DEF kind
<1>1. CASE Lost(p) /\ Poison("lost") /\ Ignore
  BY <1>1, PoisonStepwise DEF Poison, Closed, Stepwise, Stores, Ignore
<1>2. CASE Heard(p) /\ Take(p) /\ ~Good(Said(p), answer) /\ Poison(Cause(Said(p)))
  <2>1. Fine(Said(p), answer)
    BY <1>0, <1>2, ExchangeHeard
  <2>2. Cause(Said(p)) = "refused"
    BY <1>2, <2>1 DEF Fine, Cause
  <2>3. outbox[p] # <<>>
    BY <1>2 DEF Heard
  <2> QED
    BY <1>2, <2>2, <2>3, TakeShape, PoisonStepwise DEF Poison, Closed, Stepwise,
       Ignore
<1>3. CASE /\ Heard(p) /\ Take(p) /\ Good(Said(p), answer)
           /\ pending' = pending \ {p} /\ UNCHANGED faults
           /\ pc' = IF pending = {p} THEN next ELSE pc
  <2>1. outbox[p] # <<>> /\ p \in pending /\ Good(Head(outbox[p]), answer)
    BY <1>3 DEF Heard, Said
  <2>2. /\ outbox' = [q \in Procs |-> outbox'[q]] /\ outbox'[p] = Tail(outbox[p])
        /\ \A q \in Procs \ {p} : outbox'[q] = outbox[q]
        /\ \A q \in Procs : outbox'[q] = outbox[q] \/ outbox[q] # <<>>
    BY <1>3, <2>1, TakeShape DEF Stepwise
  <2>3. Live(p) => Quiet(p)'
    BY <1>0, <1>3, <2>2, ExchangeHeard DEF Quiet, Mute, Sampling, Steady
  <2>4. /\ Ranks' = Ranks /\ \A q \in Procs : Live(q)' <=> Live(q)
        /\ \A q, v : At(q, v)' <=> At(q, v)
    BY DEF Steady, Ranks, Live, At
  <2>5. ASSUME NEW q \in Procs, q \notin pending', Live(q) PROVE Quiet(q)'
    BY <1>0, <1>3, <2>2, <2>3, <2>5 DEF Exchange, Quiet, Mute, Sampling, Steady
  <2>6. ASSUME NEW q \in Procs, q \notin pending', Live(q), q \in Ranks
        PROVE  At(q, IF pc = "loading" THEN updates ELSE updates + 1)
    <3>1. CASE q = p
      <4>1. inbox[p] = <<>>
        BY <1>0, <1>3, <2>6, <3>1, ExchangeHeard
      <4> QED
        BY <1>0, <2>1, <2>6, <3>1, <4>1 DEF Orderly, Learns, InStep
    <3>2. CASE q # p
      BY <1>0, <1>3, <2>6, <3>2 DEF Orderly, Learns, InStep
    <3> QED
      BY <3>1, <3>2
  <2>7. CASE pending = {p}
    <3>1. pc' = next /\ pending' = {}
      BY <1>3, <2>7
    <3>2. ASSUME NEW q \in Procs PROVE Talk(q)' /\ Learns(q)' /\ Sent(q)'
      <4>1. Live(q)' => Quiet(q)'
        BY <2>4, <2>5, <3>1
      <4>2. Talk(q)' /\ Sent(q)'
        BY <3>1, <4>1 DEF Talk, Still, Sent
      <4>3. Learns(q)'
        BY <2>4, <2>6, <3>1 DEF Learns, InStep, Settled, Steady
      <4> QED
        BY <4>2, <4>3
    <3>3. pc' \in Stages /\ pc' \notin Closed /\ Addressed'
      BY <3>1 DEF Stages, Closed, Addressed
    <3> QED
      BY <1>3, <2>2, <3>2, <3>3, StepwiseStep DEF Stepwise, Stores,
         NeverConfused, Steady
  <2>8. CASE pending # {p}
    <3>1. UNCHANGED pc
      BY <1>3, <2>8
    <3>2. ASSUME NEW q \in Procs PROVE Talk(q)' /\ Learns(q)' /\ Sent(q)'
      <4>1. CASE q \notin pending'
        <5>1. Live(q)' => Quiet(q)'
          BY <2>4, <2>5, <4>1
        <5>2. \A k, a : Exchange(q, k, a)'
          BY <4>1, <5>1 DEF Exchange
        <5>3. Talk(q)' /\ Sent(q)'
          BY <3>1, <4>1, <5>1, <5>2 DEF Talk, Still, Sent
        <5>4. Learns(q)'
          BY <2>4, <2>6, <3>1, <4>1 DEF Learns, InStep, Settled, Steady
        <5> QED
          BY <5>3, <5>4
      <4>2. CASE q \in pending'
        <5>1. q # p /\ q \in pending /\ outbox'[q] = outbox[q]
          BY <1>3, <2>2, <4>2
        <5>2. /\ \A k : Cmd(k)' = Cmd(k)
              /\ \A m, k : Good(m, k)' <=> Good(m, k)
              /\ \A m, k : Fine(m, k)' <=> Fine(m, k)
          BY SameWords DEF Steady
        <5>3. \A k : Exchange(q, k, answer) => Exchange(q, k, answer)'
          BY <2>4, <4>2, <5>1, <5>2 DEF Exchange, Asked, Left, Sampling, Steady
        <5>4. Talk(q)' /\ Sent(q)'
          BY <1>0, <3>1, <5>3 DEF Orderly, Talk, Still, Sent
        <5>5. Learns(q)'
          BY <1>0, <2>4, <3>1, <4>2, <5>1, <5>2 DEF Orderly, Learns, InStep,
             Settled, Steady
        <5> QED
          BY <5>4, <5>5
      <4> QED
        BY <4>1, <4>2
    <3>3. pc' \in Stages /\ pc' \notin Closed /\ Addressed'
      BY <3>1 DEF Stages, Closed, Addressed
    <3> QED
      BY <1>3, <2>2, <3>2, <3>3, StepwiseStep DEF Stepwise, Stores,
         NeverConfused, Steady
  <2> QED
    BY <2>7, <2>8
<1> QED
  BY <1>1, <1>2, <1>3 DEF Collect

\* The models stay as they are outside the updates.
LEMMA SettledLearns ==
  ASSUME Stepwise, Steady, NEW q \in Procs, pc \in Settled \/ pc' \notin Settled,
         pc' \notin {"loading", "updating", "updated"}
  PROVE  Learns(q)'
<1>1. Orderly(q) /\ Ranks' = Ranks
  BY DEF Stepwise, Steady, Ranks
<1> QED
  BY <1>1 DEF Orderly, Learns, InStep, At, Live, Steady

\* Starting a session; the workers that are left are told to stop again when
\* one is gone already.
LEMMA StartStepwise ==
  ASSUME Stepwise, Inv', Start
  PROVE  Stepwise'
<1>1. Steady /\ UNCHANGED <<outbox, saved>> /\ pc = "reset"
  BY DEF Start, Steady, UnchangedProcesses, UnchangedRun, Ignore
<1>2. \A q \in Procs : Orderly(q) /\ (Live(q) => Quiet(q))
  BY <1>1 DEF Stepwise, Orderly, Talk, Still
<1>3. /\ \A k : Cmd(k)' = Cmd(k) /\ Message(k, updates) = Cmd(k)
      /\ \A q \in Procs : Live(q)' <=> Live(q)
  BY <1>1, SameWords DEF Steady, Cmd, Live
<1>4. pc \in Settled
  BY <1>1 DEF Settled
<1>5. CASE stop
  <2>1. pc' = "counting" /\ UNCHANGED <<inbox, faults>>
    BY <1>5 DEF Start
  <2> QED
    BY <1>1, <1>4, <2>1, StillStepwise DEF Still
<1>6. CASE ~stop /\ Reached(Workers) = Workers
  <2>1. Broadcast(Workers, "start") /\ pc' = "starting" /\ pending' = Workers /\ UNCHANGED faults
    BY <1>6 DEF Start, WaitFor
  <2>2. /\ inbox' = [q \in Procs |-> inbox'[q]]
        /\ \A q \in Procs : inbox'[q] = IF q \in Workers /\ Live(q)
                                        THEN Append(inbox[q], Cmd("start")) ELSE inbox[q]
    BY <2>1, BroadcastShape DEF Stepwise
  <2>3. ASSUME NEW q \in Procs PROVE Talk(q)' /\ Learns(q)' /\ Sent(q)'
    <3>1. CASE q \in Workers
      <4>1. Live(q)
        BY <1>6, <3>1 DEF Reached, Live
      <4>2. inbox'[q] = <<Cmd("start")>> /\ outbox'[q] = <<>> /\ ~Sampling(q)'
        BY <1>1, <1>2, <2>2, <3>1, <4>1, Tuples DEF Quiet, Mute, Sampling, Steady
      <4>3. Starting(q)'
        BY <1>3, <2>1, <3>1, <4>1, <4>2 DEF Starting, OnStart
      <4> QED
        BY <1>1, <1>4, <2>1, <4>3, SettledLearns DEF Talk, Still, Sent
    <3>2. CASE q \notin Workers
      <4>1. Live(q)' => Collects(q)'
        BY <1>1, <1>2, <1>3, <2>2, <3>2 DEF Quiet, Mute, Sampling, Steady, Collects
      <4>2. Starting(q)'
        BY <2>1, <3>2, <4>1 DEF Starting
      <4> QED
        BY <1>1, <1>4, <2>1, <4>2, SettledLearns DEF Talk, Still, Sent
    <3> QED
      BY <3>1, <3>2
  <2>4. pc' \in Stages /\ pc' \notin Closed /\ Addressed'
    BY <2>1 DEF Stages, Closed, Addressed
  <2> QED
    BY <1>1, <2>1, <2>2, <2>3, <2>4, StepwiseStep DEF Stepwise, Stores,
       NeverConfused, Steady
<1>7. CASE ~stop /\ Reached(Workers) # Workers
  <2>1. /\ pending' = Reached(Workers) /\ faults' = faults \union {"lost"}
        /\ pc' = IF Reached(Workers) = {} THEN "closing" ELSE "aborting"
    BY <1>7 DEF Start, WaitFor
  <2>2. /\ inbox' = [q \in Procs |-> inbox'[q]]
        /\ \A q \in Procs : inbox'[q] = IF q \in Reached(Workers)
                                        THEN inbox[q] \o <<Cmd("start"), Cmd("stop")>> ELSE inbox[q]
    <3>1. inbox' = [q \in Procs |-> IF q \in Reached(Workers)
                                    THEN inbox[q] \o <<Cmd("start"), Cmd("stop")>> ELSE inbox[q]]
      BY <1>7 DEF Start, Cmd
    <3> QED
      BY <3>1
  <2>3. \A q \in Procs : q \in Reached(Workers) <=> q \in Workers /\ Live(q)
    BY DEF Reached, Live
  <2>4. ASSUME NEW q \in Procs PROVE Talk(q)' /\ Learns(q)' /\ Sent(q)'
    <3>1. CASE q \in Reached(Workers)
      <4>1. inbox'[q] = <<Cmd("start"), Cmd("stop")>> /\ outbox'[q] = <<>> /\ ~Sampling(q)'
        BY <1>1, <1>2, <2>2, <2>3, <3>1, Tuples DEF Quiet, Mute, Sampling, Steady
      <4>2. Aborting(q)' /\ pc' = "aborting"
        BY <1>3, <2>1, <2>3, <3>1, <4>1 DEF Aborting, OnAbort
      <4> QED
        BY <1>1, <1>4, <4>2, SettledLearns DEF Talk, Still, Sent
    <3>2. CASE q \notin Reached(Workers)
      <4>1. Live(q)' => Quiet(q)'
        BY <1>1, <1>2, <1>3, <2>2, <3>2 DEF Quiet, Mute, Sampling, Steady
      <4>2. Aborting(q)'
        BY <2>1, <3>2, <4>1 DEF Aborting
      <4> QED
        BY <1>1, <1>4, <2>1, <4>1, <4>2, SettledLearns DEF Talk, Still, Sent
    <3> QED
      BY <3>1, <3>2
  <2>5. pc' \in Stages /\ pc' \notin Closed /\ Addressed'
    BY <2>1 DEF Stages, Closed, Addressed, Reached
  <2> QED
    BY <1>1, <2>1, <2>2, <2>4, <2>5, StepwiseStep DEF Stepwise, Stores,
       NeverConfused, Steady
<1> QED
  BY <1>5, <1>6, <1>7

\* A start is given up: every worker is told to stop.
LEMMA AbortStepwise ==
  ASSUME Stepwise, Inv', Steady, UNCHANGED saved, pc = "starting", NEW why, NEW causes,
         "unexpected" \notin causes, Abort(Workers, why, causes),
         outbox' = [q \in Procs |-> outbox'[q]],
         \A q \in Procs : outbox'[q] = outbox[q] \/ (outbox[q] # <<>> /\ ~Live(q))
  PROVE  Stepwise'
<1>1. \A q \in Procs : Orderly(q) /\ Starting(q)
  BY DEF Stepwise, Orderly, Talk
<1>2. /\ \A k : Cmd(k)' = Cmd(k)
      /\ \A q \in Procs : Live(q)' <=> Live(q)
      /\ Letters' = Letters
  BY SameWords DEF Steady, Live, Letters, Cmd, Message
<1>3. /\ inbox' = [q \in Procs |-> inbox'[q]]
      /\ \A q \in Procs : inbox'[q] = IF q \in Workers /\ Live(q)
                                      THEN Append(inbox[q], Cmd("stop")) ELSE inbox[q]
  BY BroadcastShape DEF Abort, Stepwise
<1>4. pending \subseteq Workers
  BY DEF Stepwise, Addressed
<1>5. ASSUME NEW q \in Workers, Live(q)
      PROVE  \/ /\ inbox[q] = <<Cmd("start")>> /\ inbox'[q] = <<Cmd("start"), Cmd("stop")>>
                /\ outbox[q] = <<>> /\ ~Sampling(q)
             \/ /\ inbox[q] = <<>> /\ inbox'[q] = <<Cmd("stop")>>
                /\ outbox[q] \in {<<>>, <<Cmd("started")>>} /\ Plays(q)
  <2>1. q \in Procs
    BY DEF Procs
  <2>2. Append(<<Cmd("start")>>, Cmd("stop")) = <<Cmd("start"), Cmd("stop")>>
        /\ Append(<<>>, Cmd("stop")) = <<Cmd("stop")>>
    BY Tuples
  <2>3. inbox'[q] = Append(inbox[q], Cmd("stop"))
    BY <1>3, <1>5, <2>1
  <2> QED
    BY <1>1, <1>5, <2>1, <2>2, <2>3 DEF Starting, OnStart, Collects, Mute
<1>6. CASE Reached(Workers) # Workers
  <2>1. pc' = "reaping" /\ faults' = faults \union causes \union {"lost"}
    BY <1>6 DEF Abort
  <2>2. ASSUME NEW q \in Procs PROVE Harmless(q)
    <3>1. CASE q \in Workers /\ Live(q)
      <4>1. \A k : /\ <<Cmd("start"), Cmd("stop")>> # <<Cmd(k)>> /\ <<Cmd("start")>> # <<>>
                   /\ <<Cmd("stop")>> # <<Cmd("start"), Cmd("stop")>>
        BY Tuples
      <4>2. <<Cmd("stop")>> \notin {<<Cmd("load")>>, <<Cmd("update")>>, <<Cmd("start")>>}
        <5>1. \A k : Cmd(k).kind = k
          BY DEF Cmd, Message
        <5>2. \A k : <<Cmd("stop")>> = <<Cmd(k)>> => k = "stop"
          BY <5>1, Tuples
        <5> QED
          BY <5>2
      <4>3. Starts(q)' => Starts(q)
        BY <1>2, <1>5, <3>1, <4>1, <4>2 DEF Starts
      <4>4. Stays(q) => Stays(q)'
        BY <1>2, <1>5, <3>1, <4>1, <4>2 DEF Stays, Steady
      <4>5. inbox'[q] \in Letters
        BY <1>5, <3>1 DEF Letters
      <4> QED
        BY <3>1, <4>3, <4>4, <4>5 DEF Harmless, Sampling, Steady
    <3>2. CASE ~(q \in Workers /\ Live(q))
      BY <1>2, <1>3, <3>2 DEF Harmless, Sampling, Steady, Starts, Stays
    <3> QED
      BY <3>1, <3>2
  <2>3. Remains'
    BY <2>2, HarmlessRemains DEF Stepwise, Steady
  <2>4. Addressed' /\ \A q \in Procs : Talk(q)' /\ Learns(q)' /\ Sent(q)'
    BY <2>1, ClosedTalk, PoolAssumption DEF Procs, Closed
  <2>5. pc' \in Stages /\ "unexpected" \notin faults'
    BY <2>1 DEF Stages, Stepwise, NeverConfused
  <2> QED
    BY <1>3, <2>1, <2>3, <2>4, <2>5, StepwiseStep DEF Stepwise, Steady
<1>7. CASE Reached(Workers) = Workers
  <2>1. pc' = "aborting" /\ pending' = Workers /\ faults' = faults \union causes
    BY <1>7, PoolAssumption DEF Abort, WaitFor
  <2>2. \A q \in Workers : Live(q)
    BY <1>7 DEF Reached, Live
  <2>3. ASSUME NEW q \in Procs PROVE Talk(q)' /\ Learns(q)' /\ Sent(q)'
    <3>1. CASE q \in Workers
      <4>1. Plays(q)' <=> Plays(q)
        BY DEF Plays, Steady
      <4>2. OnAbort(q)'
        BY <1>2, <1>5, <2>2, <3>1, <4>1 DEF OnAbort, Sampling, Steady
      <4>3. Aborting(q)'
        BY <1>2, <2>1, <2>2, <3>1, <4>2 DEF Aborting
      <4> QED
        BY <2>1, <4>3, SettledLearns DEF Talk, Still, Sent, Settled
    <3>2. CASE q \notin Workers
      <4>1. Live(q)' => Quiet(q)'
        BY <1>1, <1>2, <1>3, <1>4, <3>2 DEF Starting, Collects, Quiet, Mute,
           Sampling, Steady
      <4>2. Aborting(q)'
        BY <2>1, <3>2, <4>1 DEF Aborting
      <4> QED
        BY <2>1, <4>2, SettledLearns DEF Talk, Still, Sent, Settled
    <3> QED
      BY <3>1, <3>2
  <2>4. pc' \in Stages /\ pc' \notin Closed /\ Addressed' /\ "unexpected" \notin faults'
    BY <2>1 DEF Stages, Closed, Addressed, Stepwise, NeverConfused
  <2> QED
    BY <1>3, <2>1, <2>3, <2>4, StepwiseStep DEF Stepwise, Steady
<1> QED
  BY <1>6, <1>7

LEMMA StartedStepwise ==
  ASSUME Stepwise, Inv', NEW p \in Procs, Started(p)
  PROVE  Stepwise'
<1>1. Steady /\ UNCHANGED saved /\ pc = "starting"
  BY DEF Started, Steady, UnchangedProcesses, UnchangedRun
<1>2. \A q \in Procs : Orderly(q) /\ Starting(q)
  BY <1>1 DEF Stepwise, Orderly, Talk
<1>3. /\ \A k : Cmd(k)' = Cmd(k) /\ Cmd(k).kind = k /\ Cmd(k).version = updates
      /\ \A m, k : Fine(m, k)' <=> Fine(m, k)
      /\ \A q \in Procs : (Live(q)' <=> Live(q)) /\ (Plays(q)' <=> Plays(q))
  BY <1>1, SameWords DEF Steady, Cmd, Message, Live, Plays
<1>4. CASE Lost(p) /\ Abort(ToldToStart, "reject", {"lost"}) /\ Ignore
  BY <1>1, <1>4, AbortStepwise DEF ToldToStart, Ignore, Stepwise, Stores
<1>5. CASE p \in pending /\ stop /\ Abort(ToldToStart, "stop", {}) /\ Ignore
  BY <1>1, <1>5, AbortStepwise DEF ToldToStart, Ignore, Stepwise, Stores
<1>6. CASE /\ Heard(p) /\ Take(p)
           /\ IF Good(Said(p), "started")
              THEN /\ pending' = pending \ {p}
                   /\ pc' = IF pending = {p} THEN "waiting" ELSE pc
                   /\ UNCHANGED <<inbox, intent, faults>>
              ELSE IF Said(p).kind = "failed"
              THEN GiveUp("refused") /\ UNCHANGED <<inbox, intent>>
              ELSE Abort(ToldToStart, "reject", {Cause(Said(p))})
  <2>1. /\ outbox' = [q \in Procs |-> outbox'[q]] /\ outbox'[p] = Tail(outbox[p])
        /\ \A q \in Procs \ {p} : outbox'[q] = outbox[q]
        /\ \A q \in Procs : outbox'[q] = outbox[q] \/ outbox[q] # <<>>
        /\ p \in pending /\ outbox[p] # <<>>
    BY <1>6, TakeShape DEF Heard, Stepwise
  <2>2. Live(p) => inbox[p] = <<>> /\ outbox[p] = <<Cmd("started")>> /\ Plays(p)
    BY <1>2, <2>1 DEF Starting, OnStart
  <2>3. Live(p) => outbox'[p] = <<>> /\ Good(Said(p), "started")
    <3>1. Head(<<Cmd("started")>>) = Cmd("started") /\ Tail(<<Cmd("started")>>) = <<>>
      BY Tuples
    <3> QED
      BY <1>3, <2>1, <2>2, <3>1 DEF Said, Good
  <2>4. Fine(Said(p), "started")
    BY <1>2, <2>1, <2>3 DEF Starting, Left, Fine, Said
  <2>5. CASE Good(Said(p), "started")
    <3>1. /\ pending' = pending \ {p} /\ UNCHANGED <<inbox, faults>>
          /\ pc' = IF pending = {p} THEN "waiting" ELSE pc
      BY <1>6, <2>5
    <3>2. ASSUME NEW q \in Procs, q \notin pending', Live(q) PROVE Collects(q)'
      <4>1. CASE q = p
        <5>1. p \in Workers
          BY <2>2, <3>2, <4>1 DEF Plays
        <5> QED
          BY <1>3, <2>2, <2>3, <3>1, <3>2, <4>1, <5>1 DEF Collects, Mute
      <4>2. CASE q # p
        <5>1. Collects(q) /\ outbox'[q] = outbox[q]
          BY <1>2, <2>1, <3>1, <3>2, <4>2 DEF Starting
        <5> QED
          BY <1>1, <1>3, <3>1, <5>1 DEF Collects, Mute, Sampling, Steady
      <4> QED
        BY <4>1, <4>2
    <3>3. ASSUME NEW q \in Procs PROVE Talk(q)' /\ Learns(q)' /\ Sent(q)'
      <4>1. CASE pending = {p}
        <5>1. pc' = "waiting" /\ pending' = {}
          BY <3>1, <4>1
        <5> QED
          BY <1>1, <1>3, <3>2, <5>1, SettledLearns DEF Talk, Still, Sent, Settled
      <4>2. CASE pending # {p}
        <5>1. pc' = "starting"
          BY <1>1, <3>1, <4>2
        <5>2. Starting(q)'
          <6>1. CASE q \in pending'
            <7>1. q \in pending /\ outbox'[q] = outbox[q]
              BY <2>1, <3>1, <6>1
            <7>2. Live(q) => OnStart(q)'
              BY <1>1, <1>2, <1>3, <3>1, <7>1 DEF Starting, OnStart, Sampling, Steady
            <7>3. ~Live(q) => Left(q, "started")'
              BY <1>2, <1>3, <7>1 DEF Starting, Left
            <7> QED
              BY <1>3, <6>1, <7>2, <7>3 DEF Starting
          <6>2. CASE q \notin pending'
            BY <1>3, <3>2, <6>2 DEF Starting
          <6> QED
            BY <6>1, <6>2
        <5> QED
          BY <1>1, <5>1, <5>2, SettledLearns DEF Talk, Still, Sent, Settled
      <4> QED
        BY <4>1, <4>2
    <3>4. pc' \in Stages /\ pc' \notin Closed /\ Addressed'
      BY <1>1, <3>1 DEF Stages, Closed, Addressed, Stepwise
    <3> QED
      BY <1>1, <2>1, <3>1, <3>3, <3>4, StepwiseStep DEF Stepwise, Stores,
         NeverConfused, Steady
  <2>6. CASE ~Good(Said(p), "started")
    <3>1. Said(p).kind = "refused" /\ ~Live(p)
      BY <2>3, <2>4, <2>6 DEF Fine
    <3>2. Cause(Said(p)) = "refused"
      BY <3>1 DEF Cause
    <3>3. Abort(Workers, "reject", {"refused"})
      BY <1>6, <2>6, <3>1, <3>2 DEF ToldToStart
    <3>4. \A q \in Procs : outbox'[q] = outbox[q] \/ (outbox[q] # <<>> /\ ~Live(q))
      BY <2>1, <3>1
    <3> QED
      BY <1>1, <2>1, <3>3, <3>4, AbortStepwise
  <2> QED
    BY <2>5, <2>6
<1> QED
  BY <1>4, <1>5, <1>6 DEF Started

\* What an aborted worker says, and what is left then.
LEMMA AbortedHeard ==
  ASSUME NEW p \in Procs, Aborting(p), Heard(p)
  PROVE  /\ Skips(Said(p)) \/ Over(Said(p))
         /\ Skips(Said(p)) => Said(p) = Cmd("started")
         /\ Skips(Said(p)) /\ Live(p) =>
              \/ /\ inbox[p] = <<Cmd("stop")>> /\ Plays(p) /\ Tail(outbox[p]) = <<>>
              \/ /\ inbox[p] = <<>> /\ ~Sampling(p)
                 /\ Tail(outbox[p]) \in {<<Cmd("stopped")>>, <<Cmd("refused")>>}
         /\ Skips(Said(p)) /\ ~Live(p) =>
              Tail(outbox[p]) \in {<<>>, <<Cmd("stopped")>>, <<Cmd("refused")>>, <<Cmd("failed")>>}
         /\ ~Skips(Said(p)) /\ Live(p) =>
              inbox[p] = <<>> /\ ~Sampling(p) /\ Tail(outbox[p]) = <<>>
<1>1. p \in pending /\ outbox[p] # <<>>
  BY DEF Heard
<1>2. \A k : Cmd(k).kind = k /\ Cmd(k).version = updates
  BY DEF Cmd, Message
<1>3. \A k : /\ Head(<<Cmd(k)>>) = Cmd(k) /\ Tail(<<Cmd(k)>>) = <<>>
             /\ Head(<<Cmd("started"), Cmd(k)>>) = Cmd("started")
             /\ Tail(<<Cmd("started"), Cmd(k)>>) = <<Cmd(k)>>
  BY Tuples
<1>4. /\ \A m : Over(m) => ~Skips(m)
      /\ Skips(Cmd("started")) /\ ~Over(Cmd("started"))
      /\ \A k \in {"stopped", "refused", "failed"} : Over(Cmd(k))
  BY <1>2 DEF Over, Skips, Good
<1>5. CASE outbox[p] = <<Cmd("started")>>
  <2>1. Said(p) = Cmd("started") /\ Tail(outbox[p]) = <<>>
    BY <1>3, <1>5 DEF Said
  <2>2. \A k : <<Cmd("started")>> # <<Cmd("started"), Cmd(k)>>
    BY Tuples
  <2>3. <<Cmd("started")>> \notin {<<Cmd("stopped")>>, <<Cmd("refused")>>}
    BY <1>2, Tuples
  <2>4. Live(p) => inbox[p] = <<Cmd("stop")>> /\ Plays(p)
    BY <1>1, <1>5, <2>2, <2>3 DEF Aborting, OnAbort
  <2> QED
    BY <1>4, <2>1, <2>4
<1>6. ASSUME NEW k \in {"stopped", "refused", "failed"}, outbox[p] = <<Cmd("started"), Cmd(k)>>,
             Live(p) => inbox[p] = <<>> /\ ~Sampling(p) /\ k # "failed"
      PROVE  /\ Said(p) = Cmd("started") /\ Tail(outbox[p]) = <<Cmd(k)>>
             /\ Live(p) => inbox[p] = <<>> /\ ~Sampling(p) /\ k # "failed"
  BY <1>3, <1>6 DEF Said
<1>7. CASE Live(p) /\ outbox[p] # <<Cmd("started")>>
  <2>1. inbox[p] = <<>> /\ ~Sampling(p)
    BY <1>1, <1>7 DEF Aborting, OnAbort
  <2>2. CASE outbox[p] \in {<<Cmd("stopped")>>, <<Cmd("refused")>>}
    <3>1. PICK k \in {"stopped", "refused"} : outbox[p] = <<Cmd(k)>>
      BY <2>2
    <3>2. Said(p) = Cmd(k) /\ Tail(outbox[p]) = <<>>
      BY <1>3, <3>1 DEF Said
    <3> QED
      BY <1>4, <1>7, <2>1, <3>2
  <2>3. CASE outbox[p] \in {<<Cmd("started"), Cmd("stopped")>>, <<Cmd("started"), Cmd("refused")>>}
    <3>1. PICK k \in {"stopped", "refused"} : outbox[p] = <<Cmd("started"), Cmd(k)>>
      BY <2>3
    <3>2. Said(p) = Cmd("started") /\ Tail(outbox[p]) = <<Cmd(k)>>
      BY <1>3, <3>1 DEF Said
    <3> QED
      BY <1>4, <1>7, <2>1, <3>2
  <2> QED
    BY <1>1, <1>7, <2>2, <2>3 DEF Aborting, OnAbort
<1>8. CASE ~Live(p) /\ outbox[p] # <<Cmd("started")>>
  <2>1. CASE Over(Head(outbox[p]))
    BY <1>4, <1>8, <2>1 DEF Said
  <2>2. CASE outbox[p] \in {<<Cmd("started"), Cmd("stopped")>>, <<Cmd("started"), Cmd("refused")>>,
                            <<Cmd("started"), Cmd("failed")>>}
    <3>1. PICK k \in {"stopped", "refused", "failed"} : outbox[p] = <<Cmd("started"), Cmd(k)>>
      BY <2>2
    <3>2. Said(p) = Cmd("started") /\ Tail(outbox[p]) = <<Cmd(k)>>
      BY <1>3, <3>1 DEF Said
    <3> QED
      BY <1>4, <1>8, <3>2
  <2> QED
    BY <1>1, <1>8, <2>1, <2>2 DEF Aborting, LeftAborted
<1> QED
  BY <1>5, <1>7, <1>8

LEMMA AbortedStepwise ==
  ASSUME Stepwise, Inv', NEW p \in Procs, Aborted(p)
  PROVE  Stepwise'
<1>1. Steady /\ UNCHANGED <<saved, inbox>> /\ pc = "aborting"
  BY DEF Aborted, Steady, UnchangedProcesses, UnchangedRun
<1>2. \A q \in Procs : Orderly(q) /\ Aborting(q)
  BY <1>1 DEF Stepwise, Orderly, Talk
<1>3. /\ \A k : Cmd(k)' = Cmd(k)
      /\ \A m : Over(m)' <=> Over(m)
      /\ \A q \in Procs : /\ Live(q)' <=> Live(q)
                          /\ Plays(q)' <=> Plays(q)
                          /\ Sampling(q)' <=> Sampling(q)
  BY <1>1, SameWords DEF Steady, Live, Plays, Sampling
<1>4. CASE Lost(p) /\ Poison("lost") /\ Ignore
  BY <1>1, <1>4, PoisonStepwise DEF Poison, Closed, Stepwise, Stores, Ignore
<1>5. CASE /\ Heard(p) /\ Take(p)
           /\ IF Skips(Said(p))
              THEN UNCHANGED <<pc, pending, faults>>
              ELSE IF Good(Said(p), "stopped") \/ Good(Said(p), "alreadyStopped")
              THEN /\ pending' = pending \ {p} /\ UNCHANGED faults
                   /\ pc' = IF pending # {p} THEN pc
                            ELSE IF intent = "stop" THEN "counting" ELSE "closing"
              ELSE Poison(Cause(Said(p)))
  <2>1. /\ outbox' = [q \in Procs |-> outbox'[q]] /\ outbox'[p] = Tail(outbox[p])
        /\ \A q \in Procs \ {p} : outbox'[q] = outbox[q]
        /\ \A q \in Procs : outbox'[q] = outbox[q] \/ outbox[q] # <<>>
        /\ p \in pending /\ outbox[p] # <<>>
    BY <1>5, TakeShape DEF Heard, Stepwise
  <2>2. Skips(Said(p)) \/ Over(Said(p))
    BY <1>2, <1>5, AbortedHeard
  <2>3. ASSUME NEW q \in Procs \ {p}, q \in pending PROVE Aborting(q) /\ (q \in pending' => Aborting(q)')
    <3>1. outbox'[q] = outbox[q] /\ inbox'[q] = inbox[q]
      BY <1>1, <2>1
    <3>2. OnAbort(q) => OnAbort(q)'
      BY <1>3, <3>1 DEF OnAbort
    <3>3. LeftAborted(q) => LeftAborted(q)'
      BY <1>3, <3>1 DEF LeftAborted
    <3> QED
      BY <1>2, <1>3, <2>3, <3>2, <3>3 DEF Aborting
  <2>4. ASSUME NEW q \in Procs \ {p}, q \notin pending, Live(q) PROVE Quiet(q)'
    BY <1>1, <1>2, <1>3, <2>1, <2>4 DEF Aborting, Quiet, Mute
  <2>5. CASE Skips(Said(p))
    <3>1. UNCHANGED <<pc, pending, faults>>
      BY <1>5, <2>5
    <3>2. Aborting(p)'
      <4>1. CASE Live(p)
        <5>1. OnAbort(p)'
          BY <1>1, <1>2, <1>3, <1>5, <2>1, <2>5, <4>1, AbortedHeard DEF OnAbort
        <5> QED
          BY <1>3, <2>1, <3>1, <4>1, <5>1 DEF Aborting
      <4>2. CASE ~Live(p)
        <5>1. outbox'[p] \in {<<>>, <<Cmd("stopped")>>, <<Cmd("refused")>>, <<Cmd("failed")>>}
          BY <1>2, <1>5, <2>1, <2>5, <4>2, AbortedHeard
        <5>2. \A k \in {"stopped", "refused", "failed"} :
                Head(<<Cmd(k)>>) = Cmd(k) /\ Over(Cmd(k))
          BY Tuples DEF Over, Good, Cmd, Message
        <5>3. outbox'[p] = <<>> \/ Over(Head(outbox'[p]))
          BY <5>1, <5>2
        <5>4. LeftAborted(p)'
          BY <1>3, <5>3 DEF LeftAborted
        <5> QED
          BY <1>3, <2>1, <3>1, <4>2, <5>4 DEF Aborting
      <4> QED
        BY <4>1, <4>2
    <3>3. ASSUME NEW q \in Procs PROVE Talk(q)' /\ Learns(q)' /\ Sent(q)'
      <4>1. Aborting(q)'
        BY <1>3, <2>3, <2>4, <3>1, <3>2 DEF Aborting
      <4> QED
        BY <1>1, <3>1, <4>1, SettledLearns DEF Talk, Still, Sent, Settled
    <3>4. pc' \in Stages /\ pc' \notin Closed /\ Addressed'
      BY <1>1, <3>1 DEF Stages, Closed, Addressed, Stepwise
    <3> QED
      BY <1>1, <2>1, <3>1, <3>3, <3>4, StepwiseStep DEF Stepwise, Stores,
         NeverConfused, Steady
  <2>6. CASE ~Skips(Said(p)) /\ (Good(Said(p), "stopped") \/ Good(Said(p), "alreadyStopped"))
    <3>1. /\ pending' = pending \ {p} /\ UNCHANGED faults
          /\ pc' = IF pending # {p} THEN pc ELSE IF intent = "stop" THEN "counting" ELSE "closing"
      BY <1>5, <2>6
    <3>2. Live(p) => Quiet(p)'
      BY <1>1, <1>2, <1>3, <1>5, <2>1, <2>6, AbortedHeard DEF Quiet, Mute
    <3>3. ASSUME NEW q \in Procs PROVE Talk(q)' /\ Learns(q)' /\ Sent(q)'
      <4>1. q \notin pending' => (Live(q)' => Quiet(q)')
        BY <1>3, <2>4, <3>1, <3>2
      <4>2. CASE pending # {p}
        <5>1. Aborting(q)'
          BY <2>1, <2>3, <3>1, <4>1 DEF Aborting
        <5> QED
          BY <1>1, <3>1, <4>2, <5>1, SettledLearns DEF Talk, Still, Sent, Settled
      <4>3. CASE pending = {p}
        <5>1. pc' \in {"counting", "closing"} /\ q \notin pending'
          BY <3>1, <4>3
        <5> QED
          BY <1>1, <4>1, <5>1, SettledLearns DEF Talk, Still, Sent, Settled
      <4> QED
        BY <4>2, <4>3
    <3>4. pc' \in Stages /\ pc' \notin Closed /\ Addressed'
      BY <1>1, <3>1 DEF Stages, Closed, Addressed, Stepwise
    <3> QED
      BY <1>1, <2>1, <3>1, <3>3, <3>4, StepwiseStep DEF Stepwise, Stores,
         NeverConfused, Steady
  <2>7. CASE ~Skips(Said(p)) /\ ~(Good(Said(p), "stopped") \/ Good(Said(p), "alreadyStopped"))
    <3>1. Cause(Said(p)) = "refused"
      BY <2>2, <2>7 DEF Over, Cause
    <3>2. Poison("refused")
      BY <1>5, <2>7, <3>1
    <3> QED
      BY <1>1, <2>1, <3>2, PoisonStepwise DEF Poison, Closed
  <2> QED
    BY <2>5, <2>6, <2>7
<1> QED
  BY <1>4, <1>5 DEF Aborted

\* A session is stopped: the workers that collect are told so.
LEMMA StopStepwise ==
  ASSUME Stepwise, Inv', Steady, UNCHANGED saved, pc = "waiting", NEW ws \in SUBSET Workers,
         \A q \in Workers : q \in ws <=> Live(q),
         Broadcast(ws, "stop"), pc' = "stopping", pending' = ws, "unexpected" \notin faults',
         outbox' = [q \in Procs |-> outbox'[q]],
         \A q \in Procs : outbox'[q] = outbox[q] \/ (outbox[q] # <<>> /\ ~Live(q))
  PROVE  Stepwise'
<1>1. /\ inbox' = [q \in Procs |-> inbox'[q]]
      /\ \A q \in Procs : inbox'[q] = IF q \in ws /\ Live(q)
                                      THEN Append(inbox[q], Cmd("stop")) ELSE inbox[q]
  BY BroadcastShape DEF Stepwise
<1>2. /\ \A k : Cmd(k)' = Cmd(k)
      /\ \A q \in Procs : /\ Live(q)' <=> Live(q)
                          /\ Plays(q)' <=> Plays(q)
                          /\ Sampling(q)' <=> Sampling(q)
  BY SameWords DEF Steady, Live, Plays, Sampling
<1>3. ASSUME NEW q \in Procs PROVE Talk(q)' /\ Learns(q)' /\ Sent(q)'
  <2>1. Live(q) => Collects(q)
    BY DEF Stepwise, Orderly, Talk
  <2>2. CASE q \in ws
    <3>1. Live(q) /\ inbox[q] = <<>> /\ outbox[q] = <<>> /\ Plays(q)
      BY <2>1, <2>2 DEF Collects, Mute
    <3>2. inbox'[q] = <<Cmd("stop")>> /\ outbox'[q] = <<>>
      BY <1>1, <2>2, <3>1, Tuples
    <3>3. Stopping(q)'
      BY <1>2, <2>2, <3>1, <3>2 DEF Stopping, OnStop
    <3> QED
      BY <3>3, SettledLearns DEF Talk, Still, Sent, Settled
  <2>3. CASE q \notin ws
    <3>1. Live(q)' => Quiet(q)'
      BY <1>1, <1>2, <2>1, <2>3 DEF Collects, Quiet, Mute
    <3>2. Stopping(q)'
      BY <2>3, <3>1 DEF Stopping
    <3> QED
      BY <3>2, SettledLearns DEF Talk, Still, Sent, Settled
  <2> QED
    BY <2>2, <2>3
<1>4. pc' \in Stages /\ pc' \notin Closed /\ Addressed'
  BY DEF Stages, Closed, Addressed
<1> QED
  BY <1>1, <1>3, <1>4, StepwiseStep DEF Stepwise, Steady

LEMMA StopWorkersStepwise ==
  ASSUME Stepwise, Inv', Steady, UNCHANGED saved, pc = "waiting", NEW ws \in SUBSET Workers,
         \A q \in Workers \ ws : ~Live(q), NEW why, StopWorkers(ws, why),
         outbox' = [q \in Procs |-> outbox'[q]],
         \A q \in Procs : outbox'[q] = outbox[q] \/ (outbox[q] # <<>> /\ ~Live(q))
  PROVE  Stepwise'
<1>1. CASE ws = {}
  BY <1>1, PoisonStepwise DEF StopWorkers, Poison, Closed
<1>2. CASE ws # {} /\ Reached(ws) # ws
  BY <1>2, PoisonStepwise DEF StopWorkers, Command, Poison, Closed
<1>3. CASE ws # {} /\ Reached(ws) = ws
  <2>1. Broadcast(ws, "stop") /\ pc' = "stopping" /\ pending' = ws /\ UNCHANGED faults
    BY <1>3 DEF StopWorkers, Command, WaitFor
  <2>2. \A q \in Workers : q \in ws <=> Live(q)
    BY <1>3 DEF Reached, Live
  <2> QED
    BY <2>1, <2>2, StopStepwise DEF Stepwise, NeverConfused
<1> QED
  BY <1>1, <1>2, <1>3

LEMMA TargetStepwise ==
  ASSUME Stepwise, Inv', TargetOrStop
  PROVE  Stepwise'
<1>1. Steady /\ UNCHANGED <<saved, outbox>> /\ pc = "waiting"
  BY DEF TargetOrStop, Steady, UnchangedProcesses, UnchangedRun, Ignore
<1>2. \E why : StopWorkers(Workers, why)
  BY DEF TargetOrStop
<1> QED
  BY <1>1, <1>2, StopWorkersStepwise DEF Stepwise, Stores

LEMMA FailedStepwise ==
  ASSUME Stepwise, Inv', NEW w \in Workers, WorkerFailed(w)
  PROVE  Stepwise'
<1>1. Steady /\ UNCHANGED saved /\ pc = "waiting" /\ w \in Procs
  BY DEF WorkerFailed, Steady, UnchangedProcesses, UnchangedRun, Procs
<1>2. Live(w) => outbox[w] = <<>>
  BY <1>1 DEF Stepwise, Orderly, Talk, Collects, Mute
<1>3. CASE outbox[w] # <<>> /\ Take(w)
  <2>1. /\ outbox' = [q \in Procs |-> outbox'[q]]
        /\ \A q \in Procs : outbox'[q] = outbox[q] \/ (outbox[q] # <<>> /\ ~Live(q))
    BY <1>1, <1>2, <1>3, TakeShape DEF Stepwise
  <2>2. StopWorkers(Workers, "failed") \/ StopWorkers(Workers \ {w}, "failed")
    BY DEF WorkerFailed
  <2>3. ~Live(w)
    BY <1>2, <1>3
  <2> QED
    BY <1>1, <2>1, <2>2, <2>3, StopWorkersStepwise
<1>4. CASE Ignore /\ StopWorkers(Workers, "failed")
  BY <1>1, <1>4, StopWorkersStepwise DEF Stepwise, Stores, Ignore
<1> QED
  BY <1>3, <1>4 DEF WorkerFailed

LEMMA StoppedStepwise ==
  ASSUME Stepwise, Inv', NEW p \in Procs, Stopped(p)
  PROVE  Stepwise'
<1>1. Steady /\ UNCHANGED <<saved, inbox>> /\ pc = "stopping"
  BY DEF Stopped, Steady, UnchangedProcesses, UnchangedRun
<1>2. \A q \in Procs : Orderly(q) /\ Stopping(q)
  BY <1>1 DEF Stepwise, Orderly, Talk
<1>3. /\ \A k : Cmd(k)' = Cmd(k)
      /\ \A m : Over(m)' <=> Over(m)
      /\ \A q \in Procs : /\ Live(q)' <=> Live(q)
                          /\ Plays(q)' <=> Plays(q)
                          /\ Sampling(q)' <=> Sampling(q)
  BY <1>1, SameWords DEF Steady, Live, Plays, Sampling
<1>4. CASE Lost(p) /\ Poison("lost") /\ Ignore
  BY <1>1, <1>4, PoisonStepwise DEF Poison, Closed, Stepwise, Stores, Ignore
<1>5. CASE /\ Heard(p) /\ Take(p)
           /\ IF ~Good(Said(p), "stopped") THEN Poison(Cause(Said(p)))
              ELSE IF pending # {p}
              THEN pending' = pending \ {p} /\ UNCHANGED <<pc, faults>>
              ELSE IF intent = "failed" THEN Poison("refused")
              ELSE /\ pending' = {} /\ UNCHANGED faults
                   /\ pc' = IF intent = "late" THEN "closing" ELSE "counting"
  <2>1. /\ outbox' = [q \in Procs |-> outbox'[q]] /\ outbox'[p] = Tail(outbox[p])
        /\ \A q \in Procs \ {p} : outbox'[q] = outbox[q]
        /\ \A q \in Procs : outbox'[q] = outbox[q] \/ outbox[q] # <<>>
        /\ p \in pending /\ outbox[p] # <<>>
    BY <1>5, TakeShape DEF Heard, Stepwise
  <2>2. Over(Said(p)) /\ (Live(p) => Quiet(p)')
    <3>1. CASE Live(p)
      <4>1. inbox[p] = <<>> /\ ~Sampling(p)
            /\ outbox[p] \in {<<Cmd("stopped")>>, <<Cmd("refused")>>}
        BY <1>2, <2>1, <3>1 DEF Stopping, OnStop
      <4>2. PICK k \in {"stopped", "refused"} : outbox[p] = <<Cmd(k)>>
        BY <4>1
      <4>3. Head(<<Cmd(k)>>) = Cmd(k) /\ Tail(<<Cmd(k)>>) = <<>>
        BY Tuples
      <4>4. Over(Cmd(k))
        BY DEF Over, Good, Cmd, Message
      <4>5. Said(p) = Cmd(k) /\ outbox'[p] = <<>>
        BY <2>1, <4>2, <4>3 DEF Said
      <4> QED
        BY <1>1, <1>3, <4>1, <4>4, <4>5 DEF Quiet, Mute
    <3>2. CASE ~Live(p)
      BY <1>2, <2>1, <3>2 DEF Stopping, Said
    <3> QED
      BY <3>1, <3>2
  <2>3. CASE ~Good(Said(p), "stopped") \/ (pending = {p} /\ intent = "failed")
    <3>1. Poison("refused")
      BY <1>5, <2>2, <2>3 DEF Over, Cause
    <3> QED
      BY <1>1, <2>1, <3>1, PoisonStepwise DEF Poison, Closed
  <2>4. CASE Good(Said(p), "stopped") /\ pending # {p}
    <3>1. pending' = pending \ {p} /\ UNCHANGED <<pc, faults>>
      BY <1>5, <2>4
    <3>2. ASSUME NEW q \in Procs PROVE Talk(q)' /\ Learns(q)' /\ Sent(q)'
      <4>1. CASE q = p
        <5>1. Stopping(q)'
          BY <1>3, <2>2, <3>1, <4>1 DEF Stopping
        <5> QED
          BY <1>1, <3>1, <5>1, SettledLearns DEF Talk, Still, Sent, Settled
      <4>2. CASE q # p
        <5>1. outbox'[q] = outbox[q] /\ inbox'[q] = inbox[q] /\ (q \in pending' <=> q \in pending)
          BY <1>1, <2>1, <3>1, <4>2
        <5>2. OnStop(q) => OnStop(q)'
          BY <1>3, <5>1 DEF OnStop
        <5>3. Stopping(q)'
          BY <1>2, <1>3, <5>1, <5>2 DEF Stopping, Quiet, Mute
        <5> QED
          BY <1>1, <3>1, <5>3, SettledLearns DEF Talk, Still, Sent, Settled
      <4> QED
        BY <4>1, <4>2
    <3>3. pc' \in Stages /\ pc' \notin Closed /\ Addressed'
      BY <1>1, <3>1 DEF Stages, Closed, Addressed, Stepwise
    <3> QED
      BY <1>1, <2>1, <3>1, <3>2, <3>3, StepwiseStep DEF Stepwise, Stores,
         NeverConfused, Steady
  <2>5. CASE Good(Said(p), "stopped") /\ pending = {p} /\ intent # "failed"
    <3>1. UNCHANGED faults /\ pc' \in {"closing", "counting"}
      BY <1>5, <2>5
    <3>2. ASSUME NEW q \in Procs PROVE Talk(q)' /\ Learns(q)' /\ Sent(q)'
      <4>1. Live(q)' => Quiet(q)'
        BY <1>1, <1>2, <1>3, <2>1, <2>2, <2>5 DEF Stopping, Quiet, Mute
      <4> QED
        BY <1>1, <3>1, <4>1, SettledLearns DEF Talk, Still, Sent, Settled
    <3>3. pc' \in Stages /\ pc' \notin Closed /\ Addressed'
      BY <3>1 DEF Stages, Closed, Addressed
    <3> QED
      BY <1>1, <2>1, <3>1, <3>2, <3>3, StepwiseStep DEF Stepwise, Stores,
         NeverConfused, Steady
  <2> QED
    BY <2>3, <2>4, <2>5
<1> QED
  BY <1>4, <1>5 DEF Stopped

LEMMA SaveStepwise ==
  ASSUME Stepwise, Inv', NEW p \in Procs, Save(p)
  PROVE  Stepwise'
<1>1. Steady /\ UNCHANGED inbox /\ pc \in {"snapshotting", "finalizing"} /\ pc \in Settled
  BY DEF Save, Steady, UnchangedProcesses, UnchangedRun, Settled
<1>2. \A q \in Procs : Orderly(q) /\ Exchange(q, "snapshot", "snapshot")
  BY <1>1 DEF Stepwise, Orderly, Talk
<1>3. \A q \in Procs : /\ Live(q)' <=> Live(q)
                       /\ Sampling(q)' <=> Sampling(q)
  BY <1>1 DEF Steady, Live, Sampling
<1>4. CASE Lost(p) /\ Poison("lost") /\ Ignore /\ UNCHANGED saved
  BY <1>1, <1>4, PoisonStepwise DEF Poison, Closed, Stepwise, Stores, Ignore
<1>5. CASE Heard(p) /\ ~Good(Said(p), "snapshot") /\ Take(p)
           /\ Poison(Cause(Said(p))) /\ UNCHANGED saved
  <2>1. Fine(Said(p), "snapshot")
    BY <1>2, <1>5, ExchangeHeard
  <2>2. Cause(Said(p)) = "refused"
    BY <1>5, <2>1 DEF Fine, Cause
  <2>3. outbox[p] # <<>>
    BY <1>5 DEF Heard
  <2> QED
    BY <1>1, <1>5, <2>2, <2>3, TakeShape, PoisonStepwise DEF Poison, Closed, Stepwise
<1>6. CASE /\ Heard(p) /\ Good(Said(p), "snapshot") /\ Take(p)
           /\ \/ /\ saved' = [updates |-> updates, rounds |-> rounds, model |-> Said(p).state]
                 /\ last' = TRUE /\ UNCHANGED faults
                 /\ WaitFor(IF pc = "finalizing" THEN "closing" ELSE "idle", {})
              \/ GiveUp("disk") /\ UNCHANGED <<saved, last>>
  <2>1. /\ outbox' = [q \in Procs |-> outbox'[q]] /\ outbox'[p] = Tail(outbox[p])
        /\ \A q \in Procs \ {p} : outbox'[q] = outbox[q]
        /\ \A q \in Procs : outbox'[q] = outbox[q] \/ outbox[q] # <<>>
        /\ p \in pending /\ outbox[p] # <<>>
    BY <1>6, TakeShape DEF Heard, Stepwise
  <2>2. pending = {p}
    BY <1>1, <2>1 DEF Stepwise, Addressed
  <2>3. Said(p).state.version = updates
    BY <1>1, <1>2, <1>6, <2>1 DEF Orderly, Sent, Said
  <2>4. saved'.model.version = saved'.updates
    BY <1>1, <1>6, <2>3 DEF Steady, Stepwise
  <2>5. pc' \in {"closing", "idle"} /\ "unexpected" \notin faults'
    BY <1>6 DEF WaitFor, GiveUp, Stepwise, NeverConfused
  <2>6. ASSUME NEW q \in Procs PROVE Talk(q)' /\ Learns(q)' /\ Sent(q)'
    <3>1. Live(q)' => Quiet(q)'
      <4>1. CASE q = p
        BY <1>1, <1>2, <1>3, <1>6, <2>1, <4>1, ExchangeHeard DEF Quiet, Mute
      <4>2. CASE q # p
        BY <1>1, <1>2, <1>3, <2>1, <2>2, <4>2 DEF Exchange, Quiet, Mute
      <4> QED
        BY <4>1, <4>2
    <3> QED
      BY <1>1, <2>5, <3>1, SettledLearns DEF Talk, Still, Sent
  <2>7. pc' \in Stages /\ pc' \notin Closed /\ Addressed'
    BY <2>5 DEF Stages, Closed, Addressed
  <2> QED
    BY <1>1, <2>1, <2>4, <2>5, <2>6, <2>7, StepwiseStep DEF Stepwise, Stores
<1> QED
  BY <1>4, <1>5, <1>6 DEF Save

LEMMA CloseStepwise ==
  ASSUME Stepwise, Inv', Close
  PROVE  Stepwise'
<1>1. /\ Steady /\ UNCHANGED <<saved, outbox, faults>> /\ pc = "closing" /\ pc' = "reaping"
      /\ Broadcast(Born, "exit")
  BY DEF Close, Steady, UnchangedProcesses, UnchangedRun, Ignore, WaitFor
<1>2. /\ inbox' = [q \in Procs |-> inbox'[q]]
      /\ \A q \in Procs : inbox'[q] = IF q \in Born /\ Live(q)
                                      THEN Append(inbox[q], Cmd("exit")) ELSE inbox[q]
  BY <1>1, BroadcastShape DEF Stepwise
<1>3. \A k : Cmd(k)' = Cmd(k) /\ Cmd(k).kind = k
  BY <1>1 DEF Steady, Cmd, Message
<1>4. ASSUME NEW q \in Procs, Live(q) PROVE inbox'[q] \in {<<>>, <<Cmd("exit")>>} /\ ~Sampling(q)'
  <2>1. Quiet(q)
    BY <1>1, <1>4 DEF Stepwise, Orderly, Talk, Still
  <2>2. Append(<<>>, Cmd("exit")) = <<Cmd("exit")>>
    BY Tuples
  <2> QED
    BY <1>1, <1>2, <2>1, <2>2 DEF Quiet, Mute, Sampling, Steady
<1>5. Remains'
  <2>1. \A q \in Procs : Live(q)' <=> Live(q)
    BY <1>1 DEF Steady, Live
  <2>2. \A q \in Procs : Live(q)' => inbox'[q] \in Letters'
    BY <1>3, <1>4, <2>1 DEF Letters
  <2>3. ASSUME NEW w \in Workers, Live(w)' PROVE OnPolicy(w)'
    <3>1. w \in Procs /\ Live(w)
      BY <2>1, <2>3 DEF Procs
    <3>2. <<Cmd("exit")>> \notin {<<Cmd("start")>>, <<Cmd("start"), Cmd("stop")>>}
          /\ <<>> \notin {<<Cmd("start")>>, <<Cmd("start"), Cmd("stop")>>}
      BY <1>3, Tuples
    <3>3. ~Starts(w)' /\ ~Sampling(w)'
      BY <1>3, <1>4, <3>1, <3>2 DEF Starts
    <3> QED
      BY <3>3 DEF OnPolicy
  <2> QED
    BY <2>2, <2>3 DEF Remains
<1>6. Addressed' /\ \A q \in Procs : Talk(q)' /\ Learns(q)' /\ Sent(q)'
  BY <1>1, ClosedTalk, PoolAssumption DEF Procs, Closed
<1> QED
  BY <1>1, <1>2, <1>5, <1>6, StepwiseStep DEF Stepwise, Stores, NeverConfused,
     Stages, Steady

\* The steps that change more than the conversations.
LEMMA ReapStepwise ==
  ASSUME Stepwise, Inv', NEW p \in Procs, Reap(p)
  PROVE  Stepwise'
<1>1. /\ UNCHANGED <<local, arena, pc, updates, saved, faults>> /\ pc = "reaping"
      /\ run' = [run EXCEPT ![p] = "dead"] /\ inbox' = [inbox EXCEPT ![p] = <<>>]
      /\ outbox' = [outbox EXCEPT ![p] = <<>>] /\ model' = [model EXCEPT ![p] = Unloaded]
      /\ task' = [w \in Workers |-> IF w = p THEN NoTask ELSE task[w]]
  BY DEF Reap, Die, UnchangedRun
<1>2. run'[p] = "dead" /\ \A q \in Procs \ {p} : Apart(q)
  BY <1>1 DEF Stepwise, Stores, Inv, RunOK, Apart
<1>3. Harmless(p)
  BY <1>2 DEF Harmless, Live
<1>4. Remains'
  BY <1>1, <1>2, <1>3, ApartUnmoved, HarmlessRemains DEF Stepwise
<1>5. Stores'
  <2>1. inbox' = [q \in Procs |-> inbox'[q]] /\ outbox' = [q \in Procs |-> outbox'[q]]
    BY <1>1 DEF Stepwise, Stores
  <2>2. model' = [q \in Procs |-> [loaded |-> model'[q].loaded, version |-> model'[q].version,
                                  learnt |-> model'[q].learnt]]
    BY <1>1 DEF Stepwise, Stores, Unloaded
  <2>3. task' \in [Workers -> [at : {"none", "running", "full", "failed"}, version : Nat]]
    BY <1>1 DEF Stepwise, Stores, NoTask
  <2> QED
    BY <1>1, <2>1, <2>2, <2>3 DEF Stepwise, Stores
<1>6. Addressed' /\ \A q \in Procs : Talk(q)' /\ Learns(q)' /\ Sent(q)'
  BY <1>1, ClosedTalk, PoolAssumption DEF Procs, Closed
<1>7. ASSUME NEW q \in Procs PROVE Young(q)'
  <2>1. CASE q = p
    BY <1>2, <2>1 DEF Young
  <2>2. CASE q # p
    BY <1>2, <2>2, ApartUnmoved DEF Stepwise, Orderly, Young, Unmoved
  <2> QED
    BY <2>1, <2>2
<1> QED
  BY <1>1, <1>4, <1>5, <1>6, <1>7 DEF Stepwise, NeverConfused, Orderly

LEMMA EndStepwise ==
  ASSUME Stepwise, Inv', End
  PROVE  Stepwise'
<1>1. /\ UNCHANGED <<local, run, inbox, outbox, task, model, updates, saved, faults>>
      /\ pc' = "ended" /\ arena' = [w \in Workers |-> EmptyArena(0)]
  BY DEF End, UnchangedRun
<1>2. \A q \in Procs : Harmless(q) /\ Young(q)'
  BY <1>1 DEF Harmless, Live, Stays, Starts, Letters, Cmd, Message, Sampling,
     Stepwise, Orderly, Young
<1>3. Remains'
  BY <1>1, <1>2, HarmlessRemains DEF Stepwise
<1>4. Addressed' /\ \A q \in Procs : Talk(q)' /\ Learns(q)' /\ Sent(q)'
  BY <1>1, ClosedTalk, PoolAssumption DEF Procs, Closed
<1>5. Stores'
  BY <1>1 DEF Stepwise, Stores, Stages, EmptyArena
<1> QED
  BY <1>1, <1>2, <1>3, <1>4, <1>5 DEF Stepwise, NeverConfused, Orderly

LEMMA KillStepwise ==
  ASSUME Stepwise, Inv', Kill
  PROVE  Stepwise'
<1>1. /\ Steady /\ UNCHANGED <<inbox, saved, faults>> /\ pc' = "killed"
      /\ outbox' = [p \in Procs |-> <<>>]
  BY DEF Kill, Steady, UnchangedRun
<1> QED
  BY <1>1, PoisonStepwise DEF Closed

LEMMA SpawnStepwise ==
  ASSUME Stepwise, Inv', NEW p \in Procs, Spawn(p)
  PROVE  Stepwise'
<1>1. /\ UNCHANGED <<local, inbox, outbox, task, model, arena, updates, saved>> /\ pc = "opening"
      /\ p \in pending /\ Spawned(p)
  BY DEF Spawn, SpawnModelRank, SpawnWorker, UnchangedRun
<1>2. CASE UNCHANGED run /\ Poison("startup")
  BY <1>1, <1>2, PoisonStepwise DEF Steady, Poison, Closed, Stepwise, Stores
<1>3. CASE /\ run' = [run EXCEPT ![p] = "setup"] /\ pending' = pending \ {p}
           /\ pc' = IF pending = {p} THEN "opened" ELSE pc
           /\ UNCHANGED faults
  <2>1. pc' \in {"opening", "opened"}
    BY <1>1, <1>3
  <2>2. run[p] = "unborn" /\ run'[p] = "setup" /\ \A q \in Procs \ {p} : run'[q] = run[q]
    BY <1>1, <1>3 DEF Stepwise, Addressed, Inv, RunOK
  <2>3. Addressed'
    <3>1. pending \subseteq Procs
      BY DEF Stepwise, Inv, PendingOK, Children, Procs
    <3> QED
      BY <1>1, <1>3, <2>1, <2>2, <3>1 DEF Addressed, Stepwise
  <2>4. Stores'
    BY <1>1, <2>1 DEF Stepwise, Stores, Stages
  <2>5. ASSUME NEW q \in Procs PROVE Orderly(q)'
    <3>1. (Orderly(q) /\ Quiet(q)) \/ ~Live(q)
      BY <1>1 DEF Stepwise, Orderly, Talk, Still
    <3>2. Live(q)' <=> Live(q)
      BY <2>2 DEF Live
    <3>3. Live(q)' => Quiet(q)'
      BY <1>1, <3>1, <3>2 DEF Quiet, Mute, Sampling
    <3>4. Talk(q)' /\ Learns(q)' /\ Sent(q)'
      BY <2>1, <3>3 DEF Talk, Learns, InStep, Settled, Still, Sent
    <3>5. Young(q)'
      <4>1. Live(q) => outbox[q] = <<>> /\ ~Sampling(q)
        BY <3>1 DEF Quiet, Mute
      <4> QED
        BY <1>1, <2>2, <4>1, <3>2 DEF Young, Sampling, Live
    <3> QED
      BY <3>4, <3>5 DEF Orderly
  <2>6. InOrder' /\ pc' \notin Closed
    BY <2>1, <2>4, <2>5 DEF InOrder, Closed
  <2>7. InOrder' /\ (pc \notin Closed)' => Remains'
    BY OrderlyRemains, PTL
  <2>8. Remains'
    BY <2>6, <2>7 DEF Closed
  <2> QED
    BY <1>1, <1>3, <2>3, <2>4, <2>5, <2>8 DEF Stepwise, NeverConfused
<1> QED
  BY <1>1, <1>2, <1>3 DEF Spawned

LEMMA BeginStepwise ==
  ASSUME Stepwise, Inv', BeginUpdate
  PROVE  Stepwise'
<1>1. /\ UNCHANGED <<local, run, task, model, inbox, outbox, updates, saved, faults>>
      /\ pc = "idle" /\ pc' = "reset" /\ arena' = [w \in Workers |-> EmptyArena(updates)]
  BY DEF BeginUpdate
<1>2. Stores' /\ Addressed'
  BY <1>1 DEF Stepwise, Stores, Stages, EmptyArena, Addressed
<1>3. ASSUME NEW q \in Procs PROVE Orderly(q)'
  <2>1. Orderly(q) /\ Ranks' = Ranks
    BY <1>1 DEF Stepwise, Ranks
  <2>2. Live(q)' => Quiet(q)'
    BY <1>1, <2>1 DEF Orderly, Talk, Quiet, Mute, Sampling, Live, Still
  <2>3. Talk(q)' /\ Young(q)' /\ Sent(q)'
    BY <1>1, <2>1, <2>2 DEF Orderly, Talk, Still, Young, Sent, Sampling
  <2>4. Learns(q)'
    BY <1>1, <2>1 DEF Orderly, Learns, InStep, Settled, At, Live
  <2> QED
    BY <2>3, <2>4 DEF Orderly
<1>4. InOrder' /\ (pc \notin Closed)'
  BY <1>1, <1>2, <1>3 DEF InOrder, Closed
<1>5. InOrder' /\ (pc \notin Closed)' => Remains'
  BY OrderlyRemains, PTL
<1>6. Remains'
  BY <1>4, <1>5
<1> QED
  BY <1>1, <1>2, <1>3, <1>6 DEF Stepwise, NeverConfused

\* The counters go on; the ranks were one update ahead.
LEMMA AccountStepwise ==
  ASSUME Stepwise, Inv', Account
  PROVE  Stepwise'
<1>1. /\ UNCHANGED <<local, run, task, model, arena, inbox, outbox, saved, faults>>
      /\ pc = "updated" /\ updates' = updates + 1
      /\ pc' \in {"final", "scheduled", "idle"}
  BY DEF Account, procVars, NextUpdate
<1>2. Stores' /\ Addressed'
  BY <1>1 DEF Stepwise, Stores, Stages, Addressed
<1>3. ASSUME NEW q \in Procs PROVE Orderly(q)'
  <2>1. Orderly(q) /\ Ranks' = Ranks
    BY <1>1 DEF Stepwise, Ranks
  <2>2. Live(q)' => Quiet(q)'
    BY <1>1, <2>1 DEF Orderly, Talk, Quiet, Mute, Sampling, Live, Still
  <2>3. Talk(q)' /\ Young(q)' /\ Sent(q)'
    BY <1>1, <2>1, <2>2 DEF Orderly, Talk, Still, Young, Sent, Sampling
  <2>4. Learns(q)'
    BY <1>1, <2>1 DEF Orderly, Learns, InStep, Settled, At, Live
  <2> QED
    BY <2>3, <2>4 DEF Orderly
<1>4. InOrder' /\ (pc \notin Closed)'
  BY <1>1, <1>2, <1>3 DEF InOrder, Closed
<1>5. InOrder' /\ (pc \notin Closed)' => Remains'
  BY OrderlyRemains, PTL
<1>6. Remains'
  BY <1>4, <1>5
<1> QED
  BY <1>1, <1>2, <1>3, <1>6 DEF Stepwise, NeverConfused

LEMMA RequestStepwise ==
  ASSUME Stepwise, Inv', RequestStop
  PROVE  Stepwise'
<1>1. /\ UNCHANGED <<local, run, task, model, arena, inbox, outbox, pc, pending, updates, saved,
                     faults>>
  BY DEF RequestStop, procVars
<1>2. Stores' /\ Addressed' /\ NeverConfused'
  BY <1>1 DEF Stepwise, Stores, Addressed, NeverConfused, RankZero
<1>3. \A q \in Procs : Apart(q)
  BY <1>1 DEF Apart
<1>4. \A q \in Procs : Orderly(q)' /\ Harmless(q)
  BY <1>1, <1>3, ApartUnmoved, UnmovedOrderly DEF Stepwise
<1>5. Remains'
  BY <1>1, <1>4, HarmlessRemains DEF Stepwise
<1> QED
  BY <1>1, <1>2, <1>4, <1>5 DEF Stepwise

\* A deadline passes.
LEMMA LateStepwise ==
  ASSUME Stepwise, Inv', Late
  PROVE  Stepwise'
<1>1. Steady /\ UNCHANGED <<outbox, saved>> /\ outbox' = [q \in Procs |-> outbox'[q]]
  BY DEF Late, UnchangedProcesses, UnchangedRun, Ignore, Steady, Stepwise, Stores
<1>2. CASE pc = "starting" /\ Abort(ToldToStart, "reject", {"late"})
  BY <1>1, <1>2, AbortStepwise DEF ToldToStart
<1>3. CASE /\ pc \in {"loading", "aborting", "stopping", "updating", "snapshotting", "finalizing"}
           /\ Poison("late") /\ UNCHANGED <<inbox, intent>>
  BY <1>1, <1>3, PoisonStepwise DEF Poison, Closed
<1>4. CASE /\ pc = "waiting" /\ Reached(Workers) = Workers /\ Broadcast(Workers, "stop")
           /\ WaitFor("stopping", Workers) /\ faults' = faults \union {"late"}
  <2>1. \A q \in Workers : Live(q)
    BY <1>4 DEF Reached, Live
  <2>2. pc' = "stopping" /\ pending' = Workers /\ "unexpected" \notin faults'
    BY <1>4 DEF WaitFor, Stepwise, NeverConfused
  <2> QED
    BY <1>1, <1>4, <2>1, <2>2, StopStepwise
<1>5. CASE pc = "waiting" /\ Poison("lost") /\ UNCHANGED <<inbox, intent>>
  BY <1>1, <1>5, PoisonStepwise DEF Poison, Closed
<1> QED
  BY <1>2, <1>3, <1>4, <1>5 DEF Late

LEMMA TalkStepwise ==
  ASSUME Stepwise, Inv', NEW p \in Procs,
         LoadStates \/ StateLoaded(p) \/ Updated(p) \/ Count \/ Finish \/ AskSnapshot
  PROVE  Stepwise'
<1>0. Ranks \subseteq Procs /\ {RankZero} \subseteq Procs
  BY PoolAssumption DEF Ranks, RankZero, Procs
<1>1. Steady /\ UNCHANGED saved
  BY DEF LoadStates, StateLoaded, Updated, Count, Finish, AskSnapshot,
     UnchangedProcesses,
     UnchangedRun, Steady, procVars
<1>2. CASE LoadStates
  BY <1>0, <1>1, <1>2, CommandStepwise DEF LoadStates, Ignore, Still
<1>3. CASE StateLoaded(p)
  BY <1>1, <1>3, CollectStepwise DEF StateLoaded
<1>4. CASE Updated(p)
  BY <1>1, <1>4, CollectStepwise DEF Updated
<1>5. CASE Count
  <2>1. pc = "counting" /\ UNCHANGED outbox /\ pc \in Still /\ pc \in Settled
    BY <1>5 DEF Count, Ignore, Still, Settled
  <2>2. CASE pc' = "final" /\ UNCHANGED <<inbox, pending, faults>>
    BY <1>1, <2>1, <2>2, StillStepwise DEF Still
  <2>3. CASE Command(Ranks, "update", "updating")
    BY <1>0, <1>1, <2>1, <2>3, CommandStepwise
  <2> QED
    BY <1>5, <2>2, <2>3 DEF Count
<1>6. CASE Finish
  BY <1>1, <1>6, StillStepwise DEF Finish, procVars, Still, Settled
<1>7. CASE AskSnapshot
  <2>1. UNCHANGED outbox /\ pc \in Still /\ pc \in Settled
    BY <1>7 DEF AskSnapshot, Ignore, Still, Settled
  <2>2. CASE WaitFor("closing", {}) /\ UNCHANGED <<inbox, faults>>
    BY <1>1, <2>1, <2>2, StillStepwise DEF WaitFor, Still, Settled
  <2>3. CASE Command({RankZero}, "snapshot", "snapshotting")
    BY <1>0, <1>1, <2>1, <2>3, CommandStepwise
  <2>4. CASE Command({RankZero}, "snapshot", "finalizing")
    BY <1>0, <1>1, <2>1, <2>4, CommandStepwise
  <2> QED
    BY <1>7, <2>2, <2>3, <2>4 DEF AskSnapshot
<1> QED
  BY <1>2, <1>3, <1>4, <1>5, <1>6, <1>7

LEMMA InitStepwise == Init => Stepwise
<1> SUFFICES ASSUME Init PROVE Stepwise
  OBVIOUS
<1> USE DEF Init, InitProcesses
<1>1. Inv
  BY InitInv
<1>2. Stores
  BY PoolAssumption DEF Stores, NoTask, EmptyArena, Unloaded, Stages, Procs
<1>3. pending \subseteq Procs
  BY DEF Children, Procs
<1>4. Addressed /\ NeverConfused /\ saved.model.version = saved.updates
  BY <1>3 DEF Addressed, NeverConfused, NoCheckpoint, Unloaded
<1>5. ASSUME NEW p \in Procs PROVE Orderly(p)
  <2>1. Quiet(p)
    BY DEF Quiet, Mute, Sampling, NoTask, Procs
  <2> QED
    BY <2>1 DEF Orderly, Talk, Young, Learns, InStep, Sent, Settled, Quiet, Mute
<1>6. Remains
  BY <1>2, <1>5, OrderlyRemains DEF InOrder, Closed
<1> QED
  BY <1>1, <1>2, <1>4, <1>5, <1>6 DEF Stepwise

LEMMA NextStepwise == Stepwise /\ [Next]_vars => Stepwise'
<1> SUFFICES ASSUME Stepwise, [Next]_vars PROVE Stepwise'
  OBVIOUS
<1>1. Inv'
  BY NextInv DEF Stepwise
<1>2. CASE UNCHANGED vars
  <2>1. UNCHANGED <<local, run, task, model, arena, inbox, outbox, pc, pending, updates, saved,
                    faults>>
    BY <1>2 DEF vars, procVars, coordVars
  <2>2. Stores' /\ Addressed' /\ NeverConfused'
    BY <2>1 DEF Stepwise, Stores, Addressed, NeverConfused, RankZero
  <2>3. \A q \in Procs : Apart(q)
    BY <2>1 DEF Apart
  <2>4. \A q \in Procs : Orderly(q)' /\ Harmless(q)
    BY <2>1, <2>3, ApartUnmoved, UnmovedOrderly DEF Stepwise
  <2>5. Remains'
    BY <2>1, <2>4, HarmlessRemains DEF Stepwise
  <2> QED
    BY <1>1, <2>1, <2>2, <2>4, <2>5 DEF Stepwise
<1>3. CASE CoordinatorStep
  <2>1. CASE LoadStates \/ Count \/ Finish \/ AskSnapshot
    BY <1>1, <2>1, TalkStepwise, PoolAssumption DEF Procs
  <2>2. CASE Close \/ End \/ BeginUpdate \/ Start \/ TargetOrStop \/ Account
    BY <1>1, <2>2, CloseStepwise, EndStepwise, BeginStepwise, StartStepwise,
       TargetStepwise,
       AccountStepwise
  <2>3. ASSUME NEW p \in Procs, StateLoaded(p) \/ Updated(p)
        PROVE  Stepwise'
    BY <1>1, <2>3, TalkStepwise
  <2>4. ASSUME NEW p \in Procs,
               Spawn(p) \/ Reap(p) \/ Started(p) \/ Aborted(p) \/ Stopped(p) \/ Save(p)
        PROVE  Stepwise'
    BY <1>1, <2>4, SpawnStepwise, ReapStepwise, StartedStepwise, AbortedStepwise,
       StoppedStepwise, SaveStepwise
  <2>5. ASSUME NEW w \in Workers, WorkerFailed(w)
        PROVE  Stepwise'
    BY <1>1, <2>5, FailedStepwise
  <2> QED
    BY <1>3, <2>1, <2>2, <2>3, <2>4, <2>5 DEF CoordinatorStep
<1>4. CASE Trouble
  <2>1. CASE Late \/ RequestStop \/ Kill
    BY <1>1, <2>1, LateStepwise, RequestStepwise, KillStepwise
  <2>2. ASSUME NEW w \in Workers, FailRound(w), UNCHANGED coordVars
        PROVE  Stepwise'
    BY <2>2, ChildStepwise DEF Procs
  <2>3. ASSUME NEW p \in Procs, Crash(p), UNCHANGED coordVars
        PROVE  Stepwise'
    BY <2>3, ChildStepwise
  <2> QED
    BY <1>4, <2>1, <2>2, <2>3 DEF Trouble
<1>5. ASSUME NEW p \in Procs, ChildStep(p)
      PROVE  Stepwise'
  BY <1>5, ChildStepwise DEF ChildStep
<1> QED
  BY <1>2, <1>3, <1>4, <1>5 DEF Next

LEMMA Steps == Spec => []Stepwise
<1>1. Init => Stepwise
  BY InitStepwise
<1>2. Stepwise /\ [Next]_vars => Stepwise'
  BY NextStepwise
<1> QED
  BY <1>1, <1>2, PTL DEF Spec

\* Every exchange ends with both sides in step, for any number of workers,
\* ranks and crashes: between two exchanges no process that is up has a
\* message on its way or samples, and no answer is ever of the wrong kind or
\* version, whatever was refused, aborted or late.
THEOREM ExchangesInStep == Spec => []GroupsInStep
<1>1. Stepwise => GroupsInStep
  <2> SUFFICES ASSUME Stepwise PROVE GroupsInStep
    OBVIOUS
  <2>1. \A p \in Procs : pc \in Still /\ run[p] = "up" => Quiet(p)
    BY DEF Stepwise, Orderly, Talk, Live
  <2>2. AtRest
    BY <2>1 DEF AtRest, Still, Quiet, Mute
  <2> QED
    BY <2>2 DEF GroupsInStep, Stepwise
<1> QED
  BY <1>1, Steps, PTL

\* A round that enters an arena was played by a model of the version the
\* arena and the coordinator are at.
LEMMA StepOnPolicy ==
  ASSUME Stepwise, [Next]_vars, NEW w \in Workers, arena'[w].count > arena[w].count
  PROVE  model[Rank(w)].version = arena[w].version /\ arena[w].version = updates
<1>0. arena[w].count \in Nat /\ arena[w] = [version |-> arena[w].version, count |-> arena[w].count]
  BY DEF Stepwise, Stores
<1>1. arena' # arena
  BY <1>0
<1>2. CASE arena' \in {[v \in Workers |-> EmptyArena(0)], [v \in Workers |-> EmptyArena(updates)]}
  <2>1. arena'[w].count = 0
    BY <1>2 DEF EmptyArena
  <2> QED
    BY <1>0, <2>1
<1>3. ASSUME NEW p \in Workers, PlayRound(p)
      PROVE  model[Rank(w)].version = arena[w].version /\ arena[w].version = updates
  <2>1. arena' = AcceptRound(p) /\ run[p] = "up" /\ task[p].at = "running" /\ run[Rank(p)] = "up"
        /\ arena[p].version = task[p].version
    BY <1>1, <1>3 DEF PlayRound
  <2>2. w = p
    BY <1>0, <2>1 DEF AcceptRound, Stepwise, Stores
  <2>3. OnPolicy(p)
    BY <2>1 DEF Stepwise, Remains, Live, Procs
  <2> QED
    BY <2>1, <2>2, <2>3 DEF OnPolicy, Sampling, Live, Stays
<1>4. CASE UNCHANGED vars
  BY <1>1, <1>4 DEF vars, procVars
<1>5. CASE CoordinatorStep
  <2>1. CASE End \/ BeginUpdate
    BY <1>2, <2>1 DEF End, BeginUpdate
  <2>2. CASE ~(End \/ BeginUpdate)
    <3>1. UNCHANGED arena
      BY <1>5, <2>2 DEF CoordinatorStep, LoadStates, Close, Start, TargetOrStop,
         Count, Account,
         Finish, AskSnapshot, Spawn, StateLoaded, Reap, Started, Aborted, Stopped, Updated, Save,
         WorkerFailed, UnchangedProcesses, procVars
    <3> QED
      BY <1>1, <3>1
  <2> QED
    BY <2>1, <2>2
<1>6. CASE Trouble
  <2>1. UNCHANGED arena
    BY <1>6 DEF Trouble, Late, RequestStop, Kill, FailRound, Crash,
       UnchangedProcesses, procVars
  <2> QED
    BY <1>1, <2>1
<1>7. ASSUME NEW p \in Procs, ChildStep(p)
      PROVE  model[Rank(w)].version = arena[w].version /\ arena[w].version = updates
  <2>1. CASE p \in Workers /\ PlayRound(p)
    BY <1>3, <2>1
  <2>2. CASE ~(p \in Workers /\ PlayRound(p))
    <3>1. UNCHANGED arena
      BY <1>7, <2>2 DEF ChildStep, ProcessStep, Setup, LoadState, UpdateModel,
         Snapshot, Exit,
         StartSampling, DecisionExpires, FailRound, ReportFailure, StopSampling, LoseControl
    <3> QED
      BY <1>1, <3>1
  <2> QED
    BY <2>1, <2>2
<1> QED
  BY <1>4, <1>5, <1>6, <1>7 DEF Next

\* PPO stays on policy, for any number of workers and ranks: whatever is
\* aborted, late, killed or left behind by a coordinator that died, a round is
\* never added to an arena of another version than the model that played it.
THEOREM RoundsOnPolicy == Spec => PlayedOnPolicy
<1>1. Stepwise /\ [Next]_vars =>
        [\A w \in Workers : arena'[w].count > arena[w].count =>
           model[Rank(w)].version = arena[w].version /\ arena[w].version = updates]_vars
  BY StepOnPolicy
<1> QED
  BY <1>1, Steps, PTL DEF Spec, PlayedOnPolicy

---------------------------------------------------------------------------
(* Sums over finite sets.  MapThenSumSet takes the elements in an order    *)
(* that its CHOOSE fixes; the order makes no difference, and that is all   *)
(* that is needed of it.  What would be proved by induction on a set is    *)
(* proved from a smallest set for which it fails.                          *)

LEMMA SmallestSubset ==
  ASSUME NEW S, IsFiniteSet(S), NEW B \in SUBSET (SUBSET S), B # {}
  PROVE  \E T \in B : \A U \in B : U \subseteq T => U = T
<1>1. B \subseteq FiniteSubsetsOf(S)
  BY FS_Subset DEF FiniteSubsetsOf
<1>2. PICK T \in B : \A U \in B : ~(<<U, T>> \in StrictSubsetOrdering(S))
  BY <1>1, WFMin, FS_StrictSubsetOrderingWellFounded
<1>3. \A U \in B : U \subseteq T => U = T
  BY <1>2 DEF StrictSubsetOrdering
<1> QED
  BY <1>3

\* t sums f over the subsets of S.
Sums(t, f, S) ==
  /\ t \in [SUBSET S -> Nat] /\ t[{}] = 0
  /\ \A s \in SUBSET S : \A x \in s : t[s] = f[x] + t[s \ {x}]

LEMMA OneMore ==
  ASSUME NEW T, NEW x \in T, NEW f \in [T -> Nat], NEW t0, Sums(t0, f, T \ {x})
  PROVE  \E t : Sums(t, f, T)
<1> DEFINE t == [s \in SUBSET T |-> IF x \in s THEN f[x] + t0[s \ {x}] ELSE t0[s]]
<1>1. \A s \in SUBSET T : s \ {x} \in SUBSET (T \ {x}) /\ (x \notin s => s \in SUBSET (T \ {x}))
  OBVIOUS
<1>2. t \in [SUBSET T -> Nat]
  BY <1>1 DEF Sums
<1>3. t[{}] = 0
  BY DEF Sums
<1>4. ASSUME NEW s \in SUBSET T, NEW y \in s PROVE t[s] = f[y] + t[s \ {y}]
  <2>1. CASE y = x
    BY <1>1, <2>1
  <2>2. CASE y # x /\ x \notin s
    BY <1>1, <2>2 DEF Sums
  <2>3. CASE y # x /\ x \in s
    <3> DEFINE r == s \ {x}
    <3>1. r \in SUBSET (T \ {x}) /\ y \in r /\ r \ {y} \in SUBSET (T \ {x})
      BY <2>3
    <3>2. t0[r] = f[y] + t0[r \ {y}]
      BY <3>1 DEF Sums
    <3>3. t[s] = f[x] + t0[r]
      BY <2>3
    <3>4. (s \ {y}) \ {x} = r \ {y} /\ x \in s \ {y}
      BY <2>3
    <3>5. t[s \ {y}] = f[x] + t0[r \ {y}]
      BY <3>4
    <3>6. f[x] \in Nat /\ f[y] \in Nat /\ t0[r \ {y}] \in Nat
      BY <3>1 DEF Sums
    <3> HIDE DEF t, r
    <3> QED
      BY <3>2, <3>3, <3>5, <3>6
  <2> QED
    BY <2>1, <2>2, <2>3
<1> HIDE DEF t
<1> QED
  BY <1>2, <1>3, <1>4 DEF Sums

LEMMA SumsExist ==
  ASSUME NEW S, IsFiniteSet(S), NEW f \in [S -> Nat]
  PROVE  \E t : Sums(t, f, S)
<1> DEFINE Some(T) == \E t : Sums(t, [x \in T |-> f[x]], T)
           B == {T \in SUBSET S : ~Some(T)}
<1>1. SUFFICES ASSUME B # {} PROVE FALSE
  <2>1. Some(S)
    BY <1>1
  <2>2. [x \in S |-> f[x]] = f
    OBVIOUS
  <2> QED
    BY <2>1, <2>2
<1>0. B \in SUBSET (SUBSET S)
  OBVIOUS
<1> HIDE DEF B
<1>2. PICK T \in B : \A U \in B : U \subseteq T => U = T
  BY <1>0, <1>1, SmallestSubset
<1> USE DEF B
<1>3. CASE T = {}
  <2> DEFINE t == [s \in SUBSET {} |-> 0]
  <2>1. Sums(t, [x \in {} |-> f[x]], {})
    BY DEF Sums
  <2> QED
    BY <1>2, <1>3, <2>1
<1>4. ASSUME NEW x \in T PROVE FALSE
  <2>1. T \ {x} \notin B /\ T \ {x} \in SUBSET S
    BY <1>2
  <2>2. PICK t0 : Sums(t0, [y \in T \ {x} |-> f[y]], T \ {x})
    BY <2>1
  <2> DEFINE g == [y \in T |-> f[y]]
  <2>3. g \in [T -> Nat]
    OBVIOUS
  <2>4. Sums(t0, g, T \ {x})
    BY <2>2 DEF Sums
  <2>5. \E t : Sums(t, g, T)
    BY <2>3, <2>4, OneMore
  <2> QED
    BY <1>2, <2>5
<1> QED
  BY <1>3, <1>4

Pick(s) == CHOOSE x \in s : TRUE

\* What MapThenSumSet computes is such a sum.
Iterates(h, f, T) ==
  \A s \in SUBSET T : h[s] = IF s = {} THEN 0 ELSE f[Pick(s)] + h[s \ {Pick(s)}]
LEMMA FoldUnique ==
  ASSUME NEW S, IsFiniteSet(S), NEW f, NEW t, Sums(t, f, S), NEW T \in SUBSET S, NEW h,
         Iterates(h, f, T)
  PROVE  h[T] = t[T]
<1> DEFINE B == {s \in SUBSET T : h[s] # t[s]}
<1>1. SUFFICES ASSUME B # {} PROVE FALSE
  BY <1>1
<1>0. B \in SUBSET (SUBSET T) /\ IsFiniteSet(T)
  BY FS_Subset
<1> HIDE DEF B
<1>2. PICK s \in B : \A U \in B : U \subseteq s => U = s
  BY <1>0, <1>1, SmallestSubset
<1> USE DEF B
<1>3. s \in SUBSET T /\ h[s] = IF s = {} THEN 0 ELSE f[Pick(s)] + h[s \ {Pick(s)}]
  BY DEF Iterates
<1>4. s # {}
  BY <1>2, <1>3 DEF Sums
<1> DEFINE x == Pick(s)
<1>5. x \in s
  BY <1>4 DEF Pick
<1> HIDE DEF x
<1>6. s \ {x} \notin B /\ s \ {x} \in SUBSET T
  BY <1>2, <1>5
<1>7. h[s \ {x}] = t[s \ {x}]
  BY <1>6
<1>8. t[s] = f[x] + t[s \ {x}]
  BY <1>3, <1>5 DEF Sums
<1>9. h[s] = f[x] + h[s \ {x}]
  BY <1>3, <1>4 DEF x
<1> QED
  BY <1>2, <1>7, <1>8, <1>9

LEMMA FoldExists ==
  ASSUME NEW S, NEW f, NEW t, Sums(t, f, S), NEW s \in SUBSET S
  PROVE  t[s] = IF s = {} THEN 0 ELSE f[Pick(s)] + t[s \ {Pick(s)}]
<1>1. CASE s = {}
  BY <1>1 DEF Sums
<1>2. CASE s # {}
  <2> DEFINE x == Pick(s)
  <2>1. x \in s
    BY <1>2 DEF Pick
  <2> HIDE DEF x
  <2>2. t[s] = f[x] + t[s \ {x}]
    BY <2>1 DEF Sums
  <2> QED
    BY <1>2, <2>2 DEF x
<1> QED
  BY <1>1, <1>2

Counts == [w \in Workers |-> arena[w].count]
LEMMA RoundsSummed ==
  ASSUME NEW t, Sums(t, Counts, Workers), NEW T \in SUBSET Workers
  PROVE  RoundsIn(T) = t[T]
<1> DEFINE P(g) == g = [s \in SUBSET T |->
                         IF s = {} THEN 0 ELSE arena[Pick(s)].count + g[s \ {Pick(s)}]]
           h == CHOOSE g : P(g)
           g0 == [s \in SUBSET T |-> t[s]]
<1>1. RoundsIn(T) = h[T]
  BY DEF RoundsIn, MapThenSumSet, MapThenFoldSet, Pick
<1>2. \A s \in SUBSET T : s # {} => Counts[Pick(s)] = arena[Pick(s)].count
  BY DEF Pick, Counts
<1>3. \A s \in SUBSET T : t[s] = IF s = {} THEN 0 ELSE Counts[Pick(s)] + t[s \ {Pick(s)}]
  BY FoldExists
<1>4. P(g0)
  <2>1. \A s \in SUBSET T : g0[s] = IF s = {} THEN 0 ELSE arena[Pick(s)].count + g0[s \ {Pick(s)}]
    BY <1>2, <1>3
  <2>2. g0 = [s \in SUBSET T |-> g0[s]]
    OBVIOUS
  <2> HIDE DEF g0
  <2> QED
    BY <2>1, <2>2
<1>5. P(h)
  <2> HIDE DEF P
  <2> QED
    BY <1>4
<1> HIDE DEF h
<1>6. \A s \in SUBSET T : h[s] = IF s = {} THEN 0 ELSE Counts[Pick(s)] + h[s \ {Pick(s)}]
  BY <1>2, <1>5
<1>7. h[T] = t[T]
  <2>1. Iterates(h, Counts, T)
    BY <1>6 DEF Iterates
  <2> HIDE DEF Counts
  <2> QED
    BY <2>1, FoldUnique, PoolAssumption
<1> QED
  BY <1>1, <1>7

Lessons == [p \in Ranks |-> model[p].learnt]
LEMMA LessonsSummed ==
  ASSUME NEW t, Sums(t, Lessons, Ranks)
  PROVE  MapThenSumSet(LAMBDA p : model[p].learnt, Ranks) = t[Ranks]
<1> DEFINE P(g) == g = [s \in SUBSET Ranks |->
                         IF s = {} THEN 0 ELSE model[Pick(s)].learnt + g[s \ {Pick(s)}]]
           h == CHOOSE g : P(g)
           g0 == [s \in SUBSET Ranks |-> t[s]]
<1>1. MapThenSumSet(LAMBDA p : model[p].learnt, Ranks) = h[Ranks]
  BY DEF MapThenSumSet, MapThenFoldSet, Pick
<1>2. \A s \in SUBSET Ranks : s # {} => Lessons[Pick(s)] = model[Pick(s)].learnt
  BY DEF Pick, Lessons
<1>3. \A s \in SUBSET Ranks : t[s] = IF s = {} THEN 0 ELSE Lessons[Pick(s)] + t[s \ {Pick(s)}]
  BY FoldExists
<1>4. P(g0)
  <2>1. \A s \in SUBSET Ranks :
          g0[s] = IF s = {} THEN 0 ELSE model[Pick(s)].learnt + g0[s \ {Pick(s)}]
    BY <1>2, <1>3
  <2>2. g0 = [s \in SUBSET Ranks |-> g0[s]]
    OBVIOUS
  <2> HIDE DEF g0
  <2> QED
    BY <2>1, <2>2
<1>5. P(h)
  <2> HIDE DEF P
  <2> QED
    BY <1>4
<1> HIDE DEF h
<1>6. \A s \in SUBSET Ranks : h[s] = IF s = {} THEN 0 ELSE Lessons[Pick(s)] + h[s \ {Pick(s)}]
  BY <1>2, <1>5
<1>7. h[Ranks] = t[Ranks]
  <2>1. Iterates(h, Lessons, Ranks) /\ IsFiniteSet(Ranks)
    BY <1>6, PoolAssumption DEF Iterates, Ranks
  <2> HIDE DEF Lessons
  <2> QED
    BY <2>1, FoldUnique
<1> QED
  BY <1>1, <1>7

\* Sums of disjoint sets add up.
LEMMA SumsDisjoint ==
  ASSUME NEW S, IsFiniteSet(S), NEW f \in [S -> Nat], NEW t, Sums(t, f, S),
         NEW A \in SUBSET S, NEW C \in SUBSET S, A \intersect C = {}
  PROVE  t[A \union C] = t[A] + t[C]
<1> DEFINE B == {s \in SUBSET C : t[A \union s] # t[A] + t[s]}
<1>1. SUFFICES ASSUME B # {} PROVE FALSE
  BY <1>1
<1>0. B \in SUBSET (SUBSET C) /\ IsFiniteSet(C)
  BY FS_Subset
<1> HIDE DEF B
<1>2. PICK s \in B : \A U \in B : U \subseteq s => U = s
  BY <1>0, <1>1, SmallestSubset
<1> USE DEF B
<1>3. s \in SUBSET C /\ s \in SUBSET S /\ A \union s \in SUBSET S
  OBVIOUS
<1>4. t[A] \in Nat /\ t[{}] = 0
  BY DEF Sums
<1>5. s # {}
  <2> SUFFICES ASSUME s = {} PROVE FALSE
    OBVIOUS
  <2>1. A \union s = A /\ t[s] = 0 /\ t[A \union s] # t[A] + t[s]
    BY <1>2, <1>4
  <2> QED
    BY <1>4, <2>1
<1>6. PICK x \in s : TRUE
  BY <1>5
<1>7. s \ {x} \notin B /\ s \ {x} \in SUBSET C
  BY <1>2
<1>8. t[A \union (s \ {x})] = t[A] + t[s \ {x}]
  BY <1>7
<1>9. (A \union s) \ {x} = A \union (s \ {x}) /\ x \in A \union s /\ x \in S
  BY <1>3
<1>10. t[A \union s] = f[x] + t[A \union (s \ {x})]
  BY <1>3, <1>9 DEF Sums
<1>11. t[s] = f[x] + t[s \ {x}]
  BY <1>3 DEF Sums
<1>12. f[x] \in Nat /\ t[s \ {x}] \in Nat
  BY <1>3, <1>7, <1>9 DEF Sums
<1> QED
  BY <1>2, <1>4, <1>8, <1>10, <1>11, <1>12

\* The sum of sums of two functions.
LEMMA SumsAdd ==
  ASSUME NEW S, IsFiniteSet(S), NEW f \in [S -> Nat], NEW g \in [S -> Nat],
         NEW h, \A x \in S : h[x] = f[x] + g[x],
         NEW t, NEW u, NEW v, Sums(t, f, S), Sums(u, g, S), Sums(v, h, S)
  PROVE  v[S] = t[S] + u[S]
<1> DEFINE B == {s \in SUBSET S : v[s] # t[s] + u[s]}
<1>1. SUFFICES ASSUME B # {} PROVE FALSE
  BY <1>1
<1>0. B \in SUBSET (SUBSET S)
  OBVIOUS
<1> HIDE DEF B
<1>2. PICK s \in B : \A U \in B : U \subseteq s => U = s
  BY <1>0, <1>1, SmallestSubset
<1> USE DEF B
<1>3. s # {}
  <2> SUFFICES ASSUME s = {} PROVE FALSE
    OBVIOUS
  <2>1. v[s] # t[s] + u[s]
    BY <1>2
  <2>2. v[s] = 0 /\ t[s] = 0 /\ u[s] = 0
    BY DEF Sums
  <2> QED
    BY <2>1, <2>2
<1>4. PICK x \in s : TRUE
  BY <1>3
<1>5. s \ {x} \notin B /\ s \ {x} \in SUBSET S /\ s \in SUBSET S /\ x \in S
  BY <1>2
<1>6. v[s \ {x}] = t[s \ {x}] + u[s \ {x}]
  BY <1>5
<1>7. v[s] = h[x] + v[s \ {x}] /\ t[s] = f[x] + t[s \ {x}] /\ u[s] = g[x] + u[s \ {x}]
  BY <1>5 DEF Sums
<1>8. t[s \ {x}] \in Nat /\ u[s \ {x}] \in Nat /\ f[x] \in Nat /\ g[x] \in Nat /\ h[x] = f[x] + g[x]
  BY <1>5 DEF Sums
<1>9. s \in B
  BY <1>2
<1> QED
  BY <1>6, <1>7, <1>8, <1>9

\* The rounds of all workers are those of all ranks' workers.
LEMMA SumsByRank ==
  ASSUME NEW f \in [Workers -> Nat], NEW t, Sums(t, f, Workers),
         NEW b, \A p \in Ranks : b[p] = t[Assigned(p)], NEW u, Sums(u, b, Ranks)
  PROVE  u[Ranks] = t[Workers]
<1> DEFINE Of(P) == {w \in Workers : Rank(w) \in P}
           B == {P \in SUBSET Ranks : u[P] # t[Of(P)]}
<1>0. B \in SUBSET (SUBSET Ranks) /\ IsFiniteSet(Ranks) /\ IsFiniteSet(Workers)
  BY PoolAssumption DEF Ranks
<1>1. Of(Ranks) = Workers
  BY PoolAssumption DEF Rank, Ranks
<1>2. SUFFICES ASSUME B # {} PROVE FALSE
  BY <1>1, <1>2
<1> HIDE DEF B
<1>3. PICK P \in B : \A U \in B : U \subseteq P => U = P
  BY <1>0, <1>2, SmallestSubset
<1> USE DEF B
<1>4. Of({}) = {}
  OBVIOUS
<1>5. P # {}
  BY <1>3, <1>4 DEF Sums
<1>6. PICK p \in P : TRUE
  BY <1>5
<1>7. P \ {p} \notin B /\ P \ {p} \in SUBSET Ranks /\ P \in SUBSET Ranks /\ p \in Ranks
  BY <1>3
<1>8. u[P \ {p}] = t[Of(P \ {p})]
  BY <1>7
<1>9. u[P] = b[p] + u[P \ {p}] /\ b[p] = t[Assigned(p)]
  BY <1>7 DEF Sums
<1>10. Of(P) = Assigned(p) \union Of(P \ {p}) /\ Assigned(p) \intersect Of(P \ {p}) = {}
  BY <1>7 DEF Assigned
<1>11. Assigned(p) \in SUBSET Workers /\ Of(P \ {p}) \in SUBSET Workers
  BY DEF Assigned
<1>12. t[Of(P)] = t[Assigned(p)] + t[Of(P \ {p})]
  <2> DEFINE X == Assigned(p)
             Y == Of(P \ {p})
  <2>1. X \in SUBSET Workers /\ Y \in SUBSET Workers /\ X \intersect Y = {}
    BY <1>10, <1>11
  <2> HIDE DEF X, Y
  <2>2. t[X \union Y] = t[X] + t[Y]
    BY <1>0, <2>1, SumsDisjoint
  <2> QED
    BY <1>10, <2>2 DEF X, Y
<1>13. P \in B
  BY <1>3
<1> QED
  BY <1>8, <1>9, <1>12, <1>13

Total(f, S) == (CHOOSE t : Sums(t, f, S))[S]
LEMMA TotalIs ==
  ASSUME NEW S, IsFiniteSet(S), NEW f \in [S -> Nat]
  PROVE  \E t : Sums(t, f, S) /\ Total(f, S) = t[S]
<1> DEFINE t == CHOOSE t : Sums(t, f, S)
<1>1. Sums(t, f, S)
  BY SumsExist
<1> QED
  BY <1>1 DEF Total

LEMMA TotalNat ==
  ASSUME NEW S, IsFiniteSet(S), NEW f \in [S -> Nat]
  PROVE  Total(f, S) \in Nat
<1>1. PICK t : Sums(t, f, S) /\ Total(f, S) = t[S]
  BY TotalIs
<1> QED
  BY <1>1 DEF Sums

LEMMA TotalAdds ==
  ASSUME NEW S, IsFiniteSet(S), NEW f \in [S -> Nat], NEW g \in [S -> Nat], NEW h \in [S -> Nat],
         \A x \in S : h[x] = f[x] + g[x]
  PROVE  Total(h, S) = Total(f, S) + Total(g, S)
<1>1. PICK t : Sums(t, f, S) /\ Total(f, S) = t[S]
  BY TotalIs
<1>2. PICK u : Sums(u, g, S) /\ Total(g, S) = u[S]
  BY TotalIs
<1>3. PICK v : Sums(v, h, S) /\ Total(h, S) = v[S]
  BY TotalIs
<1>4. v[S] = t[S] + u[S]
  BY <1>1, <1>2, <1>3, SumsAdd
<1> QED
  BY <1>1, <1>2, <1>3, <1>4

LEMMA TotalZero ==
  ASSUME NEW S, IsFiniteSet(S), NEW f \in [S -> Nat], \A x \in S : f[x] = 0
  PROVE  Total(f, S) = 0
<1>1. Total(f, S) = Total(f, S) + Total(f, S)
  <2>1. \A x \in S : f[x] = f[x] + f[x]
    OBVIOUS
  <2> QED
    BY <2>1, TotalAdds
<1> QED
  BY <1>1, TotalNat

LEMMA RoundsTotal ==
  ASSUME Stores
  PROVE  /\ \A T \in SUBSET Workers : RoundsIn(T) \in Nat
         /\ [p \in Ranks |-> RankBatch(p)] \in [Ranks -> Nat]
         /\ Total([p \in Ranks |-> RankBatch(p)], Ranks) = RoundsIn(Workers)
<1>1. Counts \in [Workers -> Nat]
  BY DEF Stores, Counts
<1>2. PICK t : Sums(t, Counts, Workers)
  <2> HIDE DEF Counts
  <2> QED
    BY <1>1, SumsExist, PoolAssumption
<1>3. \A T \in SUBSET Workers : RoundsIn(T) = t[T] /\ t[T] \in Nat
  BY <1>2, RoundsSummed DEF Sums
<1> DEFINE b == [p \in Ranks |-> RankBatch(p)]
<1>4. \A p \in Ranks : b[p] = t[Assigned(p)] /\ b[p] \in Nat
  BY <1>3 DEF RankBatch, Assigned
<1>5. b \in [Ranks -> Nat]
  BY <1>4
<1>6. Total(b, Ranks) = t[Workers]
  <2> HIDE DEF b, Counts
  <2>1. IsFiniteSet(Ranks)
    BY PoolAssumption DEF Ranks
  <2>2. PICK u : Sums(u, b, Ranks) /\ Total(b, Ranks) = u[Ranks]
    BY <1>5, <2>1, TotalIs
  <2>3. u[Ranks] = t[Workers]
    BY <1>1, <1>2, <1>4, <2>2, SumsByRank
  <2> QED
    BY <2>2, <2>3
<1> QED
  BY <1>3, <1>5, <1>6

LEMMA LessonsTotal ==
  ASSUME Lessons \in [Ranks -> Nat]
  PROVE  MapThenSumSet(LAMBDA p : model[p].learnt, Ranks) = Total(Lessons, Ranks)
<1>1. PICK t : Sums(t, Lessons, Ranks) /\ Total(Lessons, Ranks) = t[Ranks]
  <2>1. IsFiniteSet(Ranks)
    BY PoolAssumption DEF Ranks
  <2> HIDE DEF Lessons
  <2> QED
    BY <2>1, TotalIs
<1> QED
  BY <1>1, LessonsSummed

\* The rounds of a rank do not depend on anything but the arenas.
BatchesSum == \A t : Sums(t, Counts, Workers) => \A p : RankBatch(p) = t[Assigned(p)]
LEMMA BatchIs == BatchesSum
<1> USE DEF BatchesSum
<1> SUFFICES ASSUME NEW t, Sums(t, Counts, Workers), NEW p PROVE RankBatch(p) = t[Assigned(p)]
  OBVIOUS
<1> QED
  BY RoundsSummed DEF RankBatch, Assigned

LEMMA SameBatch ==
  ASSUME Stores, UNCHANGED <<arena, local>>
  PROVE  \A p : RankBatch(p)' = RankBatch(p)
<1>1. Counts \in [Workers -> Nat] /\ Counts' = Counts
  BY DEF Stores, Counts
<1>2. PICK t : Sums(t, Counts, Workers)
  <2> HIDE DEF Counts
  <2> QED
    BY <1>1, SumsExist, PoolAssumption
<1>3. BatchesSum'
  BY BatchIs, PTL
<1>4. \A p : RankBatch(p)' = t[Assigned(p)]
  <2>1. \A p : Assigned(p)' = Assigned(p)
    BY DEF Assigned, Rank
  <2>2. Sums(t, Counts, Workers)'
    BY <1>1, <1>2 DEF Sums
  <2> QED
    BY <1>3, <2>1, <2>2 DEF BatchesSum
<1> QED
  BY <1>2, <1>4, BatchIs DEF BatchesSum

---------------------------------------------------------------------------
(* The rounds the ranks have learnt from.  What a rank still owes is its   *)
(* batch, from the count of the rounds until its update.                   *)

Early == {"opening", "opened", "loading"}
Learnt == {"updating", "updated"}
Owes(p) == pc = "updating" /\ model[p].version = updates
Due == [p \in Ranks |-> model[p].learnt + IF Owes(p) THEN RankBatch(p) ELSE 0]
AllLive == \A p \in Ranks : Live(p)
Balanced == Total(Due, Ranks) = IF pc \in Learnt THEN rounds + counted ELSE rounds

Tally ==
  /\ rounds \in Nat /\ counted \in Nat
  /\ \A p \in Procs : model[p].learnt \in Nat
  /\ pc \in Early => rounds = 0 /\ \A p \in Procs : model[p].learnt = 0
  /\ pc \in Settled \union Learnt /\ AllLive => Balanced

LEMMA RanksFinite == IsFiniteSet(Ranks) /\ Ranks \subseteq Procs /\ Procs # {}
  BY PoolAssumption DEF Ranks, Procs

LEMMA DueNat ==
  ASSUME Stores, Tally
  PROVE  Due \in [Ranks -> Nat] /\ Lessons \in [Ranks -> Nat]
<1>1. \A p \in Ranks : RankBatch(p) \in Nat
  BY RoundsTotal DEF RankBatch, Assigned
<1> QED
  BY <1>1, RanksFinite DEF Due, Lessons, Tally

\* Nothing the ranks owe or have learnt changes.
LEMMA DueKept ==
  ASSUME Stores, UNCHANGED <<updates, local>>, \A p \in Ranks : model'[p] = model[p],
         (pc = "updating") <=> (pc' = "updating"), arena' = arena \/ pc # "updating"
  PROVE  Due' = Due
<1>1. Ranks' = Ranks
  BY DEF Ranks
<1>2. \A p \in Ranks : Owes(p)' <=> Owes(p)
  BY DEF Owes
<1>3. ASSUME NEW p \in Ranks, Owes(p) PROVE RankBatch(p)' = RankBatch(p)
  BY <1>3, SameBatch DEF Owes
<1>4. \A p \in Ranks : Due'[p] = Due[p]
  BY <1>1, <1>2, <1>3 DEF Due
<1> QED
  BY <1>1, <1>4 DEF Due

\* What a process does or suffers.
LEMMA TallyAside ==
  ASSUME Stepwise, Tally, UNCHANGED <<coordVars, local>>, NEW p \in Procs,
         \/ model' = model
         \/ model' = [model EXCEPT ![p] = Unloaded] /\ ~Live(p)',
         \A q \in Procs : Live(q)' => Live(q),
         arena' = arena \/ pc # "updating"
  PROVE  Tally'
<1>1. Ranks' = Ranks /\ UNCHANGED <<pc, updates, rounds, counted>>
  BY DEF Ranks, coordVars
<1>2. \A q \in Procs : model'[q].learnt \in Nat /\ (model[q].learnt = 0 => model'[q].learnt = 0)
  BY DEF Tally, Stepwise, Stores, Unloaded
<1>3. ASSUME pc \in Settled \union Learnt, AllLive' PROVE Balanced'
  <2>1. \A q \in Ranks : Live(q) /\ model'[q] = model[q]
    BY <1>1, <1>3, RanksFinite DEF AllLive, Stepwise, Stores
  <2>2. Due' = Due
    BY <1>1, <2>1, DueKept DEF Stepwise
  <2>3. Balanced
    BY <1>3, <2>1 DEF Tally, AllLive
  <2> QED
    BY <1>1, <2>2, <2>3 DEF Balanced
<1> QED
  BY <1>1, <1>2, <1>3 DEF Tally

\* A rank learns from its batch: it owes it no more.
LEMMA TallyTrained ==
  ASSUME Stepwise, Tally, UNCHANGED <<coordVars, local, arena, run>>, NEW p \in Procs,
         model' = [model EXCEPT ![p] = Trained(p)], pc = "updating",
         p \in Ranks, At(p, updates)
  PROVE  Tally'
<1>1. Ranks' = Ranks /\ UNCHANGED <<pc, updates, rounds, counted>>
  BY DEF Ranks, coordVars
<1>2. RankBatch(p) \in Nat /\ updates \in Nat
  BY RoundsTotal DEF RankBatch, Assigned, Stepwise, Stores
<1>3. /\ model'[p] = Trained(p) /\ \A q \in Procs \ {p} : model'[q] = model[q]
  BY DEF Stepwise, Stores
<1>4. \A q \in Procs : model'[q].learnt \in Nat
  BY <1>2, <1>3 DEF Trained, Tally
<1>5. ASSUME NEW q \in Ranks PROVE Due'[q] = Due[q]
  <2>1. RankBatch(q)' = RankBatch(q)
    BY SameBatch DEF Stepwise
  <2>2. CASE q = p
    <3>1. Owes(p) /\ ~Owes(p)'
      BY <1>1, <1>2, <1>3 DEF Owes, At, Trained
    <3>2. model'[p].learnt = model[p].learnt + RankBatch(p)
      BY <1>3 DEF Trained
    <3>3. model[p].learnt \in Nat
      BY DEF Tally
    <3> QED
      BY <1>1, <1>2, <2>2, <3>1, <3>2, <3>3 DEF Due
  <2>3. CASE q # p
    <3>1. model'[q] = model[q]
      BY <1>3, <2>3, RanksFinite
    <3> QED
      BY <1>1, <2>1, <3>1 DEF Due, Owes
  <2> QED
    BY <2>2, <2>3
<1>6. Due' = Due
  BY <1>1, <1>5 DEF Due
<1>7. AllLive' => AllLive
  BY <1>1 DEF AllLive, Live
<1> QED
  BY <1>1, <1>4, <1>6, <1>7 DEF Tally, Balanced, Early, Learnt

\* While the ranks learn, no round is added.
LEMMA NoPlay ==
  ASSUME Stepwise, NEW w \in Workers, Live(w), pc \in Learnt \union {"counting"}
  PROVE  ~Sampling(w)
<1>1. Talk(w)
  BY DEF Stepwise, Orderly, Procs
<1> QED
  BY <1>1 DEF Talk, Exchange, Asked, Quiet, Learnt, Still

LEMMA TallyChild ==
  ASSUME Stepwise, Tally, UNCHANGED coordVars, NEW p \in Procs,
         ProcessStep(p) \/ Crash(p) \/ LoseControl(p) \/ (p \in Workers /\ FailRound(p))
  PROVE  Tally'
<1>0. ASSUME NEW kind, Reads(p, kind), pc \notin Closed
      PROVE  /\ kind = "load" => pc = "loading"
             /\ kind = "update" => pc = "updating" /\ p \in pending /\ inbox[p] # <<>> /\ Live(p)
  <2>1. Talk(p) /\ pc \in Stages \ Closed
    BY <1>0 DEF Stepwise, Orderly, Stores
  <2> QED
    BY <1>0, <2>1, Reading DEF Reads
<1>1. CASE LoadState(p)
  <2>1. /\ UNCHANGED <<local, arena, run>>
        /\ \/ UNCHANGED model
           \/ model' = [model EXCEPT ![p] = [loaded |-> TRUE, version |-> Version(p), learnt |-> 0]]
    BY <1>1 DEF LoadState
  <2>2. CASE UNCHANGED model
    BY <2>1, <2>2, TallyAside DEF Live
  <2>3. CASE model' = [model EXCEPT ![p] = [loaded |-> TRUE, version |-> Version(p), learnt |-> 0]]
    <3>1. \A q \in Procs : model'[q].learnt \in Nat /\ (model[q].learnt = 0 => model'[q].learnt = 0)
      BY <2>3 DEF Tally, Stepwise, Stores
    <3>2. pc \notin Settled \union Learnt
      BY <1>0, <1>1 DEF LoadState, Settled, Learnt, Closed
    <3> QED
      BY <3>1, <3>2 DEF Tally, coordVars
  <2> QED
    BY <2>1, <2>2, <2>3
<1>2. CASE UpdateModel(p)
  <2>1. /\ UNCHANGED <<local, arena, run>> /\ Reads(p, "update")
        /\ \/ UNCHANGED model
           \/ OwnsIdleRank(p) /\ model' = [model EXCEPT ![p] = Trained(p)]
    BY <1>2 DEF UpdateModel
  <2>2. CASE UNCHANGED model
    BY <2>1, <2>2, TallyAside DEF Live
  <2>3. CASE OwnsIdleRank(p) /\ model' = [model EXCEPT ![p] = Trained(p)] /\ pc \notin Closed
    <3>1. pc = "updating" /\ p \in pending /\ inbox[p] # <<>> /\ Live(p) /\ p \in Ranks
      BY <1>0, <2>1, <2>3 DEF OwnsIdleRank
    <3>2. At(p, updates)
      BY <3>1 DEF Stepwise, Orderly, Learns, InStep
    <3> QED
      BY <2>1, <2>3, <3>1, <3>2, TallyTrained
  <2>4. CASE model' = [model EXCEPT ![p] = Trained(p)] /\ pc \in Closed
    <3>1. RankBatch(p) \in Nat
      BY RoundsTotal DEF RankBatch, Assigned, Stepwise
    <3>2. \A q \in Procs : model'[q].learnt \in Nat
      BY <2>4, <3>1 DEF Trained, Tally, Stepwise, Stores
    <3> QED
      BY <2>4, <3>2 DEF Tally, coordVars, Closed, Settled, Learnt, Early
  <2> QED
    BY <2>1, <2>2, <2>3, <2>4
<1>3. CASE p \in Workers /\ PlayRound(p)
  <2>1. UNCHANGED <<local, model>> /\ \A q \in Procs : Live(q)' => Live(q)
    BY <1>3 DEF PlayRound, Live, Stepwise, Inv, RunOK
  <2>2. pc # "updating"
    BY <1>3, NoPlay DEF PlayRound, Live, Sampling, Learnt
  <2> QED
    BY <2>1, <2>2, TallyAside
<1>4. ASSUME Die(p), UNCHANGED <<local, arena>> PROVE Tally'
  <2>1. model' = [model EXCEPT ![p] = Unloaded] /\ ~Live(p)' /\ \A q \in Procs : Live(q)' => Live(q)
    BY <1>4 DEF Die, Live, Stepwise, Inv, RunOK
  <2> QED
    BY <1>4, <2>1, TallyAside
<1>5. CASE Exit(p) \/ ReportFailure(p) \/ Crash(p) \/ LoseControl(p)
  BY <1>4, <1>5 DEF Exit, ReportFailure, Crash, LoseControl
<1>6. CASE Setup(p) \/ Snapshot(p) \/ (p \in Workers /\ (StartSampling(p) \/ DecisionExpires(p) \/ FailRound(p) \/ StopSampling(p)))
  <2>1. UNCHANGED <<local, model, arena>> /\ \A q \in Procs : Live(q)' => Live(q)
    BY <1>6 DEF Setup, Snapshot, StartSampling, DecisionExpires, FailRound,
       StopSampling, Live, Stepwise, Inv,
       RunOK
  <2> QED
    BY <2>1, TallyAside
<1> QED
  BY <1>1, <1>2, <1>3, <1>5, <1>6 DEF ProcessStep

\* Where the coordinator goes, and what of its counters it changes.
Routes ==
  \/ pc' \in {"closing"} \union Closed
  \/ pc \in Early /\ pc' \in Early
  \/ pc \in Settled /\ pc' \in Settled
  \/ pc' = pc /\ UNCHANGED <<arena, counted>>
  \/ pc = "loading" /\ pc' = "idle"
  \/ pc = "updating" /\ pc' = "updated" /\ UNCHANGED <<arena, counted>>
  \/ /\ pc = "counting" /\ pc' = "updating" /\ UNCHANGED arena
     /\ counted' = RoundsIn(Workers)
Ordinary ==
  /\ UNCHANGED <<local, run, model, rounds, updates>> /\ counted' \in Nat
  /\ Routes

LEMMA TallyRoute ==
  ASSUME Stepwise, Stepwise', Tally, Ordinary
  PROVE  Tally'
<1> USE DEF Ordinary
<1>1. /\ rounds' \in Nat /\ counted' \in Nat /\ Ranks' = Ranks
      /\ \A p \in Procs : model'[p].learnt \in Nat
  BY DEF Tally, Ranks
<1>2. pc' \in Early => rounds' = 0 /\ \A p \in Procs : model'[p].learnt = 0
  BY DEF Routes, Tally, Early, Closed, Settled
<1>3. ASSUME pc' \in Settled \union Learnt, AllLive' PROVE Balanced'
  <2>0. AllLive
    BY <1>1, <1>3 DEF AllLive, Live
  <2>1. CASE pc \in Settled /\ pc' \in Settled
    <3>1. \A p \in Ranks : ~Owes(p) /\ ~Owes(p)'
      BY <2>1 DEF Owes, Settled
    <3>2. Due' = Due
      BY <1>1, <3>1 DEF Due
    <3> QED
      BY <1>1, <2>0, <2>1, <3>2 DEF Balanced, Tally, Settled, Learnt
  <2>2. CASE pc' = pc /\ UNCHANGED <<arena, counted>>
    <3>1. Due' = Due
      BY <2>2, DueKept DEF Stepwise
    <3> QED
      BY <1>1, <1>3, <2>0, <2>2, <3>1 DEF Balanced, Tally, Settled, Learnt
  <2>3. CASE pc = "loading" /\ pc' = "idle"
    <3>1. \A p \in Ranks : ~Owes(p)' /\ model'[p].learnt = 0
      BY <2>3, RanksFinite DEF Owes, Tally, Early
    <3>2. Due' \in [Ranks -> Nat] /\ \A p \in Ranks : Due'[p] = 0
      BY <1>1, <3>1 DEF Due
    <3> DEFINE d == Due'
    <3>3. d \in [Ranks -> Nat] /\ \A p \in Ranks : d[p] = 0
      BY <3>2
    <3> HIDE DEF d
    <3>4. Total(d, Ranks) = 0
      BY <3>3, TotalZero, RanksFinite
    <3>5. rounds' = 0
      BY <2>3 DEF Tally, Early
    <3> QED
      BY <1>1, <2>3, <3>4, <3>5 DEF Balanced, Learnt, d
  <2>4. CASE pc = "updating" /\ pc' = "updated" /\ UNCHANGED <<arena, counted>>
    <3>1. ASSUME NEW p \in Ranks PROVE ~Owes(p) /\ ~Owes(p)'
      <4>1. p \in Procs /\ Live(p)'
        BY <1>1, <1>3, <3>1, RanksFinite DEF AllLive
      <4>2. At(p, updates + 1)'
        BY <1>1, <2>4, <3>1, <4>1 DEF Stepwise, Orderly, Learns, InStep
      <4>3. model[p].version = updates + 1 /\ updates \in Nat
        BY <4>2 DEF At, Stepwise, Stores
      <4> QED
        BY <2>4, <4>3 DEF Owes
    <3>2. Due' = Due
      BY <1>1, <3>1 DEF Due
    <3> QED
      BY <1>1, <2>0, <2>4, <3>2 DEF Balanced, Tally, Learnt
  <2>5. CASE /\ pc = "counting" /\ pc' = "updating" /\ UNCHANGED arena
             /\ counted' = RoundsIn(Workers)
    <3> DEFINE b == [p \in Ranks |-> RankBatch(p)]
               d == Due'
               f == Due
    <3>1. ASSUME NEW p \in Ranks PROVE Owes(p)' /\ ~Owes(p) /\ RankBatch(p)' = RankBatch(p)
      <4>1. p \in Procs /\ Live(p)
        BY <2>0, <3>1, RanksFinite DEF AllLive
      <4>2. At(p, updates)
        BY <2>5, <3>1, <4>1 DEF Stepwise, Orderly, Learns, InStep, Settled
      <4>3. RankBatch(p)' = RankBatch(p)
        BY <2>5, SameBatch DEF Stepwise
      <4> QED
        BY <2>5, <4>2, <4>3 DEF Owes, At
    <3>2. b \in [Ranks -> Nat] /\ Total(b, Ranks) = RoundsIn(Workers)
      BY RoundsTotal DEF Stepwise
    <3>3. f \in [Ranks -> Nat]
      BY DueNat DEF Stepwise
    <3>4. \A p \in Ranks : f[p] = model[p].learnt /\ d[p] = model[p].learnt + b[p]
                           /\ model[p].learnt \in Nat /\ b[p] \in Nat
      BY <1>1, <3>1, <3>2, RanksFinite DEF Due, Tally
    <3>5. d \in [Ranks -> Nat]
      <4>1. d = [p \in Ranks |-> d[p]]
        BY <1>1 DEF Due
      <4> HIDE DEF d
      <4> QED
        BY <3>4, <4>1
    <3>6. Total(f, Ranks) = rounds
      BY <2>0, <2>5 DEF Balanced, Tally, Settled, Learnt
    <3> HIDE DEF b, d, f
    <3>7. Total(d, Ranks) = Total(f, Ranks) + Total(b, Ranks)
      BY <3>2, <3>3, <3>4, <3>5, TotalAdds, RanksFinite
    <3> QED
      BY <1>1, <2>5, <3>2, <3>6, <3>7 DEF Balanced, Learnt, d
  <2> QED
    BY <1>3, <2>1, <2>2, <2>3, <2>4, <2>5 DEF Routes, Settled, Learnt, Closed, Early
<1> QED
  BY <1>1, <1>2, <1>3 DEF Tally

\* Every step of the coordinator but these few is ordinary.
LEMMA CoordinatorOrdinary ==
  ASSUME Stepwise, Tally, NEW p \in Procs, NEW w \in Workers,
         \/ LoadStates \/ Close \/ BeginUpdate \/ Start \/ TargetOrStop \/ Count \/ Finish
         \/ AskSnapshot \/ StateLoaded(p) \/ Started(p) \/ Aborted(p) \/ Stopped(p) \/ Updated(p)
         \/ Save(p) \/ WorkerFailed(w) \/ Late \/ RequestStop \/ Kill \/ End
  PROVE  Ordinary
<1> USE DEF UnchangedProcesses, UnchangedRun, procVars
<1>0. counted \in Nat
  BY DEF Tally
<1>1. CASE LoadStates
  BY <1>0, <1>1 DEF LoadStates, Command, Poison, WaitFor, Ordinary, Routes,
     Early, Closed
<1>2. CASE StateLoaded(p)
  BY <1>0, <1>2 DEF StateLoaded, Collect, Poison, Ordinary, Routes, Early, Closed
<1>3. CASE Close \/ End \/ Kill
  BY <1>0, <1>3 DEF Close, End, Kill, WaitFor, Ordinary, Routes, Closed
<1>4. CASE BeginUpdate \/ Finish \/ RequestStop
  BY <1>0, <1>4 DEF BeginUpdate, Finish, RequestStop, Ordinary, Routes, Settled
<1>5. CASE Start
  BY <1>0, <1>5 DEF Start, WaitFor, Ordinary, Routes, Settled
<1>6. CASE Started(p)
  BY <1>0, <1>6 DEF Started, GiveUp, Abort, WaitFor, Ordinary, Routes, Settled, Closed
<1>7. CASE Aborted(p)
  BY <1>0, <1>7 DEF Aborted, Poison, Ordinary, Routes, Settled, Closed
<1>8. CASE TargetOrStop
  BY <1>0, <1>8 DEF TargetOrStop, StopWorkers, Command, Poison, WaitFor,
     Ordinary, Routes, Settled,
     Closed
<1>9. CASE WorkerFailed(w)
  BY <1>0, <1>9 DEF WorkerFailed, StopWorkers, Command, Poison, WaitFor,
     Ordinary, Routes, Settled,
     Closed
<1>10. CASE Stopped(p)
  BY <1>0, <1>10 DEF Stopped, Poison, Ordinary, Routes, Settled, Closed
<1>11. CASE Count
  <2>1. counted' = RoundsIn(Workers) /\ counted' \in Nat
    BY <1>11, RoundsTotal DEF Count, Stepwise
  <2> QED
    BY <1>11, <2>1 DEF Count, Command, Poison, WaitFor, Ordinary, Routes,
       Settled, Closed
<1>12. CASE Updated(p)
  BY <1>0, <1>12 DEF Updated, Collect, Poison, Ordinary, Routes, Closed
<1>13. CASE AskSnapshot
  BY <1>0, <1>13 DEF AskSnapshot, Command, Poison, WaitFor, Ordinary, Routes,
     Settled, Closed
<1>14. CASE Save(p)
  BY <1>0, <1>14 DEF Save, GiveUp, Poison, WaitFor, Ordinary, Routes, Settled, Closed
<1>15. CASE Late
  BY <1>0, <1>15 DEF Late, Abort, Poison, WaitFor, Ordinary, Routes, Settled,
     Early, Learnt, Closed
<1> QED
  BY <1>1, <1>2, <1>3, <1>4, <1>5, <1>6, <1>7, <1>8, <1>9, <1>10, <1>11, <1>12,
     <1>13, <1>14,
     <1>15

LEMMA TallySpawn ==
  ASSUME Tally, NEW p \in Procs, Spawn(p)
  PROVE  Tally'
<1>1. UNCHANGED <<model, rounds, counted>> /\ pc = "opening" /\ pc' \in {"opening", "opened", "reaping"}
  BY DEF Spawn, SpawnModelRank, SpawnWorker, Spawned, Poison, UnchangedRun
<1> QED
  BY <1>1 DEF Tally, Early, Settled, Learnt

LEMMA TallyReap ==
  ASSUME Stepwise, Tally, NEW p \in Procs, Reap(p)
  PROVE  Tally'
<1>1. UNCHANGED <<pc, rounds, counted>> /\ pc = "reaping"
      /\ model' = [model EXCEPT ![p] = Unloaded]
  BY DEF Reap, Die, UnchangedRun
<1>2. \A q \in Procs : model'[q].learnt \in Nat
  BY <1>1 DEF Unloaded, Tally, Stepwise, Stores
<1> QED
  BY <1>1, <1>2 DEF Tally, Early, Settled, Learnt

\* The counters take in what the ranks have learnt.
LEMMA TallyAccount ==
  ASSUME Stepwise, Tally, Account
  PROVE  Tally'
<1>1. /\ UNCHANGED <<local, run, model>> /\ pc = "updated" /\ pc' \in {"final", "scheduled", "idle"}
      /\ rounds' = rounds + counted /\ counted' = 0 /\ Ranks' = Ranks
  BY DEF Account, procVars, Ranks
<1>2. rounds' \in Nat /\ counted' \in Nat
  BY <1>1 DEF Tally
<1>3. ASSUME AllLive' PROVE Balanced'
  <2>1. Balanced
    BY <1>1, <1>3 DEF AllLive, Live, Tally, Settled, Learnt
  <2>2. Due' = Due
    BY <1>1 DEF Due, Owes
  <2> QED
    BY <1>1, <2>1, <2>2 DEF Balanced, Learnt
<1> QED
  BY <1>1, <1>2, <1>3 DEF Tally, Early

LEMMA TallyInit == Init => Tally
<1> SUFFICES ASSUME Init PROVE Tally
  OBVIOUS
<1>1. /\ pc = "opening" /\ rounds = 0 /\ counted = 0
      /\ \A p \in Procs : model[p].learnt = 0
  BY DEF Init, InitProcesses, Unloaded
<1> QED
  BY <1>1 DEF Tally, Early, Settled, Learnt

LEMMA TallyNext == Stepwise /\ Stepwise' /\ Tally /\ [Next]_vars => Tally'
<1> SUFFICES ASSUME Stepwise, Stepwise', Tally, [Next]_vars PROVE Tally'
  OBVIOUS
<1>1. ASSUME NEW p \in Procs, Spawn(p) \/ Reap(p) \/ Account PROVE Tally'
  BY <1>1, TallySpawn, TallyReap, TallyAccount
<1>2. ASSUME NEW p \in Procs, NEW w \in Workers,
             \/ LoadStates \/ Close \/ BeginUpdate \/ Start \/ TargetOrStop \/ Count \/ Finish
             \/ AskSnapshot \/ StateLoaded(p) \/ Started(p) \/ Aborted(p) \/ Stopped(p)
             \/ Updated(p) \/ Save(p) \/ WorkerFailed(w) \/ Late \/ RequestStop \/ Kill \/ End
      PROVE  Tally'
  BY <1>2, CoordinatorOrdinary, TallyRoute
<1>3. ASSUME NEW p \in Procs, UNCHANGED coordVars,
             ProcessStep(p) \/ Crash(p) \/ LoseControl(p) \/ (p \in Workers /\ FailRound(p))
      PROVE  Tally'
  BY <1>3, TallyChild
<1>4. CASE UNCHANGED vars
  <2>1. Ordinary
    BY <1>4 DEF vars, procVars, coordVars, Ordinary, Routes, Tally
  <2> QED
    BY <2>1, TallyRoute
<1>5. PICK p0 \in Procs, w0 \in Workers : TRUE
  BY PoolAssumption DEF Procs
<1>6. CASE CoordinatorStep
  <2>1. CASE \/ LoadStates \/ Close \/ End \/ BeginUpdate \/ Start \/ TargetOrStop \/ Count
             \/ Account \/ Finish \/ AskSnapshot
    BY <1>1, <1>2, <1>5, <2>1
  <2>2. ASSUME NEW p \in Procs,
               \/ Spawn(p) \/ StateLoaded(p) \/ Reap(p) \/ Started(p) \/ Aborted(p)
               \/ Stopped(p) \/ Updated(p) \/ Save(p)
        PROVE  Tally'
    BY <1>1, <1>2, <1>5, <2>2
  <2>3. ASSUME NEW w \in Workers, WorkerFailed(w) PROVE Tally'
    BY <1>2, <1>5, <2>3
  <2> QED
    BY <1>6, <2>1, <2>2, <2>3 DEF CoordinatorStep
<1>7. CASE Trouble
  <2>1. CASE Late \/ RequestStop \/ Kill
    BY <1>2, <1>5, <2>1
  <2>2. ASSUME NEW w \in Workers, FailRound(w), UNCHANGED coordVars PROVE Tally'
    BY <1>3, <2>2 DEF Procs
  <2>3. ASSUME NEW p \in Procs, Crash(p), UNCHANGED coordVars PROVE Tally'
    BY <1>3, <2>3
  <2> QED
    BY <1>7, <2>1, <2>2, <2>3 DEF Trouble
<1>8. ASSUME NEW p \in Procs, ChildStep(p) PROVE Tally'
  BY <1>3, <1>8 DEF ChildStep
<1> QED
  BY <1>4, <1>6, <1>7, <1>8 DEF Next

LEMMA Tallies == Spec => []Tally
<1>1. Init => Tally
  BY TallyInit
<1>2. Stepwise /\ Stepwise' /\ Tally /\ [Next]_vars => Tally'
  BY TallyNext
<1> QED
  BY <1>1, <1>2, Steps, PTL DEF Spec

\* The rounds the coordinator has counted are those the ranks have learnt
\* from, for any number of workers and ranks and any assignment: whenever no
\* update is under way and every rank lives, each rank is at the coordinator's
\* version, and what they have learnt from adds up to total_rounds.
THEOREM RoundsAccounted == Spec => []CountedIsLearnt
<1>1. Stepwise /\ Tally => CountedIsLearnt
  <2> SUFFICES ASSUME Stepwise, Tally, pc \notin Learning, \A p \in Ranks : run[p] # "dead"
               PROVE  /\ \A p \in Ranks : model[p].loaded /\ model[p].version = updates
                      /\ MapThenSumSet(LAMBDA p : model[p].learnt, Ranks) = rounds
    BY DEF CountedIsLearnt
  <2>1. pc \in Settled /\ AllLive
    BY DEF Stepwise, Stores, Stages, Learning, Settled, AllLive, Live
  <2>2. \A p \in Ranks : model[p].loaded /\ model[p].version = updates
    BY <2>1, RanksFinite DEF AllLive, Stepwise, Orderly, Learns, InStep, At
  <2>3. Lessons \in [Ranks -> Nat]
    BY DueNat DEF Stepwise
  <2>4. Due = Lessons
    <3>1. \A p \in Ranks : ~Owes(p) /\ model[p].learnt \in Nat
      BY <2>1, RanksFinite DEF Owes, Settled, Tally
    <3> QED
      BY <3>1 DEF Due, Lessons
  <2>5. Total(Lessons, Ranks) = rounds
    BY <2>1, <2>4 DEF Tally, Balanced, Settled, Learnt
  <2>6. MapThenSumSet(LAMBDA p : model[p].learnt, Ranks) = rounds
    BY <2>3, <2>5, LessonsTotal
  <2> QED
    BY <2>2, <2>6
<1> QED
  BY <1>1, Steps, Tallies, PTL

---------------------------------------------------------------------------
(* How a run comes to its end: what is known of the last checkpoint, of    *)
(* the reason to stop and of the faults on the way there.                  *)

Current == saved.updates = updates /\ saved.rounds = rounds
Finished == rounds >= MaxRounds \/ stop
Ending ==
  /\ intent = "stop" => stop
  /\ last => Current
  /\ pc \in {"reset", "starting", "aborting", "waiting", "stopping", "counting", "updating",
             "updated"} => ~last
  /\ pc \in {"final", "finalizing"} => Finished
  /\ pc = "aborting" /\ intent # "stop" => faults # {}
  /\ pc = "stopping" /\ intent = "late" => faults # {}
  /\ pc \in {"closing", "reaping", "ended"} /\ faults = {} => Current /\ Finished

LEMMA EndingCoordinator ==
  ASSUME Tally, Ending, NEW p \in Procs, NEW w \in Workers,
         \/ LoadStates \/ Close \/ BeginUpdate \/ Start \/ TargetOrStop \/ Count \/ Finish
         \/ AskSnapshot \/ StateLoaded(p) \/ Started(p) \/ Aborted(p) \/ Stopped(p) \/ Updated(p)
         \/ Save(p) \/ WorkerFailed(w) \/ Late \/ RequestStop \/ Kill \/ End \/ Spawn(p) \/ Reap(p)
         \/ Account
  PROVE  Ending'
<1> USE DEF UnchangedRun, procVars, Ending, Current, Finished
<1>1. CASE LoadStates
  BY <1>1 DEF LoadStates, Command, Poison, WaitFor
<1>2. CASE StateLoaded(p)
  BY <1>2 DEF StateLoaded, Collect, Poison
<1>3. CASE Close \/ End \/ Kill \/ Reap(p)
  BY <1>3 DEF Close, End, Kill, Reap, WaitFor
<1>4. CASE BeginUpdate \/ RequestStop
  BY <1>4 DEF BeginUpdate, RequestStop, SaveOutdated
<1>5. CASE Start
  BY <1>5 DEF Start, WaitFor
<1>6. CASE Started(p)
  <2>1. Workers # {}
    BY PoolAssumption
  <2> QED
    BY <1>6, <2>1 DEF Started, GiveUp, Abort, WaitFor, ToldToStart
<1>7. CASE Aborted(p)
  BY <1>7 DEF Aborted, Poison
<1>8. CASE TargetOrStop
  BY <1>8 DEF TargetOrStop, StopWorkers, Command, Poison, WaitFor
<1>9. CASE WorkerFailed(w)
  BY <1>9 DEF WorkerFailed, StopWorkers, Command, Poison, WaitFor
<1>10. CASE Stopped(p)
  BY <1>10 DEF Stopped, Poison
<1>11. CASE Count
  <2>1. pc = "counting" /\ UNCHANGED <<intent, stop, updates, rounds, saved, last>>
    BY <1>11 DEF Count
  <2>2. CASE intent = "stop" /\ pc' = "final" /\ UNCHANGED faults
    BY <2>1, <2>2
  <2>3. CASE Command(Ranks, "update", "updating")
    BY <2>1, <2>3 DEF Command, Poison, WaitFor
  <2> QED
    BY <1>11, <2>2, <2>3 DEF Count
<1>12. CASE Updated(p)
  BY <1>12 DEF Updated, Collect, Poison
<1>13. CASE AskSnapshot
  BY <1>13 DEF AskSnapshot, Command, Poison, WaitFor
<1>14. CASE Save(p)
  BY <1>14 DEF Save, GiveUp, Poison, WaitFor
<1>15. CASE Late
  <2>1. Workers # {}
    BY PoolAssumption
  <2> QED
    BY <1>15, <2>1 DEF Late, Abort, Poison, WaitFor, ToldToStart
<1>16. CASE Spawn(p)
  BY <1>16 DEF Spawn, SpawnModelRank, SpawnWorker, Spawned, Poison
<1>17. CASE Finish
  <2>1. Finished
    BY <1>17, PolicyAssumption DEF Finish, Continues, Tally
  <2> QED
    BY <1>17, <2>1 DEF Finish
<1>18. CASE Account
  BY <1>18 DEF Account
<1> QED
  BY <1>1, <1>2, <1>3, <1>4, <1>5, <1>6, <1>7, <1>8, <1>9, <1>10, <1>11, <1>12,
     <1>13, <1>14,
     <1>15, <1>16, <1>17, <1>18

LEMMA EndingNext == Tally /\ Ending /\ [Next]_vars => Ending'
<1> SUFFICES ASSUME Tally, Ending, [Next]_vars PROVE Ending'
  OBVIOUS
<1>1. PICK p0 \in Procs, w0 \in Workers : TRUE
  BY PoolAssumption DEF Procs
<1>2. CASE UNCHANGED coordVars
  BY <1>2 DEF coordVars, Ending, Current, Finished
<1>3. CASE CoordinatorStep
  BY <1>1, <1>3, EndingCoordinator DEF CoordinatorStep
<1>4. CASE Trouble
  BY <1>1, <1>2, <1>4, EndingCoordinator DEF Trouble
<1> QED
  BY <1>2, <1>3, <1>4 DEF Next, ChildStep, vars

\* For any number of workers, ranks and rounds: a checkpoint holds the model
\* of its counters, and a run that ended without a fault saved the last of
\* its counters, having played what was asked for or been told to stop.
THEOREM CheckpointHolds == Spec => []CheckpointIsCurrent
<1>1. Init => Ending
  BY DEF Init, Ending
<1>2. Tally /\ Ending /\ [Next]_vars => Ending'
  BY EndingNext
<1>3. Stepwise /\ Ending => CheckpointIsCurrent
  BY DEF Stepwise, Ending, Current, Finished, CheckpointIsCurrent
<1> QED
  BY <1>1, <1>2, <1>3, Steps, Tallies, PTL DEF Spec
=============================================================================
