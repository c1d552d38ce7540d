---------------------------- MODULE TrainingControl ----------------------------
(***************************************************************************)
(* How the server starts and stops the training of one run directory       *)
(* (training_control/process_control.py, process_inspection.py).  A        *)
(* training is a process group of a leader and its workers; it outlives    *)
(* the server, and training.pid is all that a server knows of a training   *)
(* that another one started.  Requests and reapers of one server take the  *)
(* run directory's lock in turn; processes end, and the server dies, at    *)
(* any moment.  Process ids are not used twice.                            *)
(***************************************************************************)
EXTENDS Naturals, Sequences, SequencesExt, FiniteSets

CONSTANTS
  MaxTrainings,   \* bound: trainings spawned
  MaxRequests,    \* bound: requests to the server
  MaxDeaths,      \* bound: times the server dies
  MaxFileFaults   \* bound: failures of the file system

ASSUME Bounds == {MaxTrainings, MaxRequests, MaxDeaths, MaxFileFaults} \subseteq Nat

VARIABLES
  \* the server
  up,
  queue,        \* _locks: who holds the lock (the head) or waits for it
  pc, target,   \* where the holder is, and the training it deals with
  reapers,      \* trainings whose reaper awaits their end
  \* the system
  leader,       \* of each training spawned: alive, zombie or gone
  workers,      \* the trainings with workers
  children,     \* the trainings whose parent is this server
  signals,      \* the last signal sent to each
  initializer,  \* a CLI init runs
  pidFile,      \* training.pid
  \* history
  strays,       \* live trainings the PID file lost
  unreaped,     \* trainings with no reaper any more, or that could not remove
  requests, deaths, fileFaults

server == <<up, queue, pc, target, reapers>>
processes == <<leader, workers, children, signals>>
history == <<strays, unreaped, requests, deaths, fileFaults>>
controlVars == <<server, processes, initializer, pidFile, history>>

Trainings == 1..MaxTrainings
None == 0
Spawned == DOMAIN leader

ControlInit ==
  /\ up = TRUE /\ queue = <<>> /\ pc = "start" /\ target = None /\ reapers = {}
  /\ leader = <<>> /\ workers = {} /\ children = {} /\ signals = <<>>
  /\ initializer = FALSE /\ pidFile = None
  /\ strays = {} /\ unreaped = {} /\ requests = 0 /\ deaths = 0 /\ fileFaults = 0

Alive(p) == p \in Spawned /\ leader[p] = "alive"
\* ProcessInspector.inspect: the leader only, and not a zombie.
Found == Alive(pidFile)
\* _process_group_exists: a zombie is a member.
LeaderGone(p) == leader[p] = "gone"
GroupGone(p) == LeaderGone(p) /\ p \notin workers

Call(op) ==
  /\ up /\ requests < MaxRequests /\ requests' = requests + 1
  /\ queue' = Append(queue, [op |-> op, pid |-> None])
  /\ UNCHANGED <<up, pc, target, reapers, processes, initializer, pidFile, strays,
                 unreaped, deaths, fileFaults>>

Holds(op, at) == up /\ queue # <<>> /\ Head(queue).op = op /\ pc = at
Release == queue' = Tail(queue) /\ pc' = "start" /\ target' = None
MoveTo(at, p) == queue' = queue /\ pc' = at /\ target' = p
FileFault == fileFaults < MaxFileFaults /\ fileFaults' = fileFaults + 1
NoFault == fileFaults' = fileFaults

\* Slip: whatever it holds.
RemoveAny(p) == pidFile' = None
\* remove_training_pid_if_matches
RemoveIfMatches(p) == pidFile' = IF pidFile = p THEN None ELSE pidFile
\* Removal may fail; the caller goes on to the end.
Removal(p) ==
  \/ RemoveIfMatches(p) /\ NoFault /\ UNCHANGED unreaped
  \/ /\ FileFault /\ pidFile = p /\ unreaped' = unreaped \union {p}
     /\ UNCHANGED pidFile
\* SIGTERM, and SIGKILL to the group.
\* Slip: SIGTERM both times.
Politely == "term"
Forcibly == "kill"
---------------------------------------------------------------------------
(* resume *)

Refuse ==
  /\ Holds("resume", "start") /\ Found /\ Release
  /\ UNCHANGED <<up, reapers, processes, initializer, pidFile, history>>
SpawnFails ==
  /\ Holds("resume", "start") /\ ~Found /\ Release
  /\ FileFault \/ (NoFault /\ Len(leader) = MaxTrainings)
  /\ UNCHANGED <<up, reapers, processes, initializer, pidFile, strays, unreaped,
                 requests, deaths>>
Spawn ==
  LET p == Len(leader) + 1 IN
  /\ Holds("resume", "start") /\ ~Found /\ p \in Trainings
  /\ leader' = Append(leader, "alive") /\ signals' = Append(signals, "none")
  /\ workers' = workers \union {p} /\ children' = children \union {p}
  /\ MoveTo("spawned", p)
  /\ UNCHANGED <<up, reapers, initializer, pidFile, history>>
Written == target
Reaped == reapers \union {target}
\* write_training_pid, _start_reaper; _kill_spawned_process_group on failure.
Publish ==
  /\ Holds("resume", "spawned")
  /\ \/ /\ pidFile' = Written /\ reapers' = Reaped /\ Release
        /\ NoFault /\ UNCHANGED signals
     \/ /\ FileFault /\ signals' = [signals EXCEPT ![target] = Forcibly]
        /\ MoveTo("undo", target) /\ UNCHANGED <<pidFile, reapers>>
  /\ UNCHANGED <<up, leader, workers, children, initializer, strays, unreaped,
                 requests, deaths>>
Undone ==
  /\ Holds("resume", "undo") /\ LeaderGone(target) /\ Release
  /\ UNCHANGED <<up, reapers, processes, initializer, pidFile, history>>
---------------------------------------------------------------------------
(* stop *)

StopInspects ==
  /\ Holds("stop", "start")
  /\ \/ Found /\ MoveTo("signal", pidFile) /\ NoFault /\ UNCHANGED pidFile
     \/ ~Found /\ Release /\ pidFile' = None /\ NoFault
     \/ ~Found /\ Release /\ FileFault /\ UNCHANGED pidFile
  /\ UNCHANGED <<up, reapers, processes, initializer, strays, unreaped, requests,
                 deaths>>
Terminate ==
  /\ Holds("stop", "signal") /\ leader[target] # "gone"
  /\ signals' = [signals EXCEPT ![target] = Politely] /\ MoveTo("term", target)
  /\ UNCHANGED <<up, reapers, leader, workers, children, initializer, pidFile,
                 history>>
\* _wait_for_process_group_exit found no process, or there was none to signal.
Stopped ==
  /\ \/ Holds("stop", "signal") /\ LeaderGone(target)
     \/ \E at \in {"term", "kill"} : Holds("stop", at) /\ GroupGone(target)
  /\ Removal(target) /\ Release
  /\ UNCHANGED <<up, reapers, processes, initializer, strays, requests, deaths>>
Escalate ==
  /\ Holds("stop", "term") /\ ~GroupGone(target)
  /\ signals' = [signals EXCEPT ![target] = Forcibly] /\ MoveTo("kill", target)
  /\ UNCHANGED <<up, reapers, leader, workers, children, initializer, pidFile,
                 history>>
\* The killed group did not exit within _FORCED_EXIT_TIMEOUT_SECONDS.
NotExited ==
  /\ Holds("stop", "kill") /\ ~GroupGone(target) /\ Release
  /\ UNCHANGED <<up, reapers, processes, initializer, pidFile, history>>
---------------------------------------------------------------------------
(* initialize, and the CLI it runs *)

StartInit ==
  /\ Holds("init", "start") /\ MoveTo("initializing", None) /\ initializer' = TRUE
  /\ UNCHANGED <<up, reapers, processes, pidFile, history>>
\* Without --replace-existing a directory with anything in it is refused; with
\* it, _clear_run_directory removes training.pid too.
Initialized(replace) ==
  /\ initializer /\ initializer' = FALSE
  /\ IF replace
     THEN /\ pidFile' = None
          /\ strays' = strays \union ({pidFile} \intersect
                                      {p \in Spawned : Alive(p)})
     ELSE UNCHANGED <<pidFile, strays>>
  /\ UNCHANGED <<server, processes, unreaped, requests, deaths, fileFaults>>
InitDone ==
  /\ Holds("init", "initializing") /\ ~initializer /\ Release
  /\ UNCHANGED <<up, reapers, processes, initializer, pidFile, history>>
---------------------------------------------------------------------------
(* Reapers *)

\* asyncio collects a child that ended.
Collect(p) ==
  /\ up /\ p \in children /\ leader[p] = "zombie"
  /\ leader' = [leader EXCEPT ![p] = "gone"] /\ children' = children \ {p}
  /\ UNCHANGED <<server, workers, signals, initializer, pidFile, history>>
Reaper(p) ==
  /\ p \in reapers /\ leader[p] = "gone" /\ reapers' = reapers \ {p}
  /\ queue' = Append(queue, [op |-> "reap", pid |-> p])
  /\ UNCHANGED <<up, pc, target, processes, initializer, pidFile, history>>
Reap ==
  /\ Holds("reap", "start") /\ Removal(Head(queue).pid) /\ Release
  /\ UNCHANGED <<up, reapers, processes, initializer, strays, requests, deaths>>
---------------------------------------------------------------------------
(* The processes *)

LeaderExits(p) ==
  /\ Alive(p)
  /\ leader' = [leader EXCEPT ![p] = IF p \in children THEN "zombie" ELSE "gone"]
  /\ strays' = strays \ {p}
  /\ UNCHANGED <<server, workers, children, signals, initializer, pidFile, unreaped,
                 requests, deaths, fileFaults>>
WorkersExit(p) ==
  /\ p \in workers /\ (leader[p] # "alive" \/ signals[p] = "kill")
  /\ workers' = workers \ {p}
  /\ UNCHANGED <<server, leader, children, signals, initializer, pidFile, history>>

\* Whatever ends the server: close() cancels the reapers, a kill everything.
ServerDies ==
  /\ up /\ deaths < MaxDeaths /\ deaths' = deaths + 1
  /\ up' = FALSE /\ queue' = <<>> /\ pc' = "start" /\ target' = None /\ reapers' = {}
  /\ leader' = [p \in Spawned |-> IF leader[p] = "zombie" THEN "gone" ELSE leader[p]]
  /\ children' = {}
  /\ strays' = strays \union IF pc \in {"spawned", "undo"} /\ Alive(target)
                             THEN {target} ELSE {}
  /\ unreaped' = Spawned
  /\ UNCHANGED <<workers, signals, initializer, pidFile, requests, fileFaults>>
ServerStarts ==
  /\ ~up /\ up' = TRUE
  /\ UNCHANGED <<queue, pc, target, reapers, processes, initializer, pidFile, history>>

Holder ==
  \/ Refuse \/ SpawnFails \/ Spawn \/ Publish \/ Undone
  \/ StopInspects \/ Terminate \/ Stopped \/ Escalate \/ NotExited
  \/ StartInit \/ InitDone \/ Reap
System(p) == Collect(p) \/ Reaper(p) \/ WorkersExit(p)
ControlNext ==
  \/ \E op \in {"resume", "stop", "init"} : Call(op)
  \/ Holder
  \/ \E replace \in BOOLEAN : Initialized(replace)
  \/ \E p \in Spawned : System(p) \/ LeaderExits(p)
  \/ ServerDies \/ ServerStarts

\* The event loop runs the holder of the lock and its timers; a killed process
\* ends, and so do a CLI init and the workers of a leader that ended.  Nothing
\* makes a training end by itself, or on SIGTERM.
Fairness ==
  /\ WF_controlVars(Holder)
  /\ \A replace \in BOOLEAN : WF_controlVars(Initialized(replace))
  /\ \A p \in Trainings :
       /\ WF_controlVars(p \in Spawned /\ System(p))
       /\ WF_controlVars(p \in Spawned /\ signals[p] = "kill" /\ LeaderExits(p))
ControlSpec == ControlInit /\ [][ControlNext]_controlVars /\ Fairness
---------------------------------------------------------------------------
(* Properties *)

ControlTypeOK ==
  /\ \A i \in DOMAIN queue :
       queue[i] \in [op : {"resume", "stop", "init", "reap"}, pid : 0..Len(leader)]
  /\ pc \in {"start", "spawned", "undo", "signal", "term", "kill", "initializing"}
  /\ {pidFile, target} \subseteq 0..Len(leader)
  /\ reapers \union workers \union children \union strays \subseteq Spawned
  /\ \A p \in Spawned : leader[p] = "zombie" => p \in children

\* A live training is the one training.pid names, unless the server died before
\* it was written, or an init replaced the directory under it: no reaper, stop
\* or resume, in whatever order they get the lock, loses a live training.
TrainingNamed ==
  \A p \in Spawned : Alive(p) =>
    \/ pidFile = p
    \/ p \in strays
    \/ pc \in {"spawned", "undo"} /\ target = p

\* A training a stop has signalled ends, workers included, whatever the leader
\* makes of SIGTERM, unless the server dies first.
StopStops ==
  \A p \in Trainings : (pc = "term" /\ target = p) ~>
    (~up \/ (p \in Spawned /\ leader[p] = "gone" /\ p \notin workers))

\* The lock comes free again: no request waits for ever, be it behind one whose
\* training does not end, a spawn that is undone or a reaper.
LockComesFree == []<>(queue = <<>>)

\* The PID file of a training that ended goes, if the server that started it is
\* still there and the removal did not fail.
PidFileGoes ==
  \A p \in Trainings : (pidFile = p /\ p \in Spawned /\ leader[p] = "gone") ~>
    (pidFile # p \/ p \in unreaped)

\* Requests are served, what they stop ends, and its PID file goes.
RequestsEnd == StopStops /\ LockComesFree /\ PidFileGoes
=============================================================================
