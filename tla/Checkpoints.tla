------------------------------ MODULE Checkpoints ------------------------------
(***************************************************************************)
(* The checkpoints of one training run (policy_model/checkpoint, and the   *)
(* part of training/lifecycle and training/runtime/coordinator.py that     *)
(* uses them).  A checkpoint is an object directory with two payloads, and *)
(* one or two manifests that name it: latest.json, and update-<n>.json     *)
(* while it is retained.  Every write replaces a file at once, but a save  *)
(* is many of them; any may fail, and the process may be killed between    *)
(* any two.                                                                *)
(*                                                                         *)
(* The manifest of update n is called n, and latest.json is 0.  A payload  *)
(* of another object, or of no object, never has the digest a manifest     *)
(* gives it.                                                               *)
(***************************************************************************)
EXTENDS Naturals, Sequences, SequencesExt, FiniteSets, FiniteSetsExt

CONSTANTS
  Retention,     \* checkpoint_policy.retention_updates
  EveryUpdates,  \* checkpoint_policy.every_updates
  MaxUpdates,    \* bound: updates of all the trainings together
  MaxResumes,    \* bound: trainings
  MaxFaults      \* bound: failures of the file system

ASSUME CheckpointPolicy ==
  /\ Retention \in Nat /\ EveryUpdates \in Nat \ {0}
  /\ {MaxUpdates, MaxResumes, MaxFaults} \subseteq Nat

VARIABLES
  \* the checkpoints directory
  objects,    \* the objects, by id: the state, and the payloads written
  manifests,  \* the managed manifests, by name: the id and the state
  \* the training process
  stage,      \* what it does; "off" is no process
  line,       \* its state: the updates it went through
  final,      \* no training follows this save
  last,       \* last_checkpoint_path is set
  chosen,     \* the manifest a resume selected
  backup,     \* _ManifestBackup of each manifest the save writes
  todo,       \* the manifests still to be written or restored
  keep,       \* retained_update_count
  \* history
  made, trained, resumes, faults,
  broken      \* a manifest could not be restored

directory == <<objects, manifests>>
counters == <<made, trained, resumes, broken>>
vars == <<directory, stage, line, final, last, chosen, backup, todo, keep,
          counters, faults>>

Latest == 0
Nowhere == [id |-> 0, line |-> <<>>]
Updates == DOMAIN manifests \ {Latest}
With(f, x, v) == [y \in DOMAIN f \union {x} |-> IF y = x THEN v ELSE f[y]]
Without(f, x) == [y \in DOMAIN f \ {x} |-> f[y]]

Init ==
  /\ objects = <<>> /\ manifests = <<>>
  /\ stage = "off" /\ line = <<>> /\ final = FALSE /\ last = FALSE
  /\ chosen = Nowhere /\ backup = <<>> /\ todo = {} /\ keep = 0
  /\ made = 0 /\ trained = 0 /\ resumes = 0 /\ faults = 0 /\ broken = FALSE

Fault == faults < MaxFaults /\ faults' = faults + 1
Fine == UNCHANGED faults
\* The process ends, by itself or not; only the files remain.
Off ==
  /\ stage' = "off" /\ line' = <<>> /\ final' = FALSE /\ last' = FALSE
  /\ chosen' = Nowhere /\ backup' = <<>> /\ todo' = {} /\ keep' = 0
---------------------------------------------------------------------------
(* Loading *)

\* read_checkpoint_snapshot: both payloads are there, with the digests of the
\* manifest.
Intact(m) ==
  m.id \in DOMAIN objects /\ objects[m.id] = [line |-> m.line, payloads |-> 2]

\* resume_run: the selected checkpoint is loaded.
Resume(n) ==
  /\ stage = "off" /\ resumes < MaxResumes /\ resumes' = resumes + 1
  /\ n \in DOMAIN manifests /\ Intact(manifests[n])
  /\ stage' = "choose" /\ line' = manifests[n].line /\ chosen' = manifests[n]
  /\ final' = FALSE /\ last' = FALSE
  /\ UNCHANGED <<directory, backup, todo, keep, made, trained, broken, faults>>

\* canonicalize_resume_timeline: the selected checkpoint becomes the latest,
\* then those of later updates go.
Choose ==
  /\ stage = "choose"
  /\ \/ /\ manifests' = With(manifests, Latest, chosen) /\ stage' = "rewind"
        /\ Fine /\ UNCHANGED <<line, final, last, chosen, backup, todo, keep>>
     \/ Fault /\ Off /\ UNCHANGED manifests
  /\ UNCHANGED <<objects, counters>>
\* Slip: the update after the selected one is kept.
FutureBut1 == {n \in Updates : n > Len(line) + 1}
Future == {n \in Updates : n > Len(line)}
Rewind ==
  /\ stage = "rewind"
  /\ \/ /\ Future # {} /\ manifests' = Without(manifests, Min(Future))
        /\ Fine /\ UNCHANGED <<stage, line, final, last, chosen, backup, todo, keep>>
     \/ Future # {} /\ Fault /\ Off /\ UNCHANGED manifests
     \/ /\ Future = {} /\ stage' = "expire" /\ keep' = Cardinality(Updates)
        /\ Fine /\ UNCHANGED <<manifests, line, final, last, chosen, backup, todo>>
  /\ UNCHANGED <<objects, counters>>
---------------------------------------------------------------------------
(* Saving *)

Due == Len(line) % EveryUpdates = 0
\* _archive_checkpoint_path
Archived == line # <<>> /\ Retention > 0 /\ Due
Names == IF Archived THEN {Len(line), Latest} ELSE {Latest}

\* save_checkpoint up to the object directory.
BeginSave(retained) ==
  /\ made' = made + 1
  /\ objects' = With(objects, made', [line |-> line', payloads |-> 0])
  /\ stage' = "payloads" /\ keep' = retained
  /\ UNCHANGED <<manifests, chosen, broken>>

\* initialize_training_run, in an empty directory.
Initialize ==
  /\ stage = "off" /\ made = 0
  /\ line' = <<>> /\ BeginSave(0) /\ final' = TRUE /\ last' = FALSE
  /\ todo' = {Latest} /\ backup' = [n \in {Latest} |-> Nowhere] /\ Fine
  /\ UNCHANGED <<trained, resumes>>
\* A checkpoint that is due, or the last one of the run.
Save(isFinal) ==
  /\ stage = "due" \/ (isFinal /\ stage = "training" /\ ~last)
  /\ final' = isFinal /\ UNCHANGED line /\ BeginSave(Retention)
  /\ todo' = Names
  /\ backup' = [n \in Names |-> IF n \in DOMAIN manifests THEN manifests[n]
                                ELSE Nowhere]
  /\ Fine /\ UNCHANGED <<last, trained, resumes>>

\* _discard_object; its failure is not noticed.
Discard == objects' \in {Without(objects, made), objects}
WritePayload ==
  /\ stage = "payloads"
  /\ \/ /\ objects' = [objects EXCEPT ![made].payloads = @ + 1]
        /\ stage' = IF objects[made].payloads = 1 THEN "manifests" ELSE stage
        /\ Fine /\ UNCHANGED <<line, final, last, chosen, backup, todo, keep>>
     \/ Fault /\ Discard /\ Off
  /\ UNCHANGED <<manifests, counters>>

\* The manifests are written in turn; a failure restores them all.
\* Slip: latest.json first.
LatestFirst == Min(todo)
ArchiveFirst == Max(todo)
WriteManifest ==
  LET n == ArchiveFirst IN
  /\ stage = "manifests"
  /\ \/ /\ manifests' = With(manifests, n, [id |-> made, line |-> line])
        /\ todo' = todo \ {n} /\ stage' = IF todo = {n} THEN "expire" ELSE stage
        /\ Fine
     \/ /\ Fault /\ stage' = "restore" /\ todo' = DOMAIN backup
        /\ UNCHANGED manifests
  /\ UNCHANGED <<objects, line, final, last, chosen, backup, keep, counters>>

\* _restore_manifest_backups goes on after a failure; then the object goes.
Restored(n) ==
  IF backup[n] = Nowhere THEN Without(manifests, n)
  ELSE With(manifests, n, backup[n])
Restore ==
  LET n == Max(todo) IN
  /\ stage = "restore"
  /\ \/ manifests' = Restored(n) /\ Fine /\ UNCHANGED broken
     \/ /\ Fault /\ UNCHANGED manifests
        /\ broken' = (broken \/ Restored(n) # manifests)
  /\ todo' = todo \ {n} /\ stage' = IF todo = {n} THEN "discard" ELSE stage
  /\ UNCHANGED <<objects, line, final, last, chosen, backup, keep, made, trained,
                 resumes>>
GiveUp ==
  /\ stage = "discard" /\ Discard /\ stage' = "failed"
  /\ UNCHANGED <<manifests, line, final, last, chosen, backup, todo, keep, counters,
                 faults>>
---------------------------------------------------------------------------
(* Pruning *)

\* _prune_update_manifests: all but the newest.
\* Slip: one too many is kept.
ExpiredBut1 == {n \in Updates : Cardinality({k \in Updates : k > n}) > keep}
Expired == {n \in Updates : Cardinality({k \in Updates : k > n}) >= keep}
Expire ==
  /\ stage = "expire"
  /\ \/ /\ Expired # {} /\ manifests' = Without(manifests, Min(Expired))
        /\ Fine /\ UNCHANGED <<stage, line, final, last, chosen, backup, todo, keep>>
     \/ Expired # {} /\ Fault /\ Off /\ UNCHANGED manifests
     \/ /\ Expired = {} /\ stage' = "sweep"
        /\ Fine /\ UNCHANGED <<manifests, line, final, last, chosen, backup, todo, keep>>
  /\ UNCHANGED <<objects, counters>>

\* _remove_unreferenced_checkpoint_objects
\* Slip: only latest.json is looked at.
LiveInLatest == {manifests[n].id : n \in DOMAIN manifests \intersect {Latest}}
Live == {manifests[n].id : n \in DOMAIN manifests}
Garbage == DOMAIN objects \ Live
Sweep ==
  /\ stage = "sweep"
  /\ \/ /\ \E o \in Garbage : objects' = Without(objects, o)
        /\ Fine /\ UNCHANGED <<stage, line, final, last, chosen, backup, todo, keep>>
     \/ Garbage # {} /\ Fault /\ Off /\ UNCHANGED objects
     \/ /\ Garbage = {} /\ final /\ Off /\ Fine /\ UNCHANGED objects
     \/ /\ Garbage = {} /\ ~final /\ stage' = "training" /\ last' = (chosen = Nowhere)
        /\ chosen' = Nowhere /\ Fine
        /\ UNCHANGED <<objects, line, final, backup, todo, keep>>
  /\ UNCHANGED <<manifests, counters>>
---------------------------------------------------------------------------
(* The training between two saves *)

Update ==
  /\ stage = "training" /\ trained < MaxUpdates
  /\ trained' = trained + 1 /\ line' = Append(line, trained') /\ last' = FALSE
  /\ stage' = IF Len(line') % EveryUpdates = 0 THEN "due" ELSE "training"
  /\ UNCHANGED <<directory, final, chosen, backup, todo, keep, made, resumes,
                 broken, faults>>
\* An update begins, and a stop discards what was played of it: the state that
\* was saved last will be saved again as the final one.
DiscardUpdate ==
  /\ stage = "training" /\ last /\ last' = FALSE
  /\ UNCHANGED <<directory, stage, line, final, chosen, backup, todo, keep,
                 counters, faults>>
\* A training whose last save is its state ends without another.
Finish ==
  stage = "training" /\ last /\ Off /\ UNCHANGED <<directory, counters, faults>>
\* The training ends after a failed save, for any other failure, or is killed.
Crash == stage # "off" /\ Off /\ UNCHANGED <<directory, counters, faults>>

Next ==
  \/ Initialize \/ Choose \/ Rewind \/ WritePayload \/ WriteManifest \/ Restore
  \/ GiveUp \/ Expire \/ Sweep \/ Update \/ DiscardUpdate \/ Finish \/ Crash
  \/ \E n \in DOMAIN manifests : Resume(n)
  \/ \E f \in BOOLEAN : Save(f)
Spec == Init /\ [][Next]_vars
---------------------------------------------------------------------------
(* Properties *)

TypeOK ==
  /\ stage \in {"off", "choose", "rewind", "training", "due", "payloads",
                "manifests", "restore", "discard", "failed", "expire", "sweep"}
  /\ DOMAIN objects \subseteq 1..made
  /\ DOMAIN manifests \subseteq 0..MaxUpdates
  /\ \A o \in DOMAIN objects : objects[o].payloads \in 0..2
  /\ todo \subseteq DOMAIN manifests \union {Latest, Len(line)}

\* What loading a manifest gives.
Load(n) ==
  IF n \notin DOMAIN manifests THEN [state |-> "missing", line |-> <<>>]
  ELSE IF Intact(manifests[n]) THEN [state |-> "whole", line |-> manifests[n].line]
  ELSE [state |-> "corrupt", line |-> <<>>]

\* Wherever a save, a prune or a resume is cut off or fails, latest.json holds
\* a whole checkpoint, the old one or the new one: the directory is a register
\* that a training changes at once.
Register == INSTANCE CheckpointRegister WITH
  up <- stage # "off", line <- line, latest <- Load(Latest),
  archive <- {Load(n).line : n \in {k \in Updates : Load(k).state = "whole"}}
LatestIsARegister == Register!RegisterSpec

\* No manifest names an object that is gone or half-written: manifests are
\* written after the payloads, restored before the object is discarded, and
\* removed before the objects only they name (unless a manifest could not be
\* restored).
ManifestsIntact == ~broken => \A n \in DOMAIN manifests : Intact(manifests[n])

\* All checkpoints a training finds beside its own are of its past: a resume
\* from an earlier one leaves nothing of the future it abandons, even when the
\* one before was cut off while it removed that future.
Trains == stage \in {"training", "due", "payloads", "manifests", "restore",
                     "discard", "expire", "sweep"}
OneTimeline ==
  Trains => \A n \in Updates : Len(manifests[n].line) = n
                                 /\ IsPrefix(manifests[n].line, line)

\* A save or a resume that succeeds leaves the directory without garbage, that
\* of earlier crashes and failures included, and within its retention.
PrunesAll ==
  [][stage = "sweep" /\ stage' = "training" =>
       /\ DOMAIN objects' \subseteq {manifests'[n].id : n \in DOMAIN manifests'}
       /\ Cardinality(Updates) <= keep
       /\ chosen = Nowhere => Cardinality(Updates) <= Retention]_vars
=============================================================================
