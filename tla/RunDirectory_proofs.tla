-------------------------- MODULE RunDirectory_proofs --------------------------
(***************************************************************************)
(* The run directory keeps its promises for any number of updates, resumes *)
(* and failures, and for every policy: it refines the register, names no   *)
(* checkpoint that is not whole, and holds one timeline.                   *)
(*                                                                         *)
(* The argument is about what a save puts aside.  While manifests are      *)
(* written or restored, each backup is a checkpoint of the past that is    *)
(* still whole; what is written is whole too, and is the training's own    *)
(* state; and latest.json, written last, never has to be restored.  What   *)
(* is restored to an archive has the length of the training's line and is  *)
(* its prefix, so it is that line: the register does not see it.           *)
(*                                                                         *)
(* And no live training is lost by the server's requests and reapers, for  *)
(* any number of trainings, requests, deaths and faults.  The lock is what *)
(* it rests on: from the spawn of a training until its PID is written      *)
(* nobody else writes the PID file, and what the file said before was dead *)
(* when the lock was taken.  A reaper in the queue and a stop that removes *)
(* the file are about a training that is dead.                             *)
(***************************************************************************)
EXTENDS Checkpoints, TrainingControl, SequenceTheorems, FiniteSetTheorems,
        WellFoundedInduction, TLAPS

---------------------------------------------------------------------------
(* The checkpoints *)

Lines == Seq(Nat)
Marks == [id : 1..made, line : Lines]
Idle == {"off", "failed"}
Resuming == {"choose", "rewind"}
Saving == {"payloads", "manifests", "restore"}

\* The shapes of the values.
Types ==
  /\ stage \in Idle \union Resuming \union Saving
       \union {"training", "due", "discard", "expire", "sweep"}
  /\ made \in Nat /\ trained \in Nat /\ line \in Lines /\ broken \in BOOLEAN
  /\ DOMAIN objects \subseteq 1..made
  /\ \A o \in DOMAIN objects : objects[o] \in [line : Lines, payloads : 0..2]
  /\ DOMAIN manifests \subseteq Nat
  /\ \A n \in DOMAIN manifests : manifests[n] \in Marks
  /\ stage \in Resuming => chosen \in Marks
  /\ stage = "off" => line = <<>>

\* All the manifests are of one chain of states, though it may go further than
\* the training that resumed in the middle of it, until that has rewound.
Comparable(s, t) == IsPrefix(s, t) \/ IsPrefix(t, s)
Chain ==
  /\ \A n \in Updates : Len(manifests[n].line) = n
  /\ \A m, n \in DOMAIN manifests : Comparable(manifests[m].line, manifests[n].line)
  /\ stage \notin Idle => \A n \in DOMAIN manifests : Comparable(manifests[n].line, line)
  /\ Trains => \A n \in DOMAIN manifests : IsPrefix(manifests[n].line, line)

\* The checkpoint a resume selected, before and after it is the latest.
Rewound ==
  /\ stage \in Resuming => chosen.line = line
  /\ stage = "choose" => Intact(chosen)
  /\ stage = "rewind" => Latest \in DOMAIN manifests /\ manifests[Latest] = chosen

\* The manifest n is as it was before the save; and the backup of it is whole.
Kept(n) ==
  IF backup[n] = Nowhere THEN n \notin DOMAIN manifests
  ELSE n \in DOMAIN manifests /\ manifests[n] = backup[n]
Saved(n) ==
  \/ backup[n] = Nowhere
  \/ /\ backup[n] \in Marks /\ backup[n].id < made
     /\ n # Latest => Len(backup[n].line) = n
     /\ IsPrefix(backup[n].line, line)
     /\ broken \/ Intact(backup[n])
BackedUp ==
  stage \in Saving =>
    /\ todo # {} /\ todo \subseteq DOMAIN backup /\ Latest \in DOMAIN backup
    /\ DOMAIN backup \subseteq {Latest, Len(line)}
    /\ \A n \in DOMAIN backup : Saved(n)
    /\ Kept(Latest)
    /\ stage = "payloads" => todo = DOMAIN backup
    /\ stage \in {"payloads", "manifests"} =>
         Latest \in todo /\ \A n \in todo : Kept(n)

\* The object of the save, and the manifests that name it already.
BeingSaved ==
  /\ stage \in Saving =>
       /\ made \in DOMAIN objects /\ objects[made].line = line
       /\ objects[made].payloads \in IF stage = "payloads" THEN 0..1 ELSE {2}
  /\ stage \in Saving \union {"discard"} =>
       \A n \in DOMAIN manifests : manifests[n].id = made =>
         /\ n # Latest /\ stage # "payloads" /\ manifests[n].line = line
         /\ \/ stage = "manifests" /\ n \in DOMAIN backup \ todo
            \/ stage = "restore" /\ n \in todo
            \/ stage \in {"restore", "discard"} /\ broken

IInv == Types /\ Chain /\ Rewound /\ BackedUp /\ BeingSaved /\ ManifestsIntact
---------------------------------------------------------------------------
(* Prefixes *)

\* IsPrefix, by positions.
LEMMA PrefixMeans ==
  ASSUME NEW s \in Lines, NEW t \in Lines
  PROVE  IsPrefix(s, t) <=> Len(s) <= Len(t) /\ \A i \in 1..Len(s) : s[i] = t[i]
<1> USE DEF Lines
<1>1. CASE Len(s) <= Len(t)
  <2>1. /\ SubSeq(s, 1, Len(s)) = [i \in 1..Len(s) |-> s[i]]
        /\ SubSeq(t, 1, Len(s)) = [i \in 1..Len(s) |-> t[i]]
    BY <1>1
  <2> QED
    BY <1>1, <2>1 DEF IsPrefix
<1>2. CASE ~(Len(s) <= Len(t))
  BY <1>2 DEF IsPrefix
<1> QED
  BY <1>1, <1>2

LEMMA EmptyPrefix ==
  /\ <<>> \in Lines /\ Len(<<>>) = 0
  /\ \A s \in Lines : IsPrefix(<<>>, s) /\ (Len(s) = 0 => s = <<>>)
<1>1. <<>> \in Lines /\ Len(<<>>) = 0
  BY DEF Lines
<1>2. ASSUME NEW s \in Lines PROVE IsPrefix(<<>>, s) /\ (Len(s) = 0 => s = <<>>)
  <2>1. Len(s) \in Nat
    BY DEF Lines
  <2>2. IsPrefix(<<>>, s)
    BY <1>1, <2>1, PrefixMeans
  <2> QED
    BY <2>2 DEF Lines
<1> QED
  BY <1>1, <1>2

\* The order of prefixes, and the states that are comparable in it.
LEMMA PrefixOrder ==
  /\ \A s \in Lines : IsPrefix(s, s) /\ Len(s) \in Nat
  /\ \A s, t, u \in Lines : IsPrefix(s, t) /\ IsPrefix(t, u) => IsPrefix(s, u)
  /\ \A s, t, u \in Lines : IsPrefix(s, u) /\ IsPrefix(t, u) => Comparable(s, t)
  /\ \A s, t \in Lines : IsPrefix(s, t) => Len(s) <= Len(t)
  /\ \A s, t \in Lines : Comparable(s, t) /\ Len(s) <= Len(t) => IsPrefix(s, t)
  /\ \A s, t \in Lines : IsPrefix(s, t) /\ Len(s) = Len(t) => s = t
<1>1. \A s \in Lines : Len(s) \in Nat
  BY DEF Lines
<1>2. \A s \in Lines : IsPrefix(s, s)
  BY <1>1, PrefixMeans
<1>3. ASSUME NEW s \in Lines, NEW t \in Lines, NEW u \in Lines
      PROVE  IsPrefix(s, t) /\ IsPrefix(t, u) => IsPrefix(s, u)
  BY <1>1, PrefixMeans
<1>4. ASSUME NEW s \in Lines, NEW t \in Lines, NEW u \in Lines
      PROVE  IsPrefix(s, u) /\ IsPrefix(t, u) => Comparable(s, t)
  BY <1>1, PrefixMeans DEF Comparable
<1>5. ASSUME NEW s \in Lines, NEW t \in Lines
      PROVE  /\ IsPrefix(s, t) => Len(s) <= Len(t)
             /\ Comparable(s, t) /\ Len(s) <= Len(t) => IsPrefix(s, t)
             /\ IsPrefix(s, t) /\ Len(s) = Len(t) => s = t
  <2>1. IsPrefix(s, t) => Len(s) <= Len(t)
    BY PrefixMeans
  <2>2. IsPrefix(s, t) /\ Len(s) = Len(t) => s = t
    BY PrefixMeans, <1>1 DEF Lines
  <2>3. Comparable(s, t) /\ Len(s) <= Len(t) => IsPrefix(s, t)
    BY <1>1, PrefixMeans DEF Comparable
  <2> QED
    BY <2>1, <2>2, <2>3
<1> QED
  BY <1>1, <1>2, <1>3, <1>4, <1>5

LEMMA AppendPrefix ==
  ASSUME NEW s \in Lines, NEW x \in Nat
  PROVE  /\ Append(s, x) \in Lines /\ Len(Append(s, x)) = Len(s) + 1
         /\ IsPrefix(s, Append(s, x))
<1>1. Append(s, x) \in Lines /\ Len(Append(s, x)) = Len(s) + 1 /\ Len(s) \in Nat
  BY DEF Lines
<1>2. \A i \in 1..Len(s) : Append(s, x)[i] = s[i]
  BY DEF Lines
<1>3. Len(s) <= Len(Append(s, x))
  BY <1>1
<1> QED
  BY <1>1, <1>2, <1>3, PrefixMeans

LEMMA LeastUpdate ==
  ASSUME NEW S \in SUBSET Nat, S # {}
  PROVE  Min(S) \in S /\ \A n \in S : Min(S) <= n
<1>1. IsWellFoundedOn(OpToRel(<, Nat), Nat)
  BY NatLessThanWellFounded
<1>2. PICK m \in S : \A n \in S : ~(<<n, m>> \in OpToRel(<, Nat))
  BY <1>1, WFMin
<1>3. \A n \in S : ~(n < m)
  BY <1>2 DEF OpToRel
<1>4. ASSUME NEW n \in S PROVE m <= n
  <2>1. m \in Nat /\ n \in Nat /\ ~(n < m)
    BY <1>3
  <2> QED
    BY <2>1
<1> QED
  BY <1>4 DEF Min

\* The name that is written or restored next.
LEMMA TopOfTwo ==
  ASSUME NEW S, NEW l \in Nat, S \subseteq {0, l}, S # {}
  PROVE  Max(S) \in S /\ (Max(S) = 0 => S = {0})
<1>1. \E x \in S : \A y \in S : x >= y
  <2>1. CASE l \in S
    BY <2>1
  <2>2. CASE l \notin S
    <3>1. S = {0}
      BY <2>2
    <3> QED
      BY <3>1
  <2> QED
    BY <2>1, <2>2
<1>2. Max(S) \in S /\ \A y \in S : Max(S) >= y
  BY <1>1 DEF Max
<1>3. Max(S) = 0 => S = {0}
  <2> SUFFICES ASSUME Max(S) = 0, NEW y \in S PROVE y = 0
    BY <1>2
  <2> QED
    BY <1>2, 0 >= y, y \in {0, l}
<1> QED
  BY <1>2, <1>3
---------------------------------------------------------------------------
(* Every action keeps the invariant *)

LEMMA InitializeInv == ASSUME IInv, Initialize PROVE IInv'
<1> USE DEF Idle, Resuming, Saving, Latest, Nowhere, IInv, Initialize,
    directory, counters, BeginSave, Fine, With, Without
<1>1. Types'
  BY DEF Types, Marks
<1>2. Chain'
  BY DEF Chain, Types, Marks, Updates, Trains
<1>3. Rewound'
  BY DEF Rewound, Types, Marks, Intact
<1>4. BackedUp'
  BY DEF BackedUp, Saved, Kept, Types, Marks
<1>5. BeingSaved'
  BY DEF BeingSaved, Types, Marks
<1>6. ManifestsIntact'
  BY DEF ManifestsIntact, Types, Marks, Intact
<1> QED
  BY <1>1, <1>2, <1>3, <1>4, <1>5, <1>6

LEMMA ResumeInv == ASSUME IInv, NEW n \in DOMAIN manifests, Resume(n) PROVE IInv'
<1> USE DEF Idle, Resuming, Saving, Latest, Nowhere, IInv, Resume, directory,
    counters, With, Without
<1>1. Types'
  BY DEF Types, Marks
<1>2. Chain'
  BY DEF Chain, Types, Marks, Updates, Trains
<1>3. Rewound'
  BY DEF Rewound, Types, Marks, Intact
<1>4. BackedUp'
  BY DEF BackedUp
<1>5. BeingSaved'
  BY DEF BeingSaved, Types, Marks
<1>6. ManifestsIntact'
  BY DEF ManifestsIntact, Types, Marks, Intact
<1> QED
  BY <1>1, <1>2, <1>3, <1>4, <1>5, <1>6

LEMMA ChooseInv == ASSUME IInv, Choose PROVE IInv'
<1> USE DEF Idle, Resuming, Saving, Latest, Nowhere, IInv, Choose, Fine, Off,
    counters, Fault, With, Without
<1>1. Types'
  BY EmptyPrefix DEF Types, Marks
<1>2. Chain'
  <2>1. CASE manifests' = With(manifests, Latest, chosen) /\ stage' = "rewind"
             /\ UNCHANGED line
    <3>1. chosen.line = line /\ line \in Lines
      BY DEF Rewound, Types
    <3>2. \A n \in DOMAIN manifests :
            manifests[n].line \in Lines /\ Comparable(manifests[n].line, line)
      BY DEF Chain, Types, Marks
    <3>3. \A n \in DOMAIN manifests' :
            \/ n = Latest /\ manifests'[n].line = line
            \/ n \in DOMAIN manifests /\ manifests'[n] = manifests[n]
      BY <2>1, <3>1
    <3>4. Comparable(line, line)
      BY <3>1, PrefixOrder DEF Comparable
    <3>5. \A n \in DOMAIN manifests : Comparable(line, manifests[n].line)
      BY <3>2 DEF Comparable
    <3>6. \A m, n \in DOMAIN manifests' :
            Comparable(manifests'[m].line, manifests'[n].line)
      BY <3>2, <3>3, <3>4, <3>5 DEF Chain
    <3>7. \A n \in DOMAIN manifests' : Comparable(manifests'[n].line, line)
      BY <3>2, <3>3, <3>4
    <3>8. \A n \in Updates' : Len(manifests'[n].line) = n
      BY <3>3 DEF Chain, Updates
    <3> QED
      BY <2>1, <3>6, <3>7, <3>8 DEF Chain, Trains
  <2>2. CASE Off /\ UNCHANGED manifests
    BY <2>2 DEF Chain, Updates, Trains
  <2> QED
    BY <2>1, <2>2
<1>3. Rewound'
  BY DEF Rewound, Types, Marks, Intact
<1>4. BackedUp'
  BY DEF BackedUp
<1>5. BeingSaved'
  BY DEF BeingSaved, Types, Marks
<1>6. ManifestsIntact'
  <2>1. CASE manifests' = With(manifests, Latest, chosen) /\ stage' = "rewind"
    <3>1. Intact(chosen) /\ UNCHANGED <<objects, broken>>
      BY DEF Rewound
    <3>2. \A n \in DOMAIN manifests' :
            \/ manifests'[n] = chosen
            \/ n \in DOMAIN manifests /\ manifests'[n] = manifests[n]
      BY <2>1
    <3> QED
      BY <3>1, <3>2 DEF ManifestsIntact, Intact
  <2>2. CASE Off /\ UNCHANGED manifests
    BY <2>2 DEF ManifestsIntact, Intact
  <2> QED
    BY <2>1, <2>2
<1> QED
  BY <1>1, <1>2, <1>3, <1>4, <1>5, <1>6

LEMMA RewindInv == ASSUME IInv, Rewind PROVE IInv'
<1> USE DEF Idle, Resuming, Saving, Latest, Nowhere, IInv, Rewind, Fine, Off,
    counters, Fault, Future, With, Without
<1>1. Types'
  BY EmptyPrefix DEF Types, Marks
<1>2. Chain'
  <2>1. CASE Future # {} /\ manifests' = Without(manifests, Min(Future))
             /\ UNCHANGED <<stage, line, chosen>>
    BY <2>1 DEF Chain, Updates, Trains
  <2>2. CASE Off /\ UNCHANGED manifests
    BY <2>2 DEF Chain, Updates, Trains
  <2>3. CASE Future = {} /\ stage' = "expire" /\ UNCHANGED <<manifests, line>>
    <3>1. line \in Lines /\ \A n \in DOMAIN manifests : manifests[n].line \in Lines
      BY DEF Types, Marks
    <3>2. \A n \in Updates : n <= Len(line)
      BY <2>3, <3>1, PrefixOrder DEF Updates, Types
    <3>3. IsPrefix(manifests[Latest].line, line)
      BY <3>1, PrefixOrder DEF Rewound
    <3>4. \A n \in Updates : IsPrefix(manifests[n].line, line)
      BY <3>1, <3>2, PrefixOrder DEF Chain, Updates
    <3> QED
      BY <2>3, <3>3, <3>4 DEF Chain, Updates, Trains
  <2> QED
    BY <2>1, <2>2, <2>3
<1>3. Rewound'
  <2>1. ASSUME Future # {} PROVE Min(Future) # Latest
    <3>1. Future \in SUBSET Nat /\ Latest \notin Future
      BY DEF Updates, Types
    <3> QED
      BY <2>1, <3>1, LeastUpdate DEF Updates
  <2> QED
    BY <2>1 DEF Rewound, Types, Marks, Intact
<1>4. BackedUp'
  BY DEF BackedUp
<1>5. BeingSaved'
  BY DEF BeingSaved, Types, Marks
<1>6. ManifestsIntact'
  BY DEF ManifestsIntact, Types, Marks, Intact
<1> QED
  BY <1>1, <1>2, <1>3, <1>4, <1>5, <1>6

LEMMA SaveInv == ASSUME IInv, NEW f \in BOOLEAN, Save(f) PROVE IInv'
<1> USE DEF Idle, Resuming, Saving, Latest, Nowhere, IInv, Save, BeginSave,
    Fine, Names, Archived, Due, With, Without
<1>1. Types'
  BY DEF Types, Marks
<1>2. Chain'
  BY DEF Chain, Types, Marks, Updates, Trains
<1>3. Rewound'
  BY DEF Rewound, Types, Marks, Intact
<1>4. BackedUp'
  <2>1. /\ stage' = "payloads" /\ todo' = Names /\ made' = made + 1 /\ made \in Nat
        /\ DOMAIN backup' = Names /\ UNCHANGED <<manifests, broken, line>>
        /\ Latest \in Names /\ Names \subseteq {Latest, Len(line)}
        /\ \A n \in Names : backup'[n] = IF n \in DOMAIN manifests THEN manifests[n]
                                        ELSE Nowhere
    BY DEF Types
  <2>2. \A n \in DOMAIN manifests : manifests[n].id \in 1..made /\ manifests[n].line \in Lines
    BY DEF Types, Marks
  <2>3. \A n \in Names : Kept(n)'
    BY <2>1, <2>2 DEF Kept
  <2>4. ASSUME NEW n \in Names PROVE Saved(n)'
    <3>1. CASE n \notin DOMAIN manifests
      BY <2>1, <3>1 DEF Saved
    <3>2. CASE n \in DOMAIN manifests
      <4>1. backup'[n] = manifests[n] /\ backup'[n] \in Marks' /\ backup'[n].id < made'
        BY <2>1, <3>2 DEF Types, Marks
      <4>2. n # Latest => Len(backup'[n].line) = n
        BY <3>2, <4>1 DEF Chain, Updates
      <4>3. IsPrefix(backup'[n].line, line)
        BY <3>2, <4>1 DEF Chain, Trains
      <4>4. broken \/ Intact(manifests[n])'
        <5>1. manifests[n].id # made'
          BY <2>1, <2>2, <3>2
        <5>2. broken \/ Intact(manifests[n])
          BY <3>2 DEF ManifestsIntact
        <5> QED
          BY <2>1, <5>1, <5>2 DEF Intact
      <4> QED
        BY <2>1, <4>1, <4>2, <4>3, <4>4 DEF Saved, Intact
    <3> QED
      BY <3>1, <3>2
  <2> QED
    BY <2>1, <2>3, <2>4 DEF BackedUp
<1>5. BeingSaved'
  BY DEF BeingSaved, Types, Marks
<1>6. ManifestsIntact'
  BY DEF ManifestsIntact, Types, Marks, Intact
<1> QED
  BY <1>1, <1>2, <1>3, <1>4, <1>5, <1>6

LEMMA WritePayloadInv == ASSUME IInv, WritePayload PROVE IInv'
<1> USE DEF Idle, Resuming, Saving, Latest, Nowhere, IInv, WritePayload, Fine,
    Off, Fault, Discard, counters, With, Without
<1>1. Types'
  <2>1. CASE /\ objects' = [objects EXCEPT ![made].payloads = @ + 1]
             /\ stage' \in {"payloads", "manifests"} /\ UNCHANGED <<line, chosen>>
    BY <2>1 DEF Types, Marks, BeingSaved
  <2>2. CASE Discard /\ Off
    BY <2>2, EmptyPrefix DEF Types, Marks
  <2> QED
    BY <2>1, <2>2
<1>2. Chain'
  BY DEF Chain, Types, Marks, Updates, Trains
<1>3. Rewound'
  BY DEF Rewound, Types, Marks, Intact
<1>4. BackedUp'
  <2>1. CASE /\ objects' = [objects EXCEPT ![made].payloads = @ + 1]
             /\ stage' \in {"payloads", "manifests"} /\ UNCHANGED <<line, todo, backup>>
    <3>1. \A n \in DOMAIN backup : Saved(n)'
      <4> SUFFICES ASSUME NEW n \in DOMAIN backup PROVE Saved(n)'
        OBVIOUS
      <4>1. Saved(n)
        BY DEF BackedUp
      <4> QED
        BY <2>1, <4>1 DEF Saved, Intact, Marks, Types
    <3>2. \A n : Kept(n)' <=> Kept(n)
      BY <2>1 DEF Kept
    <3> QED
      BY <2>1, <3>1, <3>2 DEF BackedUp
  <2>2. CASE Discard /\ Off
    BY <2>2 DEF BackedUp
  <2> QED
    BY <2>1, <2>2
<1>5. BeingSaved'
  BY DEF BeingSaved, Types, Marks
<1>6. ManifestsIntact'
  <2>1. \A n \in DOMAIN manifests : manifests[n].id # made
    BY DEF BeingSaved
  <2>2. \A o \in DOMAIN objects : o # made => o \in DOMAIN objects' /\ objects'[o] = objects[o]
    OBVIOUS
  <2> QED
    BY <2>1, <2>2 DEF ManifestsIntact, Intact
<1> QED
  BY <1>1, <1>2, <1>3, <1>4, <1>5, <1>6

\* What a step that writes the manifest n does.
LEMMA NextName ==
  ASSUME Types, BackedUp, stage \in {"manifests", "restore"}
  PROVE  /\ Max(todo) \in todo /\ Max(todo) \in DOMAIN backup
         /\ Max(todo) \in Nat /\ Max(todo) \in {Latest, Len(line)}
         /\ Max(todo) = Latest => todo = {Latest}
<1>1. todo # {} /\ todo \subseteq DOMAIN backup /\ DOMAIN backup \subseteq {Latest, Len(line)}
  BY DEF BackedUp, Saving
<1>2. Len(line) \in Nat /\ Latest = 0
  BY PrefixOrder DEF Types, Latest
<1>3. todo \subseteq {0, Len(line)}
  BY <1>1, <1>2
<1>4. Max(todo) \in todo /\ (Max(todo) = 0 => todo = {0})
  BY <1>1, <1>2, <1>3, TopOfTwo
<1> QED
  BY <1>1, <1>2, <1>4

LEMMA WriteManifestInv == ASSUME IInv, WriteManifest PROVE IInv'
<1> USE DEF Idle, Resuming, Saving, Latest, Nowhere, IInv, WriteManifest, Fine,
    Fault, ArchiveFirst, counters, With, Without
<1>1. Types'
  <2>1. CASE /\ manifests' = With(manifests, Max(todo), [id |-> made, line |-> line])
             /\ todo' = todo \ {Max(todo)}
             /\ stage' = IF todo = {Max(todo)} THEN "expire" ELSE stage
    <3>1. Max(todo) \in todo /\ Max(todo) \in Nat /\ Max(todo) \in {Latest, Len(line)}
          /\ Max(todo) \in DOMAIN backup /\ (Max(todo) = Latest => todo = {Latest})
      BY NextName
    <3>2. \A n \in DOMAIN manifests' :
            \/ n = Max(todo) /\ manifests'[n] = [id |-> made, line |-> line]
            \/ n \in DOMAIN manifests /\ n # Max(todo) /\ manifests'[n] = manifests[n]
      BY <2>1
    <3>3. made \in 1..made
      BY DEF BeingSaved, Types
    <3>4. [id |-> made, line |-> line] \in Marks
      BY <3>3 DEF Marks, Types
    <3>5. Marks' = Marks
      BY DEF Marks
    <3>6. \A n \in DOMAIN manifests' : manifests'[n] \in Marks /\ n \in Nat
      BY <3>1, <3>2, <3>4 DEF Types
    <3>7. stage' \in {"manifests", "expire"} /\ DOMAIN manifests' \subseteq Nat
      BY <2>1, <3>6
    <3> QED
      BY <3>5, <3>6, <3>7 DEF Types
  <2>2. CASE stage' = "restore" /\ todo' = DOMAIN backup /\ UNCHANGED manifests
    BY <2>2 DEF Types, Marks
  <2> QED
    BY <2>1, <2>2
<1>2. Chain'
  <2>1. CASE /\ manifests' = With(manifests, Max(todo), [id |-> made, line |-> line])
             /\ todo' = todo \ {Max(todo)}
             /\ stage' = IF todo = {Max(todo)} THEN "expire" ELSE stage
    <3>1. Max(todo) \in todo /\ Max(todo) \in Nat /\ Max(todo) \in {Latest, Len(line)}
          /\ Max(todo) \in DOMAIN backup /\ (Max(todo) = Latest => todo = {Latest})
      BY NextName
    <3>2. \A n \in DOMAIN manifests' :
            \/ n = Max(todo) /\ manifests'[n] = [id |-> made, line |-> line]
            \/ n \in DOMAIN manifests /\ n # Max(todo) /\ manifests'[n] = manifests[n]
      BY <2>1
    <3>3. \A n \in DOMAIN manifests :
            manifests[n].line \in Lines /\ IsPrefix(manifests[n].line, line)
      BY DEF Types, Marks, Chain, Trains
    <3>4. line \in Lines /\ IsPrefix(line, line)
      BY PrefixOrder DEF Types
    <3>5. \A n \in DOMAIN manifests' :
            manifests'[n].line \in Lines /\ IsPrefix(manifests'[n].line, line)
      BY <3>2, <3>3, <3>4
    <3>6. \A m, n \in DOMAIN manifests' :
            Comparable(manifests'[m].line, manifests'[n].line)
      BY <3>4, <3>5, PrefixOrder
    <3>7. \A n \in Updates' : Len(manifests'[n].line) = n
      BY <3>1, <3>2 DEF Chain, Updates
    <3> QED
      BY <3>5, <3>6, <3>7 DEF Chain, Trains, Comparable
  <2>2. CASE stage' = "restore" /\ todo' = DOMAIN backup /\ UNCHANGED manifests
    BY <2>2 DEF Chain, Updates, Trains
  <2> QED
    BY <2>1, <2>2
<1>3. Rewound'
  BY DEF Rewound, Types, Marks, Intact
<1>4. BackedUp'
  <2>1. CASE /\ manifests' = With(manifests, Max(todo), [id |-> made, line |-> line])
             /\ todo' = todo \ {Max(todo)}
             /\ stage' = IF todo = {Max(todo)} THEN "expire" ELSE stage
    <3>1. Max(todo) \in todo /\ Max(todo) \in Nat /\ Max(todo) \in {Latest, Len(line)}
          /\ Max(todo) \in DOMAIN backup /\ (Max(todo) = Latest => todo = {Latest})
      BY NextName
    <3>2. \A n \in DOMAIN manifests' :
            \/ n = Max(todo) /\ manifests'[n] = [id |-> made, line |-> line]
            \/ n \in DOMAIN manifests /\ n # Max(todo) /\ manifests'[n] = manifests[n]
      BY <2>1
    <3>3. CASE todo = {Max(todo)}
      BY <2>1, <3>3 DEF BackedUp
    <3>4. CASE todo # {Max(todo)}
      <4>1. Latest \in todo' /\ todo' # {} /\ todo' \subseteq todo /\ stage' = "manifests"
        BY <2>1, <3>1, <3>4 DEF BackedUp
      <4>2. \A n \in todo' : Kept(n)'
        <5> SUFFICES ASSUME NEW n \in todo' PROVE Kept(n)'
          OBVIOUS
        <5>1. Kept(n) /\ n # Max(todo)
          BY <2>1 DEF BackedUp
        <5> QED
          BY <2>1, <5>1 DEF Kept
      <4>3. \A n \in DOMAIN backup : Saved(n)'
        <5> SUFFICES ASSUME NEW n \in DOMAIN backup PROVE Saved(n)'
          OBVIOUS
        <5>1. Saved(n)
          BY DEF BackedUp
        <5> QED
          BY <5>1 DEF Saved, Intact, Marks
      <4> QED
        BY <4>1, <4>2, <4>3 DEF BackedUp
    <3> QED
      BY <3>3, <3>4
  <2>2. CASE stage' = "restore" /\ todo' = DOMAIN backup /\ UNCHANGED manifests
    <3>1. \A n : (Kept(n)' <=> Kept(n)) /\ (Saved(n)' <=> Saved(n))
      BY <2>2 DEF Kept, Saved, Intact, Marks
    <3> QED
      BY <2>2, <3>1 DEF BackedUp
  <2> QED
    BY <2>1, <2>2
<1>5. BeingSaved'
  <2>1. CASE /\ manifests' = With(manifests, Max(todo), [id |-> made, line |-> line])
             /\ todo' = todo \ {Max(todo)}
             /\ stage' = IF todo = {Max(todo)} THEN "expire" ELSE stage
    <3>1. Max(todo) \in todo /\ Max(todo) \in Nat /\ Max(todo) \in {Latest, Len(line)}
          /\ Max(todo) \in DOMAIN backup /\ (Max(todo) = Latest => todo = {Latest})
      BY NextName
    <3>2. \A n \in DOMAIN manifests' :
            \/ n = Max(todo) /\ manifests'[n] = [id |-> made, line |-> line]
            \/ n \in DOMAIN manifests /\ n # Max(todo) /\ manifests'[n] = manifests[n]
      BY <2>1
    <3>3. \A n \in todo : Kept(n) /\ Saved(n)
      BY DEF BackedUp
    <3> QED
      BY <2>1, <3>1, <3>2, <3>3 DEF BeingSaved, BackedUp, Types
  <2>2. CASE stage' = "restore" /\ todo' = DOMAIN backup /\ UNCHANGED manifests
    <3>1. \A n \in DOMAIN manifests : manifests[n].id = made =>
            n # Latest /\ manifests[n].line = line /\ n \in DOMAIN backup
      BY DEF BeingSaved
    <3> QED
      BY <2>2, <3>1 DEF BeingSaved
  <2> QED
    BY <2>1, <2>2
<1>6. ManifestsIntact'
  <2>1. CASE /\ manifests' = With(manifests, Max(todo), [id |-> made, line |-> line])
             /\ todo' = todo \ {Max(todo)}
             /\ stage' = IF todo = {Max(todo)} THEN "expire" ELSE stage
    <3>1. Max(todo) \in todo /\ Max(todo) \in Nat /\ Max(todo) \in {Latest, Len(line)}
          /\ Max(todo) \in DOMAIN backup /\ (Max(todo) = Latest => todo = {Latest})
      BY NextName
    <3>2. \A n \in DOMAIN manifests' :
            \/ n = Max(todo) /\ manifests'[n] = [id |-> made, line |-> line]
            \/ n \in DOMAIN manifests /\ n # Max(todo) /\ manifests'[n] = manifests[n]
      BY <2>1
    <3>3. Intact([id |-> made, line |-> line])
      BY DEF BeingSaved, Intact, Types
    <3> QED
      BY <3>2, <3>3 DEF ManifestsIntact, Intact
  <2>2. CASE stage' = "restore" /\ todo' = DOMAIN backup /\ UNCHANGED manifests
    BY <2>2 DEF ManifestsIntact, Intact
  <2> QED
    BY <2>1, <2>2
<1> QED
  BY <1>1, <1>2, <1>3, <1>4, <1>5, <1>6

LEMMA RestoreInv == ASSUME IInv, Restore PROVE IInv'
<1> USE DEF Idle, Resuming, Saving, Latest, Nowhere, IInv, Restore, Fine, Fault,
    Restored, With, Without
<1>1. Types'
  <2>1. CASE manifests' = Restored(Max(todo)) /\ UNCHANGED broken
    <3>1. Max(todo) \in Nat /\ Saved(Max(todo))
      BY NextName DEF BackedUp
    <3>2. \A n \in DOMAIN manifests' :
            \/ /\ n = Max(todo) /\ backup[n] # Nowhere /\ manifests'[n] = backup[n]
            \/ n \in DOMAIN manifests /\ n # Max(todo) /\ manifests'[n] = manifests[n]
      BY <2>1
    <3>3. \A n \in DOMAIN manifests' : manifests'[n] \in Marks /\ n \in Nat
      BY <3>1, <3>2 DEF Types, Saved
    <3>4. stage' \in {"restore", "discard"}
          /\ UNCHANGED <<objects, line, made, trained, broken, chosen>>
      BY <2>1
    <3>5. Types
      OBVIOUS
    <3> HIDE DEF IInv, Restore, Restored
    <3> QED
      BY <3>3, <3>4, <3>5 DEF Types, Marks
  <2>2. CASE UNCHANGED manifests /\ broken' = (broken \/ Restored(Max(todo)) # manifests)
    BY <2>2 DEF Types, Marks
  <2> QED
    BY <2>1, <2>2
<1>2. Chain'
  <2>1. CASE manifests' = Restored(Max(todo)) /\ UNCHANGED broken
    <3>1. Max(todo) \in Nat /\ Saved(Max(todo))
      BY NextName DEF BackedUp
    <3>2. \A n \in DOMAIN manifests' :
            \/ /\ n = Max(todo) /\ backup[n] # Nowhere /\ manifests'[n] = backup[n]
            \/ n \in DOMAIN manifests /\ n # Max(todo) /\ manifests'[n] = manifests[n]
      BY <2>1
    <3>3. \A n \in DOMAIN manifests' :
            manifests'[n].line \in Lines /\ IsPrefix(manifests'[n].line, line)
      BY <3>1, <3>2 DEF Types, Marks, Chain, Trains, Saved
    <3>4. line \in Lines
      BY DEF Types
    <3>5. \A m, n \in DOMAIN manifests' :
            Comparable(manifests'[m].line, manifests'[n].line)
      BY <3>3, <3>4, PrefixOrder
    <3>6. \A n \in Updates' : Len(manifests'[n].line) = n
      BY <3>1, <3>2 DEF Chain, Updates, Saved
    <3> QED
      BY <3>3, <3>5, <3>6 DEF Chain, Trains, Comparable
  <2>2. CASE UNCHANGED manifests /\ broken' = (broken \/ Restored(Max(todo)) # manifests)
    BY <2>2 DEF Chain, Updates, Trains
  <2> QED
    BY <2>1, <2>2
<1>3. Rewound'
  BY DEF Rewound, Types, Marks, Intact
<1>4. BackedUp'
  <2>1. CASE todo = {Max(todo)}
    BY <2>1 DEF BackedUp
  <2>2. CASE todo # {Max(todo)}
    <3>1. stage' = "restore" /\ todo' = todo \ {Max(todo)} /\ todo' # {}
          /\ todo' \subseteq DOMAIN backup
      BY <2>2, NextName DEF BackedUp
    <3>2. \A n \in DOMAIN backup : Saved(n)'
      <4> SUFFICES ASSUME NEW n \in DOMAIN backup PROVE Saved(n)'
        OBVIOUS
      <4>1. Saved(n) /\ (broken => broken')
        BY DEF BackedUp, Types
      <4> QED
        BY <4>1 DEF Saved, Intact, Marks
    <3>3. Kept(Latest)'
      <4>1. Kept(Latest) /\ Max(todo) # Latest
        BY <2>2, NextName DEF BackedUp
      <4> QED
        BY <4>1 DEF Kept
    <3> QED
      BY <3>1, <3>2, <3>3 DEF BackedUp
  <2> QED
    BY <2>1, <2>2
<1>5. BeingSaved'
  <2>1. stage' \in {"restore", "discard"} /\ (stage' = "restore" => UNCHANGED <<objects, line>>)
        /\ todo' = todo \ {Max(todo)} /\ UNCHANGED <<made, line, objects>>
        /\ (stage' = "discard" => todo' = {})
    OBVIOUS
  <2>2. ASSUME NEW n \in DOMAIN manifests', manifests'[n].id = made
        PROVE  /\ n # Latest /\ manifests'[n].line = line
               /\ (stage' = "restore" /\ n \in todo') \/ broken'
    <3>1. Saved(Max(todo)) /\ Max(todo) \in todo
      BY NextName DEF BackedUp
    <3>2. CASE manifests' = Restored(Max(todo)) /\ UNCHANGED broken
      <4>1. n \in DOMAIN manifests /\ n # Max(todo) /\ manifests'[n] = manifests[n]
        BY <2>2, <3>1, <3>2 DEF Saved, Types
      <4> QED
        BY <2>1, <2>2, <3>2, <4>1 DEF BeingSaved
    <3>3. CASE UNCHANGED manifests /\ broken' = (broken \/ Restored(Max(todo)) # manifests)
      <4>1. n # Latest /\ manifests[n].line = line /\ (n \in todo \/ broken)
        BY <2>2, <3>3 DEF BeingSaved
      <4>2. n = Max(todo) => Restored(Max(todo)) # manifests
        BY <2>2, <3>1, <3>3 DEF Saved, Types
      <4>3. n \in todo => n \in todo' \/ n = Max(todo)
        BY <2>1
      <4>4. stage' = "discard" => todo \subseteq {Max(todo)}
        BY <2>1
      <4>5. broken \/ (Restored(Max(todo)) # manifests) => broken'
        BY <3>3
      <4> HIDE DEF Restored, IInv, Restore
      <4> QED
        BY <2>1, <2>2, <3>3, <4>1, <4>2, <4>3, <4>4, <4>5
    <3> QED
      BY <3>2, <3>3
  <2> QED
    BY <2>1, <2>2 DEF BeingSaved
<1>6. ManifestsIntact'
  <2>1. CASE manifests' = Restored(Max(todo)) /\ UNCHANGED broken
    <3>1. Max(todo) \in Nat /\ Saved(Max(todo))
      BY NextName DEF BackedUp
    <3>2. \A n \in DOMAIN manifests' :
            \/ /\ n = Max(todo) /\ backup[n] # Nowhere /\ manifests'[n] = backup[n]
            \/ n \in DOMAIN manifests /\ n # Max(todo) /\ manifests'[n] = manifests[n]
      BY <2>1
    <3>3. broken \/ \A n \in DOMAIN manifests' : Intact(manifests'[n])
      BY <3>1, <3>2 DEF ManifestsIntact, Saved
    <3>4. UNCHANGED <<objects, broken>>
      BY <2>1
    <3> HIDE DEF IInv, Restore, Restored
    <3> QED
      BY <3>3, <3>4 DEF ManifestsIntact, Intact
  <2>2. CASE UNCHANGED manifests /\ broken' = (broken \/ Restored(Max(todo)) # manifests)
    BY <2>2 DEF ManifestsIntact, Intact, Types
  <2> QED
    BY <2>1, <2>2
<1> QED
  BY <1>1, <1>2, <1>3, <1>4, <1>5, <1>6

LEMMA GiveUpInv == ASSUME IInv, GiveUp PROVE IInv'
<1> USE DEF Idle, Resuming, Saving, Latest, Nowhere, IInv, GiveUp, Discard,
    counters, With, Without
<1>1. Types'
  BY DEF Types, Marks
<1>2. Chain'
  BY DEF Chain, Types, Marks, Updates, Trains
<1>3. Rewound'
  BY DEF Rewound, Types, Marks, Intact
<1>4. BackedUp'
  BY DEF BackedUp, Saved, Kept, Types, Marks
<1>5. BeingSaved'
  BY DEF BeingSaved, Types, Marks
<1>6. ManifestsIntact'
  <2>1. broken \/ \A n \in DOMAIN manifests : manifests[n].id # made /\ Intact(manifests[n])
    BY DEF BeingSaved, ManifestsIntact
  <2>2. \A o \in DOMAIN objects : o # made => o \in DOMAIN objects' /\ objects'[o] = objects[o]
    OBVIOUS
  <2> QED
    BY <2>1, <2>2 DEF ManifestsIntact, Intact
<1> QED
  BY <1>1, <1>2, <1>3, <1>4, <1>5, <1>6

LEMMA ExpireInv == ASSUME IInv, Expire PROVE IInv'
<1> USE DEF Idle, Resuming, Saving, Latest, Nowhere, IInv, Expire, Fine, Fault,
    Off, counters, Expired, With, Without
<1>1. Types'
  BY EmptyPrefix DEF Types, Marks
<1>2. Chain'
  <2>1. \A n \in DOMAIN manifests' : n \in DOMAIN manifests /\ manifests'[n] = manifests[n]
    OBVIOUS
  <2>2. (stage' \in {"expire", "sweep"} /\ UNCHANGED line) \/ stage' = "off"
    OBVIOUS
  <2> QED
    BY <2>1, <2>2 DEF Chain, Updates, Trains
<1>3. Rewound'
  BY DEF Rewound, Types, Marks, Intact
<1>4. BackedUp'
  BY DEF BackedUp, Saved, Kept, Types, Marks
<1>5. BeingSaved'
  BY DEF BeingSaved, Types, Marks
<1>6. ManifestsIntact'
  BY DEF ManifestsIntact, Types, Marks, Intact
<1> QED
  BY <1>1, <1>2, <1>3, <1>4, <1>5, <1>6

LEMMA SweepInv == ASSUME IInv, Sweep PROVE IInv'
<1> USE DEF Idle, Resuming, Saving, Latest, Nowhere, IInv, Sweep, Fine, Fault,
    Off, counters, Garbage, Live, With, Without
<1>1. Types'
  BY EmptyPrefix DEF Types, Marks
<1>2. Chain'
  BY DEF Chain, Types, Marks, Updates, Trains
<1>3. Rewound'
  BY DEF Rewound, Types, Marks, Intact
<1>4. BackedUp'
  BY DEF BackedUp
<1>5. BeingSaved'
  BY DEF BeingSaved, Types, Marks
<1>6. ManifestsIntact'
  <2>1. \A o \in Live : o \in DOMAIN objects =>
          o \in DOMAIN objects' /\ objects'[o] = objects[o]
    OBVIOUS
  <2>2. \A n \in DOMAIN manifests : manifests[n].id \in Live
    OBVIOUS
  <2> QED
    BY <2>1, <2>2 DEF ManifestsIntact, Intact
<1> QED
  BY <1>1, <1>2, <1>3, <1>4, <1>5, <1>6

LEMMA UpdateInv == ASSUME IInv, Update PROVE IInv'
<1> USE DEF Idle, Resuming, Saving, Latest, Nowhere, IInv, Update, directory,
    With, Without
<1>1. Types'
  BY AppendPrefix DEF Types, Marks
<1>2. Chain'
  <2>1. line \in Lines /\ trained' \in Nat
    BY DEF Types
  <2>2. line' \in Lines /\ IsPrefix(line, line')
    BY <2>1, AppendPrefix
  <2>3. \A n \in DOMAIN manifests :
          manifests[n].line \in Lines /\ IsPrefix(manifests[n].line, line')
    BY <2>1, <2>2, PrefixOrder DEF Chain, Trains, Types, Marks
  <2> QED
    BY <2>3 DEF Chain, Trains, Updates, Comparable
<1>3. Rewound'
  BY DEF Rewound, Types, Marks, Intact
<1>4. BackedUp'
  BY DEF BackedUp, Saved, Kept, Types, Marks
<1>5. BeingSaved'
  BY DEF BeingSaved, Types, Marks
<1>6. ManifestsIntact'
  BY DEF ManifestsIntact, Types, Marks, Intact
<1> QED
  BY <1>1, <1>2, <1>3, <1>4, <1>5, <1>6

LEMMA DiscardUpdateInv == ASSUME IInv, DiscardUpdate PROVE IInv'
<1> USE DEF Idle, Resuming, Saving, Latest, Nowhere, IInv, DiscardUpdate, directory,
    counters, With, Without
<1>1. Types'
  BY DEF Types, Marks
<1>2. Chain'
  BY DEF Chain, Types, Marks, Updates, Trains
<1>3. Rewound'
  BY DEF Rewound, Types, Marks, Intact
<1>4. BackedUp'
  BY DEF BackedUp, Saved, Kept, Types, Marks
<1>5. BeingSaved'
  BY DEF BeingSaved, Types, Marks
<1>6. ManifestsIntact'
  BY DEF ManifestsIntact, Types, Marks, Intact
<1> QED
  BY <1>1, <1>2, <1>3, <1>4, <1>5, <1>6

LEMMA FinishInv == ASSUME IInv, Finish PROVE IInv'
<1> USE DEF Idle, Resuming, Saving, Latest, Nowhere, IInv, Finish, Off,
    directory, counters, With, Without
<1>1. Types'
  BY EmptyPrefix DEF Types, Marks
<1>2. Chain'
  BY DEF Chain, Types, Marks, Updates, Trains
<1>3. Rewound'
  BY DEF Rewound, Types, Marks, Intact
<1>4. BackedUp'
  BY DEF BackedUp, Saved, Kept, Types, Marks
<1>5. BeingSaved'
  BY DEF BeingSaved, Types, Marks
<1>6. ManifestsIntact'
  BY DEF ManifestsIntact, Types, Marks, Intact
<1> QED
  BY <1>1, <1>2, <1>3, <1>4, <1>5, <1>6

LEMMA CrashInv == ASSUME IInv, Crash PROVE IInv'
<1> USE DEF Idle, Resuming, Saving, Latest, Nowhere, IInv, Crash, Off,
    directory, counters, With, Without
<1>1. Types'
  BY EmptyPrefix DEF Types, Marks
<1>2. Chain'
  BY DEF Chain, Types, Marks, Updates, Trains
<1>3. Rewound'
  BY DEF Rewound, Types, Marks, Intact
<1>4. BackedUp'
  BY DEF BackedUp, Saved, Kept, Types, Marks
<1>5. BeingSaved'
  BY DEF BeingSaved, Types, Marks
<1>6. ManifestsIntact'
  BY DEF ManifestsIntact, Types, Marks, Intact
<1> QED
  BY <1>1, <1>2, <1>3, <1>4, <1>5, <1>6

---------------------------------------------------------------------------
(* The invariant *)

LEMMA InitInv == Init => IInv
<1> SUFFICES ASSUME Init PROVE IInv
  OBVIOUS
<1>1. /\ DOMAIN objects = {} /\ DOMAIN manifests = {} /\ stage = "off"
      /\ line = <<>> /\ made = 0 /\ trained = 0 /\ broken = FALSE
  BY DEF Init
<1>2. Types
  BY <1>1, EmptyPrefix DEF Types, Idle, Resuming, Saving
<1>3. Chain /\ Rewound /\ BackedUp /\ BeingSaved /\ ManifestsIntact
  BY <1>1 DEF Chain, Rewound, BackedUp, BeingSaved, ManifestsIntact, Idle, Resuming,
     Saving, Updates, Trains
<1> QED
  BY <1>2, <1>3 DEF IInv

LEMMA StutterInv == ASSUME IInv, UNCHANGED vars PROVE IInv'
<1> USE DEF IInv, vars, directory, counters
<1>1. Types' /\ Rewound' /\ ManifestsIntact' /\ BeingSaved'
  BY DEF Types, Marks, Rewound, BeingSaved, ManifestsIntact, Intact
<1>2. Chain'
  BY DEF Chain, Updates, Trains
<1>3. BackedUp'
  BY DEF BackedUp, Saved, Kept, Marks, Intact
<1> QED
  BY <1>1, <1>2, <1>3

LEMMA StepInv == ASSUME IInv, [Next]_vars PROVE IInv'
<1>1. CASE Next
  BY <1>1, InitializeInv, ResumeInv, ChooseInv, RewindInv, SaveInv, WritePayloadInv,
     WriteManifestInv, RestoreInv, GiveUpInv, ExpireInv, SweepInv, UpdateInv,
     DiscardUpdateInv, FinishInv, CrashInv DEF Next
<1>2. CASE UNCHANGED vars
  BY <1>2, StutterInv
<1> QED
  BY <1>1, <1>2

\* Every state of the directory and of the training satisfies the invariant.
THEOREM DirectoryInvariant == Spec => []IInv
<1>1. Init => IInv
  BY InitInv
<1>2. IInv /\ [Next]_vars => IInv'
  BY StepInv
<1> QED
  BY <1>1, <1>2, PTL DEF Spec

\* No manifest names an object that is gone or half-written, wherever a save, a
\* prune or a resume is cut off or fails (unless a restore failed too).
THEOREM CheckpointsIntact == Spec => []ManifestsIntact
<1>1. IInv => ManifestsIntact
  BY DEF IInv
<1> QED
  BY <1>1, DirectoryInvariant, PTL

\* A training finds only checkpoints of its own past in the archive, after any
\* resumes from the middle of it, those that were cut off included.
THEOREM CheckpointsOneTimeline == Spec => []OneTimeline
<1>1. IInv => OneTimeline
  BY DEF IInv, Chain, OneTimeline, Updates
<1> QED
  BY <1>1, DirectoryInvariant, PTL
---------------------------------------------------------------------------
(* The register *)

\* The archive of the register.
Archive == {Load(n).line : n \in {k \in Updates : Load(k).state = "whole"}}

\* What loads a manifest sees of the directory.
Same(n) ==
  /\ n \in DOMAIN manifests <=> n \in DOMAIN manifests'
  /\ n \in DOMAIN manifests =>
       /\ manifests'[n] = manifests[n]
       /\ manifests[n].id \in DOMAIN objects <=> manifests[n].id \in DOMAIN objects'
       /\ manifests[n].id \in DOMAIN objects =>
            objects'[manifests[n].id] = objects[manifests[n].id]

LEMMA SameLoad == ASSUME NEW n, Same(n) PROVE Load(n)' = Load(n)
  BY DEF Same, Load, Intact

LEMMA SameDirectory ==
  ASSUME \A n \in DOMAIN manifests \union DOMAIN manifests' : Same(n)
  PROVE  Load(Latest)' = Load(Latest) /\ Archive' = Archive
<1>1. DOMAIN manifests = DOMAIN manifests'
  BY DEF Same
<1>2. \A n : Same(n)
  BY <1>1 DEF Same
<1>3. \A n : Load(n)' = Load(n)
  BY <1>2, SameLoad
<1>4. Updates' = Updates
  BY <1>1 DEF Updates
<1> QED
  BY <1>3, <1>4, Latest' = Latest DEF Archive

\* An update of the archive: what is not the training's own was there.
LEMMA ArchiveShrinks ==
  ASSUME \A n \in Updates' : Load(n)'.state = "whole" =>
           \/ Load(n)'.line = line
           \/ n \in Updates /\ Load(n)' = Load(n)
  PROVE  Archive' \subseteq Archive \union {line}
  BY DEF Archive

LEMMA WholeLoad ==
  ASSUME NEW n
  PROVE  /\ Load(n).state = "whole" <=> n \in DOMAIN manifests /\ Intact(manifests[n])
         /\ Load(n).state = "whole" => Load(n) = [state |-> "whole", line |-> manifests[n].line]
  BY DEF Load

Up == stage # "off"
\* The steps of the register, in the directory's words.
Quiet == UNCHANGED <<Up, line, Load(Latest), Archive>>
Starts ==
  /\ ~Up /\ Up'
  /\ \/ Load(Latest).state = "missing" /\ line' = <<>>
     \/ Load(Latest).state = "whole" /\ line' = Load(Latest).line
     \/ line' \in Archive
  /\ UNCHANGED <<Load(Latest), Archive>>
Learns ==
  /\ Up /\ Up' /\ Len(line') = Len(line) + 1 /\ IsPrefix(line, line')
  /\ UNCHANGED <<Load(Latest), Archive>>
Commits ==
  /\ Up /\ Load(Latest)' = [state |-> "whole", line |-> line]
  /\ UNCHANGED <<Up, line, Archive>>
Rearchives ==
  /\ Up /\ Archive' \subseteq Archive \union {line}
  /\ UNCHANGED <<Up, line, Load(Latest)>>
Ends == Up /\ ~Up' /\ line' = <<>> /\ UNCHANGED <<Load(Latest), Archive>>
Moves == Quiet \/ Starts \/ Learns \/ Commits \/ Rearchives \/ Ends

LEMMA MovesRegister ==
  ASSUME Moves PROVE [Register!RegisterNext]_(Register!registerVars)
<1>1. Load(Latest).state = "missing" => Load(Latest) = Register!Missing
  BY DEF Load, Register!Missing
<1>2. CASE Quiet
  BY <1>2 DEF Quiet, Up, Archive, Register!registerVars
<1>3. CASE Starts
  BY <1>1, <1>3 DEF Starts, Up, Archive, Register!RegisterNext, Register!Start
<1>4. CASE Learns
  BY <1>4 DEF Learns, Up, Archive, Register!RegisterNext, Register!Learn,
     Register!IsPrefix, IsPrefix
<1>5. CASE Commits
  BY <1>5 DEF Commits, Up, Archive, Register!RegisterNext, Register!Commit,
     Register!Whole
<1>6. CASE Rearchives
  BY <1>6 DEF Rearchives, Up, Archive, Register!RegisterNext, Register!Rearchive
<1>7. CASE Ends
  BY <1>7 DEF Ends, Up, Archive, Register!RegisterNext, Register!End
<1> QED
  BY <1>2, <1>3, <1>4, <1>5, <1>6, <1>7 DEF Moves

LEMMA OffEnds ==
  ASSUME Up, Off, \A n \in DOMAIN manifests \union DOMAIN manifests' : Same(n)
  PROVE  Moves
  BY SameDirectory DEF Off, Up, Ends, Moves

\* A manifest that an action leaves alone and whose object is not the one that
\* is written loads as before.
LEMMA OthersSame ==
  ASSUME NEW o, \A p \in DOMAIN objects \union DOMAIN objects' :
                  p # o => /\ p \in DOMAIN objects <=> p \in DOMAIN objects'
                           /\ objects'[p] = objects[p],
         NEW n, n \in DOMAIN manifests <=> n \in DOMAIN manifests',
         n \in DOMAIN manifests => manifests'[n] = manifests[n] /\ manifests[n].id # o
  PROVE  Same(n)
  BY DEF Same

LEMMA BeginSaveSame ==
  ASSUME IInv, UNCHANGED manifests, made' = made + 1,
         NEW v, objects' = With(objects, made', v)
  PROVE  Load(Latest)' = Load(Latest) /\ Archive' = Archive
<1>1. \A n \in DOMAIN manifests : manifests[n].id # made'
  BY DEF IInv, Types, Marks
<1>2. \A n \in DOMAIN manifests \union DOMAIN manifests' : Same(n)
  BY <1>1, OthersSame DEF With
<1> QED
  BY <1>2, SameDirectory

LEMMA InitializeMoves == ASSUME IInv, Initialize PROVE Moves
<1>1. ~Up /\ Up' /\ line' = <<>>
  BY DEF Initialize, BeginSave, Up
<1>2. Load(Latest).state = "missing"
  <2>1. DOMAIN manifests = {}
    <3>1. made = 0 /\ \A n \in DOMAIN manifests : manifests[n].id \in 1..made
      BY DEF Initialize, IInv, Types, Marks
    <3>2. \A n \in DOMAIN manifests : FALSE
      BY <3>1
    <3> QED
      BY <3>2
  <2> QED
    BY <2>1 DEF Load
<1>3. UNCHANGED <<Load(Latest), Archive>>
  BY BeginSaveSame DEF Initialize, BeginSave
<1> QED
  BY <1>1, <1>2, <1>3 DEF Starts, Moves

LEMMA ResumeMoves == ASSUME IInv, NEW n \in DOMAIN manifests, Resume(n) PROVE Moves
<1>1. ~Up /\ Up' /\ line' = manifests[n].line /\ UNCHANGED <<objects, manifests>>
  BY DEF Resume, Up, directory
<1>2. Load(n) = [state |-> "whole", line |-> line']
  BY <1>1 DEF Load, Resume
<1>3. n = Latest \/ line' \in Archive
  BY <1>2 DEF Archive, Updates
<1>4. UNCHANGED <<Load(Latest), Archive>>
  BY <1>1, SameDirectory DEF Same
<1> QED
  BY <1>1, <1>2, <1>3, <1>4 DEF Starts, Moves

LEMMA ChooseMoves == ASSUME IInv, Choose PROVE Moves
<1>1. CASE manifests' = With(manifests, Latest, chosen) /\ stage' = "rewind"
           /\ UNCHANGED <<line, objects>>
  <2>1. Intact(chosen) /\ chosen.line = line
    BY DEF Choose, IInv, Rewound, Resuming
  <2>2. Load(Latest)' = [state |-> "whole", line |-> line]
    BY <1>1, <2>1 DEF Load, With, Intact
  <2>3. Updates' = Updates /\ \A n \in Updates : Same(n)
    BY <1>1 DEF Updates, Same, With
  <2>4. Archive' = Archive
    BY <2>3, SameLoad DEF Archive
  <2> QED
    BY <1>1, <2>2, <2>4 DEF Choose, Up, Commits, Moves
<1>2. CASE Off /\ UNCHANGED <<manifests, objects>>
  BY <1>2, OffEnds DEF Choose, Up, Same
<1> QED
  BY <1>1, <1>2 DEF Choose

\* Removing the manifest of an update.
LEMMA RemoveMoves ==
  ASSUME IInv, Up, Up', UNCHANGED <<line, objects>>,
         NEW m \in Updates, manifests' = Without(manifests, m)
  PROVE  Moves
<1>1. Same(Latest) /\ Updates' = Updates \ {m} /\ \A n \in Updates' : Same(n)
  BY DEF Updates, Same, Without
<1>2. Archive' \subseteq Archive
  BY <1>1, SameLoad DEF Archive
<1> QED
  BY <1>1, <1>2, SameLoad, Latest' = Latest DEF Rearchives, Moves, Up

LEMMA UpdatesNat == ASSUME IInv PROVE Updates \in SUBSET Nat
  BY DEF IInv, Types, Updates

LEMMA RewindMoves == ASSUME IInv, Rewind PROVE Moves
<1>1. CASE Future # {} /\ manifests' = Without(manifests, Min(Future))
           /\ UNCHANGED <<stage, line, objects>>
  <2>1. Future \in SUBSET Nat /\ Future \subseteq Updates
    BY UpdatesNat DEF Future
  <2>2. Min(Future) \in Updates
    BY <1>1, <2>1, LeastUpdate
  <2> QED
    BY <1>1, <2>2, RemoveMoves DEF Rewind, Up
<1>2. CASE Off /\ UNCHANGED <<manifests, objects>>
  BY <1>2, OffEnds DEF Rewind, Up, Same
<1>3. CASE stage' = "expire" /\ UNCHANGED <<manifests, line, objects>>
  BY <1>3, SameDirectory DEF Rewind, Up, Same, Quiet, Moves
<1> QED
  BY <1>1, <1>2, <1>3 DEF Rewind

LEMMA ExpireMoves == ASSUME IInv, Expire PROVE Moves
<1>1. CASE Expired # {} /\ manifests' = Without(manifests, Min(Expired))
           /\ UNCHANGED <<stage, line, objects>>
  <2>1. Expired \in SUBSET Nat /\ Expired \subseteq Updates
    BY UpdatesNat DEF Expired
  <2>2. Min(Expired) \in Updates
    BY <1>1, <2>1, LeastUpdate
  <2> QED
    BY <1>1, <2>2, RemoveMoves DEF Expire, Up
<1>2. CASE Off /\ UNCHANGED <<manifests, objects>>
  BY <1>2, OffEnds DEF Expire, Up, Same
<1>3. CASE stage' = "sweep" /\ UNCHANGED <<manifests, line, objects>>
  BY <1>3, SameDirectory DEF Expire, Up, Same, Quiet, Moves
<1> QED
  BY <1>1, <1>2, <1>3 DEF Expire

LEMMA SaveMoves == ASSUME IInv, NEW f \in BOOLEAN, Save(f) PROVE Moves
<1>1. Up /\ Up' /\ UNCHANGED line
  BY DEF Save, BeginSave, Up
<1>2. UNCHANGED <<Load(Latest), Archive>>
  BY BeginSaveSame DEF Save, BeginSave
<1> QED
  BY <1>1, <1>2 DEF Quiet, Moves, Up

LEMMA WritePayloadMoves == ASSUME IInv, WritePayload PROVE Moves
<1>1. \A n \in DOMAIN manifests : manifests[n].id # made
  BY DEF WritePayload, IInv, BeingSaved, Saving
<1>2. /\ UNCHANGED manifests
      /\ \A p \in DOMAIN objects \union DOMAIN objects' :
           p # made => /\ p \in DOMAIN objects <=> p \in DOMAIN objects'
                       /\ objects'[p] = objects[p]
  BY DEF WritePayload, Discard, Without
<1>3. \A n \in DOMAIN manifests \union DOMAIN manifests' : Same(n)
  BY <1>1, <1>2, OthersSame
<1>4. Up /\ ((Up' /\ UNCHANGED line) \/ Off)
  BY DEF WritePayload, Up
<1> QED
  BY <1>3, <1>4, OffEnds, SameDirectory DEF Quiet, Moves, Up

LEMMA WriteManifestMoves == ASSUME IInv, WriteManifest PROVE Moves
<1>1. Up /\ Up' /\ UNCHANGED <<line, objects>>
  BY DEF WriteManifest, Up
<1>2. CASE manifests' = With(manifests, Max(todo), [id |-> made, line |-> line])
  <2> DEFINE m == Max(todo)
             v == [id |-> made, line |-> line]
  <2>1. made \in DOMAIN objects /\ objects[made] = [line |-> line, payloads |-> 2]
    BY DEF WriteManifest, IInv, BeingSaved, Saving, Types
  <2>2. \A n : n # m => Same(n)
    BY <1>1, <1>2 DEF Same, With
  <2>3. m \in DOMAIN manifests' /\ manifests'[m] = v
    BY <1>2 DEF With
  <2>4. v.id \in DOMAIN objects' /\ objects'[v.id] = [line |-> v.line, payloads |-> 2]
    BY <1>1, <2>1
  <2> HIDE DEF m, v
  <2>5. \A n : n = m => Load(n)' = [state |-> "whole", line |-> v.line]
    BY <2>3, <2>4 DEF Load, Intact
  <2>6. CASE m = Latest
    <3>1. Load(Latest)' = [state |-> "whole", line |-> line]
      BY <2>5, <2>6 DEF v
    <3>2. Updates' = Updates /\ \A n \in Updates : Same(n)
      BY <1>2, <2>2, <2>6 DEF Updates, With, m
    <3>3. Archive' = Archive
      BY <3>2, SameLoad DEF Archive
    <3> QED
      BY <1>1, <3>1, <3>3 DEF Commits, Moves, Up
  <2>7. CASE m # Latest
    <3>1. Load(Latest)' = Load(Latest)
      BY <2>2, <2>7, SameLoad, Latest' = Latest
    <3>2. \A n \in Updates' : n = m \/ n \in Updates
      BY <1>2 DEF Updates, With, m
    <3>3. \A n \in Updates' : Load(n)'.line = line \/ (n \in Updates /\ Load(n)' = Load(n))
      BY <2>2, <2>5, <3>2, SameLoad DEF v
    <3> QED
      BY <1>1, <3>1, <3>3, ArchiveShrinks DEF Rearchives, Moves, Up
  <2> QED
    BY <2>6, <2>7
<1>3. CASE UNCHANGED manifests
  BY <1>1, <1>3, SameDirectory DEF Same, Quiet, Moves, Up
<1> QED
  BY <1>2, <1>3 DEF WriteManifest, ArchiveFirst

\* Only the archived manifest is restored, and what it said is this training's.
LEMMA RestoreMoves == ASSUME IInv, Restore PROVE Moves
<1> DEFINE m == Max(todo)
<1>1. Up /\ Up' /\ UNCHANGED <<line, objects>>
  BY DEF Restore, Up
<1>2. CASE manifests' = Restored(m)
  <2>1. /\ m \in DOMAIN backup /\ m \in {Latest, Len(line)} /\ Saved(m)
    BY NextName DEF IInv, Restore, BackedUp, Saving
  <2>2. \A n : n # m => Same(n)
    BY <1>1, <1>2 DEF Same, Restored, With, Without
  <2>3. Kept(Latest)
    BY DEF IInv, Restore, BackedUp, Saving
  <2>4. CASE m = Latest
    <3>1. Same(m)
      BY <1>1, <1>2, <2>3, <2>4 DEF Same, Restored, With, Without, Kept
    <3> QED
      BY <1>1, <2>2, <3>1, SameDirectory DEF Quiet, Moves, Up
  <2>5. CASE m # Latest
    <3>1. Load(Latest)' = Load(Latest)
      BY <2>2, <2>5, SameLoad, Latest' = Latest
    <3>2. \A n \in Updates' : n = m \/ n \in Updates
      BY <1>2 DEF Updates, Restored, With, Without
    <3>3. ASSUME m \in Updates' PROVE manifests'[m].line = line
      <4>1. backup[m] # Nowhere /\ manifests'[m] = backup[m]
        BY <1>2, <3>3 DEF Updates, Restored, With, Without
      <4>2. /\ backup[m].line \in Lines /\ line \in Lines /\ IsPrefix(backup[m].line, line)
            /\ Len(backup[m].line) = Len(line)
        BY <2>1, <2>5, <4>1 DEF Saved, Marks, IInv, Types
      <4> QED
        BY <4>1, <4>2, PrefixOrder
    <3>4. \A n \in Updates' : Load(n)'.state = "whole" =>
            Load(n)'.line = line \/ (n \in Updates /\ Load(n)' = Load(n))
      <4> SUFFICES ASSUME NEW n \in Updates', Load(n)'.state = "whole"
                   PROVE  Load(n)'.line = line \/ (n \in Updates /\ Load(n)' = Load(n))
        OBVIOUS
      <4>1. CASE n = m
        BY <3>3, <4>1 DEF Load
      <4>2. CASE n # m
        BY <2>2, <3>2, <4>2, SameLoad
      <4> QED
        BY <4>1, <4>2
    <3> QED
      BY <1>1, <3>1, <3>4, ArchiveShrinks DEF Rearchives, Moves, Up
  <2> QED
    BY <2>4, <2>5
<1>3. CASE UNCHANGED manifests
  BY <1>1, <1>3, SameDirectory DEF Same, Quiet, Moves, Up
<1> QED
  BY <1>2, <1>3 DEF Restore

LEMMA GiveUpMoves == ASSUME IInv, GiveUp PROVE Moves
<1>1. Up /\ Up' /\ UNCHANGED <<line, manifests>>
  BY DEF GiveUp, Up
<1>2. \A p \in DOMAIN objects \union DOMAIN objects' :
        p # made => /\ p \in DOMAIN objects <=> p \in DOMAIN objects'
                    /\ objects'[p] = objects[p]
  BY DEF GiveUp, Discard, Without
<1>3. \A n \in DOMAIN manifests : manifests[n].id = made =>
        n # Latest /\ manifests[n].line = line
  BY DEF GiveUp, IInv, BeingSaved, Saving
<1>4. \A n : (n \in DOMAIN manifests => manifests[n].id # made) => Same(n)
  BY <1>1, <1>2, OthersSame DEF Same
<1>5. Load(Latest)' = Load(Latest)
  BY <1>3, <1>4, SameLoad, Latest' = Latest
<1>6. Updates' = Updates
  BY <1>1 DEF Updates
<1>7. ASSUME NEW n \in Updates', Load(n)'.state = "whole"
      PROVE  Load(n)'.line = line \/ (n \in Updates /\ Load(n)' = Load(n))
  <2>1. CASE manifests[n].id = made
    <3>1. Load(n)'.line = manifests'[n].line
      BY <1>7 DEF Load
    <3> QED
      BY <1>1, <1>3, <1>6, <2>1, <3>1 DEF Updates
  <2>2. CASE manifests[n].id # made
    BY <1>4, <1>6, <2>2, SameLoad DEF Updates
  <2> QED
    BY <2>1, <2>2
<1> QED
  BY <1>1, <1>5, <1>7, ArchiveShrinks DEF Rearchives, Moves, Up

LEMMA SweepMoves == ASSUME IInv, Sweep PROVE Moves
<1>1. UNCHANGED manifests
  BY DEF Sweep
<1>2. \A n \in DOMAIN manifests : manifests[n].id \notin Garbage
  BY DEF Garbage, Live
<1>3. ASSUME NEW p, p \notin Garbage
      PROVE  /\ p \in DOMAIN objects <=> p \in DOMAIN objects'
             /\ p \in DOMAIN objects => objects'[p] = objects[p]
  BY <1>3 DEF Sweep, Without
<1>4. \A n \in DOMAIN manifests \union DOMAIN manifests' : Same(n)
  <2> TAKE n \in DOMAIN manifests \union DOMAIN manifests'
  <2>1. n \in DOMAIN manifests /\ n \in DOMAIN manifests' /\ manifests'[n] = manifests[n]
    BY <1>1
  <2>2. manifests[n].id \notin Garbage
    BY <1>2, <2>1
  <2> QED
    BY <1>3, <2>1, <2>2 DEF Same
<1>5. Up /\ ((Up' /\ UNCHANGED line) \/ Off)
  BY DEF Sweep, Up
<1> QED
  BY <1>4, <1>5, OffEnds, SameDirectory DEF Quiet, Moves, Up

LEMMA UpdateMoves == ASSUME IInv, Update PROVE Moves
<1>1. Up /\ Up' /\ UNCHANGED <<manifests, objects>>
  BY DEF Update, Up, directory
<1>2. line \in Lines /\ trained' \in Nat /\ line' = Append(line, trained')
  BY DEF Update, IInv, Types
<1> QED
  BY <1>1, <1>2, AppendPrefix, SameDirectory DEF Same, Learns, Moves

LEMMA DiscardUpdateMoves == ASSUME DiscardUpdate PROVE Moves
  BY SameDirectory DEF DiscardUpdate, directory, Same, Up, Quiet, Moves

LEMMA EndMoves == ASSUME IInv, Finish \/ Crash PROVE Moves
  BY OffEnds DEF Finish, Crash, Up, Same, directory

LEMMA StepMoves == ASSUME IInv, [Next]_vars PROVE Moves
<1>1. CASE Next
  BY <1>1, InitializeMoves, ResumeMoves, ChooseMoves, RewindMoves, SaveMoves,
     WritePayloadMoves, WriteManifestMoves, RestoreMoves, GiveUpMoves, ExpireMoves,
     SweepMoves, UpdateMoves, DiscardUpdateMoves, EndMoves DEF Next
<1>2. CASE UNCHANGED vars
  BY <1>2, SameDirectory DEF vars, directory, Same, Up, Quiet, Moves
<1> QED
  BY <1>1, <1>2

\* The directory implements the register: wherever a training is cut off or
\* fails, the latest checkpoint is a state that some training committed, and the
\* archive gains nothing but the state of the training that runs.
THEOREM CheckpointsRegister == Spec => LatestIsARegister
<1>1. Init => Register!RegisterInit
  <2> SUFFICES ASSUME Init PROVE Register!RegisterInit
    OBVIOUS
  <2>1. DOMAIN manifests = {} /\ ~Up /\ line = <<>>
    BY DEF Init, Up
  <2>2. Load(Latest) = Register!Missing /\ Archive = {}
    BY <2>1 DEF Load, Register!Missing, Archive, Updates
  <2> QED
    BY <2>1, <2>2 DEF Register!RegisterInit, Up, Archive
<1>2. IInv /\ [Next]_vars => [Register!RegisterNext]_(Register!registerVars)
  BY StepMoves, MovesRegister
<1> QED
  BY <1>1, <1>2, DirectoryInvariant, PTL DEF Spec, LatestIsARegister,
     Register!RegisterSpec
---------------------------------------------------------------------------
(* Pruning *)

\* Once nothing is expired, no more update manifests are left than are kept,
\* which after a save is the retention.
Pruned ==
  /\ IsFiniteSet(DOMAIN manifests) /\ keep \in Nat
  /\ stage = "sweep" => Cardinality(Updates) <= keep
  /\ stage \in Saving \union {"expire", "sweep"} /\ chosen = Nowhere => keep <= Retention

LEMMA NamesFinite ==
  ASSUME IsFiniteSet(DOMAIN manifests)
  PROVE  /\ IsFiniteSet(Updates) /\ Cardinality(Updates) \in Nat
         /\ \A x, v : IsFiniteSet(DOMAIN With(manifests, x, v))
         /\ \A x : IsFiniteSet(DOMAIN Without(manifests, x))
<1>1. IsFiniteSet(Updates)
  BY FS_RemoveElement DEF Updates
<1>2. ASSUME NEW x, NEW v PROVE IsFiniteSet(DOMAIN With(manifests, x, v))
  BY FS_AddElement DEF With
<1>3. ASSUME NEW x PROVE IsFiniteSet(DOMAIN Without(manifests, x))
  BY FS_RemoveElement DEF Without
<1> QED
  BY <1>1, <1>2, <1>3, FS_CardinalityType

\* Nothing is expired: there are no more than are kept.
LEMMA NoneExpired ==
  ASSUME IInv, IsFiniteSet(DOMAIN manifests), keep \in Nat, Expired = {}
  PROVE  Cardinality(Updates) <= keep
<1>1. IsFiniteSet(Updates) /\ Cardinality(Updates) \in Nat /\ Updates \in SUBSET Nat
  BY NamesFinite, UpdatesNat
<1>2. CASE Updates = {}
  BY <1>2, FS_EmptySet
<1>3. CASE Updates # {}
  <2> DEFINE m == Min(Updates)
  <2>1. m \in Updates /\ \A n \in Updates : m <= n
    BY <1>1, <1>3, LeastUpdate
  <2> HIDE DEF m
  <2>2. {k \in Updates : k > m} = Updates \ {m}
    <3>1. ASSUME NEW k \in Updates PROVE k > m <=> k # m
      <4>1. k \in Nat /\ m \in Nat /\ m <= k
        BY <1>1, <2>1
      <4> QED
        BY <4>1
    <3> QED
      BY <3>1
  <2>3. Cardinality(Updates \ {m}) = Cardinality(Updates) - 1
    BY <1>1, <2>1, FS_RemoveElement
  <2>4. ~(Cardinality({k \in Updates : k > m}) >= keep)
    BY <2>1 DEF Expired
  <2>5. ~(Cardinality(Updates) - 1 >= keep)
    BY <2>2, <2>3, <2>4
  <2> QED
    BY <1>1, <2>5
<1> QED
  BY <1>2, <1>3

LEMMA PrunedStep ==
  ASSUME IInv, Pruned, [Next]_vars
  PROVE  Pruned'
<1>0. Retention \in Nat
  BY CheckpointPolicy
<1> USE NamesFinite DEF Pruned, Saving, Idle, Resuming
<1>1. CASE Initialize
  BY <1>0, <1>1 DEF Initialize, BeginSave
<1>2. ASSUME NEW n \in DOMAIN manifests, Resume(n) PROVE Pruned'
  BY <1>2 DEF Resume, directory
<1>3. CASE Choose
  BY <1>3 DEF Choose, Off
<1>4. CASE Rewind
  <2>1. chosen # Nowhere
    BY <1>4 DEF Rewind, IInv, Types, Marks, Nowhere
  <2> QED
    BY <1>4, <2>1 DEF Rewind, Off
<1>5. ASSUME NEW f \in BOOLEAN, Save(f) PROVE Pruned'
  BY <1>0, <1>5 DEF Save, BeginSave
<1>6. CASE WritePayload
  BY <1>6 DEF WritePayload, Off
<1>7. CASE WriteManifest
  BY <1>7 DEF WriteManifest
<1>8. CASE Restore
  BY <1>0, <1>8 DEF Restore, Restored
<1>9. CASE GiveUp
  BY <1>9 DEF GiveUp
<1>10. CASE Expire
  <2>1. CASE stage' = "expire"
    BY <1>0, <1>10, <2>1 DEF Expire, Off
  <2>2. CASE stage' = "off"
    BY <1>0, <1>10, <2>2 DEF Expire, Off
  <2>3. CASE Expired = {} /\ stage' = "sweep"
    <3>1. Cardinality(Updates) <= keep
      BY <2>3, NoneExpired
    <3> QED
      BY <1>0, <1>10, <2>3, <3>1 DEF Expire, Updates, Off
  <2> QED
    BY <1>10, <2>1, <2>2, <2>3 DEF Expire, Off
<1>11. CASE Sweep
  BY <1>11 DEF Sweep, Off, Updates
<1>12. CASE Update \/ DiscardUpdate
  BY <1>12 DEF Update, DiscardUpdate, directory
<1>13. CASE Finish \/ Crash
  BY <1>13 DEF Finish, Crash, Off, directory
<1>14. CASE UNCHANGED vars
  BY <1>14 DEF vars, directory, Updates
<1> QED
  BY <1>1, <1>2, <1>3, <1>4, <1>5, <1>6, <1>7, <1>8, <1>9, <1>10, <1>11, <1>12,
     <1>13, <1>14 DEF Next

\* A save or a resume that succeeds leaves no object that no manifest names, and
\* no more update manifests than the retention, for every retention.
THEOREM CheckpointsPruned == Spec => PrunesAll
<1>1. Init => Pruned
  <2> SUFFICES ASSUME Init PROVE Pruned
    OBVIOUS
  <2>1. DOMAIN manifests = {} /\ keep = 0 /\ stage = "off"
    BY DEF Init
  <2> QED
    BY <2>1, FS_EmptySet DEF Pruned, Saving
<1>2. IInv /\ Pruned /\ [Next]_vars => Pruned'
  BY PrunedStep
<1>3. IInv /\ Pruned /\ [Next]_vars =>
        [stage = "sweep" /\ stage' = "training" =>
           /\ DOMAIN objects' \subseteq {manifests'[n].id : n \in DOMAIN manifests'}
           /\ Cardinality(Updates) <= keep
           /\ chosen = Nowhere => Cardinality(Updates) <= Retention]_vars
  <2> SUFFICES ASSUME IInv, Pruned, Next, stage = "sweep", stage' = "training"
               PROVE  /\ DOMAIN objects' \subseteq
                           {manifests'[n].id : n \in DOMAIN manifests'}
                      /\ Cardinality(Updates) <= keep
                      /\ chosen = Nowhere => Cardinality(Updates) <= Retention
    OBVIOUS
  <2>1. Sweep
    BY DEF Next, Initialize, Choose, Rewind, WritePayload, WriteManifest, Restore,
       GiveUp, Expire, Update, DiscardUpdate, Finish, Crash, Resume, Save, BeginSave, Off
  <2>2. Garbage = {} /\ UNCHANGED <<objects, manifests>>
    BY <2>1 DEF Sweep, Off
  <2>3. DOMAIN objects \subseteq Live
    BY <2>2 DEF Garbage
  <2>4. Cardinality(Updates) <= keep /\ (chosen = Nowhere => keep <= Retention)
        /\ keep \in Nat /\ Cardinality(Updates) \in Nat
    BY NamesFinite DEF Pruned
  <2> QED
    BY <2>2, <2>3, <2>4, CheckpointPolicy DEF Live
<1> QED
  BY <1>1, <1>2, <1>3, DirectoryInvariant, PTL DEF Spec, PrunesAll
---------------------------------------------------------------------------
(* The PID file *)

Ticket == [op : {"resume", "stop", "init", "reap"}, pid : Nat]
Known ==
  /\ leader \in Seq({"alive", "zombie", "gone"})
  /\ queue \in Seq(Ticket)
  /\ pidFile \in 0..Len(leader) /\ target \in 0..Len(leader)
\* What is spawned and not yet written is the only live training of the
\* server's that the file does not name.
Unwritten == pc \in {"spawned", "undo"} => ~Alive(pidFile)
DeadReaped ==
  \A i \in DOMAIN queue :
    queue[i].op = "reap" => queue[i].pid \in Spawned /\ ~Alive(queue[i].pid)

Inv == Known /\ Unwritten /\ DeadReaped /\ TrainingNamed

LEMMA Queues ==
  ASSUME Known
  PROVE  /\ Spawned = 1..Len(leader) /\ Len(leader) \in Nat
         /\ \A p \in Spawned : leader[p] \in {"alive", "zombie", "gone"}
         /\ DOMAIN queue = 1..Len(queue) /\ Len(queue) \in Nat
         /\ \A i \in DOMAIN queue : queue[i] \in Ticket
  BY DEF Known, Spawned

\* The lock is released, or kept; the tickets behind it are the same.
LEMMA TailQueue ==
  ASSUME Known, DeadReaped, queue # << >>
  PROVE  /\ Tail(queue) \in Seq(Ticket)
         /\ \A i \in DOMAIN Tail(queue) :
              Tail(queue)[i].op = "reap" =>
                Tail(queue)[i].pid \in Spawned /\ ~Alive(Tail(queue)[i].pid)
<1>1. Tail(queue) \in Seq(Ticket) /\ Len(Tail(queue)) = Len(queue) - 1
      /\ \A i \in 1..Len(Tail(queue)) : Tail(queue)[i] = queue[i + 1]
  BY DEF Known
<1>2. DOMAIN Tail(queue) = 1..Len(Tail(queue)) /\ Len(queue) \in Nat
  BY <1>1, Queues
<1>3. \A i \in DOMAIN Tail(queue) : i + 1 \in DOMAIN queue
  BY <1>1, <1>2, Queues
<1> QED
  BY <1>1, <1>2, <1>3 DEF DeadReaped

LEMMA AppendQueue ==
  ASSUME Known, DeadReaped, NEW t \in Ticket,
         t.op = "reap" => t.pid \in Spawned /\ ~Alive(t.pid)
  PROVE  /\ Append(queue, t) \in Seq(Ticket)
         /\ \A i \in DOMAIN Append(queue, t) :
              Append(queue, t)[i].op = "reap" =>
                Append(queue, t)[i].pid \in Spawned /\ ~Alive(Append(queue, t)[i].pid)
<1>1. Append(queue, t) \in Seq(Ticket) /\ DOMAIN Append(queue, t) = 1..(Len(queue) + 1)
  BY DEF Known
<1>2. \A i \in 1..(Len(queue) + 1) :
        Append(queue, t)[i] = IF i <= Len(queue) THEN queue[i] ELSE t
  BY DEF Known
<1> QED
  BY <1>1, <1>2, Queues DEF DeadReaped

\* A step of the holder of the lock that spawns nothing, and writes nothing
\* over a live training.
Minds ==
  /\ leader' = leader
  /\ \/ queue' = queue
     \/ queue # << >> /\ queue' = Tail(queue)
  /\ strays' = strays
  /\ pidFile' \in {pidFile, None} /\ (Alive(pidFile) => pidFile' = pidFile)
  /\ target' \in 0..Len(leader)
  /\ \/ pc \notin {"spawned", "undo"} /\ pc' \notin {"spawned", "undo"}
     \/ pc \in {"spawned", "undo"} /\ pc' = "undo" /\ target' = target
     \/ pc \in {"spawned", "undo"} /\ ~Alive(target) /\ pc' \notin {"spawned", "undo"}

LEMMA MindsInv == ASSUME Inv, Minds PROVE Inv'
<1>1. Known'
  <2>1. queue' \in Seq(Ticket)
    BY TailQueue DEF Inv, Known, Minds
  <2>2. None \in 0..Len(leader)
    BY Queues DEF Inv, None
  <2> QED
    BY <2>1, <2>2 DEF Inv, Known, Minds
<1>2. Unwritten'
  BY DEF Inv, Known, Minds, Unwritten, Alive, Spawned, None
<1>3. DeadReaped'
  BY TailQueue DEF Inv, Minds, DeadReaped, Alive, Spawned
<1>4. TrainingNamed'
  BY DEF Inv, Minds, TrainingNamed, Unwritten, Alive, Spawned
<1> QED
  BY <1>1, <1>2, <1>3, <1>4 DEF Inv

LEMMA RemovalMinds ==
  ASSUME Known, NEW p \in Nat, Removal(p), ~Alive(p)
  PROVE  pidFile' \in {pidFile, None} /\ (Alive(pidFile) => pidFile' = pidFile)
  BY DEF Known, Removal, RemoveIfMatches, Alive

LEMMA HolderMinds ==
  ASSUME Inv,
         \/ Refuse \/ SpawnFails \/ Undone \/ StopInspects \/ Terminate \/ Stopped
         \/ Escalate \/ NotExited \/ StartInit \/ InitDone \/ Reap
  PROVE  Minds
<1> USE DEF processes, history, Holds, Release, MoveTo, Found
<1>0. Known /\ None \in 0..Len(leader)
  BY Queues DEF Inv, None
<1>1. CASE Refuse \/ SpawnFails \/ NotExited \/ InitDone
  BY <1>0, <1>1 DEF Refuse, SpawnFails, NotExited, InitDone, Minds
<1>6. CASE StartInit
  BY <1>0, <1>6 DEF StartInit, Minds
<1>7. CASE Terminate \/ Escalate
  BY <1>0, <1>7 DEF Known, Terminate, Escalate, Minds
<1>2. CASE Undone
  BY <1>0, <1>2 DEF Undone, LeaderGone, Alive, Minds
<1>3. CASE StopInspects
  <2>1. pidFile \in 0..Len(leader)
    BY <1>0 DEF Known
  <2>2. CASE Found /\ MoveTo("signal", pidFile) /\ UNCHANGED pidFile
    BY <1>0, <1>3, <2>1, <2>2 DEF StopInspects, Minds
  <2>3. CASE ~Found /\ Release /\ pidFile' \in {pidFile, None}
    BY <1>0, <1>3, <2>3 DEF StopInspects, Minds
  <2> QED
    BY <1>3, <2>2, <2>3 DEF StopInspects
<1>4. CASE Stopped
  <2>1. leader[target] = "gone" /\ target \in Nat
    BY <1>0, <1>4 DEF Known, Stopped, LeaderGone, GroupGone
  <2>2. pidFile' \in {pidFile, None} /\ (Alive(pidFile) => pidFile' = pidFile)
    BY <1>0, <1>4, <2>1, RemovalMinds DEF Stopped, Alive
  <2> QED
    BY <1>0, <1>4, <2>2 DEF Stopped, Minds
<1>5. CASE Reap
  <2>1. 1 \in DOMAIN queue /\ Head(queue) = queue[1] /\ Head(queue) \in Ticket
    BY <1>0, <1>5, Queues DEF Reap, Known
  <2>2. ~Alive(Head(queue).pid) /\ Head(queue).pid \in Nat
    BY <1>5, <2>1 DEF Inv, DeadReaped, Reap, Ticket
  <2>3. pidFile' \in {pidFile, None} /\ (Alive(pidFile) => pidFile' = pidFile)
    BY <1>0, <1>5, <2>2, RemovalMinds DEF Reap
  <2> QED
    BY <1>0, <1>5, <2>3 DEF Reap, Minds
<1> QED
  BY <1>1, <1>2, <1>3, <1>4, <1>5, <1>6, <1>7

LEMMA SpawnInv == ASSUME Inv, Spawn PROVE Inv'
<1> USE DEF Spawn, Holds, MoveTo, Found, history
<1>1. leader' = Append(leader, "alive") /\ Len(leader) \in Nat
  BY Queues DEF Inv
<1>2. /\ leader' \in Seq({"alive", "zombie", "gone"}) /\ Len(leader') = Len(leader) + 1
      /\ \A p \in 1..Len(leader) : leader'[p] = leader[p]
  BY <1>1 DEF Inv, Known
<1>3. Spawned = 1..Len(leader) /\ Spawned' = 1..(Len(leader) + 1)
  BY <1>1, <1>2 DEF Spawned
<1>4. \A p \in Spawned : Alive(p)' <=> Alive(p)
  BY <1>1, <1>2, <1>3 DEF Alive
<1>5. Known'
  BY <1>1, <1>2 DEF Inv, Known
<1>6. pidFile' = pidFile /\ ~Alive(pidFile)'
  BY <1>1, <1>3, <1>4 DEF Inv, Known, Alive
<1>7. Unwritten'
  BY <1>6 DEF Unwritten
<1>8. DeadReaped'
  BY <1>3, <1>4 DEF Inv, DeadReaped
<1>9. TrainingNamed'
  BY <1>1, <1>3, <1>4 DEF Inv, TrainingNamed
<1> QED
  BY <1>5, <1>7, <1>8, <1>9 DEF Inv

LEMMA PublishInv == ASSUME Inv, Publish PROVE Inv'
<1> USE DEF Publish, Holds, MoveTo, Release
<1>1. CASE pidFile' = target /\ Release
  <2>1. Known'
    BY <1>1, TailQueue, Queues DEF Inv, Known, None
  <2>2. Unwritten' /\ TrainingNamed'
    BY <1>1 DEF Inv, Unwritten, TrainingNamed, Alive, Spawned
  <2>3. DeadReaped'
    BY <1>1, TailQueue DEF Inv, DeadReaped, Alive, Spawned
  <2> QED
    BY <2>1, <2>2, <2>3 DEF Inv
<1>2. CASE MoveTo("undo", target) /\ UNCHANGED pidFile
  <2>1. UNCHANGED <<leader, queue, strays, pidFile, target>> /\ pc' = "undo"
    BY <1>2
  <2>2. target' \in 0..Len(leader) /\ pc = "spawned"
    BY <2>1 DEF Inv, Known
  <2> QED
    BY <2>1, <2>2, MindsInv DEF Minds
<1> QED
  BY <1>1, <1>2 DEF Written

\* A training dies, or loses what the server knew of it.
LEMMA EndsInv ==
  ASSUME Inv, NEW p \in Spawned,
         Collect(p) \/ Reaper(p) \/ WorkersExit(p) \/ LeaderExits(p)
  PROVE  Inv'
<1> USE DEF server, processes, history
<1>0. Known /\ p \in Nat
  BY Queues DEF Inv
<1>1. CASE Reaper(p)
  <2>1. [op |-> "reap", pid |-> p] \in Ticket /\ ~Alive(p)
    BY <1>0, <1>1 DEF Reaper, Ticket, Alive
  <2> QED
    BY <1>0, <1>1, <2>1, AppendQueue
    DEF Reaper, Inv, Known, Unwritten, DeadReaped, TrainingNamed, Alive, Spawned
<1>2. CASE WorkersExit(p)
  BY <1>2 DEF WorkersExit, Inv, Known, Unwritten, DeadReaped, TrainingNamed, Alive, Spawned
<1>3. CASE Collect(p) \/ LeaderExits(p)
  <2>1. PICK x \in {"zombie", "gone"} : leader' = [leader EXCEPT ![p] = x]
    BY <1>3 DEF Collect, LeaderExits
  <2>2. /\ leader' \in Seq({"alive", "zombie", "gone"}) /\ Len(leader') = Len(leader)
        /\ Spawned' = Spawned
    BY <1>0, <2>1 DEF Known, Spawned
  <2>3. /\ \A q \in Spawned : Alive(q)' <=> Alive(q) /\ q # p
        /\ \A q : Alive(q) => q \in Spawned
        /\ \A q : Alive(q)' => q \in Spawned
    BY <1>0, <2>1, <2>2 DEF Known, Spawned, Alive
  <2>4. UNCHANGED <<queue, pc, target, pidFile>> /\ strays \ {p} \subseteq strays'
    BY <1>3 DEF Collect, LeaderExits
  <2>5. Known'
    BY <1>0, <2>2, <2>4 DEF Known
  <2>6. Unwritten' /\ DeadReaped' /\ TrainingNamed'
    BY <2>2, <2>3, <2>4 DEF Inv, Unwritten, DeadReaped, TrainingNamed
  <2> QED
    BY <2>5, <2>6 DEF Inv
<1> QED
  BY <1>1, <1>2, <1>3

\* The server's memory goes, and with it the training it was about to write
\* down, which is a stray from then on.
LEMMA DeathInv == ASSUME Inv, ServerDies PROVE Inv'
<1> USE DEF ServerDies
<1>0. Known /\ Spawned = 1..Len(leader) /\ Len(leader) \in Nat
  BY Queues DEF Inv
<1>1. leader' = [p \in 1..Len(leader) |-> IF leader[p] = "zombie" THEN "gone" ELSE leader[p]]
  BY <1>0
<1>2. /\ leader' \in Seq({"alive", "zombie", "gone"}) /\ Len(leader') = Len(leader)
      /\ Spawned' = Spawned
  BY <1>0, <1>1 DEF Known, Spawned
<1>3. \A q : Alive(q)' <=> Alive(q)
  BY <1>0, <1>1, <1>2 DEF Alive
<1>4. Known' /\ Unwritten' /\ DeadReaped'
  BY <1>0, <1>2 DEF Known, Unwritten, DeadReaped, None
<1>5. TrainingNamed'
  BY <1>2, <1>3 DEF Inv, TrainingNamed
<1> QED
  BY <1>4, <1>5 DEF Inv

LEMMA InitNamed == ASSUME ControlInit PROVE Inv
  BY DEF ControlInit, Inv, Known, Unwritten, DeadReaped, TrainingNamed, Alive, Spawned,
         None, Ticket

LEMMA NextNamed == ASSUME Inv, [ControlNext]_controlVars PROVE Inv'
<1>1. ASSUME NEW op \in {"resume", "stop", "init"}, Call(op) PROVE Inv'
  <2>1. [op |-> op, pid |-> None] \in Ticket /\ op # "reap"
    BY DEF Ticket, None
  <2> QED
    BY <1>1, <2>1, AppendQueue
    DEF Call, processes, Inv, Known, Unwritten, DeadReaped, TrainingNamed, Alive, Spawned
<1>2. ASSUME NEW replace \in BOOLEAN, Initialized(replace) PROVE Inv'
  BY <1>2, Queues DEF Initialized, server, processes, Inv, Known, Unwritten, DeadReaped,
     TrainingNamed, Alive, Spawned, None
<1>3. CASE ServerStarts \/ UNCHANGED controlVars
  BY <1>3 DEF ServerStarts, controlVars, server, processes, history, Inv, Known, Unwritten,
     DeadReaped, TrainingNamed, Alive, Spawned
<1>4. CASE Holder
  BY <1>4, HolderMinds, MindsInv, SpawnInv, PublishInv DEF Holder
<1> QED
  BY <1>1, <1>2, <1>3, <1>4, EndsInv, DeathInv DEF ControlNext, System

\* Whatever order requests, reapers and ends of processes come in, and wherever
\* the server dies, the PID file names the live training of the run directory
\* (process_control.py: start, stop, _reap), short of the two ways to lose it
\* that "strays" records.
THEOREM NamedAlways == ControlSpec => []TrainingNamed
<1>1. Inv => TrainingNamed
  BY DEF Inv
<1> QED
  BY InitNamed, NextNamed, <1>1, PTL DEF ControlSpec
=============================================================================
